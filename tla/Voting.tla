------------------------------- MODULE Voting -------------------------------
(***************************************************************************)
(* Votes on the works of an exhibition, and the draw of prizes among those *)
(* who voted.  A page and a form of the operator keep what they showed     *)
(* while others vote, edit and draw.  Candidates show posters of works,    *)
(* which the votes keep when the works are deleted.                        *)
(*                                                                         *)
(* Abstractions:                                                           *)
(*  - One draw event, to which several votes may be linked.  The candidates*)
(*    of a vote are one text, numbered; which of them a ballot selects is  *)
(*    left out.                                                            *)
(*  - All transactions hold one advisory lock: each is one step.           *)
(*  - Schedules and states of a vote are its effective state: "over" is    *)
(*    closed for 30 minutes.  An update may leave it in any of them.       *)
(*  - Every item of the event has a number in stock; those without one,    *)
(*    weights, the mode of drawing and receipts of prizes are left out.    *)
(*  - One poster, of a work whose asset may be deleted; posters uploaded   *)
(*    for a vote are left out.                                             *)
(***************************************************************************)
EXTENDS ObjectDeletion, FiniteSets

CONSTANTS Vote, Voter, Item,
          NoItem, NoVote,
          PosterKey,              \* the object of the poster
          AssetTable,             \* the table that refers to it for its work
          PosterTable,            \* the table that refers to it for the votes
          MaxVoteEdits, MaxSaves, \* bounds: edits of a vote, versions of the event
          MaxStock, MaxLost       \* bounds: items in stock, failures of the reaper

ASSUME VotingNames ==
    /\ NoItem \notin Item /\ NoVote \notin Vote
    /\ PosterKey \in Key /\ IsFiniteSet(Voter)
    /\ {AssetTable, PosterTable} \subseteq Table /\ AssetTable # PosterTable
    /\ {MaxVoteEdits, MaxSaves, MaxStock, MaxLost} \subseteq Nat /\ MaxSaves # 0

VARIABLES
    vote,      \* the votes: state, link to the event, version, candidates
    page,      \* what the page of each voter shows
    ballot,    \* the candidates in the ballot of each voter, 0 for none
    event,     \* the draw event
    stock,     \* what is left of each item
    drawn,     \* the item each voter drew
    form,      \* what the operator's form of the event shows
    work,      \* the asset of the poster
    pinned,    \* whether vote_posters refers to it
    lost,      \* failures of the reaper
    saw,       \* the candidates each voter saw when voting (history)
    supplied   \* what operators put in stock of each item (history)

votingRows == <<vote, page, ballot, event, stock, drawn, form, work,
                pinned, saw, supplied>>
votingVars == <<votingRows, lost>>

NoPage == [of |-> NoVote, version |-> 0, text |-> 0]
NoForm == [version |-> 0, stock |-> [i \in Item |-> 0]]

VotingInit ==
    /\ vote = [v \in Vote |-> [phase |-> "preparing", linked |-> FALSE,
                               version |-> 0, text |-> 0]]
    /\ page = [p \in Voter |-> NoPage]
    /\ ballot = [v \in Vote |-> [p \in Voter |-> 0]]
    /\ saw = ballot
    /\ event = [version |-> 1, paused |-> FALSE]
    /\ stock = NoForm.stock /\ supplied = stock
    /\ drawn = [p \in Voter |-> NoItem]
    /\ form = NoForm
    /\ work = "processing" /\ pinned = FALSE /\ lost = 0

-----------------------------------------------------------------------------
(* Voters.                                                                 *)

\* With a ballot in, the page shows that ballot.
View(p, v) ==
    /\ ballot[v][p] = 0
    /\ page' = [page EXCEPT ![p] = [of |-> v, version |-> vote[v].version,
                                    text |-> vote[v].text]]
    /\ UNCHANGED <<vote, ballot, event, stock, drawn, form, work, pinned,
                   saw, supplied>>

\* A second ballot returns the first.
Submit(p) ==
    LET v == page[p].of IN
    /\ v # NoVote /\ ballot[v][p] = 0
    /\ vote[v].phase = "open" /\ vote[v].version = page[p].version
    /\ vote[v].text # 0
    /\ ballot' = [ballot EXCEPT ![v][p] = vote[v].text]
    /\ saw' = [saw EXCEPT ![v][p] = page[p].text]
    /\ page' = [page EXCEPT ![p] = NoPage]
    /\ UNCHANGED <<vote, event, stock, drawn, form, work, pinned,
                   supplied>>

\* eligibility with canDraw: any vote of the event will do.
Eligible(p) ==
    /\ ~event.paused
    /\ \E v \in Vote : /\ vote[v].linked /\ ballot[v][p] # 0
                       /\ vote[v].phase \in {"open", "closed"}

TakePrize(p, i) ==
    /\ drawn[p] = NoItem /\ Eligible(p) /\ stock[i] > 0
    /\ stock' = [stock EXCEPT ![i] = @ - 1]
    /\ drawn' = [drawn EXCEPT ![p] = i]
    /\ UNCHANGED <<vote, page, ballot, form, work, pinned, saw, supplied>>

\* Planted bug: a draw is no new version of the event.
DrawQuietly(p, i) ==
    TakePrize(p, i) /\ UNCHANGED event

\* A second draw returns the first.
Draw(p, i) ==
    /\ TakePrize(p, i)
    /\ event.version < MaxSaves /\ event' = [event EXCEPT !.version = @ + 1]

-----------------------------------------------------------------------------
(* Operators.  A form that shows another version is refused.               *)

\* update: ballots keep the link of their vote.
UpdateVote(v) ==
    /\ vote[v].version < MaxVoteEdits
    /\ \E phase \in {"preparing", "open", "paused", "closed", "over"},
          linked \in BOOLEAN :
          /\ (\E p \in Voter : ballot[v][p] # 0) => linked = vote[v].linked
          /\ vote' = [vote EXCEPT ![v].phase = phase, ![v].linked = linked,
                                  ![v].version = @ + 1]
    /\ UNCHANGED <<page, ballot, event, stock, drawn, form, work, pinned,
                   saw, supplied>>

\* candidate: another text, with the poster of the work or a retained one.
SaveCandidate(v) ==
    /\ vote[v].version < MaxVoteEdits
    /\ pinned \/ (work = "ready" /\ NoDeletionClaim(PosterKey))
    /\ pinned' = TRUE
    /\ vote' = [vote EXCEPT ![v].text = @ + 1, ![v].version = @ + 1]
    /\ UNCHANGED <<page, ballot, event, stock, drawn, form, work, saw,
                   supplied>>

OpenForm ==
    /\ form' = [version |-> event.version, stock |-> stock]
    /\ UNCHANGED <<vote, page, ballot, event, stock, drawn, work, pinned,
                   saw, supplied>>

\* saveEvent: the form says how many there are now of every item.
SaveEvent ==
    /\ form.version = event.version /\ event.version < MaxSaves
    /\ \E left \in [Item -> 0 .. MaxStock], paused \in BOOLEAN :
          /\ event' = [version |-> event.version + 1, paused |-> paused]
          /\ stock' = left
          /\ supplied' = [i \in Item |-> supplied[i] + left[i] - form.stock[i]]
    /\ form' = NoForm
    /\ UNCHANGED <<vote, page, ballot, drawn, work, pinned, saw>>

\* effectiveVote: a scheduled start, a scheduled end, and the 30 minutes.
ScheduleMoves(v) ==
    /\ \/ vote[v].phase = "preparing" /\ vote' = [vote EXCEPT ![v].phase = "open"]
       \/ /\ vote[v].phase \in {"preparing", "open", "paused"}
          /\ vote' = [vote EXCEPT ![v].phase = "closed"]
       \/ vote[v].phase = "closed" /\ vote' = [vote EXCEPT ![v].phase = "over"]
    /\ UNCHANGED <<page, ballot, event, stock, drawn, form, work, pinned,
                   saw, supplied>>

-----------------------------------------------------------------------------
(* The work of the poster is ready and deleted, and the reaper follows.     *)

PosterReady ==
    /\ work = "processing" /\ work' = "ready"
    /\ stored' = stored \cup {PosterKey}
    /\ UNCHANGED <<vote, page, ballot, event, stock, drawn, form, pinned,
                   saw, supplied, outbox, reaper, lateDelete>>

\* claimAssetForDeletion, then completeAssetDeletion.
DeleteWork ==
    /\ \/ work = "ready" /\ work' = "deleting" /\ UNCHANGED outbox
       \/ /\ work = "deleting" /\ work' = "deleted"
          /\ QueueDurableDeletions({PosterKey})
    /\ UNCHANGED <<vote, page, ballot, event, stock, drawn, form, pinned,
                   saw, supplied, reaper, stored, lateDelete>>

\* The reaper keeps what any of its tables refers to.
ReferredByVotes(t) ==
    IF \/ t = AssetTable /\ work \in {"ready", "deleting"}
       \/ t = PosterTable /\ pinned
    THEN {PosterKey} ELSE {}

-----------------------------------------------------------------------------
VotingStep ==
    \/ \E p \in Voter, v \in Vote : View(p, v)
    \/ \E p \in Voter : Submit(p)
    \/ \E p \in Voter, i \in Item : Draw(p, i)
    \/ \E v \in Vote : UpdateVote(v) \/ SaveCandidate(v) \/ ScheduleMoves(v)
    \/ OpenForm \/ SaveEvent

VotingNext ==
    \/ VotingStep /\ UNCHANGED <<deletionVars, lost>>
    \/ (PosterReady \/ DeleteWork) /\ UNCHANGED lost
    \/ DeletionStep(ReferredByVotes) /\ UNCHANGED votingVars
    \/ /\ lost < MaxLost /\ lost' = lost + 1
       /\ DeletionFault /\ UNCHANGED votingRows

\* The poster is not in storage before its asset is ready.
VotingSpec ==
    /\ ReaperInit /\ VotingInit /\ stored \in SUBSET (Key \ {PosterKey})
    /\ [][VotingNext]_<<deletionVars, votingVars>>

-----------------------------------------------------------------------------
(* Properties.                                                             *)

\* Every variable has its type.
VotingTypeOK ==
    /\ vote \in [Vote -> [phase : {"preparing", "open", "paused", "closed", "over"},
                          linked : BOOLEAN, version : 0 .. MaxVoteEdits,
                          text : 0 .. MaxVoteEdits]]
    /\ \A p \in Voter : page[p].of \in Vote \cup {NoVote}
    /\ ballot \in [Vote -> [Voter -> 0 .. MaxVoteEdits]]
    /\ event \in [version : 1 .. MaxSaves, paused : BOOLEAN]
    /\ stock \in [Item -> 0 .. MaxStock]
    /\ drawn \in [Voter -> Item \cup {NoItem}]
    /\ work \in {"processing", "ready", "deleting", "deleted"} /\ pinned \in BOOLEAN
    /\ lost \in 0 .. MaxLost

\* A ballot holds the candidates its voter saw, whatever operators edited
\* between the view and the vote.
BallotsAsShown == \A v \in Vote, p \in Voter : ballot[v][p] = saw[v][p]

\* Who drew has voted, in a vote that is linked to the event still.
DrawsEarned ==
    \A p \in Voter : drawn[p] # NoItem =>
        \E v \in Vote : vote[v].linked /\ ballot[v][p] # 0

\* What operators put in stock is there or was drawn: no draw is undone by an
\* operator who saves a form from before it.
PrizesAccounted ==
    \A i \in Item : supplied[i] = stock[i] + Cardinality({p \in Voter : drawn[p] = i})

\* Every poster a candidate ever had stays in storage, deleted work or not.
PostersKept == pinned => PosterKey \in stored

\* What a voter was shown, chose and won holds whoever votes, edits, draws or
\* deletes the work meanwhile.
VotesHonoured ==
    /\ BallotsAsShown /\ DrawsEarned
    /\ PrizesAccounted
    /\ PostersKept
=============================================================================
