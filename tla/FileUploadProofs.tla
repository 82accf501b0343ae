--------------------------- MODULE FileUploadProofs --------------------------
(***************************************************************************)
(* The browser never forgets an upload that may still be published, and    *)
(* never calls one cancelled that may, for any number of uploads.          *)
(*                                                                         *)
(* The invariant says what the task may hold of itself (TaskFits), how far *)
(* the pass of the queue can then be (RowFits), and of which of the        *)
(* answers still to come the task wants to hear (TransferFits and          *)
(* AnswersFit).  That a refusal proves there to be no session needs the    *)
(* number of creations in the network: a transfer nobody doubts has one.   *)
(* Told says of each step that the row hears of a cancellation from a task *)
(* that holds nothing any more.                                            *)
(***************************************************************************)
EXTENDS FileUpload, TLAPS

Identity == Upload \cup {NoFile}

\* What a task, a row, a transfer, a lookup and a cancellation may hold.
Task == [creation : Identity, saved : Identity, cancelAsked : BOOLEAN, marked : BOOLEAN,
         pending : BOOLEAN, uncertain : BOOLEAN, blocked : BOOLEAN, settled : BOOLEAN,
         control : {"open", "cancelling", "cancel-unconfirmed", "completion"},
         closed : SUBSET Upload, kept : {"none", "cancelled", "finished"},
         active : {"none", "run", "follower"},
         fresh : SUBSET {"transfer", "lookup", "closing"}]
RowState == [phase : {"waiting", "busy", "completing", "ready", "failed", "cancelled",
                      "cancelling", "cancel-unconfirmed"},
             outcome : {"none", "cancelled", "ready"}, stopped : BOOLEAN,
             queued : BOOLEAN, attached : BOOLEAN, watched : BOOLEAN, file : BOOLEAN]
Row == {s \in RowState : s.watched => s.attached}
Transfer == [at : {"idle", "hashing", "creating", "sending", "completing"},
             upload : Identity, doubtful : BOOLEAN]
Lookup  == [at : {"idle", "asking", "creating"}, upload : Identity]
Closing == [at : {"idle", "deleting", "observing"}, upload : Identity]

\* A creation is under way for uploads without a session only.
NetworkFits ==
    /\ remote \in [Upload -> Underway \cup Over \cup {"none", "READY"}]
    /\ creating \in [Upload -> 0 .. 2]
    /\ ordered \in [cancel : SUBSET Upload, complete : SUBSET Upload]
    /\ \A u \in Upload : creating[u] > 0 => remote[u] = "none"

\* What a task holds of itself: at most one upload, which it has not closed,
\* and nothing runs while it cancels.
TaskHolds(t) ==
    /\ t \in Task
    /\ t.creation = NoFile \/ t.saved = NoFile \/ t.creation = t.saved
    /\ t.creation \notin t.closed /\ t.saved \notin t.closed
    /\ Cancelling(t) => t.active = "none" /\ t.kept # "finished"
    /\ t.active # "none" => "lookup" \notin t.fresh
    /\ t.active = "follower" \/ t.kept = "finished" => t.saved # NoFile
    /\ t.kept = "cancelled" => t.creation = NoFile /\ t.saved = NoFile

\* A creation without an answer is doubted, unless one is being waited for.
TaskFits(t) ==
    /\ TaskHolds(t)
    /\ t.creation # NoFile /\ t.saved = NoFile /\ ~t.pending => t.uncertain \/ t.blocked

\* The row has a run only while it watches the task, and is then told at once.
RowRuns(t, s, r) ==
    /\ s \in Row /\ r \in {"idle", "looking", "checking", "sending", "waiting"}
    /\ r \in {"checking", "sending", "waiting"} <=> t.active = "run"
    /\ r # "idle" \/ t.active # "none" => s.watched
    /\ r \in {"checking", "waiting"} => t.saved # NoFile /\ ~t.pending

RowFits(t, s, r) == RowRuns(t, s, r) /\ (s.watched => t.kept = "none")

\* A transfer whose answer is wanted is for the creation of the task, and one
\* that nobody doubts has no other request under way.
TransferFits(sent, t, r, x) ==
    /\ x \in Transfer
    /\ x.at \in {"creating", "sending", "completing"} => x.upload \in Upload
    /\ x.at \in {"hashing", "creating"} /\ "transfer" \in t.fresh => t.pending
    /\ x.at = "creating" /\ "transfer" \in t.fresh =>
          /\ x.upload = t.creation
          /\ ~x.doubtful => sent[x.upload] <= 1
    /\ r = "sending" /\ x.at = "hashing" =>
          t.saved = NoFile /\ t.pending /\ (~x.doubtful => t.creation = NoFile)
    /\ r = "sending" /\ x.at \in {"sending", "completing"} =>
          t.saved # NoFile /\ ~t.pending

AnswersFit(t, l, c) ==
    /\ l \in Lookup /\ c \in Closing
    /\ l.at # "idle" => l.upload \in Upload
    /\ c.at # "idle" => c.upload \in Upload
    /\ c.at # "idle" /\ "closing" \in t.fresh => Cancelling(t)

Remembers(t) == \A u \in Upload : MayLive(u) => u \in {t.creation, t.saved}

FileInv ==
    /\ NetworkFits /\ TaskFits(held) /\ RowFits(held, shown, run)
    /\ TransferFits(creating, held, run, transfer) /\ AnswersFit(held, lookup, closing)
    /\ Remembers(held)

-----------------------------------------------------------------------------
(* What the steps of a task do to it.                                      *)

\* The fields of a task that the invariant does not speak of are left out.
Like(n, t) ==
    /\ n.creation = t.creation /\ n.saved = t.saved /\ n.pending = t.pending
    /\ n.uncertain = t.uncertain /\ n.blocked = t.blocked /\ n.control = t.control
    /\ n.closed = t.closed

LEMMA ClearedFields ==
    ASSUME NEW t \in Task
    PROVE  /\ ClearCreation(t) \in Task /\ ClearCreation(t).creation = NoFile
           /\ ClearCreation(t).saved = t.saved /\ ClearCreation(t).pending = t.pending
           /\ ClearCreation(t).control = t.control /\ ClearCreation(t).closed = t.closed
           /\ ClearCreation(t).kept = t.kept /\ ClearCreation(t).active = t.active
           /\ ClearCreation(t).fresh = t.fresh /\ ClearCreation(t).uncertain = t.uncertain
           /\ ClearCreation(t).blocked = t.blocked
BY DEF ClearCreation, Task, Identity

\* The session of the creation, or the one known already, is remembered.
LEMMA RememberedFields ==
    ASSUME NEW t, TaskHolds(t), NEW u \in Upload, u \in {t.creation, t.saved},
           NEW n, n = Remember(t, u)
    PROVE  /\ TaskFits(n) /\ n.saved = u /\ n.creation = t.creation
           /\ n.pending = t.pending /\ n.control = t.control /\ n.closed = t.closed
           /\ n.kept = t.kept /\ n.active = t.active /\ n.fresh = t.fresh
<1>1. t \in Task /\ u \notin t.closed
  BY DEF TaskHolds
<1>2. n = [t EXCEPT !.saved = u, !.settled = FALSE, !.uncertain = FALSE,
                    !.blocked = FALSE, !.marked = t.marked \/ Cancelling(t)]
  BY <1>1 DEF Remember
<1>3. (t.marked \/ Cancelling(t)) \in BOOLEAN
  BY <1>1 DEF Task, Cancelling
<1>4. /\ n \in Task /\ n.saved = u /\ n.creation = t.creation
      /\ n.pending = t.pending /\ n.control = t.control /\ n.closed = t.closed
      /\ n.kept = t.kept /\ n.active = t.active /\ n.fresh = t.fresh
  BY <1>1, <1>2, <1>3 DEF Task, Identity
<1>5. u # NoFile
  BY FileUploadNames
<1> QED BY <1>1, <1>4, <1>5 DEF TaskFits, TaskHolds, Cancelling

LEMMA ClosedFields ==
    ASSUME NEW t \in Task, NEW n, n = CloseSaved(t, t.saved), t.saved \in Upload
    PROVE  /\ n \in Task /\ n.saved = NoFile /\ n.creation = NoFile /\ n.fresh = {}
           /\ n.pending = t.pending /\ n.control = t.control
           /\ n.closed = t.closed \cup {t.saved} /\ n.kept = t.kept /\ n.active = t.active
<1> DEFINE e == ClearCreation(t)
<1>1. /\ e \in Task /\ e.pending = t.pending /\ e.control = t.control
      /\ e.closed = t.closed /\ e.kept = t.kept /\ e.active = t.active
      /\ e.creation = NoFile
  BY ClearedFields
<1> DEFINE k == t.closed \cup {t.saved}
<1>2. n = [e EXCEPT !.saved = NoFile, !.marked = FALSE, !.closed = k,
                    !.uncertain = FALSE, !.blocked = FALSE, !.fresh = {}]
  BY <1>1 DEF CloseSaved
<1>3. k \in SUBSET Upload /\ k = t.closed \cup {t.saved}
  BY DEF Task
<1> HIDE DEF e, k
<1>4. /\ n \in Task /\ n.saved = NoFile /\ n.creation = NoFile /\ n.fresh = {}
      /\ n.pending = e.pending /\ n.control = e.control /\ n.closed = k
      /\ n.kept = e.kept /\ n.active = e.active
  BY <1>1, <1>2, <1>3, ZenonT(40) DEF Task, Identity
<1> QED BY <1>1, <1>3, <1>4

LEMMA SettledFields ==
    ASSUME NEW t \in Task, NEW n, n = SettleCancelIntent(t)
    PROVE  /\ n \in Task /\ n.creation = t.creation /\ n.saved = t.saved
           /\ n.pending = t.pending /\ n.uncertain = t.uncertain /\ n.blocked = t.blocked
           /\ n.closed = t.closed /\ n.kept = t.kept /\ n.active = t.active
           /\ n.control = "open" /\ n.fresh = {}
BY DEF SettleCancelIntent, Task

LEMMA BegunFields ==
    ASSUME NEW t \in Task, NEW who \in {"run", "follower"}, NEW n, n = BeginRun(t, who)
    PROVE  n \in Task /\ Like(n, t) /\ n.kept = t.kept /\ n.active = who /\ n.fresh = {}
BY DEF BeginRun, Task, Like

LEMMA PausedFields ==
    ASSUME NEW t, TaskHolds(t), NEW n, n = Pause(t)
    PROVE  /\ n \in Task /\ Like(n, t) /\ n.kept = t.kept /\ n.active = "none"
           /\ n.fresh = t.fresh /\ TaskHolds(n) /\ (TaskFits(t) => TaskFits(n))
<1>1. t \in Task
  BY DEF TaskHolds
<1>2. /\ n \in Task /\ Like(n, t) /\ n.kept = t.kept /\ n.active = "none"
      /\ n.fresh = t.fresh
  BY <1>1 DEF Pause, Task, Like
<1> QED BY <1>1, <1>2 DEF TaskHolds, TaskFits, Like, Cancelling

\* A cancellation that is over, or is not yet.
LEMMA FinishedFields ==
    ASSUME NEW t, TaskFits(t), NEW deleting \in BOOLEAN,
           NEW n, n = FinishCancellation(t, deleting)
    PROVE  /\ TaskFits(n) /\ n.creation = t.creation /\ n.saved = t.saved
           /\ n.pending = t.pending /\ n.active = t.active /\ n.fresh \subseteq t.fresh
           /\ n.control # t.control => n.fresh = {}
           /\ n.kept = "cancelled" => n.creation = NoFile /\ n.saved = NoFile
<1>1. t \in Task
  BY DEF TaskFits, TaskHolds
<1>2. CASE /\ Cancelling(t) /\ ~deleting /\ ~t.pending /\ ~t.uncertain /\ ~t.blocked
           /\ t.creation = NoFile /\ t.saved = NoFile
  <2>1. n = [t EXCEPT !.settled = TRUE, !.control = "open", !.kept = "cancelled",
                      !.fresh = {}]
    BY <1>2 DEF FinishCancellation
  <2>2. /\ n \in Task /\ n.creation = t.creation /\ n.saved = t.saved
        /\ n.pending = t.pending /\ n.active = t.active /\ n.fresh = {}
        /\ n.kept = "cancelled" /\ n.control = "open" /\ n.closed = t.closed
    BY <1>1, <2>1 DEF Task
  <2> QED BY <1>2, <2>2 DEF TaskFits, TaskHolds, Cancelling
<1>3. CASE n = t
  BY <1>1, <1>3 DEF TaskFits, TaskHolds, Task
<1> QED BY <1>2, <1>3 DEF FinishCancellation

\* An upload that has ended, and perhaps the run with it.
LEMMA ClosedHolds ==
    ASSUME NEW t, TaskHolds(t), t.saved \in Upload, t.active # "follower",
           t.kept = "none", NEW n, n = CloseSaved(t, t.saved)
    PROVE  TaskFits(n)
<1>1. t \in Task
  BY DEF TaskHolds
<1>2. NoFile \notin t.closed \cup {t.saved}
  BY <1>1, FileUploadNames DEF Task
<1> QED BY <1>1, <1>2, ClosedFields DEF TaskFits, TaskHolds, Cancelling

LEMMA AcceptedFields ==
    ASSUME NEW t, TaskHolds(t), t.saved \in Upload, t.kept = "none",
           NEW n, n = AcceptReady(t)
    PROVE  /\ TaskFits(n) /\ n.creation = NoFile /\ n.saved = NoFile /\ n.fresh = {}
           /\ n.active = "none" /\ n.kept = "none" /\ n.pending = t.pending
<1> DEFINE e == CloseSaved(t, t.saved)
<1>1. t \in Task
  BY DEF TaskHolds
<1>2. /\ e \in Task /\ e.saved = NoFile /\ e.creation = NoFile /\ e.fresh = {}
      /\ e.pending = t.pending /\ e.kept = t.kept /\ e.closed = t.closed \cup {t.saved}
  BY <1>1, ClosedFields
<1>3. n = [e EXCEPT !.control = "open", !.active = "none"]
  BY DEF AcceptReady
<1>4. NoFile \notin t.closed \cup {t.saved}
  BY <1>1, FileUploadNames DEF Task
<1> HIDE DEF e
<1>5. /\ n \in Task /\ n.saved = NoFile /\ n.creation = NoFile /\ n.fresh = {}
      /\ n.pending = e.pending /\ n.kept = e.kept /\ n.closed = e.closed
      /\ n.active = "none" /\ n.control = "open"
  BY <1>2, <1>3 DEF Task
<1> QED BY <1>2, <1>4, <1>5 DEF TaskFits, TaskHolds, Cancelling

-----------------------------------------------------------------------------
(* What the row is told.                                                   *)

LEMMA WatchedFields ==
    ASSUME NEW t \in Task, NEW s \in Row, NEW w, w = Watching(t, s)
    PROVE  w \in Row /\ w.watched = s.watched /\ w.outcome = s.outcome
<1>1. CASE w = s
  BY <1>1
<1>2. CASE t.control # "open"
           /\ w = [s EXCEPT !.phase = IF t.control = "completion" THEN "completing"
                                      ELSE t.control]
  <2>1. (IF t.control = "completion" THEN "completing" ELSE t.control)
           \in {"completing", "cancelling", "cancel-unconfirmed"}
    BY <1>2 DEF Task
  <2> QED BY <1>2, <2>1 DEF Row, RowState
<1> QED BY <1>1, <1>2 DEF Watching

\* An outcome is told to a row that watches, which may follow the upload.
LEMMA DeliveredFields ==
    ASSUME NEW t, TaskFits(t), NEW s \in Row, NEW deleting \in BOOLEAN,
           NEW d, d = Delivered(t, s, deleting)
    PROVE  /\ TaskFits(d.task) /\ d.row \in Row /\ Like(d.task, t)
           /\ d.row.watched = s.watched
           /\ IF s.watched THEN d.task.kept = "none" ELSE d.task = t
           /\ \/ d.task.active = t.active /\ d.task.fresh = t.fresh
              \/ /\ d.task.active = "follower" /\ d.task.fresh = {} /\ s.watched
                 /\ t.active = "none" /\ ~deleting /\ ~t.pending /\ ~Cancelling(t)
           /\ d.row.outcome = "cancelled" => s.outcome = "cancelled" \/ t.kept = "cancelled"
<1> DEFINE told == [t EXCEPT !.kept = "none"]
<1>1. t \in Task
  BY DEF TaskFits, TaskHolds
<1>2. /\ told \in Task /\ Like(told, t) /\ told.kept = "none" /\ told.active = t.active
      /\ told.fresh = t.fresh
  BY <1>1 DEF Task, Like
<1>3. s.watched \in BOOLEAN /\ t.kept \in {"none", "cancelled", "finished"}
  BY <1>1 DEF Row, RowState, Task
<1> HIDE DEF told
<1>4. TaskFits(told) /\ (t.kept = "finished" => told.saved # NoFile)
  BY <1>1, <1>2 DEF TaskFits, TaskHolds, Like, Cancelling
<1>5. CASE ~s.watched \/ t.kept = "none"
  <2>1. d = [task |-> t, row |-> s]
    BY <1>5 DEF Delivered
  <2> QED BY <1>5, <2>1 DEF Like
<1>6. CASE s.watched /\ t.kept = "cancelled"
  <2> DEFINE w == [s EXCEPT !.phase = "cancelled", !.outcome = "cancelled"]
  <2>1. d.task = told /\ d.row = w
    <3>1. d = [task |-> told, row |-> w]
      BY <1>6 DEF Delivered, told
    <3> QED BY <3>1
  <2>2. w \in Row /\ w.watched = s.watched
    BY DEF Row, RowState
  <2> HIDE DEF w
  <2> QED BY <1>2, <1>4, <1>6, <2>1, <2>2
<1>7. CASE s.watched /\ t.kept = "finished" /\ CanBegin(told, deleting)
  <2> DEFINE w == [s EXCEPT !.phase = "completing", !.stopped = FALSE]
             n == BeginRun(told, "follower")
  <2>1. d.task = n /\ d.row = w
    <3>1. d = [task |-> n, row |-> w]
      BY <1>7 DEF Delivered, told
    <3> QED BY <3>1
  <2>2. w \in Row /\ w.watched = s.watched /\ w.outcome = s.outcome
    BY DEF Row, RowState
  <2>3. /\ n \in Task /\ Like(n, told) /\ n.kept = "none" /\ n.active = "follower"
        /\ n.fresh = {}
    BY <1>2, BegunFields
  <2>4. told.control = "open" /\ told.active = "none" /\ ~told.pending /\ ~deleting
    BY <1>7 DEF CanBegin
  <2> HIDE DEF w, n
  <2>5. TaskFits(n) /\ Like(n, t)
    BY <1>2, <1>4, <1>7, <2>3, <2>4 DEF TaskFits, TaskHolds, Like, Cancelling
  <2> QED BY <1>2, <1>7, <2>1, <2>2, <2>3, <2>4, <2>5 DEF Like, Cancelling
<1>8. CASE s.watched /\ t.kept = "finished" /\ ~CanBegin(told, deleting)
  <2> DEFINE w == [s EXCEPT !.phase = "failed"]
  <2>1. d.task = told /\ d.row = w
    <3>1. d = [task |-> told, row |-> w]
      BY <1>8 DEF Delivered, told
    <3> QED BY <3>1
  <2>2. w \in Row /\ w.watched = s.watched /\ w.outcome = s.outcome
    BY DEF Row, RowState
  <2> HIDE DEF w
  <2> QED BY <1>2, <1>4, <1>8, <2>1, <2>2
<1> QED BY <1>3, <1>5, <1>6, <1>7, <1>8

\* The handlers tell the row what became of the task.
LEMMA Becoming ==
    ASSUME NEW t, TaskFits(t), NEW s, NEW r, RowRuns(t, s, r), NEW deleting \in BOOLEAN,
           Becomes(t, s, deleting), NEW sent, NEW x, TransferFits(sent, t, r, x),
           NEW l, NEW c, AnswersFit(t, l, c)
    PROVE  /\ TaskFits(held') /\ RowFits(held', shown', r)
           /\ TransferFits(sent, held', r, x) /\ AnswersFit(held', l, c)
           /\ held'.creation = t.creation /\ held'.saved = t.saved
           /\ shown'.outcome = "cancelled" => s.outcome = "cancelled" \/ t.kept = "cancelled"
<1> DEFINE w == Watching(t, s)
           d == Delivered(t, w, deleting)
<1>1. s \in Row /\ t \in Task
  BY DEF RowRuns, TaskFits, TaskHolds
<1>2. w \in Row /\ w.watched = s.watched /\ w.outcome = s.outcome
  BY <1>1, WatchedFields
<1>3. held' = d.task /\ shown' = d.row
  BY DEF Becomes
<1> HIDE DEF w
<1>4. /\ TaskFits(d.task) /\ d.row \in Row /\ Like(d.task, t) /\ d.row.watched = w.watched
      /\ IF w.watched THEN d.task.kept = "none" ELSE d.task = t
      /\ \/ d.task.active = t.active /\ d.task.fresh = t.fresh
         \/ /\ d.task.active = "follower" /\ d.task.fresh = {} /\ w.watched
            /\ t.active = "none" /\ ~deleting /\ ~t.pending /\ ~Cancelling(t)
      /\ d.row.outcome = "cancelled" => w.outcome = "cancelled" \/ t.kept = "cancelled"
  BY <1>2, DeliveredFields
<1> HIDE DEF d
<1>5. TaskFits(held') /\ Like(held', t) /\ shown' \in Row /\ shown'.watched = s.watched
  BY <1>2, <1>3, <1>4
<1>6. RowFits(held', shown', r)
  BY <1>2, <1>3, <1>4, <1>5 DEF RowFits, RowRuns, Like
<1>7. TransferFits(sent, held', r, x)
  BY <1>3, <1>4, <1>5 DEF TransferFits, Like
<1>8. AnswersFit(held', l, c)
  BY <1>3, <1>4, <1>5 DEF AnswersFit, Like, Cancelling
<1> QED BY <1>2, <1>3, <1>4, <1>5, <1>6, <1>7, <1>8 DEF Like

LEMMA FailedFields ==
    ASSUME NEW t, NEW s \in Row, NEW f, f = Failed(t, s)
    PROVE  f \in Row /\ f.watched = s.watched /\ f.outcome = s.outcome
<1>1. CASE f = s
  BY <1>1
<1>2. CASE f = [s EXCEPT !.phase = "failed"]
  BY <1>2 DEF Row, RowState
<1>3. CASE f = [s EXCEPT !.phase = "cancel-unconfirmed"]
  BY <1>3 DEF Row, RowState
<1> QED BY <1>1, <1>2, <1>3 DEF Failed

\* A run that ends leaves the transfer to itself.
LEMMA RunOver ==
    ASSUME NEW t, TaskFits(t), NEW s \in Row, s.watched => t.kept = "none", RunEnds(t, s),
           NEW sent, NEW r, NEW x, TransferFits(sent, t, r, x),
           NEW l, NEW c, AnswersFit(t, l, c)
    PROVE  /\ TaskFits(held') /\ RowFits(held', shown', run')
           /\ TransferFits(sent, held', run', x) /\ AnswersFit(held', l, c)
           /\ held'.creation = t.creation /\ held'.saved = t.saved
           /\ shown'.outcome = s.outcome
<1>1. held' = Pause(t) /\ shown' = Failed(t, s) /\ run' = "idle"
  BY DEF RunEnds
<1>2. /\ held' \in Task /\ Like(held', t) /\ held'.kept = t.kept /\ held'.active = "none"
      /\ held'.fresh = t.fresh /\ TaskFits(held')
  BY <1>1, PausedFields DEF TaskFits
<1>3. shown' \in Row /\ shown'.watched = s.watched /\ shown'.outcome = s.outcome
  BY <1>1, FailedFields
<1>4. RowFits(held', shown', run')
  BY <1>1, <1>2, <1>3 DEF RowFits, RowRuns
<1>5. TransferFits(sent, held', run', x)
  BY <1>1, <1>2 DEF TransferFits, Like
<1>6. AnswersFit(held', l, c)
  BY <1>2 DEF AnswersFit, Like, Cancelling
<1> QED BY <1>2, <1>3, <1>4, <1>5, <1>6 DEF Like

\* A run that has nothing saved begins a transfer, or ends.
LEMMA TransferBegins ==
    ASSUME NEW t, TaskFits(t), t.active = "run", t.saved = NoFile, t.kept = "none",
           ~t.pending, ~Cancelling(t), NEW s \in Row, s.watched, NewTransfer(t, s),
           NEW r, TransferFits(creating, t, r, transfer),
           NEW l, NEW c, AnswersFit(t, l, c)
    PROVE  /\ TaskFits(held') /\ RowFits(held', shown', run')
           /\ TransferFits(creating, held', run', transfer') /\ AnswersFit(held', l, c)
           /\ held'.creation = t.creation /\ held'.saved = t.saved
           /\ shown'.outcome = s.outcome
<1>1. CASE s.file
  <2>1. t \in Task /\ t.uncertain \in BOOLEAN /\ t.blocked \in BOOLEAN
    BY DEF TaskFits, TaskHolds, Task
  <2>2. /\ transfer' = [at |-> "hashing", upload |-> NoFile,
                        doubtful |-> t.uncertain \/ t.blocked]
        /\ held' = [t EXCEPT !.pending = TRUE, !.fresh = {"transfer"}]
        /\ shown' = [s EXCEPT !.phase = "busy"] /\ run' = "sending"
    BY <1>1 DEF NewTransfer
  <2>3. /\ held' \in Task /\ held'.creation = t.creation /\ held'.saved = t.saved
        /\ held'.pending /\ held'.fresh = {"transfer"} /\ held'.control = t.control
        /\ held'.closed = t.closed /\ held'.kept = t.kept /\ held'.active = t.active
    BY <2>1, <2>2 DEF Task
  <2>4. shown' \in Row /\ shown'.watched = s.watched /\ shown'.outcome = s.outcome
    BY <2>2 DEF Row, RowState
  <2>5. /\ transfer' \in Transfer /\ transfer'.at = "hashing"
        /\ transfer'.doubtful <=> t.uncertain \/ t.blocked
    BY <2>1, <2>2 DEF Transfer, Identity
  <2>6. TaskFits(held')
    BY <2>3 DEF TaskFits, TaskHolds, Cancelling
  <2>7. RowFits(held', shown', run')
    BY <2>2, <2>3, <2>4 DEF RowFits, RowRuns
  <2>8. TransferFits(creating, held', run', transfer')
    BY <2>2, <2>3, <2>5 DEF TransferFits, TaskFits
  <2>9. AnswersFit(held', l, c)
    BY <2>3 DEF AnswersFit
  <2> QED BY <2>3, <2>4, <2>6, <2>7, <2>8, <2>9
<1>2. CASE ~s.file
  <2>1. RunEnds(t, s) /\ transfer' = transfer
    BY <1>2 DEF NewTransfer
  <2> QED BY <2>1, RunOver
<1> QED BY <1>1, <1>2

\* A run that may begin, if it may.
LEMMA RunningOn ==
    ASSUME NEW t, TaskFits(t), t.active # "run", t.kept = "none",
           NEW s \in Row, s.watched, RunOn(t, s),
           NEW r, TransferFits(creating, t, r, transfer),
           NEW l, NEW c, AnswersFit(t, l, c)
    PROVE  /\ TaskFits(held') /\ RowFits(held', shown', run')
           /\ TransferFits(creating, held', run', transfer') /\ AnswersFit(held', l, c)
           /\ held'.creation = t.creation /\ held'.saved = t.saved
           /\ shown'.outcome = s.outcome
<1>1. CASE ~CanBegin(t, Deleting)
  <2>1. held' = t /\ shown' = Failed(t, s) /\ run' = "idle" /\ transfer' = transfer
    BY <1>1 DEF RunOn
  <2>2. shown' \in Row /\ shown'.watched = s.watched /\ shown'.outcome = s.outcome
    BY <2>1, FailedFields
  <2> QED BY <2>1, <2>2 DEF RowFits, RowRuns, TransferFits
<1> DEFINE n == BeginRun(t, "run")
<1>2. ASSUME CanBegin(t, Deleting)
      PROVE  /\ n \in Task /\ Like(n, t) /\ n.kept = "none" /\ n.active = "run"
             /\ n.fresh = {} /\ TaskFits(n) /\ ~t.pending /\ ~Cancelling(t)
  <2>1. t \in Task
    BY DEF TaskFits, TaskHolds
  <2>2. /\ n \in Task /\ Like(n, t) /\ n.kept = "none" /\ n.active = "run" /\ n.fresh = {}
    BY <2>1, BegunFields
  <2>3. ~t.pending /\ ~Cancelling(t)
    BY <1>2 DEF CanBegin, Cancelling
  <2> HIDE DEF n
  <2>4. TaskFits(n)
    BY <2>2, <2>3 DEF TaskFits, TaskHolds, Like, Cancelling
  <2> QED BY <2>2, <2>3, <2>4
<1>3. CASE CanBegin(t, Deleting) /\ t.saved # NoFile
  <2>1. held' = n /\ shown' = s /\ run' = "checking" /\ transfer' = transfer
    BY <1>3 DEF RunOn
  <2> HIDE DEF n
  <2> QED BY <1>2, <1>3, <2>1 DEF RowFits, RowRuns, TransferFits, AnswersFit, Like
<1>4. CASE CanBegin(t, Deleting) /\ t.saved = NoFile
  <2>1. NewTransfer(n, s)
    BY <1>4 DEF RunOn
  <2> HIDE DEF n
  <2>2. TransferFits(creating, n, "idle", transfer) /\ AnswersFit(n, l, c)
    BY <1>2, <1>4 DEF TransferFits, AnswersFit, Like
  <2>3. n.saved = NoFile /\ ~n.pending /\ ~Cancelling(n) /\ n.creation = t.creation
    BY <1>2, <1>4 DEF Like, Cancelling
  <2> QED BY <1>2, <1>4, <2>1, <2>2, <2>3, TransferBegins
<1> QED BY <1>1, <1>3, <1>4

-----------------------------------------------------------------------------
(* The handlers.                                                           *)

\* A step that leaves the sessions and the creations under way alone.
LEMMA FileStays ==
    ASSUME FileInv, UNCHANGED <<remote, creating>>,
           ordered' \in [cancel : SUBSET Upload, complete : SUBSET Upload],
           TaskFits(held'), RowFits(held', shown', run'),
           TransferFits(creating, held', run', transfer'),
           AnswersFit(held', lookup', closing'), Remembers(held')
    PROVE  FileInv'
BY DEF FileInv, NetworkFits, TransferFits, Remembers, MayLive

\* What keeps its creation and its session remembers what it did.
LEMMA StillRemembered ==
    ASSUME Remembers(held), NEW n, {held.creation, held.saved} \subseteq {n.creation, n.saved}
    PROVE  Remembers(n)
BY DEF Remembers

\* An upload that is over is not missed.
LEMMA OverIsForgotten ==
    ASSUME FileInv, held.saved \in Upload,
           remote[held.saved] \in Over \cup {"READY"}, NEW n
    PROVE  Remembers(n)
<1>1. TaskHolds(held) /\ ~MayLive(held.saved)
  BY DEF FileInv, TaskFits, NetworkFits, MayLive, Underway, Over
<1>2. held.creation \in {NoFile, held.saved}
  BY <1>1, FileUploadNames DEF TaskHolds
<1>3. \A u \in Upload : ~MayLive(u)
  BY <1>1, <1>2, FileUploadNames DEF FileInv, Remembers
<1> QED BY <1>3 DEF Remembers

LEMMA FileInitially == FileInit => FileInv
<1> SUFFICES ASSUME FileInit PROVE FileInv
  OBVIOUS
<1>1. NetworkFits
  BY DEF FileInit, NetworkFits
<1>2. TaskFits(held)
  BY FileUploadNames DEF FileInit, TaskFits, TaskHolds, Task, Identity, Cancelling
<1>3. RowFits(held, shown, run)
  BY DEF FileInit, RowFits, RowRuns, Row, RowState, NewRow
<1>4. TransferFits(creating, held, run, transfer)
  BY DEF FileInit, TransferFits, Transfer, NoTransfer, Identity
<1>5. AnswersFit(held, lookup, closing)
  BY DEF FileInit, AnswersFit, NoAnswer, Lookup, Closing, Identity
<1>6. Remembers(held)
  BY DEF FileInit, Remembers, MayLive, Underway
<1> QED BY <1>1, <1>2, <1>3, <1>4, <1>5, <1>6 DEF FileInv

\* The network, and what the API does without the browser.
LEMMA NetworkKeeps ==
    ASSUME FileInv, NEW u \in Upload,
           \/ CreateArrives(u) \/ CreateLost(u) \/ DeleteArrives(u)
           \/ CompleteArrives(u) \/ SessionMoves(u)
    PROVE  FileInv'
<1>1. /\ NetworkFits /\ TransferFits(creating, held, run, transfer) /\ Remembers(held)
      /\ remote \in [Upload -> Underway \cup Over \cup {"none", "READY"}]
      /\ creating \in [Upload -> 0 .. 2]
  BY DEF FileInv, NetworkFits
<1>2. ASSUME UNCHANGED <<held, shown, run, transfer, lookup, closing>>, NetworkFits',
             \A v \in Upload : creating'[v] <= creating[v],
             \A v \in Upload : MayLive(v)' => MayLive(v)
      PROVE  FileInv'
  <2>1. TransferFits(creating', held, run, transfer)
    <3>1. \A v \in Upload : creating[v] <= 1 => creating'[v] <= 1
      BY <1>1, <1>2 DEF NetworkFits
    <3> QED BY <1>1, <3>1 DEF TransferFits
  <2> QED BY <1>2, <2>1 DEF FileInv, Remembers
<1>3. CASE CreateArrives(u)
  <2>1. /\ creating[u] > 0 /\ remote' = [remote EXCEPT ![u] = "ALLOCATING"]
        /\ creating' = [creating EXCEPT ![u] = 0]
        /\ UNCHANGED <<ordered, held, shown, run, transfer, lookup, closing>>
    BY <1>3 DEF CreateArrives
  <2>2. NetworkFits' /\ \A v \in Upload : creating'[v] <= creating[v]
    BY <1>1, <2>1 DEF NetworkFits, Underway
  <2>3. \A v \in Upload : MayLive(v)' => MayLive(v)
    BY <1>1, <2>1 DEF MayLive
  <2> QED BY <1>2, <2>1, <2>2, <2>3
<1>4. CASE CreateLost(u)
  <2>1. /\ creating[u] > 0 /\ creating' = [creating EXCEPT ![u] = creating[u] - 1]
        /\ UNCHANGED <<remote, ordered, held, shown, run, transfer, lookup, closing>>
    BY <1>4 DEF CreateLost
  <2>2. NetworkFits' /\ \A v \in Upload : creating'[v] <= creating[v]
    BY <1>1, <2>1 DEF NetworkFits
  <2>3. \A v \in Upload : MayLive(v)' => MayLive(v)
    BY <1>1, <2>1 DEF MayLive
  <2> QED BY <1>2, <2>1, <2>2, <2>3
<1>5. ASSUME NEW kind \in {"cancel", "complete"}, NEW from \in SUBSET Underway,
             NEW to \in Underway \cup Over, OrderArrives(kind, u, from, to)
      PROVE  FileInv'
  <2>1. /\ ordered' = [ordered EXCEPT ![kind] = ordered[kind] \ {u}]
        /\ remote' = IF remote[u] \in from THEN [remote EXCEPT ![u] = to] ELSE remote
        /\ UNCHANGED <<creating, held, shown, run, transfer, lookup, closing>>
    BY <1>5 DEF OrderArrives
  <2>2. ordered' \in [cancel : SUBSET Upload, complete : SUBSET Upload]
    BY <1>1, <2>1 DEF NetworkFits
  <2>3. \A v \in Upload : /\ remote'[v] \in Underway \cup Over \cup {"none", "READY"}
                          /\ remote[v] = "none" => remote'[v] = "none"
    BY <1>1, <2>1 DEF Underway
  <2>4. NetworkFits' /\ \A v \in Upload : creating'[v] <= creating[v]
    BY <1>1, <2>1, <2>2, <2>3 DEF NetworkFits
  <2>5. \A v \in Upload : MayLive(v)' => MayLive(v)
    BY <1>1, <2>1 DEF MayLive
  <2> QED BY <1>2, <2>1, <2>4, <2>5
<1>6. CASE DeleteArrives(u) \/ CompleteArrives(u)
  BY <1>5, <1>6 DEF DeleteArrives, CompleteArrives, Underway, Over
<1>7. CASE SessionMoves(u)
  <2>1. /\ remote[u] \in Underway
        /\ \E state \in Underway \cup Over \cup {"READY"} :
              remote' = [remote EXCEPT ![u] = state]
        /\ UNCHANGED <<creating, ordered, held, shown, run, transfer, lookup, closing>>
    BY <1>7 DEF SessionMoves, Underway, Over
  <2>2. NetworkFits'
    BY <1>1, <2>1 DEF NetworkFits, Underway
  <2>3. \A v \in Upload : MayLive(v)' => MayLive(v)
    BY <1>1, <2>1 DEF MayLive
  <2>4. \A v \in Upload : creating'[v] <= creating[v]
    BY <1>1, <2>1
  <2> QED BY <1>2, <2>1, <2>2, <2>3, <2>4
<1> QED BY <1>3, <1>4, <1>6, <1>7

LEMMA TaskOfHeld ==
    ASSUME FileInv
    PROVE  /\ TaskFits(held) /\ TaskHolds(held) /\ held \in Task /\ shown \in Row
           /\ RowRuns(held, shown, run) /\ (shown.watched => held.kept = "none")
BY DEF FileInv, TaskFits, TaskHolds, RowFits, RowRuns

\* The lookup is begun for the creation of a task that does nothing else.
LEMMA LookupStarts ==
    ASSUME NEW t, TaskFits(t), t.active = "none", t.creation \in Upload, StartLookup(t),
           NEW r, NEW x, TransferFits(creating, t, r, x), NEW c, AnswersFit(t, lookup, c)
    PROVE  /\ TaskFits(held') /\ Like(held', t) /\ held'.kept = t.kept
           /\ held'.active = "none" /\ TransferFits(creating, held', r, x)
           /\ AnswersFit(held', lookup', c)
<1>1. CASE lookup.at = "idle"
  <2>1. t \in Task
    BY DEF TaskFits, TaskHolds
  <2>2. held' = [t EXCEPT !.fresh = t.fresh \cup {"lookup"}]
        /\ lookup' = [at |-> "asking", upload |-> t.creation]
    BY <1>1 DEF StartLookup
  <2>3. t.fresh \cup {"lookup"} \in SUBSET {"transfer", "lookup", "closing"}
    BY <2>1 DEF Task
  <2>4. /\ held' \in Task /\ Like(held', t) /\ held'.kept = t.kept
        /\ held'.active = "none" /\ held'.fresh = t.fresh \cup {"lookup"}
    BY <2>1, <2>2, <2>3 DEF Task, Like
  <2>5. TaskFits(held')
    BY <2>4 DEF TaskFits, TaskHolds, Like, Cancelling
  <2>6. TransferFits(creating, held', r, x)
    BY <2>4 DEF TransferFits, Like
  <2>7. AnswersFit(held', lookup', c)
    BY <2>2, <2>4 DEF AnswersFit, Like, Cancelling, Lookup, Identity
  <2> QED BY <2>4, <2>5, <2>6, <2>7
<1>2. CASE lookup.at # "idle"
  BY <1>2 DEF StartLookup, Like
<1> QED BY <1>1, <1>2

LEMMA RunStartsKeeps == ASSUME FileInv, RunStarts PROVE FileInv'
<1> DEFINE row == [shown EXCEPT !.queued = FALSE]
           busy == [row EXCEPT !.phase = "busy", !.watched = TRUE]
<1> PICK b \in BOOLEAN : b = Deleting
  BY DEF Deleting
<1> DEFINE d == Delivered(held, busy, b)
<1>1. /\ TaskFits(held) /\ held \in Task /\ shown \in Row /\ RowRuns(held, shown, run)
      /\ (shown.watched => held.kept = "none") /\ run = "idle" /\ held.active # "run"
      /\ UNCHANGED <<remote, creating, ordered, closing>>
  BY TaskOfHeld DEF RunStarts, network, RowRuns
<1>2. row \in Row /\ row.watched = shown.watched /\ row.attached
  BY <1>1 DEF Row, RowState, RunStarts
<1>3. busy \in Row /\ busy.watched
  BY <1>2 DEF Row, RowState
<1> HIDE DEF busy
<1>5. /\ TaskFits(d.task) /\ d.row \in Row /\ Like(d.task, held) /\ d.row.watched
      /\ d.task.kept = "none"
      /\ \/ d.task.active = held.active /\ d.task.fresh = held.fresh
         \/ d.task.active = "follower" /\ d.task.fresh = {} /\ ~Cancelling(held)
  <2>1. /\ TaskFits(d.task) /\ d.row \in Row /\ Like(d.task, held)
        /\ d.row.watched = busy.watched
        /\ IF busy.watched THEN d.task.kept = "none" ELSE d.task = held
        /\ \/ d.task.active = held.active /\ d.task.fresh = held.fresh
           \/ /\ d.task.active = "follower" /\ d.task.fresh = {} /\ busy.watched
              /\ held.active = "none" /\ ~b /\ ~held.pending /\ ~Cancelling(held)
    <3>1. TaskFits(held) /\ busy \in Row
      BY <1>1, <1>3
    <3> QED BY ONLY <3>1, b \in BOOLEAN, DeliveredFields, SMTT(60)
  <2> HIDE DEF d
  <2> QED BY <1>3, <2>1
<1>6. TransferFits(creating, held, run, transfer) /\ AnswersFit(held, lookup, closing)
      /\ ordered' \in [cancel : SUBSET Upload, complete : SUBSET Upload]
      /\ Remembers(held)
  BY <1>1 DEF FileInv, NetworkFits
<1>7. TransferFits(creating, d.task, "idle", transfer) /\ AnswersFit(d.task, lookup, closing)
  <2> HIDE DEF d
  <2>1. TransferFits(creating, d.task, "idle", transfer)
    BY <1>1, <1>5, <1>6 DEF TransferFits, Like
  <2>2. AnswersFit(d.task, lookup, closing)
    BY <1>5, <1>6 DEF AnswersFit, Like, Cancelling
  <2> QED BY <2>1, <2>2
<1>8. CASE shown' = row /\ UNCHANGED <<held, run, transfer, lookup>>
  <2> HIDE DEF row, d
  <2>1. RowFits(held', shown', run')
    BY <1>1, <1>2, <1>8 DEF RowFits, RowRuns
  <2> QED BY <1>1, <1>6, <1>8, <2>1, FileStays
<1>9. ASSUME TaskFits(held'), RowFits(held', shown', run'),
             TransferFits(creating, held', run', transfer'),
             AnswersFit(held', lookup', closing'),
             held'.creation = held.creation, held'.saved = held.saved
      PROVE  FileInv'
  <2>1. Remembers(held')
    BY <1>6, <1>9, StillRemembered
  <2> QED BY <1>1, <1>6, <1>9, <2>1, FileStays
<1>10. CASE /\ d.task.creation # NoFile /\ d.task.saved = NoFile
            /\ StartLookup(d.task) /\ shown' = d.row /\ run' = "looking" /\ UNCHANGED transfer
  <2>1. d.task.active = "none" /\ d.task.creation \in Upload
    BY <1>1, <1>5, <1>10 DEF TaskFits, TaskHolds, Task, Identity
  <2> HIDE DEF d
  <2>2. /\ TaskFits(held') /\ Like(held', d.task) /\ held'.kept = d.task.kept
        /\ held'.active = "none" /\ TransferFits(creating, held', "idle", transfer)
        /\ AnswersFit(held', lookup', closing)
    BY <1>5, <1>7, <1>10, <2>1, LookupStarts
  <2>3. RowFits(held', shown', run')
    BY <1>5, <1>10, <2>2 DEF RowFits, RowRuns
  <2>4. TransferFits(creating, held', run', transfer')
    BY <1>10, <2>2 DEF TransferFits
  <2> QED BY <1>1, <1>5, <1>9, <2>2, <2>3, <2>4 DEF Like
<1>11. CASE /\ held' = d.task /\ shown' = Failed(d.task, d.row)
            /\ UNCHANGED <<run, transfer, lookup>>
  <2> HIDE DEF d
  <2>1. shown' \in Row /\ shown'.watched = d.row.watched
    BY <1>5, <1>11, FailedFields
  <2>2. RowFits(held', shown', run')
    BY <1>1, <1>5, <1>11, <2>1 DEF RowFits, RowRuns
  <2> QED BY <1>1, <1>5, <1>7, <1>9, <1>11, <2>2 DEF Like
<1>12. CASE RunOn(d.task, d.row) /\ UNCHANGED lookup
  <2> HIDE DEF d
  <2>1. d.task.active # "run"
    BY <1>1, <1>5
  <2>2. /\ TaskFits(held') /\ RowFits(held', shown', run')
        /\ TransferFits(creating, held', run', transfer') /\ AnswersFit(held', lookup, closing)
        /\ held'.creation = d.task.creation /\ held'.saved = d.task.saved
    BY <1>5, <1>7, <1>12, <2>1, RunningOn
  <2> QED BY <1>1, <1>5, <1>9, <1>12, <2>2 DEF Like
<1> QED BY <1>8, <1>10, <1>11, <1>12 DEF RunStarts, busy

\* A handler that leaves the sessions alone and drops neither identity.
LEMMA FileGoesOn ==
    ASSUME FileInv, UNCHANGED <<remote, creating>>,
           ordered' \in [cancel : SUBSET Upload, complete : SUBSET Upload],
           TaskFits(held'), RowFits(held', shown', run'),
           TransferFits(creating, held', run', transfer'),
           AnswersFit(held', lookup', closing'),
           held.creation \in {held'.creation, held'.saved, NoFile},
           held.saved \in {held'.creation, held'.saved, NoFile}
    PROVE  FileInv'
<1>1. Remembers(held')
  BY FileUploadNames DEF FileInv, Remembers
<1> QED BY <1>1, FileStays

LEMMA OrderedStays ==
    ASSUME FileInv
    PROVE  /\ ordered \in [cancel : SUBSET Upload, complete : SUBSET Upload]
           /\ TransferFits(creating, held, run, transfer)
           /\ AnswersFit(held, lookup, closing)
BY DEF FileInv, NetworkFits

\* The upload of the run, or of the one that follows it, was published.
LEMMA AcceptKeeps ==
    ASSUME FileInv, held.active # "none", held.saved \in Upload,
           remote[held.saved] = "READY", Accept,
           UNCHANGED <<remote, creating, ordered, transfer, lookup, closing>>
    PROVE  FileInv'
<1>1. /\ TaskHolds(held) /\ shown \in Row /\ held.kept = "none"
      /\ TransferFits(creating, held, run, transfer) /\ AnswersFit(held, lookup, closing)
      /\ ordered \in [cancel : SUBSET Upload, complete : SUBSET Upload]
  BY TaskOfHeld, OrderedStays DEF RowRuns
<1>2. held' = AcceptReady(held) /\ run' = "idle"
      /\ shown' = [shown EXCEPT !.phase = "ready", !.outcome = "ready"]
  BY DEF Accept
<1>3. /\ TaskFits(held') /\ held'.creation = NoFile /\ held'.saved = NoFile
      /\ held'.fresh = {} /\ held'.active = "none" /\ held'.kept = "none"
  <2>1. TaskHolds(held) /\ held.saved \in Upload /\ held.kept = "none"
    BY <1>1
  <2> QED BY ONLY <1>2, <2>1, AcceptedFields
<1>4. shown' \in Row
  BY <1>1, <1>2 DEF Row, RowState
<1>5. RowFits(held', shown', run')
  BY <1>2, <1>3, <1>4 DEF RowFits, RowRuns
<1>6. TransferFits(creating, held', run', transfer')
  BY <1>1, <1>2, <1>3 DEF TransferFits
<1>7. AnswersFit(held', lookup', closing')
  BY <1>1, <1>3 DEF AnswersFit
<1>8. Remembers(held')
  BY OverIsForgotten
<1> QED BY <1>1, <1>3, <1>5, <1>6, <1>7, <1>8, FileStays

\* The run on what is saved, and the one that follows an upload.
LEMMA RunKeeps ==
    ASSUME FileInv, CheckSaved \/ WaitForReady \/ RunFails \/ FollowReady
    PROVE  FileInv'
<1>1. /\ TaskFits(held) /\ TaskHolds(held) /\ held \in Task /\ shown \in Row
      /\ RowRuns(held, shown, run) /\ (shown.watched => held.kept = "none")
  BY TaskOfHeld
<1>2. /\ ordered \in [cancel : SUBSET Upload, complete : SUBSET Upload]
      /\ TransferFits(creating, held, run, transfer)
      /\ AnswersFit(held, lookup, closing)
  BY OrderedStays
<1>3. /\ UNCHANGED <<remote, creating, ordered, lookup, closing>>
      /\ run \in {"checking", "waiting"} \/ held.active = "follower"
  BY DEF CheckSaved, WaitForReady, RunFails, FollowReady, network
<1>4. /\ held.saved \in Upload /\ held.active # "none" /\ shown.watched
      /\ held.kept = "none" /\ ~Cancelling(held)
  <2>1. held.saved # NoFile /\ held.active # "none"
    BY <1>1, <1>3 DEF RowRuns, TaskHolds
  <2> QED BY <1>1, <2>1 DEF RowRuns, TaskHolds, Task, Identity
<1>5. ASSUME TaskFits(held'), RowFits(held', shown', run'),
             TransferFits(creating, held', run', transfer'), AnswersFit(held', lookup, closing),
             held'.creation = held.creation, held'.saved = held.saved
      PROVE  FileInv'
  <2>1. AnswersFit(held', lookup', closing')
        /\ ordered' \in [cancel : SUBSET Upload, complete : SUBSET Upload]
    BY <1>2, <1>3, <1>5
  <2> QED BY <1>3, <1>5, <2>1, FileGoesOn
<1>6. CASE remote[held.saved] = "READY" /\ Accept /\ UNCHANGED transfer
  <2> QED BY <1>3, <1>4, <1>6, AcceptKeeps
<1>7. CASE RunEnds(held, shown) /\ UNCHANGED transfer
  <2>1. /\ TaskFits(held') /\ RowFits(held', shown', run')
        /\ TransferFits(creating, held', run', transfer) /\ AnswersFit(held', lookup, closing)
        /\ held'.creation = held.creation /\ held'.saved = held.saved
    BY <1>1, <1>2, <1>7, RunOver
  <2> QED BY <1>5, <1>7, <2>1
<1>8. CASE WaitForReady \/ RunFails
  BY <1>6, <1>7, <1>8, <1>3, <1>4, AcceptKeeps, OverIsForgotten DEF WaitForReady, RunFails
<1>9. CASE FollowReady
  <2>1. CASE remote[held.saved] = "READY" /\ Accept
    BY <1>6, <1>9, <2>1 DEF FollowReady
  <2>2. CASE held' = Pause(held) /\ shown' = [shown EXCEPT !.phase = "failed"]
             /\ UNCHANGED run
    <3>1. /\ held' \in Task /\ Like(held', held) /\ held'.kept = held.kept
          /\ held'.active = "none" /\ held'.fresh = held.fresh /\ TaskFits(held')
      BY <1>1, <2>2, PausedFields
    <3>2. shown' \in Row /\ shown'.watched = shown.watched
      BY <1>1, <2>2 DEF Row, RowState
    <3>3. held.active = "follower" /\ UNCHANGED transfer
      BY <1>9 DEF FollowReady
    <3>4. RowFits(held', shown', run')
      BY <1>1, <1>4, <2>2, <3>1, <3>2, <3>3 DEF RowFits, RowRuns, Like
    <3>5. TransferFits(creating, held', run', transfer')
      BY <1>2, <2>2, <3>1, <3>3 DEF TransferFits, Like
    <3>6. AnswersFit(held', lookup, closing)
      BY <1>2, <3>1 DEF AnswersFit, Like, Cancelling
    <3> QED BY <1>5, <3>1, <3>4, <3>5, <3>6 DEF Like
  <2> QED BY <1>9, <2>1, <2>2 DEF FollowReady
<1>10. CASE CheckSaved
  <2>1. run = "checking" /\ held.active = "run" /\ ~held.pending
    BY <1>1, <1>10 DEF CheckSaved, RowRuns
  <2>2. CASE /\ run' = "waiting" /\ shown' = [shown EXCEPT !.phase = "completing"]
             /\ UNCHANGED <<held, transfer>>
    <3>1. shown' \in Row /\ shown'.watched = shown.watched
      BY <1>1, <2>2 DEF Row, RowState
    <3>2. RowFits(held', shown', run')
      BY <1>1, <1>4, <2>1, <2>2, <3>1 DEF RowFits, RowRuns
    <3>3. TransferFits(creating, held', run', transfer')
      BY <1>2, <2>2 DEF TransferFits
    <3> QED BY <1>1, <1>2, <1>5, <2>2, <3>2, <3>3
  <2>3. CASE remote[held.saved] \in Over /\ NewTransfer(CloseSaved(held, held.saved), shown)
    <3> DEFINE n == CloseSaved(held, held.saved)
    <3>1. TaskFits(n)
      BY <1>1, <1>4, <2>1, ClosedHolds
    <3>2. /\ n \in Task /\ n.saved = NoFile /\ n.creation = NoFile /\ n.fresh = {}
          /\ n.pending = held.pending /\ n.control = held.control
          /\ n.kept = held.kept /\ n.active = held.active
      BY <1>1, <1>4, ClosedFields
    <3> HIDE DEF n
    <3>3. TransferFits(creating, n, run, transfer) /\ AnswersFit(n, lookup, closing)
      BY <1>2, <2>1, <3>2 DEF TransferFits, AnswersFit
    <3>4. n.active = "run" /\ ~n.pending /\ ~Cancelling(n) /\ n.kept = "none"
      BY <1>4, <2>1, <3>2 DEF Cancelling
    <3>5. NewTransfer(n, shown)
      BY <2>3 DEF n
    <3>6. /\ TaskFits(held') /\ RowFits(held', shown', run')
          /\ TransferFits(creating, held', run', transfer') /\ AnswersFit(held', lookup, closing)
      BY <1>1, <1>4, <3>1, <3>2, <3>3, <3>4, <3>5, TransferBegins
    <3>7. Remembers(held')
      BY <1>4, <2>3, OverIsForgotten
    <3> QED BY <1>2, <1>3, <3>6, <3>7, FileStays
  <2>4. CASE /\ transfer' = [at |-> "sending", upload |-> held.saved, doubtful |-> FALSE]
             /\ held' = Remember(held, held.saved) /\ run' = "sending" /\ UNCHANGED shown
    <3>1. /\ TaskFits(held') /\ held'.saved = held.saved /\ held'.creation = held.creation
          /\ held'.pending = held.pending /\ held'.control = held.control
          /\ held'.kept = held.kept /\ held'.active = held.active /\ held'.fresh = held.fresh
      BY <1>1, <1>4, <2>4, RememberedFields
    <3>2. RowFits(held', shown', run')
      BY <1>1, <1>4, <2>1, <2>4, <3>1 DEF RowFits, RowRuns
    <3>3. held.saved # NoFile
      BY <1>4, FileUploadNames
    <3>4. TransferFits(creating, held', run', transfer')
      BY <1>4, <2>1, <2>4, <3>1, <3>3 DEF TransferFits, Transfer, Identity
    <3>5. AnswersFit(held', lookup, closing)
      BY <1>2, <3>1 DEF AnswersFit, Cancelling
    <3> QED BY <1>5, <3>1, <3>2, <3>4, <3>5
  <2> QED BY <1>6, <1>7, <1>10, <2>2, <2>3, <2>4 DEF CheckSaved
<1> QED BY <1>8, <1>9, <1>10

\* The row is told of a cancellation only when the task holds nothing.
Told == shown'.outcome = "cancelled" /\ shown.outcome # "cancelled"
            => held'.creation = NoFile /\ held'.saved = NoFile

LEMMA BecomesTells ==
    ASSUME NEW t, TaskFits(t), NEW s, NEW r, RowRuns(t, s, r), NEW deleting \in BOOLEAN,
           Becomes(t, s, deleting), NEW x, TransferFits(creating, t, r, x),
           NEW l, NEW c, AnswersFit(t, l, c), s.outcome = shown.outcome
    PROVE  /\ TaskFits(held') /\ RowFits(held', shown', r)
           /\ TransferFits(creating, held', r, x) /\ AnswersFit(held', l, c)
           /\ held'.creation = t.creation /\ held'.saved = t.saved /\ Told
<1>1. t.kept = "cancelled" => t.creation = NoFile /\ t.saved = NoFile
  BY DEF TaskFits, TaskHolds
<1>2. /\ TaskFits(held') /\ RowFits(held', shown', r)
      /\ TransferFits(creating, held', r, x) /\ AnswersFit(held', l, c)
      /\ held'.creation = t.creation /\ held'.saved = t.saved
      /\ shown'.outcome = "cancelled" => s.outcome = "cancelled" \/ t.kept = "cancelled"
  BY Becoming
<1> QED BY <1>1, <1>2 DEF Told

\* A transfer that ends, whatever has become of the task meanwhile.
LEMMA TransferEnding ==
    ASSUME RowRuns(held, shown, run), run \notin {"checking", "waiting"},
           NEW t, NEW p, p = [t EXCEPT !.pending = FALSE], TaskFits(p),
           p.active = held.active, AnswersFit(p, lookup, closing), TransferEnds(t)
    PROVE  /\ TaskFits(held') /\ RowFits(held', shown', run')
           /\ TransferFits(creating', held', run', transfer')
           /\ AnswersFit(held', lookup, closing)
           /\ held'.creation = p.creation /\ held'.saved = p.saved /\ Told
<1> PICK deleting \in BOOLEAN : deleting = Deleting
  BY DEF Deleting
<1> DEFINE over == FinishCancellation(p, deleting)
           n == IF run = "sending" THEN Pause(over) ELSE over
           s == IF run = "sending" THEN Failed(t, shown) ELSE shown
<1>1. Becomes(n, s, deleting) /\ transfer' = NoTransfer /\ run' = "idle"
  BY DEF TransferEnds
<1>2. /\ TaskFits(over) /\ over.creation = p.creation /\ over.saved = p.saved
      /\ over.active = p.active /\ over.fresh \subseteq p.fresh
      /\ over.control # p.control => over.fresh = {}
  BY FinishedFields
<1> HIDE DEF over
<1>3. /\ TaskFits(n) /\ n.creation = p.creation /\ n.saved = p.saved
      /\ n.active = IF run = "sending" THEN "none" ELSE held.active
      /\ n.fresh = over.fresh /\ n.control = over.control
  <2>1. CASE run = "sending"
    <3>1. n = Pause(over) /\ TaskHolds(over)
      BY <1>2, <2>1 DEF TaskFits
    <3>2. /\ Like(n, over) /\ n.active = "none" /\ n.fresh = over.fresh /\ TaskFits(n)
      BY ONLY <1>2, <3>1, PausedFields
    <3> QED BY <1>2, <2>1, <3>2 DEF Like
  <2>2. CASE run # "sending"
    BY <1>2, <2>2
  <2> QED BY <2>1, <2>2
<1>4. s \in Row /\ s.watched = shown.watched /\ s.outcome = shown.outcome
  <2>1. shown \in Row
    BY DEF RowRuns
  <2> QED BY <2>1, FailedFields
<1> HIDE DEF n, s
<1>5. RowRuns(n, s, "idle")
  BY <1>3, <1>4 DEF RowRuns
<1>6. AnswersFit(n, lookup, closing)
  BY <1>2, <1>3 DEF AnswersFit, Cancelling
<1>7. \A a : TransferFits(creating, a, "idle", NoTransfer)
             /\ TransferFits(creating', a, "idle", NoTransfer)
  BY DEF TransferFits, NoTransfer, Transfer, Identity
<1>8. /\ TaskFits(held') /\ RowFits(held', shown', "idle")
      /\ AnswersFit(held', lookup, closing)
      /\ held'.creation = n.creation /\ held'.saved = n.saved /\ Told
  <2>1. TransferFits(creating, n, "idle", NoTransfer)
    BY <1>7
  <2> QED BY ONLY deleting \in BOOLEAN, <1>1, <1>3, <1>4, <1>5, <1>6, <2>1, BecomesTells
<1> QED BY <1>1, <1>3, <1>7, <1>8

\* A creation in flight that the task still waits for.
LEMMA TransferUnderWay ==
    ASSUME FileInv, transfer.at \in {"hashing", "creating"}, IsFresh("transfer")
    PROVE  /\ held.pending /\ run \notin {"checking", "waiting"} /\ transfer \in Transfer
           /\ transfer.at = "creating" =>
                 /\ transfer.upload \in Upload /\ transfer.upload = held.creation
                 /\ ~transfer.doubtful => creating[transfer.upload] <= 1
BY TaskOfHeld, OrderedStays DEF TransferFits, RowRuns, IsFresh

LEMMA OwedFields ==
    ASSUME NEW t \in Task, NEW n, n = Owed(t)
    PROVE  /\ n \in Task /\ n.creation = t.creation /\ n.saved = t.saved
           /\ n.uncertain /\ n.blocked = t.blocked /\ n.closed = t.closed
           /\ n.kept = t.kept /\ n.active = t.active /\ n.fresh = t.fresh
           /\ n.pending = t.pending
           /\ n.control = IF Cancelling(t) THEN "cancel-unconfirmed" ELSE t.control
<1>1. (IF Cancelling(t) THEN "cancel-unconfirmed" ELSE t.control)
         \in {"open", "cancelling", "cancel-unconfirmed", "completion"}
  BY DEF Task
<1>2. n = [t EXCEPT !.uncertain = TRUE,
                    !.control = IF Cancelling(t) THEN "cancel-unconfirmed" ELSE t.control]
  BY DEF Owed
<1> QED BY <1>1, <1>2 DEF Task

LEMMA TransferFailsKeeps == ASSUME FileInv, TransferFails PROVE FileInv' /\ Told
<1>1. /\ TaskFits(held) /\ held \in Task /\ RowRuns(held, shown, run)
      /\ AnswersFit(held, lookup, closing)
      /\ ordered \in [cancel : SUBSET Upload, complete : SUBSET Upload]
  BY TaskOfHeld, OrderedStays
<1>2. /\ held.pending /\ run \notin {"checking", "waiting"}
      /\ UNCHANGED <<remote, creating, ordered, lookup, closing>>
  BY TransferUnderWay DEF TransferFails, network
<1> DEFINE t == IF held.creation = NoFile THEN held ELSE Owed(held)
           p == [t EXCEPT !.pending = FALSE]
<1>3. /\ t \in Task /\ t.creation = held.creation /\ t.saved = held.saved
      /\ t.creation # NoFile => t.uncertain
      /\ t.closed = held.closed /\ t.kept = held.kept /\ t.active = held.active
      /\ t.fresh = held.fresh /\ (Cancelling(t) <=> Cancelling(held))
  BY <1>1, OwedFields DEF Cancelling
<1> HIDE DEF t
<1>4. /\ p \in Task /\ p.creation = t.creation /\ p.saved = t.saved /\ ~p.pending
      /\ p.uncertain = t.uncertain /\ p.control = t.control /\ p.closed = t.closed
      /\ p.kept = t.kept /\ p.active = t.active /\ p.fresh = t.fresh
  BY <1>3 DEF Task
<1> HIDE DEF p
<1>5. TaskFits(p)
  BY <1>1, <1>3, <1>4 DEF TaskFits, TaskHolds, Cancelling
<1>6. AnswersFit(p, lookup, closing) /\ p.active = held.active
  BY <1>1, <1>3, <1>4 DEF AnswersFit, Cancelling
<1>7. TransferEnds(t) /\ p = [t EXCEPT !.pending = FALSE]
  BY DEF TransferFails, t, p
<1>8. /\ TaskFits(held') /\ RowFits(held', shown', run')
      /\ TransferFits(creating', held', run', transfer')
      /\ AnswersFit(held', lookup, closing)
      /\ held'.creation = p.creation /\ held'.saved = p.saved /\ Told
  BY ONLY <1>1, <1>2, <1>5, <1>6, <1>7, TransferEnding
<1>9. /\ TransferFits(creating, held', run', transfer')
      /\ AnswersFit(held', lookup', closing')
      /\ ordered' \in [cancel : SUBSET Upload, complete : SUBSET Upload]
  BY <1>1, <1>2, <1>8
<1> QED BY <1>2, <1>3, <1>4, <1>8, <1>9, FileGoesOn

LEMMA CreateRefusedKeeps == ASSUME FileInv, CreateRefused PROVE FileInv' /\ Told
<1> DEFINE u == transfer.upload
           t == IF transfer.doubtful \/ held.saved # NoFile THEN Owed(held)
                ELSE [ClearCreation(held) EXCEPT !.uncertain = FALSE, !.blocked = FALSE]
           p == [t EXCEPT !.pending = FALSE]
<1>1. /\ TaskFits(held) /\ held \in Task /\ RowRuns(held, shown, run)
      /\ AnswersFit(held, lookup, closing) /\ NetworkFits /\ Remembers(held)
  BY TaskOfHeld, OrderedStays DEF FileInv
<1>2. /\ held.pending /\ run \notin {"checking", "waiting"}
      /\ u \in Upload /\ u = held.creation /\ creating[u] > 0
      /\ ~transfer.doubtful => creating[u] <= 1
      /\ creating' = [creating EXCEPT ![u] = creating[u] - 1] /\ TransferEnds(t)
      /\ UNCHANGED <<remote, ordered, lookup, closing>>
  BY TransferUnderWay DEF CreateRefused
<1>3. /\ creating' \in [Upload -> 0 .. 2] /\ creating'[u] = creating[u] - 1
      /\ remote[u] = "none" /\ \A v \in Upload : creating'[v] <= creating[v]
  <2>1. creating \in [Upload -> 0 .. 2] /\ u \in Upload /\ creating[u] > 0
    BY <1>1, <1>2 DEF NetworkFits
  <2> HIDE DEF u
  <2>2. creating[u] \in 0 .. 2 /\ creating[u] - 1 \in 0 .. 2
    BY <2>1
  <2>3. \A v \in Upload : creating'[v] = IF v = u THEN creating[u] - 1 ELSE creating[v]
    BY <1>2, <2>1
  <2>4. creating' \in [Upload -> 0 .. 2]
    BY <1>2, <2>1, <2>2
  <2>5. remote[u] = "none"
    BY <1>1, <2>1 DEF NetworkFits
  <2> QED BY <2>1, <2>2, <2>3, <2>4, <2>5
<1>4. NetworkFits' /\ \A v \in Upload : MayLive(v)' => MayLive(v)
  <2> HIDE DEF u
  <2>1. \A v \in Upload : creating'[v] > 0 => creating[v] > 0
    BY <1>1, <1>3 DEF NetworkFits
  <2> QED BY <1>1, <1>2, <1>3, <2>1 DEF NetworkFits, MayLive
<1>5. ASSUME t \in Task, t.closed = held.closed, t.kept = held.kept, t.active = held.active,
             t.fresh = held.fresh, Cancelling(t) <=> Cancelling(held),
             t.saved = held.saved,
             \/ t.creation = held.creation /\ t.uncertain
             \/ t.creation = NoFile /\ held.saved = NoFile,
             \A v \in Upload : MayLive(v)' => v \in {t.creation, t.saved}
      PROVE  FileInv' /\ Told
  <2> HIDE DEF t, u
  <2>1. /\ p \in Task /\ p.creation = t.creation /\ p.saved = t.saved /\ ~p.pending
        /\ p.uncertain = t.uncertain /\ p.control = t.control /\ p.closed = t.closed
        /\ p.kept = t.kept /\ p.active = t.active /\ p.fresh = t.fresh
    BY <1>5 DEF Task
  <2>2. TransferEnds(t) /\ p = [t EXCEPT !.pending = FALSE]
    BY <1>2
  <2> HIDE DEF p
  <2>3. TaskFits(p)
    BY <1>1, <1>5, <2>1 DEF TaskFits, TaskHolds, Cancelling
  <2>4. AnswersFit(p, lookup, closing) /\ p.active = held.active
    BY <1>1, <1>5, <2>1 DEF AnswersFit, Cancelling
  <2>5. /\ TaskFits(held') /\ RowFits(held', shown', run')
        /\ TransferFits(creating', held', run', transfer')
        /\ AnswersFit(held', lookup, closing)
        /\ held'.creation = p.creation /\ held'.saved = p.saved /\ Told
    BY ONLY <1>1, <1>2, <2>2, <2>3, <2>4, TransferEnding
  <2>6. \A v \in Upload : MayLive(v)' => v \in {held'.creation, held'.saved}
    BY <1>5, <2>1, <2>5
  <2>7. Remembers(held)' /\ AnswersFit(held', lookup', closing')
    BY <1>2, <2>5, <2>6 DEF Remembers
  <2> QED BY <1>4, <2>5, <2>7 DEF FileInv
<1>6. CASE transfer.doubtful \/ held.saved # NoFile
  <2>1. t = Owed(held)
    BY <1>6
  <2> HIDE DEF t, u, p
  <2>2. /\ t \in Task /\ t.closed = held.closed /\ t.kept = held.kept
        /\ t.active = held.active /\ t.fresh = held.fresh /\ t.saved = held.saved
        /\ t.creation = held.creation /\ t.uncertain
        /\ t.control = IF Cancelling(held) THEN "cancel-unconfirmed" ELSE held.control
    BY <1>1, <2>1, OwedFields
  <2>3. \A v \in Upload : MayLive(v)' => v \in {t.creation, t.saved}
    BY <1>1, <1>4, <2>2 DEF Remembers
  <2>4. Cancelling(t) <=> Cancelling(held)
    BY <2>2 DEF Cancelling
  <2> QED BY ONLY <1>5, <2>2, <2>3, <2>4
<1>7. CASE ~transfer.doubtful /\ held.saved = NoFile
  <2> DEFINE e == ClearCreation(held)
  <2>1. /\ e \in Task /\ e.creation = NoFile /\ e.saved = held.saved
        /\ e.pending = held.pending /\ e.control = held.control /\ e.closed = held.closed
        /\ e.kept = held.kept /\ e.active = held.active /\ e.fresh = held.fresh
    BY <1>1, ClearedFields
  <2>2. t = [e EXCEPT !.uncertain = FALSE, !.blocked = FALSE]
    BY <1>7
  <2> HIDE DEF t, e, u, p
  <2>3. /\ t \in Task /\ t.closed = held.closed /\ t.kept = held.kept
        /\ t.active = held.active /\ t.fresh = held.fresh /\ t.saved = held.saved
        /\ t.creation = NoFile /\ t.control = held.control
    BY <2>1, <2>2 DEF Task
  <2>4. ~(creating'[u] > 0) /\ remote'[u] = "none"
    <3>1. creating[u] \in 0 .. 2
      BY <1>1, <1>2 DEF NetworkFits
    <3> QED BY <1>2, <1>3, <1>7, <3>1
  <2>5. \A v \in Upload : ~MayLive(v)'
    <3>1. \A v \in Upload : MayLive(v)' => v = u
      BY <1>1, <1>2, <1>4, <1>7, FileUploadNames DEF Remembers
    <3> QED BY <2>4, <3>1 DEF MayLive, Underway
  <2> QED BY <1>5, <1>7, <2>3, <2>5 DEF Cancelling
<1> QED BY <1>6, <1>7

\* The identity is stored before its creation is asked for.
LEMMA CreateUploadKeeps == ASSUME FileInv, CreateUpload PROVE FileInv' /\ Told
<1> PICK u \in Upload :
          /\ IF held.creation # NoFile THEN u = held.creation
             ELSE remote[u] = "none" /\ creating[u] = 0 /\ u \notin held.closed
          /\ creating[u] < 2
          /\ creating' = IF remote[u] = "none"
                         THEN [creating EXCEPT ![u] = creating[u] + 1] ELSE creating
          /\ transfer' = [transfer EXCEPT !.at = "creating", !.upload = u]
          /\ held' = [held EXCEPT !.creation = u]
  BY DEF CreateUpload
<1>1. /\ TaskFits(held) /\ TaskHolds(held) /\ held \in Task /\ RowRuns(held, shown, run)
      /\ (shown.watched => held.kept = "none") /\ NetworkFits /\ Remembers(held)
      /\ TransferFits(creating, held, run, transfer) /\ AnswersFit(held, lookup, closing)
  BY TaskOfHeld, OrderedStays DEF FileInv
<1>2. /\ transfer.at = "hashing" /\ run = "sending" /\ u # NoFile
      /\ UNCHANGED <<remote, ordered, shown, run, lookup, closing>>
  BY FileUploadNames DEF CreateUpload
<1>3. /\ held.saved = NoFile /\ held.pending /\ (~transfer.doubtful => held.creation = NoFile)
      /\ transfer \in Transfer /\ held.active = "run" /\ ~Cancelling(held)
      /\ shown.watched /\ held.kept = "none"
  BY <1>1, <1>2 DEF TransferFits, RowRuns, TaskHolds
<1>4. /\ held' \in Task /\ held'.creation = u /\ held'.saved = NoFile /\ held'.pending
      /\ held'.control = held.control /\ held'.closed = held.closed
      /\ held'.kept = "none" /\ held'.active = "run" /\ held'.fresh = held.fresh
  BY <1>1, <1>3 DEF Task, Identity
<1>5. u \notin held.closed /\ NoFile \notin held.closed
  BY <1>1, <1>3 DEF TaskHolds
<1>6. TaskFits(held')
  BY <1>1, <1>3, <1>4, <1>5 DEF TaskFits, TaskHolds, Cancelling
<1>7. RowFits(held', shown', run')
  BY <1>1, <1>2, <1>3, <1>4 DEF RowFits, RowRuns
<1>8. AnswersFit(held', lookup', closing')
  BY <1>1, <1>2, <1>4 DEF AnswersFit, Cancelling
<1>9. /\ creating' \in [Upload -> 0 .. 2]
      /\ \A v \in Upload : v # u => creating'[v] = creating[v]
      /\ creating'[u] > 0 => remote[u] = "none"
      /\ creating[u] = 0 => creating'[u] <= 1
  <2>1. creating \in [Upload -> 0 .. 2] /\ creating[u] \in 0 .. 2
        /\ (creating[u] > 0 => remote[u] = "none")
    BY <1>1 DEF NetworkFits
  <2>2. CASE remote[u] = "none"
    <3>1. creating[u] + 1 \in 0 .. 2
      BY <2>1
    <3>2. creating' = [creating EXCEPT ![u] = creating[u] + 1]
      BY <2>2
    <3>3. creating'[u] = creating[u] + 1
      BY <2>1, <3>2
    <3> QED BY <2>1, <2>2, <3>1, <3>2, <3>3
  <2>3. CASE remote[u] # "none"
    BY <2>1, <2>3
  <2> QED BY <2>2, <2>3
<1>10. NetworkFits'
  BY <1>1, <1>2, <1>9 DEF NetworkFits
<1>11. TransferFits(creating', held', run', transfer')
  <2>1. /\ transfer' \in Transfer /\ transfer'.at = "creating" /\ transfer'.upload = u
        /\ transfer'.doubtful = transfer.doubtful
    BY <1>3 DEF Transfer, Identity
  <2>2. ~transfer.doubtful => creating'[u] <= 1
    BY <1>3, <1>9
  <2> QED BY <1>2, <1>4, <2>1, <2>2 DEF TransferFits
<1>12. Remembers(held)'
  <2>1. \A v \in Upload : MayLive(v)' => v = u
    <3>1. ASSUME NEW v \in Upload, MayLive(v)', v # u PROVE FALSE
      <4>1. MayLive(v)
        BY <1>2, <1>9, <3>1 DEF MayLive
      <4>2. v = held.creation
        BY <1>1, <1>3, <4>1, FileUploadNames DEF Remembers
      <4> QED BY <3>1, <4>2, FileUploadNames
    <3> QED BY <3>1
  <2> QED BY <1>4, <2>1 DEF Remembers
<1> QED BY <1>2, <1>6, <1>7, <1>8, <1>10, <1>11, <1>12 DEF FileInv, Told

\* A DELETE is begun for a task that cancels, unless one is under way.
LEMMA ClosingStarts ==
    ASSUME NEW t, TaskFits(t), NEW u \in Upload, StartClosing(t, u),
           NEW r, RowRuns(t, shown, r), NEW x, TransferFits(creating, t, r, x),
           NEW l, AnswersFit(t, l, closing),
           ordered \in [cancel : SUBSET Upload, complete : SUBSET Upload]
    PROVE  /\ TaskFits(held') /\ RowFits(held', shown', r)
           /\ TransferFits(creating, held', r, x) /\ AnswersFit(held', l, closing')
           /\ held'.creation = t.creation /\ held'.saved = t.saved
           /\ ordered' \in [cancel : SUBSET Upload, complete : SUBSET Upload] /\ Told
<1> PICK deleting \in BOOLEAN : deleting = Deleting
  BY DEF Deleting
<1>1. CASE Deleting \/ ~Cancelling(t)
  <2>1. Becomes(t, shown, deleting) /\ UNCHANGED <<closing, ordered>>
    BY <1>1 DEF StartClosing
  <2>2. /\ TaskFits(held') /\ RowFits(held', shown', r)
        /\ TransferFits(creating, held', r, x) /\ AnswersFit(held', l, closing)
        /\ held'.creation = t.creation /\ held'.saved = t.saved /\ Told
    <3>1. shown.outcome = shown.outcome
      OBVIOUS
    <3> QED BY <2>1, <3>1, BecomesTells
  <2> QED BY <2>1, <2>2
<1>2. CASE ~Deleting /\ Cancelling(t)
  <2> DEFINE n == [t EXCEPT !.marked = TRUE, !.control = "cancelling",
                            !.fresh = t.fresh \cup {"closing"}]
             c == [at |-> "deleting", upload |-> u]
  <2>1. Becomes(n, shown, TRUE) /\ closing' = c
        /\ ordered' = [ordered EXCEPT !.cancel = ordered.cancel \cup {u}]
    BY <1>2 DEF StartClosing
  <2>2. t \in Task /\ t.fresh \cup {"closing"} \in SUBSET {"transfer", "lookup", "closing"}
    BY DEF TaskFits, TaskHolds, Task
  <2>3. /\ n \in Task /\ n.creation = t.creation /\ n.saved = t.saved
        /\ n.pending = t.pending /\ n.uncertain = t.uncertain /\ n.blocked = t.blocked
        /\ n.control = "cancelling" /\ n.closed = t.closed /\ n.kept = t.kept
        /\ n.active = t.active /\ n.fresh = t.fresh \cup {"closing"}
    BY <2>2 DEF Task
  <2> HIDE DEF n
  <2>4. TaskFits(n)
    BY <1>2, <2>3 DEF TaskFits, TaskHolds, Cancelling
  <2>5. RowRuns(n, shown, r)
    BY <2>3 DEF RowRuns
  <2>6. TransferFits(creating, n, r, x)
    BY <2>3 DEF TransferFits
  <2>7. AnswersFit(n, l, c)
    BY <2>3 DEF AnswersFit, Closing, Identity, Cancelling
  <2> HIDE DEF c
  <2>8. /\ TaskFits(held') /\ RowFits(held', shown', r)
        /\ TransferFits(creating, held', r, x) /\ AnswersFit(held', l, c)
        /\ held'.creation = n.creation /\ held'.saved = n.saved /\ Told
    BY ONLY <2>1, <2>4, <2>5, <2>6, <2>7, TRUE \in BOOLEAN, BecomesTells
  <2>9. ordered' \in [cancel : SUBSET Upload, complete : SUBSET Upload]
    BY <2>1
  <2> QED BY <2>1, <2>3, <2>8, <2>9
<1> QED BY <1>1, <1>2

LEMMA IdleTransfer == ASSUME NEW sent, NEW a, NEW r PROVE TransferFits(sent, a, r, NoTransfer)
BY DEF TransferFits, NoTransfer, Transfer, Identity

\* The session of a creation is known, whether a run waits for it or not.
LEMMA CreateAnsweredKeeps == ASSUME FileInv, CreateAnswered PROVE FileInv' /\ Told
<1> DEFINE u == transfer.upload
           pp == [held EXCEPT !.pending = FALSE]
           known == Remember(pp, u)
<1>1. /\ TaskFits(held) /\ TaskHolds(held) /\ held \in Task /\ RowRuns(held, shown, run)
      /\ (shown.watched => held.kept = "none")
      /\ AnswersFit(held, lookup, closing) /\ shown \in Row
      /\ TransferFits(creating, held, run, transfer)
      /\ ordered \in [cancel : SUBSET Upload, complete : SUBSET Upload]
  BY TaskOfHeld, OrderedStays
<1>2. /\ run \notin {"checking", "waiting"} /\ transfer \in Transfer
      /\ u \in Upload /\ u = held.creation /\ u # NoFile
      /\ transfer.at = "creating" /\ UNCHANGED <<remote, creating, lookup>>
  BY TransferUnderWay, FileUploadNames DEF CreateAnswered
<1>3. /\ pp \in Task /\ pp.creation = held.creation /\ pp.saved = held.saved /\ ~pp.pending
      /\ pp.uncertain = held.uncertain /\ pp.control = held.control /\ pp.closed = held.closed
      /\ pp.kept = held.kept /\ pp.active = held.active /\ pp.fresh = held.fresh
  BY <1>1 DEF Task
<1>4. held.saved \in {u, NoFile}
  BY <1>1, <1>2 DEF TaskHolds
<1> HIDE DEF pp
<1>5. TaskHolds(pp)
  BY <1>1, <1>3 DEF TaskHolds, Cancelling
<1>6. /\ TaskFits(known) /\ known.saved = u /\ known.creation = u /\ ~known.pending
      /\ known.control = held.control /\ known.closed = held.closed
      /\ known.kept = held.kept /\ known.active = held.active /\ known.fresh = held.fresh
  <2>1. u \in {pp.creation, pp.saved}
    BY <1>2, <1>3
  <2>2. /\ TaskFits(known) /\ known.saved = u /\ known.creation = pp.creation
        /\ known.pending = pp.pending /\ known.control = pp.control
        /\ known.closed = pp.closed
        /\ known.kept = pp.kept /\ known.active = pp.active /\ known.fresh = pp.fresh
    BY ONLY <1>2, <1>5, <2>1, RememberedFields
  <2> QED BY <1>2, <1>3, <2>2
<1>7. AnswersFit(known, lookup, closing)
  BY <1>1, <1>6 DEF AnswersFit, Cancelling
<1> HIDE DEF known, u
<1>8. ASSUME TaskFits(held'), RowFits(held', shown', run'),
             TransferFits(creating, held', run', transfer'),
             AnswersFit(held', lookup, closing'), held'.saved = u,
             ordered' \in [cancel : SUBSET Upload, complete : SUBSET Upload]
      PROVE  FileInv'
  <2>1. AnswersFit(held', lookup', closing')
    BY <1>2, <1>8
  <2>2. held.creation \in {held'.creation, held'.saved, NoFile}
        /\ held.saved \in {held'.creation, held'.saved, NoFile}
    BY <1>2, <1>4, <1>8
  <2> QED BY <1>2, <1>8, <2>1, <2>2, FileGoesOn
<1>9. CASE run = "sending" /\ UNCHANGED <<ordered, closing>>
  <2>1. shown.watched /\ held.kept = "none" /\ held.active = "run"
    BY <1>1, <1>9 DEF RowRuns
  <2>2. CASE held' = known /\ transfer' = [transfer EXCEPT !.at = "sending"]
             /\ UNCHANGED <<shown, run>>
    <3>1. /\ transfer' \in Transfer /\ transfer'.at = "sending" /\ transfer'.upload = u
      BY <1>2, <2>2 DEF Transfer, u
    <3>2. TransferFits(creating, held', run', transfer')
      BY <1>2, <1>6, <1>9, <2>2, <3>1 DEF TransferFits
    <3>3. RowFits(held', shown', run')
      BY <1>1, <1>6, <1>9, <2>1, <2>2 DEF RowFits, RowRuns
    <3> QED BY <1>1, <1>6, <1>7, <1>8, <1>9, <2>2, <3>2, <3>3 DEF Told
  <2>3. CASE held' = known /\ transfer' = NoTransfer
             /\ shown' = [shown EXCEPT !.phase = "completing"] /\ run' = "waiting"
    <3>1. shown' \in Row /\ shown'.watched = shown.watched /\ shown'.outcome = shown.outcome
      BY <1>1, <2>3 DEF Row, RowState
    <3>2. TransferFits(creating, held', run', transfer')
      BY <2>3, IdleTransfer
    <3>3. RowFits(held', shown', run')
      BY <1>2, <1>6, <2>1, <2>3, <3>1 DEF RowFits, RowRuns
    <3> QED BY <1>1, <1>6, <1>7, <1>8, <1>9, <2>3, <3>1, <3>2, <3>3 DEF Told
  <2>4. CASE RunEnds(known, shown) /\ transfer' = NoTransfer
    <3>1. /\ TaskFits(held') /\ RowFits(held', shown', run')
          /\ TransferFits(creating, held', run', NoTransfer)
          /\ AnswersFit(held', lookup, closing)
          /\ held'.creation = known.creation /\ held'.saved = known.saved
          /\ shown'.outcome = shown.outcome
      <4>1. TransferFits(creating, known, run, NoTransfer)
        BY IdleTransfer
      <4>2. shown.watched => known.kept = "none"
        BY <1>6, <2>1
      <4> QED BY ONLY <1>1, <1>6, <1>7, <2>4, <4>1, <4>2, RunOver
    <3> QED BY <1>1, <1>6, <1>8, <1>9, <2>4, <3>1 DEF Told
  <2> QED BY <1>9, <2>2, <2>3, <2>4 DEF CreateAnswered, known, u, pp
<1>10. CASE run # "sending" /\ transfer' = NoTransfer /\ UNCHANGED run
  <2>1. run \in {"idle", "looking"} /\ held.active # "run"
    BY <1>1, <1>2, <1>10 DEF RowRuns
  <2>2. RowRuns(known, shown, run)
    BY <1>1, <1>6, <2>1 DEF RowRuns
  <2>3. CASE StartClosing(known, u)
    <3>1. TransferFits(creating, known, run, NoTransfer)
      BY IdleTransfer
    <3>2. /\ TaskFits(held') /\ RowFits(held', shown', run)
          /\ AnswersFit(held', lookup, closing')
          /\ held'.creation = known.creation /\ held'.saved = known.saved
          /\ ordered' \in [cancel : SUBSET Upload, complete : SUBSET Upload] /\ Told
      BY ONLY <1>1, <1>2, <1>6, <1>7, <2>2, <2>3, <3>1, ClosingStarts
    <3>3. TransferFits(creating, held', run', transfer')
      BY <1>10, IdleTransfer
    <3> QED BY <1>6, <1>8, <1>10, <3>2, <3>3
  <2>4. CASE /\ held' = known /\ UNCHANGED <<ordered, closing>>
             /\ shown' = shown \/ shown' = [shown EXCEPT !.queued = TRUE]
    <3>1. shown' \in Row /\ shown'.watched = shown.watched /\ shown'.outcome = shown.outcome
      BY <1>1, <2>4 DEF Row, RowState
    <3>2. RowFits(held', shown', run')
      BY <1>1, <1>6, <1>10, <2>2, <2>4, <3>1 DEF RowFits, RowRuns
    <3>3. TransferFits(creating, held', run', transfer')
      BY <1>10, IdleTransfer
    <3>4. AnswersFit(held', lookup, closing')
      BY <1>7, <2>4
    <3> QED BY <1>1, <1>6, <1>8, <2>4, <3>1, <3>2, <3>3, <3>4 DEF Told
  <2> QED BY <1>10, <2>3, <2>4 DEF CreateAnswered, known, u, pp
<1> QED BY <1>9, <1>10 DEF CreateAnswered

\* The parts of a session that is known.
LEMMA PartsKeep ==
    ASSUME FileInv, CompleteParts \/ PartsCompleted \/ SendFails
    PROVE  FileInv' /\ Told
<1>1. /\ TaskFits(held) /\ TaskHolds(held) /\ held \in Task /\ RowRuns(held, shown, run)
      /\ (shown.watched => held.kept = "none")
      /\ AnswersFit(held, lookup, closing) /\ shown \in Row
      /\ TransferFits(creating, held, run, transfer)
      /\ ordered \in [cancel : SUBSET Upload, complete : SUBSET Upload]
  BY TaskOfHeld, OrderedStays
<1>2. /\ run = "sending" /\ transfer.at \in {"sending", "completing"}
      /\ UNCHANGED <<remote, creating, lookup, closing>>
  BY DEF CompleteParts, PartsCompleted, SendFails, network
<1>3. held.saved # NoFile /\ ~held.pending /\ shown.watched /\ held.active = "run"
      /\ transfer.upload \in Upload /\ transfer \in Transfer
  BY <1>1, <1>2 DEF TransferFits, RowRuns
<1>4. ASSUME TaskFits(held'), RowFits(held', shown', run'),
             TransferFits(creating, held', run', transfer'), AnswersFit(held', lookup, closing),
             held'.creation = held.creation, held'.saved = held.saved,
             ordered' \in [cancel : SUBSET Upload, complete : SUBSET Upload]
      PROVE  FileInv'
  <2>1. AnswersFit(held', lookup', closing')
    BY <1>2, <1>4
  <2> QED BY <1>2, <1>4, <2>1, FileGoesOn
<1>5. CASE CompleteParts
  <2>1. /\ transfer' = [transfer EXCEPT !.at = "completing"]
        /\ ordered' = [ordered EXCEPT !.complete = ordered.complete \cup {transfer.upload}]
        /\ shown' = [shown EXCEPT !.phase = "completing"]
        /\ UNCHANGED <<held, run>>
    BY <1>5 DEF CompleteParts
  <2>2. shown' \in Row /\ shown'.watched = shown.watched /\ shown'.outcome = shown.outcome
    BY <1>1, <2>1 DEF Row, RowState
  <2>3. /\ transfer' \in Transfer /\ transfer'.at = "completing"
        /\ transfer'.upload = transfer.upload
    BY <1>3, <2>1 DEF Transfer
  <2>4. ordered' \in [cancel : SUBSET Upload, complete : SUBSET Upload]
    BY <1>1, <1>3, <2>1
  <2>5. RowFits(held', shown', run')
    BY <1>1, <2>1, <2>2 DEF RowFits, RowRuns
  <2>6. TransferFits(creating, held', run', transfer')
    BY <1>1, <1>3, <2>1, <2>3 DEF TransferFits
  <2> QED BY <1>1, <1>4, <2>1, <2>2, <2>4, <2>5, <2>6 DEF Told
<1>6. CASE PartsCompleted
  <2>1. transfer' = NoTransfer /\ run' = "waiting" /\ UNCHANGED <<ordered, held, shown>>
    BY <1>6 DEF PartsCompleted, network
  <2>2. RowFits(held', shown', run')
    BY <1>1, <1>2, <1>3, <2>1 DEF RowFits, RowRuns
  <2>3. TransferFits(creating, held', run', transfer')
    BY <2>1, IdleTransfer
  <2> QED BY <1>1, <1>4, <2>1, <2>2, <2>3 DEF Told
<1>7. CASE SendFails
  <2>1. transfer' = NoTransfer /\ RunEnds(held, shown) /\ ordered' = ordered
    BY <1>7 DEF SendFails, network
  <2>2. TransferFits(creating, held, run, NoTransfer)
    BY IdleTransfer
  <2>3. /\ TaskFits(held') /\ RowFits(held', shown', run')
        /\ TransferFits(creating, held', run', NoTransfer)
        /\ AnswersFit(held', lookup, closing)
        /\ held'.creation = held.creation /\ held'.saved = held.saved
        /\ shown'.outcome = shown.outcome
    BY ONLY <1>1, <2>1, <2>2, RunOver
  <2> QED BY <1>1, <1>4, <2>1, <2>3 DEF Told
<1> QED BY <1>5, <1>6, <1>7

LEMMA NothingAsked ==
    ASSUME NEW t, NEW l, NEW c, AnswersFit(t, l, c)
    PROVE  AnswersFit(t, NoAnswer, c) /\ AnswersFit(t, l, NoAnswer)
BY DEF AnswersFit, NoAnswer, Lookup, Closing, Identity

\* A run that waited for the lookup goes on.
LEMMA FoundFits ==
    ASSUME NEW t, TaskFits(t), t.active # "run", shown.watched => t.kept = "none",
           RowRuns(t, shown, run), TransferFits(creating, t, run, transfer),
           AnswersFit(t, lookup, closing), Found(t)
    PROVE  /\ TaskFits(held') /\ RowFits(held', shown', run')
           /\ TransferFits(creating, held', run', transfer')
           /\ AnswersFit(held', lookup', closing)
           /\ held'.creation = t.creation /\ held'.saved = t.saved /\ Told
<1>1. lookup' = NoAnswer /\ AnswersFit(t, NoAnswer, closing) /\ shown \in Row
  BY NothingAsked DEF Found, RowRuns
<1>2. CASE run = "looking"
  <2>1. RunOn(t, shown) /\ shown.watched /\ t.kept = "none"
    BY <1>2 DEF Found, RowRuns
  <2>2. /\ TaskFits(held') /\ RowFits(held', shown', run')
        /\ TransferFits(creating, held', run', transfer')
        /\ AnswersFit(held', NoAnswer, closing)
        /\ held'.creation = t.creation /\ held'.saved = t.saved
        /\ shown'.outcome = shown.outcome
    <3>1. TaskFits(t) /\ t.active # "run" /\ TransferFits(creating, t, run, transfer)
      OBVIOUS
    <3> QED BY ONLY <1>1, <2>1, <3>1, RunningOn
  <2> QED BY <1>1, <2>2 DEF Told
<1>3. CASE run # "looking"
  <2>1. held' = t /\ UNCHANGED <<shown, run, transfer>>
    BY <1>3 DEF Found
  <2> QED BY <1>1, <2>1 DEF RowFits, Told
<1> QED BY <1>2, <1>3

\* What holds while an answer of the lookup is still wanted.
LEMMA LookupUnderWay ==
    ASSUME FileInv, lookup.at # "idle", LookupCurrent
    PROVE  /\ held.active = "none" /\ run \in {"idle", "looking"}
           /\ lookup.upload \in Upload /\ lookup.upload = held.creation
           /\ held.saved \in {held.creation, NoFile}
<1>1. lookup.upload \in Upload /\ lookup.upload = held.creation /\ "lookup" \in held.fresh
  BY OrderedStays DEF AnswersFit, LookupCurrent, IsFresh
<1>2. TaskHolds(held) /\ RowRuns(held, shown, run)
  BY TaskOfHeld
<1> QED BY <1>1, <1>2, FileUploadNames DEF TaskHolds, RowRuns

\* The handlers that keep the network as it is, but for what they order.
LEMMA AdoptKeeps ==
    ASSUME FileInv, lookup.at # "idle", LookupCurrent, Adopt,
           UNCHANGED <<remote, creating>>
    PROVE  FileInv' /\ Told
<1> DEFINE u == lookup.upload
           p == [Pause(held) EXCEPT !.pending = FALSE, !.fresh = {}]
           t == Remember(p, u)
<1>1. /\ TaskFits(held) /\ TaskHolds(held) /\ held \in Task /\ RowRuns(held, shown, run)
      /\ (shown.watched => held.kept = "none")
      /\ AnswersFit(held, lookup, closing) /\ shown \in Row
      /\ TransferFits(creating, held, run, transfer)
      /\ ordered \in [cancel : SUBSET Upload, complete : SUBSET Upload]
  BY TaskOfHeld, OrderedStays
<1>2. /\ held.active = "none" /\ run \in {"idle", "looking"}
      /\ u \in Upload /\ u = held.creation /\ held.saved \in {u, NoFile}
  BY LookupUnderWay
<1>3. /\ p \in Task /\ p.creation = held.creation /\ p.saved = held.saved /\ ~p.pending
      /\ p.uncertain = held.uncertain /\ p.control = held.control /\ p.closed = held.closed
      /\ p.kept = held.kept /\ p.active = "none" /\ p.fresh = {}
  <2> DEFINE q == Pause(held)
  <2>1. /\ q \in Task /\ Like(q, held) /\ q.kept = held.kept /\ q.active = "none"
    BY <1>1, PausedFields
  <2> HIDE DEF q
  <2>2. p = [q EXCEPT !.pending = FALSE, !.fresh = {}]
    BY DEF q
  <2> HIDE DEF p
  <2> QED BY <2>1, <2>2 DEF Task, Like
<1> HIDE DEF p
<1>4. TaskHolds(p)
  BY <1>1, <1>3 DEF TaskHolds, Cancelling
<1>5. /\ TaskFits(t) /\ t.saved = u /\ t.creation = u /\ ~t.pending
      /\ t.control = held.control /\ t.kept = held.kept /\ t.active = "none" /\ t.fresh = {}
  <2>1. u \in {p.creation, p.saved}
    BY <1>2, <1>3
  <2>2. /\ TaskFits(t) /\ t.saved = u /\ t.creation = p.creation
        /\ t.pending = p.pending /\ t.control = p.control
        /\ t.kept = p.kept /\ t.active = p.active /\ t.fresh = p.fresh
    BY ONLY <1>2, <1>4, <2>1, RememberedFields
  <2> QED BY <1>2, <1>3, <2>2
<1> HIDE DEF t, u
<1>6. RowRuns(t, shown, run) /\ (shown.watched => t.kept = "none")
  BY <1>1, <1>2, <1>5 DEF RowRuns
<1>7. TransferFits(creating, t, run, transfer)
  BY <1>1, <1>2, <1>5 DEF TransferFits
<1>8. AnswersFit(t, lookup, closing)
  BY <1>1, <1>5 DEF AnswersFit
<1>9. ASSUME TaskFits(held'), RowFits(held', shown', run'),
             TransferFits(creating, held', run', transfer'),
             AnswersFit(held', lookup', closing'),
             held'.creation = t.creation, held'.saved = t.saved,
             ordered' \in [cancel : SUBSET Upload, complete : SUBSET Upload]
      PROVE  FileInv'
  <2>1. held.creation \in {held'.creation, held'.saved, NoFile}
        /\ held.saved \in {held'.creation, held'.saved, NoFile}
    BY <1>2, <1>5, <1>9
  <2> QED BY <1>9, <2>1, FileGoesOn
<1>10. CASE StartClosing(t, u) /\ lookup' = NoAnswer /\ UNCHANGED <<run, transfer>>
  <2>1. AnswersFit(t, NoAnswer, closing)
    BY <1>8, NothingAsked
  <2>2. /\ TaskFits(held') /\ RowFits(held', shown', run)
        /\ TransferFits(creating, held', run, transfer)
        /\ AnswersFit(held', NoAnswer, closing')
        /\ held'.creation = t.creation /\ held'.saved = t.saved
        /\ ordered' \in [cancel : SUBSET Upload, complete : SUBSET Upload] /\ Told
    BY ONLY <1>1, <1>2, <1>5, <1>6, <1>7, <1>10, <2>1, ClosingStarts
  <2> QED BY <1>9, <1>10, <2>2
<1>11. CASE Found(t) /\ UNCHANGED <<ordered, closing>>
  <2>1. /\ TaskFits(held') /\ RowFits(held', shown', run')
        /\ TransferFits(creating, held', run', transfer')
        /\ AnswersFit(held', lookup', closing)
        /\ held'.creation = t.creation /\ held'.saved = t.saved /\ Told
    <3>1. t.active # "run" /\ Found(t)
      BY <1>5, <1>11
    <3> QED BY ONLY <1>5, <1>6, <1>7, <1>8, <3>1, FoundFits
  <2> QED BY <1>1, <1>9, <1>11, <2>1
<1> QED BY <1>10, <1>11 DEF Adopt, t, p, u

\* The lookup shows what the task knows already, or that there is nothing yet.
LEMMA FoundKeeps ==
    ASSUME FileInv, lookup.at # "idle", LookupCurrent, Found(held),
           UNCHANGED <<remote, creating, ordered, closing>>
    PROVE  FileInv' /\ Told
<1>1. /\ TaskFits(held) /\ RowRuns(held, shown, run) /\ (shown.watched => held.kept = "none")
      /\ AnswersFit(held, lookup, closing) /\ TransferFits(creating, held, run, transfer)
      /\ ordered \in [cancel : SUBSET Upload, complete : SUBSET Upload]
  BY TaskOfHeld, OrderedStays
<1>2. held.active # "run"
  BY LookupUnderWay
<1>3. /\ TaskFits(held') /\ RowFits(held', shown', run')
      /\ TransferFits(creating, held', run', transfer')
      /\ AnswersFit(held', lookup', closing)
      /\ held'.creation = held.creation /\ held'.saved = held.saved /\ Told
  <2>1. Found(held)
    OBVIOUS
  <2> QED BY ONLY <1>1, <1>2, <2>1, FoundFits
<1>4. AnswersFit(held', lookup', closing')
      /\ ordered' \in [cancel : SUBSET Upload, complete : SUBSET Upload]
  BY <1>1, <1>3
<1> QED BY <1>3, <1>4, FileGoesOn

LEMMA LookupKeeps ==
    ASSUME FileInv, LookupAnswered \/ ReplayAnswered \/ LookupFails \/ LookupStale
    PROVE  FileInv' /\ Told
<1>1. /\ TaskFits(held) /\ TaskHolds(held) /\ held \in Task /\ RowRuns(held, shown, run)
      /\ (shown.watched => held.kept = "none")
      /\ AnswersFit(held, lookup, closing) /\ shown \in Row
      /\ TransferFits(creating, held, run, transfer)
      /\ ordered \in [cancel : SUBSET Upload, complete : SUBSET Upload]
      /\ NetworkFits /\ Remembers(held)
  BY TaskOfHeld, OrderedStays DEF FileInv
<1>2. lookup.at # "idle"
  BY DEF LookupAnswered, ReplayAnswered, LookupFails, LookupStale
<1>3. ASSUME LookupCurrent
      PROVE  /\ held.active = "none" /\ run \in {"idle", "looking"}
             /\ lookup.upload \in Upload /\ lookup.upload = held.creation
  BY <1>2, <1>3, LookupUnderWay
<1>4. CASE LookupAnswered
  <2>1. LookupCurrent
    BY <1>4 DEF LookupAnswered
  <2>2. CASE Found(held) /\ UNCHANGED <<remote, creating, ordered, closing>>
    BY <1>2, <2>1, <2>2, FoundKeeps
  <2>3. CASE Adopt /\ UNCHANGED <<remote, creating>>
    BY <1>2, <2>1, <2>3, AdoptKeeps
  <2>4. CASE /\ remote[lookup.upload] = "none" /\ ~held.pending
             /\ creating[lookup.upload] < 2
             /\ creating' = [creating EXCEPT ![lookup.upload] = creating[lookup.upload] + 1]
             /\ lookup' = [lookup EXCEPT !.at = "creating"]
             /\ UNCHANGED <<held, shown, run, transfer>>
             /\ UNCHANGED <<remote, ordered, closing>>
    <3>1. creating' \in [Upload -> 0 .. 2]
          /\ \A v \in Upload : v # lookup.upload => creating'[v] = creating[v]
      <4>1. creating \in [Upload -> 0 .. 2] /\ creating[lookup.upload] \in 0 .. 2
        BY <1>1, <1>3, <2>1 DEF NetworkFits
      <4>2. creating[lookup.upload] + 1 \in 0 .. 2
        BY <2>4, <4>1
      <4> QED BY <2>4, <4>1, <4>2
    <3>2. NetworkFits'
      BY <1>1, <2>4, <3>1 DEF NetworkFits
    <3>3. Remembers(held)'
      BY <1>1, <1>3, <2>1, <2>4, <3>1 DEF Remembers, MayLive
    <3>4. TransferFits(creating', held', run', transfer')
      BY <1>1, <2>4 DEF TransferFits
    <3>5. AnswersFit(held', lookup', closing')
      <4>1. lookup' \in Lookup /\ lookup'.upload = lookup.upload
        BY <1>1, <2>4 DEF AnswersFit, Lookup
      <4> QED BY <1>1, <1>3, <2>1, <2>4, <4>1 DEF AnswersFit
    <3>6. TaskFits(held') /\ RowFits(held', shown', run')
      BY <1>1, <2>4 DEF RowFits
    <3> QED BY <2>4, <3>2, <3>3, <3>4, <3>5, <3>6 DEF FileInv, Told
  <2> QED BY <1>4, <2>2, <2>3, <2>4 DEF LookupAnswered, network
<1>5. CASE ReplayAnswered
  BY <1>2, <1>5, FoundKeeps, AdoptKeeps DEF ReplayAnswered
<1>6. CASE LookupFails
  <2> DEFINE c == IF Cancelling(held) THEN "cancel-unconfirmed" ELSE held.control
             t == [held EXCEPT !.blocked = TRUE, !.control = c]
             s == IF run = "looking" THEN Failed(t, shown) ELSE shown
             r == IF run = "looking" THEN "idle" ELSE run
  <2> PICK deleting \in BOOLEAN : deleting = Deleting
    BY DEF Deleting
  <2>1. /\ Becomes(t, s, deleting) /\ lookup' = NoAnswer /\ run' = r
        /\ UNCHANGED <<remote, creating, ordered, transfer, closing>> /\ LookupCurrent
    BY <1>6 DEF LookupFails, network
  <2>2. c \in {"open", "cancelling", "cancel-unconfirmed", "completion"}
        /\ (c # "open" <=> Cancelling(held))
    BY <1>1 DEF Task, Cancelling
  <2> HIDE DEF c
  <2>3. /\ t \in Task /\ t.creation = held.creation /\ t.saved = held.saved
        /\ t.pending = held.pending /\ t.blocked /\ t.control = c
        /\ t.closed = held.closed /\ t.kept = held.kept
        /\ t.active = held.active /\ t.fresh = held.fresh
    BY <1>1, <2>2 DEF Task
  <2>4. s \in Row /\ s.watched = shown.watched /\ s.outcome = shown.outcome
    BY <1>1, FailedFields
  <2>5. r = "idle"
    BY <1>3, <2>1
  <2> HIDE DEF t, s, r
  <2>6. TaskFits(t)
    BY <1>1, <2>2, <2>3 DEF TaskFits, TaskHolds, Cancelling
  <2>7. RowRuns(t, s, r)
    BY <1>1, <1>3, <2>1, <2>3, <2>4, <2>5 DEF RowRuns
  <2>8. TransferFits(creating, t, r, transfer)
    BY <1>1, <2>3, <2>5 DEF TransferFits
  <2>9. AnswersFit(t, NoAnswer, closing)
    <3>1. AnswersFit(held, NoAnswer, closing)
      BY <1>1, NothingAsked
    <3> QED BY <3>1, <2>2, <2>3 DEF AnswersFit, Cancelling
  <2>10. /\ TaskFits(held') /\ RowFits(held', shown', r)
         /\ TransferFits(creating, held', r, transfer) /\ AnswersFit(held', NoAnswer, closing)
         /\ held'.creation = t.creation /\ held'.saved = t.saved /\ Told
    BY ONLY deleting \in BOOLEAN, <2>1, <2>4, <2>6, <2>7, <2>8, <2>9, BecomesTells
  <2>11. /\ RowFits(held', shown', run') /\ TransferFits(creating, held', run', transfer')
         /\ AnswersFit(held', lookup', closing')
         /\ ordered' \in [cancel : SUBSET Upload, complete : SUBSET Upload]
    BY <1>1, <2>1, <2>10
  <2> QED BY <2>1, <2>3, <2>10, <2>11, FileGoesOn
<1>7. CASE LookupStale
  <2>1. lookup' = NoAnswer /\ UNCHANGED <<remote, creating, ordered, held, transfer, closing>>
    BY <1>7 DEF LookupStale, network
  <2>2. /\ shown' \in Row /\ shown'.watched = shown.watched /\ shown'.outcome = shown.outcome
        /\ run' = IF run = "looking" THEN "idle" ELSE run
    BY <1>1, <1>7, FailedFields DEF LookupStale
  <2>3. RowFits(held', shown', run')
    BY <1>1, <2>1, <2>2 DEF RowFits, RowRuns
  <2>4. TransferFits(creating, held', run', transfer')
    BY <1>1, <2>1, <2>2 DEF TransferFits
  <2>5. AnswersFit(held', lookup', closing')
    BY <1>1, <2>1, NothingAsked
  <2>6. TaskFits(held') /\ held' = held
        /\ ordered' \in [cancel : SUBSET Upload, complete : SUBSET Upload]
    BY <1>1, <2>1
  <2> QED BY <2>1, <2>2, <2>3, <2>4, <2>5, <2>6, FileGoesOn DEF Told
<1> QED BY <1>4, <1>5, <1>6, <1>7

\* What is left of a cancellation once its DELETE has been answered.
LEMMA ClosingDone ==
    ASSUME NEW t, TaskFits(t), RowRuns(t, shown, run),
           TransferFits(creating, t, run, transfer), AnswersFit(t, lookup, closing),
           ClosingEnds(t)
    PROVE  /\ TaskFits(held') /\ RowFits(held', shown', run)
           /\ TransferFits(creating, held', run, transfer)
           /\ AnswersFit(held', lookup, closing')
           /\ held'.creation = t.creation /\ held'.saved = t.saved /\ Told
<1> DEFINE n == FinishCancellation(t, FALSE)
<1>1. /\ TaskFits(n) /\ n.creation = t.creation /\ n.saved = t.saved
      /\ n.pending = t.pending /\ n.active = t.active /\ n.fresh \subseteq t.fresh
      /\ n.control # t.control => n.fresh = {}
  <2>1. FALSE \in BOOLEAN /\ TaskFits(t)
    OBVIOUS
  <2> QED BY ONLY <2>1, FinishedFields
<1>2. closing' = NoAnswer /\ Becomes(n, shown, FALSE) /\ shown.outcome = shown.outcome
  BY DEF ClosingEnds
<1> HIDE DEF n
<1>3. RowRuns(n, shown, run)
  BY <1>1 DEF RowRuns
<1>4. TransferFits(creating, n, run, transfer)
  BY <1>1 DEF TransferFits
<1>5. AnswersFit(n, lookup, NoAnswer)
  <2>1. AnswersFit(t, lookup, NoAnswer)
    BY NothingAsked
  <2> QED BY <2>1 DEF AnswersFit, NoAnswer
<1>6. /\ TaskFits(held') /\ RowFits(held', shown', run)
      /\ TransferFits(creating, held', run, transfer)
      /\ AnswersFit(held', lookup, NoAnswer)
      /\ held'.creation = n.creation /\ held'.saved = n.saved /\ Told
  BY ONLY FALSE \in BOOLEAN, <1>1, <1>2, <1>3, <1>4, <1>5, BecomesTells
<1> QED BY <1>1, <1>2, <1>6

\* The session was cancelled, and the task has just heard of it.
LEMMA CancelledKeeps ==
    ASSUME FileInv, closing.at # "idle", ClosingCurrent,
           remote[closing.upload] = "CANCELLED",
           ClosingEnds(CloseSaved(held, closing.upload)),
           UNCHANGED <<remote, creating, ordered, run, transfer, lookup>>
    PROVE  FileInv' /\ Told
<1> DEFINE n == CloseSaved(held, closing.upload)
<1>1. /\ TaskFits(held) /\ TaskHolds(held) /\ held \in Task /\ RowRuns(held, shown, run)
      /\ AnswersFit(held, lookup, closing) /\ TransferFits(creating, held, run, transfer)
      /\ ordered \in [cancel : SUBSET Upload, complete : SUBSET Upload]
  BY TaskOfHeld, OrderedStays
<1>2. /\ closing.upload \in Upload /\ held.saved = closing.upload /\ Cancelling(held)
      /\ held.active = "none" /\ held.kept = "none"
  <2>1. closing.upload \in Upload /\ held.saved = closing.upload /\ Cancelling(held)
    BY <1>1 DEF ClosingCurrent, IsFresh, AnswersFit
  <2> QED BY <1>1, <2>1, FileUploadNames DEF TaskHolds, Task
<1>3. n = CloseSaved(held, held.saved) /\ held.saved \in Upload
      /\ held.active # "follower"
  BY <1>2
<1> HIDE DEF n
<1>4. TaskFits(n)
  BY <1>1, <1>2, <1>3, ClosedHolds
<1>5. /\ n.saved = NoFile /\ n.creation = NoFile /\ n.fresh = {}
      /\ n.pending = held.pending /\ n.control = held.control
      /\ n.kept = held.kept /\ n.active = held.active
  BY <1>1, <1>3, ClosedFields
<1>6. RowRuns(n, shown, run) /\ run \in {"idle", "looking"}
  BY <1>1, <1>2, <1>5 DEF RowRuns
<1>7. TransferFits(creating, n, run, transfer) /\ AnswersFit(n, lookup, closing)
  BY <1>1, <1>5, <1>6 DEF TransferFits, AnswersFit
<1>8. ClosingEnds(n)
  BY DEF n
<1>9. /\ TaskFits(held') /\ RowFits(held', shown', run)
      /\ TransferFits(creating, held', run, transfer)
      /\ AnswersFit(held', lookup, closing') /\ Told
  BY ONLY <1>4, <1>6, <1>7, <1>8, ClosingDone
<1>10. Remembers(held')
  <2>1. remote[held.saved] \in Over \cup {"READY"}
    BY <1>2 DEF Over
  <2> QED BY <1>3, <2>1, OverIsForgotten
<1>11. /\ RowFits(held', shown', run') /\ TransferFits(creating, held', run', transfer')
       /\ AnswersFit(held', lookup', closing')
       /\ ordered' \in [cancel : SUBSET Upload, complete : SUBSET Upload]
  BY <1>1, <1>9
<1> QED BY <1>9, <1>10, <1>11, FileStays

\* The session is not over: the task keeps it, whatever it thinks of it.
LEMMA NotClosedKeeps ==
    ASSUME FileInv, NEW t, TaskFits(t), RowRuns(t, shown, run),
           TransferFits(creating, t, run, transfer), AnswersFit(t, lookup, closing),
           t.creation = held.creation, t.saved = held.saved, ClosingEnds(t),
           UNCHANGED <<remote, creating, ordered, run, transfer, lookup>>
    PROVE  FileInv' /\ Told
<1>1. /\ TaskFits(held') /\ RowFits(held', shown', run)
      /\ TransferFits(creating, held', run, transfer)
      /\ AnswersFit(held', lookup, closing')
      /\ held'.creation = t.creation /\ held'.saved = t.saved /\ Told
  BY ClosingDone
<1>2. /\ RowFits(held', shown', run') /\ TransferFits(creating, held', run', transfer')
      /\ AnswersFit(held', lookup', closing')
      /\ ordered' \in [cancel : SUBSET Upload, complete : SUBSET Upload]
  BY <1>1, OrderedStays
<1> QED BY <1>1, <1>2, FileGoesOn

LEMMA ClosingKeeps ==
    ASSUME FileInv, CloseConfirmed \/ CloseFails \/ CloseObserved \/ CloseUnobserved
    PROVE  FileInv' /\ Told
<1>1. /\ TaskFits(held) /\ TaskHolds(held) /\ held \in Task /\ RowRuns(held, shown, run)
      /\ (shown.watched => held.kept = "none") /\ shown \in Row
      /\ AnswersFit(held, lookup, closing) /\ TransferFits(creating, held, run, transfer)
      /\ ordered \in [cancel : SUBSET Upload, complete : SUBSET Upload]
  BY TaskOfHeld, OrderedStays
<1>2. /\ closing.at # "idle" /\ UNCHANGED <<remote, creating, ordered, run, transfer, lookup>>
  BY DEF CloseConfirmed, CloseFails, CloseObserved, CloseUnobserved, network
<1>3. ASSUME ClosingCurrent
      PROVE  /\ held.saved # NoFile /\ Cancelling(held) /\ held.active = "none"
             /\ held.kept = "none" /\ run \in {"idle", "looking"}
  <2>1. closing.upload \in Upload /\ held.saved = closing.upload /\ Cancelling(held)
    BY <1>1, <1>2, <1>3 DEF ClosingCurrent, IsFresh, AnswersFit
  <2> QED BY <1>1, <2>1, FileUploadNames DEF TaskHolds, Task, RowRuns
<1>4. CASE ClosingEnds(held)
  BY <1>1, <1>2, <1>4, NotClosedKeeps
<1>5. ASSUME ClosingCurrent, NEW c \in {"cancel-unconfirmed", "completion"},
             NEW t, t = [held EXCEPT !.control = c]
      PROVE  /\ TaskFits(t) /\ RowRuns(t, shown, run)
             /\ TransferFits(creating, t, run, transfer) /\ AnswersFit(t, lookup, closing)
             /\ t.creation = held.creation /\ t.saved = held.saved
  <2>1. /\ t \in Task /\ t.creation = held.creation /\ t.saved = held.saved
        /\ t.pending = held.pending /\ t.uncertain = held.uncertain
        /\ t.blocked = held.blocked /\ t.control = c /\ t.closed = held.closed
        /\ t.kept = held.kept /\ t.active = held.active /\ t.fresh = held.fresh
    BY <1>1, <1>5 DEF Task
  <2>2. TaskFits(t)
    BY <1>1, <1>3, <1>5, <2>1 DEF TaskFits, TaskHolds, Cancelling
  <2>3. RowRuns(t, shown, run)
    BY <1>1, <2>1 DEF RowRuns
  <2>4. TransferFits(creating, t, run, transfer)
    BY <1>1, <2>1 DEF TransferFits
  <2>5. AnswersFit(t, lookup, closing)
    BY <1>1, <1>5, <2>1 DEF AnswersFit, Cancelling
  <2> QED BY <2>1, <2>2, <2>3, <2>4, <2>5
<1>6. CASE ClosingCurrent /\ ClosingEnds([held EXCEPT !.control = "cancel-unconfirmed"])
  <2> DEFINE t == [held EXCEPT !.control = "cancel-unconfirmed"]
  <2>1. /\ TaskFits(t) /\ RowRuns(t, shown, run)
        /\ TransferFits(creating, t, run, transfer) /\ AnswersFit(t, lookup, closing)
        /\ t.creation = held.creation /\ t.saved = held.saved /\ ClosingEnds(t)
    BY <1>5, <1>6
  <2> HIDE DEF t
  <2> QED BY <1>2, <2>1, NotClosedKeeps
<1>7. CASE CloseConfirmed
  <2>1. CASE ClosingCurrent
    <3>1. /\ remote[closing.upload] = "CANCELLED"
          /\ ClosingEnds(CloseSaved(held, closing.upload))
      BY <1>7, <2>1 DEF CloseConfirmed
    <3> QED BY <1>2, <2>1, <3>1, CancelledKeeps
  <2>2. CASE ~ClosingCurrent
    BY <1>4, <1>7, <2>2 DEF CloseConfirmed
  <2> QED BY <2>1, <2>2
<1>8. CASE CloseFails
  <2>1. closing' = [closing EXCEPT !.at = "observing"] /\ UNCHANGED <<held, shown>>
    BY <1>8 DEF CloseFails
  <2>2. closing' \in Closing /\ closing'.upload = closing.upload
    BY <1>1, <2>1 DEF AnswersFit, Closing
  <2>3. AnswersFit(held', lookup', closing')
    BY <1>1, <1>2, <2>1, <2>2 DEF AnswersFit
  <2>4. /\ TaskFits(held') /\ RowFits(held', shown', run')
        /\ TransferFits(creating, held', run', transfer') /\ held' = held
        /\ ordered' \in [cancel : SUBSET Upload, complete : SUBSET Upload]
    BY <1>1, <1>2, <2>1 DEF RowFits
  <2> QED BY <1>2, <2>1, <2>3, <2>4, FileGoesOn DEF Told
<1>9. CASE CloseUnobserved
  BY <1>4, <1>6, <1>9 DEF CloseUnobserved
<1>10. CASE CloseObserved
  <2>1. CASE ClosingCurrent /\ remote[closing.upload] = "CANCELLED"
             /\ ClosingEnds(CloseSaved(held, closing.upload))
    BY <1>2, <2>1, CancelledKeeps
  <2>2. CASE /\ ClosingCurrent /\ UNCHANGED closing
             /\ Becomes([held EXCEPT !.control = "completion"], shown, TRUE)
    <3> DEFINE t == [held EXCEPT !.control = "completion"]
    <3>1. /\ TaskFits(t) /\ RowRuns(t, shown, run)
          /\ TransferFits(creating, t, run, transfer) /\ AnswersFit(t, lookup, closing)
          /\ t.creation = held.creation /\ t.saved = held.saved
      BY <1>5, <2>2
    <3>2. Becomes(t, shown, TRUE) /\ shown.outcome = shown.outcome
      BY <2>2
    <3> HIDE DEF t
    <3>3. /\ TaskFits(held') /\ RowFits(held', shown', run)
          /\ TransferFits(creating, held', run, transfer)
          /\ AnswersFit(held', lookup, closing)
          /\ held'.creation = t.creation /\ held'.saved = t.saved /\ Told
      BY ONLY TRUE \in BOOLEAN, <3>1, <3>2, BecomesTells
    <3>4. /\ RowFits(held', shown', run') /\ TransferFits(creating, held', run', transfer')
          /\ AnswersFit(held', lookup', closing')
          /\ ordered' \in [cancel : SUBSET Upload, complete : SUBSET Upload]
      BY <1>1, <1>2, <2>2, <3>3
    <3> QED BY <1>2, <3>1, <3>3, <3>4, FileGoesOn
  <2> DEFINE e == SettleCancelIntent(held)
  <2>3. ASSUME ClosingCurrent
        PROVE  /\ e \in Task /\ e.creation = held.creation /\ e.saved = held.saved
               /\ e.pending = held.pending /\ e.uncertain = held.uncertain
               /\ e.blocked = held.blocked /\ e.closed = held.closed /\ e.kept = "none"
               /\ e.active = "none" /\ e.control = "open" /\ e.fresh = {}
    BY <1>1, <1>3, <2>3, SettledFields
  <2>4. CASE ClosingCurrent /\ ClosingEnds([SettleCancelIntent(held) EXCEPT !.kept = "finished"])
    <3> DEFINE t == [e EXCEPT !.kept = "finished"]
    <3>1. ClosingEnds(t)
      BY <2>4
    <3> HIDE DEF e
    <3>2. /\ t \in Task /\ t.creation = held.creation /\ t.saved = held.saved
          /\ t.pending = held.pending /\ t.uncertain = held.uncertain
          /\ t.blocked = held.blocked /\ t.closed = held.closed /\ t.kept = "finished"
          /\ t.active = "none" /\ t.control = "open" /\ t.fresh = {}
      BY <2>3, <2>4 DEF Task
    <3> HIDE DEF t
    <3>3. TaskFits(t)
      BY <1>1, <1>3, <2>4, <3>2 DEF TaskFits, TaskHolds, Cancelling
    <3>4. RowRuns(t, shown, run)
      BY <1>1, <1>3, <2>4, <3>2 DEF RowRuns
    <3>5. TransferFits(creating, t, run, transfer)
      BY <1>1, <1>3, <2>4, <3>2 DEF TransferFits
    <3>6. AnswersFit(t, lookup, closing)
      BY <1>1, <3>2 DEF AnswersFit
    <3> QED BY <1>2, <3>1, <3>2, <3>3, <3>4, <3>5, <3>6, NotClosedKeeps
  <2>5. CASE /\ ClosingCurrent /\ held' = SettleCancelIntent(held) /\ closing' = NoAnswer
             /\ shown' = IF shown.watched THEN [shown EXCEPT !.phase = "failed"] ELSE shown
    <3>1. shown' \in Row /\ shown'.watched = shown.watched /\ shown'.outcome = shown.outcome
      BY <1>1, <2>5 DEF Row, RowState
    <3>2. held' = e
      BY <2>5
    <3> HIDE DEF e
    <3>3. TaskFits(held')
      BY <1>1, <1>3, <2>3, <2>5, <3>2 DEF TaskFits, TaskHolds, Cancelling
    <3>4. RowFits(held', shown', run')
      BY <1>1, <1>2, <1>3, <2>3, <2>5, <3>1, <3>2 DEF RowFits, RowRuns
    <3>5. TransferFits(creating, held', run', transfer')
      BY <1>1, <1>2, <1>3, <2>3, <2>5, <3>2 DEF TransferFits
    <3>6. AnswersFit(held', lookup', closing')
      <4>1. AnswersFit(held, lookup, NoAnswer)
        BY <1>1, NothingAsked
      <4> QED BY <1>2, <2>3, <2>5, <3>2, <4>1 DEF AnswersFit
    <3>7. held'.creation = held.creation /\ held'.saved = held.saved
          /\ ordered' \in [cancel : SUBSET Upload, complete : SUBSET Upload]
      BY <1>1, <1>2, <2>3, <2>5, <3>2
    <3> QED BY <1>2, <3>1, <3>3, <3>4, <3>5, <3>6, <3>7, FileGoesOn DEF Told
  <2> HIDE DEF e
  <2> QED BY <1>4, <1>6, <1>10, <2>1, <2>2, <2>4, <2>5 DEF CloseObserved
<1> QED BY <1>7, <1>8, <1>9, <1>10

\* A click on cancel, wherever the file is.
LEMMA CancelKeeps == ASSUME FileInv, CancelFile PROVE FileInv' /\ Told
<1> DEFINE row == [shown EXCEPT !.stopped = TRUE, !.queued = FALSE, !.watched = TRUE,
                                !.phase = "cancelling"]
<1> PICK b \in BOOLEAN : b = Deleting
  BY DEF Deleting
<1> DEFINE d == Delivered(held, row, b)
           a == d.task
           q == Pause(a)
           wish == a.creation # NoFile
           t == [q EXCEPT !.control = "cancelling", !.cancelAsked = wish]
           cleared == IF transfer.at \in {"sending", "completing"} THEN NoTransfer ELSE transfer
<1>1. /\ TaskFits(held) /\ TaskHolds(held) /\ held \in Task /\ RowRuns(held, shown, run)
      /\ (shown.watched => held.kept = "none") /\ shown \in Row
      /\ AnswersFit(held, lookup, closing) /\ TransferFits(creating, held, run, transfer)
      /\ ordered \in [cancel : SUBSET Upload, complete : SUBSET Upload]
  BY TaskOfHeld, OrderedStays
<1>2. row \in Row /\ row.watched /\ row.outcome = shown.outcome
  BY <1>1 DEF Row, RowState, CancelFile
<1>3. UNCHANGED <<remote, creating>>
  BY DEF CancelFile
<1>4. \/ /\ held' = a /\ shown' = d.row
         /\ UNCHANGED <<run, transfer, lookup, closing, ordered>>
      \/ /\ ~Deleting /\ run' = "idle" /\ transfer' = cleared
         /\ \/ /\ t.saved # NoFile
               /\ held' = [t EXCEPT !.marked = TRUE, !.fresh = t.fresh \cup {"closing"}]
               /\ closing' = [at |-> "deleting", upload |-> t.saved]
               /\ ordered' = [ordered EXCEPT !.cancel = ordered.cancel \cup {t.saved}]
               /\ shown' = row /\ UNCHANGED lookup
            \/ /\ t.saved = NoFile /\ t.creation # NoFile
               /\ StartLookup(t) /\ shown' = row /\ UNCHANGED <<closing, ordered>>
            \/ /\ t.saved = NoFile /\ t.creation = NoFile
               /\ held' = Delivered(FinishCancellation(t, FALSE), row, FALSE).task
               /\ shown' = Delivered(FinishCancellation(t, FALSE), row, FALSE).row
               /\ UNCHANGED <<lookup, closing, ordered>>
  BY DEF CancelFile
<1> HIDE DEF row, d
<1>5. /\ TaskFits(a) /\ d.row \in Row /\ Like(a, held) /\ d.row.watched /\ a.kept = "none"
      /\ \/ a.active = held.active /\ a.fresh = held.fresh
         \/ /\ a.active = "follower" /\ a.fresh = {} /\ held.active = "none"
            /\ ~Cancelling(held)
      /\ d.row.outcome = "cancelled" => shown.outcome = "cancelled" \/ held.kept = "cancelled"
  <2>1. d = Delivered(held, row, b) /\ TaskFits(held) /\ row \in Row
    BY <1>1, <1>2 DEF d
  <2>2. /\ TaskFits(a) /\ d.row \in Row /\ Like(a, held)
        /\ d.row.watched = row.watched
        /\ IF row.watched THEN a.kept = "none" ELSE a = held
        /\ \/ a.active = held.active /\ a.fresh = held.fresh
           \/ /\ a.active = "follower" /\ a.fresh = {} /\ row.watched
              /\ held.active = "none" /\ ~b /\ ~held.pending /\ ~Cancelling(held)
        /\ d.row.outcome = "cancelled" => row.outcome = "cancelled" \/ held.kept = "cancelled"
    BY ONLY <2>1, b \in BOOLEAN, DeliveredFields, SMTT(60)
  <2> QED BY <1>2, <2>2
<1> HIDE DEF a
<1>6. held.kept = "cancelled" => held.creation = NoFile /\ held.saved = NoFile
  BY <1>1 DEF TaskHolds
<1>7. ASSUME TaskFits(held'), RowFits(held', shown', run'),
             TransferFits(creating, held', run', transfer'),
             AnswersFit(held', lookup', closing'),
             held'.creation = held.creation, held'.saved = held.saved,
             ordered' \in [cancel : SUBSET Upload, complete : SUBSET Upload]
      PROVE  FileInv'
  BY <1>3, <1>7, FileGoesOn
<1>8. CASE held' = a /\ shown' = d.row /\ UNCHANGED <<run, transfer, lookup, closing, ordered>>
  <2>1. RowFits(held', shown', run')
    BY <1>1, <1>5, <1>8 DEF RowFits, RowRuns, Like
  <2>2. TransferFits(creating, held', run', transfer')
    BY <1>1, <1>5, <1>8 DEF TransferFits, Like
  <2>3. AnswersFit(held', lookup', closing')
    BY <1>1, <1>5, <1>8 DEF AnswersFit, Like, Cancelling
  <2>4. TaskFits(held') /\ held'.creation = held.creation /\ held'.saved = held.saved
        /\ ordered' \in [cancel : SUBSET Upload, complete : SUBSET Upload]
    BY <1>1, <1>5, <1>8 DEF Like
  <2> QED BY <1>5, <1>6, <1>7, <1>8, <2>1, <2>2, <2>3, <2>4 DEF Told
<1>9. /\ TaskFits(q) /\ q \in Task /\ Like(q, held) /\ q.kept = "none" /\ q.active = "none"
      /\ q.fresh \in {held.fresh, {}} /\ wish \in BOOLEAN
  <2>1. TaskHolds(a) /\ q = Pause(a)
    BY <1>5 DEF TaskFits
  <2> HIDE DEF q
  <2>2. /\ q \in Task /\ Like(q, a) /\ q.kept = a.kept /\ q.active = "none"
        /\ q.fresh = a.fresh /\ (TaskFits(a) => TaskFits(q))
    BY ONLY <2>1, PausedFields
  <2> QED BY <1>5, <2>2 DEF Like
<1> HIDE DEF q, wish
<1>10. /\ t \in Task /\ t.creation = held.creation /\ t.saved = held.saved
       /\ t.pending = held.pending /\ t.uncertain = held.uncertain
       /\ t.blocked = held.blocked /\ t.closed = held.closed
       /\ t.control = "cancelling" /\ t.kept = "none" /\ t.active = "none"
       /\ t.fresh \in {held.fresh, {}}
  BY <1>9 DEF Task, Like
<1> HIDE DEF t
<1>11. TaskFits(t)
  BY <1>9, <1>10 DEF TaskFits, TaskHolds, Like, Cancelling
<1>12. cleared \in Transfer /\ TransferFits(creating, t, "idle", cleared)
  <2>1. CASE transfer.at \in {"sending", "completing"}
    <3>1. cleared = NoTransfer /\ NoTransfer \in Transfer
      BY <2>1 DEF NoTransfer, Transfer, Identity
    <3> QED BY <3>1, IdleTransfer
  <2>2. CASE transfer.at \notin {"sending", "completing"}
    <3>1. cleared = transfer
      BY <2>2
    <3> QED BY <1>1, <1>10, <3>1 DEF TransferFits
  <2> QED BY <2>1, <2>2
<1> HIDE DEF cleared
<1>13. AnswersFit(t, lookup, closing)
  BY <1>1, <1>10 DEF AnswersFit, Cancelling
<1>14. CASE /\ run' = "idle" /\ transfer' = cleared /\ t.saved # NoFile
            /\ held' = [t EXCEPT !.marked = TRUE, !.fresh = t.fresh \cup {"closing"}]
            /\ closing' = [at |-> "deleting", upload |-> t.saved]
            /\ ordered' = [ordered EXCEPT !.cancel = ordered.cancel \cup {t.saved}]
            /\ shown' = row /\ UNCHANGED lookup
  <2>1. t.fresh \cup {"closing"} \in SUBSET {"transfer", "lookup", "closing"}
        /\ t.saved \in Upload
    BY <1>10, <1>14 DEF Task, Identity
  <2>2. /\ held' \in Task /\ held'.creation = t.creation /\ held'.saved = t.saved
        /\ held'.pending = t.pending /\ held'.uncertain = t.uncertain
        /\ held'.blocked = t.blocked /\ held'.closed = t.closed
        /\ held'.control = "cancelling" /\ held'.kept = "none" /\ held'.active = "none"
        /\ held'.fresh = t.fresh \cup {"closing"}
    BY <1>10, <1>14, <2>1 DEF Task
  <2>3. TaskFits(held')
    BY <1>10, <1>11, <2>2 DEF TaskFits, TaskHolds, Cancelling
  <2>4. RowFits(held', shown', run')
    BY <1>2, <1>14, <2>2 DEF RowFits, RowRuns
  <2>5. TransferFits(creating, held', run', transfer')
    BY <1>12, <1>14, <2>2 DEF TransferFits
  <2>6. AnswersFit(held', lookup', closing')
    BY <1>13, <1>14, <2>1, <2>2 DEF AnswersFit, Closing, Identity, Cancelling
  <2>7. ordered' \in [cancel : SUBSET Upload, complete : SUBSET Upload]
    BY <1>1, <1>14, <2>1
  <2> QED BY <1>2, <1>7, <1>10, <1>14, <2>2, <2>3, <2>4, <2>5, <2>6, <2>7 DEF Told
<1>15. CASE /\ run' = "idle" /\ transfer' = cleared /\ t.saved = NoFile /\ t.creation # NoFile
            /\ StartLookup(t) /\ shown' = row /\ UNCHANGED <<closing, ordered>>
  <2>1. t.creation \in Upload
    BY <1>10, <1>15 DEF Task, Identity
  <2>2. /\ TaskFits(held') /\ Like(held', t) /\ held'.kept = t.kept
        /\ held'.active = "none" /\ TransferFits(creating, held', "idle", cleared)
        /\ AnswersFit(held', lookup', closing)
    BY ONLY <1>10, <1>11, <1>12, <1>13, <1>15, <2>1, LookupStarts
  <2>3. RowFits(held', shown', run')
    BY <1>2, <1>10, <1>15, <2>2 DEF RowFits, RowRuns
  <2>4. /\ TransferFits(creating, held', run', transfer')
        /\ AnswersFit(held', lookup', closing')
        /\ ordered' \in [cancel : SUBSET Upload, complete : SUBSET Upload]
        /\ held'.creation = held.creation /\ held'.saved = held.saved
    BY <1>1, <1>10, <1>15, <2>2 DEF Like
  <2> QED BY <1>2, <1>7, <1>15, <2>2, <2>3, <2>4 DEF Told
<1>16. CASE /\ run' = "idle" /\ transfer' = cleared /\ t.saved = NoFile /\ t.creation = NoFile
            /\ held' = Delivered(FinishCancellation(t, FALSE), row, FALSE).task
            /\ shown' = Delivered(FinishCancellation(t, FALSE), row, FALSE).row
            /\ UNCHANGED <<lookup, closing, ordered>>
  <2> PICK c \in BOOLEAN : c = FALSE
    OBVIOUS
  <2> DEFINE n == FinishCancellation(t, FALSE)
             o == Delivered(n, row, c)
  <2>1. /\ TaskFits(n) /\ n.creation = t.creation /\ n.saved = t.saved
        /\ n.pending = t.pending /\ n.active = t.active /\ n.fresh \subseteq t.fresh
        /\ n.control # t.control => n.fresh = {}
    <3>1. FALSE \in BOOLEAN
      OBVIOUS
    <3> QED BY ONLY <1>11, <3>1, FinishedFields
  <2>2. held' = o.task /\ shown' = o.row
    <3> HIDE DEF row
    <3> QED BY <1>16
  <2> HIDE DEF n
  <2>3. /\ TaskFits(o.task) /\ o.row \in Row /\ Like(o.task, n)
        /\ o.row.watched = row.watched
        /\ IF row.watched THEN o.task.kept = "none" ELSE o.task = n
        /\ \/ o.task.active = n.active /\ o.task.fresh = n.fresh
           \/ /\ o.task.active = "follower" /\ o.task.fresh = {} /\ row.watched
              /\ n.active = "none" /\ ~c /\ ~n.pending /\ ~Cancelling(n)
    <3>1. TaskFits(n) /\ row \in Row
      BY <1>2, <2>1
    <3> QED BY ONLY c \in BOOLEAN, <3>1, DeliveredFields, SMTT(60)
  <2> HIDE DEF o
  <2>4. RowFits(held', shown', run')
    BY <1>2, <1>10, <1>16, <2>1, <2>2, <2>3 DEF RowFits, RowRuns
  <2>5. TransferFits(creating, held', run', transfer')
    BY <1>12, <1>16, <2>1, <2>2, <2>3 DEF TransferFits, Like
  <2>6. AnswersFit(held', lookup', closing')
    BY <1>10, <1>13, <1>16, <2>1, <2>2, <2>3 DEF AnswersFit, Like, Cancelling
  <2>7. /\ TaskFits(held') /\ held'.creation = held.creation /\ held'.saved = held.saved
        /\ held'.creation = NoFile /\ held'.saved = NoFile
        /\ ordered' \in [cancel : SUBSET Upload, complete : SUBSET Upload]
    BY <1>1, <1>10, <1>16, <2>1, <2>2, <2>3 DEF Like
  <2> QED BY <1>7, <2>4, <2>5, <2>6, <2>7 DEF Told
<1> QED BY <1>4, <1>8, <1>14, <1>15, <1>16

\* The member, and views that come and go.
LEMMA NewRows ==
    ASSUME NEW outcome \in {"none", "cancelled", "ready"}, NEW file \in BOOLEAN,
           NEW s, s = RowOf(outcome, file)
    PROVE  /\ s \in Row /\ s.outcome = outcome /\ ~s.watched
           /\ [s EXCEPT !.attached = FALSE] \in Row
           /\ [s EXCEPT !.attached = FALSE].outcome = outcome
           /\ ~[s EXCEPT !.attached = FALSE].watched
<1> DEFINE phase == IF outcome = "none" THEN "waiting" ELSE outcome
<1>1. s = [NewRow(phase, file) EXCEPT !.outcome = outcome]
  BY DEF RowOf
<1>2. phase \in {"waiting", "cancelled", "ready"}
  OBVIOUS
<1> HIDE DEF phase
<1> QED BY <1>1, <1>2 DEF NewRow, Row, RowState

LEMMA ViewKeeps ==
    ASSUME FileInv, StartFile \/ RetryFile \/ Unmount \/ Mount
    PROVE  FileInv' /\ Told
<1>1. /\ TaskFits(held) /\ TaskHolds(held) /\ held \in Task /\ RowRuns(held, shown, run)
      /\ (shown.watched => held.kept = "none") /\ shown \in Row
      /\ AnswersFit(held, lookup, closing) /\ TransferFits(creating, held, run, transfer)
      /\ ordered \in [cancel : SUBSET Upload, complete : SUBSET Upload]
  BY TaskOfHeld, OrderedStays
<1>2. UNCHANGED <<remote, creating, ordered, lookup, closing>>
  BY DEF StartFile, RetryFile, Unmount, Mount, network
<1>3. shown.outcome \in {"none", "cancelled", "ready"}
  BY <1>1 DEF Row, RowState
<1>4. ASSUME TaskFits(held'), RowFits(held', shown', run'),
             TransferFits(creating, held', run', transfer'),
             AnswersFit(held', lookup, closing),
             held'.creation = held.creation, held'.saved = held.saved
      PROVE  FileInv'
  <2>1. AnswersFit(held', lookup', closing')
        /\ ordered' \in [cancel : SUBSET Upload, complete : SUBSET Upload]
    BY <1>1, <1>2, <1>4
  <2> QED BY <1>2, <1>4, <2>1, FileGoesOn
<1>5. CASE StartFile \/ RetryFile
  <2>1. UNCHANGED <<held, run, transfer>>
    BY <1>5 DEF StartFile, RetryFile
  <2> DEFINE e == [shown EXCEPT !.queued = TRUE, !.phase = "waiting"]
  <2>2. e \in Row /\ e.watched = shown.watched /\ e.outcome = shown.outcome
    BY <1>1 DEF Row, RowState
  <2>3. shown' = e \/ shown' = [e EXCEPT !.stopped = FALSE, !.outcome = "none", !.file = TRUE]
    BY <1>5 DEF StartFile, RetryFile, Enqueue
  <2> HIDE DEF e
  <2>4. /\ shown' \in Row /\ shown'.watched = shown.watched
        /\ shown'.outcome \in {shown.outcome, "none"}
    BY <2>2, <2>3 DEF Row, RowState
  <2>5. RowFits(held', shown', run')
    BY <1>1, <2>1, <2>4 DEF RowFits, RowRuns
  <2>6. /\ TaskFits(held') /\ TransferFits(creating, held', run', transfer')
        /\ AnswersFit(held', lookup, closing)
    BY <1>1, <2>1
  <2> QED BY <1>4, <2>1, <2>4, <2>5, <2>6 DEF Told
<1>6. CASE Unmount
  <2> DEFINE s == RowOf(shown.outcome, FALSE)
  <2>1. /\ held' = IF shown.watched THEN Pause(held) ELSE held
        /\ shown' = [s EXCEPT !.attached = FALSE] /\ run' = "idle"
        /\ transfer' = IF transfer.at \in {"sending", "completing"} THEN NoTransfer ELSE transfer
    BY <1>6 DEF Unmount
  <2>2. shown' \in Row /\ shown'.outcome = shown.outcome /\ ~shown'.watched
    <3>1. s = RowOf(shown.outcome, FALSE) /\ FALSE \in BOOLEAN
      OBVIOUS
    <3> HIDE DEF s
    <3> QED BY <1>3, <2>1, <3>1, NewRows
  <2>3. /\ TaskFits(held') /\ Like(held', held) /\ held'.kept = held.kept
        /\ held'.active = "none" /\ held'.fresh = held.fresh
    <3>1. CASE shown.watched
      BY <1>1, <2>1, <3>1, PausedFields
    <3>2. CASE ~shown.watched
      BY <1>1, <2>1, <3>2 DEF RowRuns, Like, TaskHolds, Task
    <3> QED BY <3>1, <3>2
  <2>4. RowFits(held', shown', run')
    BY <2>1, <2>2, <2>3 DEF RowFits, RowRuns
  <2>5. TransferFits(creating, held', run', transfer')
    <3>1. CASE transfer.at \in {"sending", "completing"}
      BY <2>1, <3>1, IdleTransfer
    <3>2. CASE transfer.at \notin {"sending", "completing"}
      BY <1>1, <2>1, <2>3, <3>2 DEF TransferFits, Like
    <3> QED BY <3>1, <3>2
  <2>6. AnswersFit(held', lookup, closing)
    BY <1>1, <2>3 DEF AnswersFit, Like, Cancelling
  <2> QED BY <1>4, <2>2, <2>3, <2>4, <2>5, <2>6 DEF Told, Like
<1>7. CASE Mount
  <2> PICK file \in BOOLEAN : shown' = RowOf(shown.outcome, file)
    BY <1>7 DEF Mount
  <2>1. ~shown.attached /\ UNCHANGED <<held, run, transfer>>
    BY <1>7 DEF Mount
  <2>2. shown' \in Row /\ shown'.outcome = shown.outcome /\ ~shown'.watched
    BY <1>3, NewRows
  <2>3. ~shown.watched
    BY <1>1, <2>1 DEF Row
  <2>4. RowFits(held', shown', run')
    BY <1>1, <2>1, <2>2, <2>3 DEF RowFits, RowRuns
  <2>5. /\ TaskFits(held') /\ TransferFits(creating, held', run', transfer')
        /\ AnswersFit(held', lookup, closing)
    BY <1>1, <2>1
  <2> QED BY <1>4, <2>1, <2>2, <2>4, <2>5 DEF Told
<1> QED BY <1>5, <1>6, <1>7

\* What a reload leaves is enough to find every upload again.
LEMMA ReloadKeeps == ASSUME FileInv, Reload PROVE FileInv' /\ Told
<1> DEFINE control == IF held.cancelAsked \/ held.marked THEN "cancel-unconfirmed" ELSE "open"
           s == RowOf(shown.outcome, FALSE)
<1>1. /\ TaskHolds(held) /\ held \in Task /\ shown \in Row
      /\ ordered \in [cancel : SUBSET Upload, complete : SUBSET Upload]
  BY TaskOfHeld, OrderedStays
<1>2. /\ held' = [creation |-> held.creation, cancelAsked |-> held.cancelAsked,
                  saved |-> held.saved, marked |-> held.marked, control |-> control,
                  uncertain |-> held.creation # NoFile,
                  pending |-> FALSE, blocked |-> FALSE, settled |-> FALSE, closed |-> {},
                  kept |-> "none", active |-> "none", fresh |-> {}]
      /\ shown' = s /\ run' = "idle" /\ transfer' = NoTransfer
      /\ lookup' = NoAnswer /\ closing' = NoAnswer
      /\ UNCHANGED <<remote, creating, ordered>>
  BY DEF Reload, network
<1>3. control \in {"open", "cancelling", "cancel-unconfirmed", "completion"}
  OBVIOUS
<1> HIDE DEF control
<1>4. /\ held' \in Task /\ held'.creation = held.creation /\ held'.saved = held.saved
      /\ (held.creation # NoFile => held'.uncertain) /\ held'.closed = {}
      /\ held'.kept = "none" /\ held'.active = "none" /\ held'.fresh = {}
  BY <1>1, <1>2, <1>3 DEF Task
<1>5. TaskFits(held')
  BY <1>1, <1>4 DEF TaskFits, TaskHolds
<1>6. shown' \in Row /\ shown'.outcome = shown.outcome /\ ~shown'.watched
  <2>1. shown.outcome \in {"none", "cancelled", "ready"} /\ FALSE \in BOOLEAN
    BY <1>1 DEF Row, RowState
  <2>2. shown' = RowOf(shown.outcome, FALSE)
    BY <1>2
  <2> QED BY ONLY <2>1, <2>2, NewRows
<1>7. RowFits(held', shown', run')
  BY <1>2, <1>4, <1>6 DEF RowFits, RowRuns
<1>8. TransferFits(creating, held', run', transfer')
  BY <1>2, IdleTransfer
<1>9. AnswersFit(held', lookup', closing')
  BY <1>2 DEF AnswersFit, NoAnswer, Lookup, Closing, Identity
<1>10. ordered' \in [cancel : SUBSET Upload, complete : SUBSET Upload]
  BY <1>1, <1>2
<1> QED BY <1>2, <1>4, <1>5, <1>6, <1>7, <1>8, <1>9, <1>10, FileGoesOn DEF Told

\* The run on what is saved tells the row of no cancellation.
LEMMA RunTells ==
    ASSUME FileInv, CheckSaved \/ WaitForReady \/ RunFails \/ FollowReady
    PROVE  Told
<1>1. shown \in Row
  BY TaskOfHeld
<1>2. CASE Accept
  <2>1. shown'.outcome # "cancelled"
    BY <1>1, <1>2 DEF Accept, Row, RowState
  <2> QED BY <2>1 DEF Told
<1>3. ASSUME shown' \in {shown, [shown EXCEPT !.phase = "completing"],
                         [shown EXCEPT !.phase = "failed"], [shown EXCEPT !.phase = "busy"]}
      PROVE  Told
  <2>1. shown'.outcome = shown.outcome
    BY <1>1, <1>3 DEF Row, RowState
  <2> QED BY <2>1 DEF Told
<1>4. ASSUME NEW t, RunEnds(t, shown) PROVE Told
  <2>1. shown' = Failed(t, shown)
    BY <1>4 DEF RunEnds
  <2>2. shown'.outcome = shown.outcome
    BY <1>1, <2>1, FailedFields
  <2> QED BY <2>2 DEF Told
<1>5. ASSUME NEW t, NewTransfer(t, shown) PROVE Told
  BY <1>3, <1>4, <1>5 DEF NewTransfer
<1> QED BY <1>2, <1>3, <1>4, <1>5 DEF CheckSaved, WaitForReady, RunFails, FollowReady

\* So does the start of a run, but for what was kept for the row.
LEMMA RunStartsTells == ASSUME FileInv, RunStarts PROVE Told
<1> DEFINE row == [shown EXCEPT !.queued = FALSE]
           busy == [row EXCEPT !.phase = "busy", !.watched = TRUE]
<1> PICK b \in BOOLEAN : b = Deleting
  BY DEF Deleting
<1> DEFINE d == Delivered(held, busy, b)
<1>1. TaskFits(held) /\ TaskHolds(held) /\ shown \in Row
  BY TaskOfHeld
<1>2. row \in Row /\ row.attached /\ row.outcome = shown.outcome
  BY <1>1 DEF Row, RowState, RunStarts
<1>3. busy \in Row /\ busy.outcome = shown.outcome
  BY <1>2 DEF Row, RowState
<1> HIDE DEF busy
<1>4. /\ d.row \in Row /\ Like(d.task, held)
      /\ d.row.outcome = "cancelled" => busy.outcome = "cancelled" \/ held.kept = "cancelled"
  <2>1. TaskFits(held) /\ busy \in Row
    BY <1>1, <1>3
  <2>2. /\ TaskFits(d.task) /\ d.row \in Row /\ Like(d.task, held)
        /\ d.row.watched = busy.watched
        /\ IF busy.watched THEN d.task.kept = "none" ELSE d.task = held
        /\ \/ d.task.active = held.active /\ d.task.fresh = held.fresh
           \/ /\ d.task.active = "follower" /\ d.task.fresh = {} /\ busy.watched
              /\ held.active = "none" /\ ~b /\ ~held.pending /\ ~Cancelling(held)
        /\ d.row.outcome = "cancelled" => busy.outcome = "cancelled" \/ held.kept = "cancelled"
    BY ONLY <2>1, b \in BOOLEAN, DeliveredFields, SMTT(60)
  <2> QED BY <2>2
<1>5. held.kept = "cancelled" => held.creation = NoFile /\ held.saved = NoFile
  BY <1>1 DEF TaskHolds
<1>6. CASE shown' = row
  BY <1>2, <1>6 DEF Told
<1>7. ASSUME shown'.outcome = d.row.outcome,
             held'.creation = d.task.creation, held'.saved = d.task.saved
      PROVE  Told
  BY <1>3, <1>4, <1>5, <1>7 DEF Told, Like
<1>8. ASSUME NEW t, t.creation = d.task.creation, t.saved = d.task.saved, t \in Task,
             RunEnds(t, d.row) \/ NewTransfer(t, d.row)
      PROVE  Told
  <2> HIDE DEF d
  <2>1. CASE RunEnds(t, d.row)
    <3>1. held' = Pause(t) /\ shown' = Failed(t, d.row)
      BY <2>1 DEF RunEnds
    <3>2. shown'.outcome = d.row.outcome
      BY <1>4, <3>1, FailedFields
    <3>3. held'.creation = t.creation /\ held'.saved = t.saved
      BY <1>8, <3>1 DEF Pause, Task
    <3> QED BY <1>7, <1>8, <3>2, <3>3
  <2>2. CASE /\ held' = [t EXCEPT !.pending = TRUE, !.fresh = {"transfer"}]
             /\ shown' = [d.row EXCEPT !.phase = "busy"]
    <3>1. held'.creation = t.creation /\ held'.saved = t.saved
      BY <1>8, <2>2 DEF Task
    <3>2. shown'.outcome = d.row.outcome
      BY <1>4, <2>2 DEF Row, RowState
    <3> QED BY <1>7, <1>8, <3>1, <3>2
  <2> QED BY <1>8, <2>1, <2>2 DEF NewTransfer
<1>9. d.task \in Task
  <2>1. TaskFits(d.task)
    <3>1. TaskFits(held) /\ busy \in Row
      BY <1>1, <1>3
    <3> QED BY ONLY <3>1, b \in BOOLEAN, DeliveredFields, SMTT(60)
  <2> QED BY <2>1 DEF TaskFits, TaskHolds
<1>10. CASE StartLookup(d.task) /\ shown' = d.row
  <2> HIDE DEF d
  <2>1. held' = d.task \/ held' = [d.task EXCEPT !.fresh = d.task.fresh \cup {"lookup"}]
    BY <1>10 DEF StartLookup
  <2>2. held'.creation = d.task.creation /\ held'.saved = d.task.saved
    BY <1>9, <2>1 DEF Task
  <2> QED BY <1>7, <1>10, <2>2
<1>11. CASE held' = d.task /\ shown' = Failed(d.task, d.row)
  <2> HIDE DEF d
  <2>1. shown'.outcome = d.row.outcome
    BY <1>4, <1>11, FailedFields
  <2> QED BY <1>7, <1>11, <2>1
<1>12. CASE RunOn(d.task, d.row)
  <2> HIDE DEF d
  <2> DEFINE n == BeginRun(d.task, "run")
  <2>1. n \in Task /\ n.creation = d.task.creation /\ n.saved = d.task.saved
    BY <1>9 DEF BeginRun, Task
  <2>2. \/ held' = d.task /\ shown' = Failed(d.task, d.row)
        \/ held' = n /\ shown' = d.row
        \/ NewTransfer(n, d.row)
    BY <1>12 DEF RunOn
  <2> HIDE DEF n
  <2> QED BY <1>7, <1>8, <1>11, <2>1, <2>2
<1> QED BY <1>6, <1>10, <1>11, <1>12 DEF RunStarts, busy

\* What happens in the network is not shown.
LEMMA FileStep == FileInv /\ [FileNext]_fileVars => FileInv' /\ Told
<1> SUFFICES ASSUME FileInv, [FileNext]_fileVars PROVE FileInv' /\ Told
  OBVIOUS
<1>1. ASSUME NEW u \in Upload,
             \/ CreateArrives(u) \/ CreateLost(u) \/ DeleteArrives(u)
             \/ CompleteArrives(u) \/ SessionMoves(u)
      PROVE  FileInv' /\ Told
  <2>1. shown' = shown
    BY <1>1 DEF CreateArrives, CreateLost, DeleteArrives, CompleteArrives, SessionMoves,
       OrderArrives
  <2> QED BY <1>1, <2>1, NetworkKeeps DEF Told
<1>2. CASE UNCHANGED fileVars
  <2>1. UNCHANGED <<remote, creating, ordered, held, shown, run, transfer, lookup, closing>>
    BY <1>2 DEF fileVars
  <2>2. /\ NetworkFits' /\ TaskFits(held') /\ RowFits(held', shown', run')
        /\ TransferFits(creating', held', run', transfer')
        /\ AnswersFit(held', lookup', closing') /\ Remembers(held)'
    BY <2>1 DEF FileInv, NetworkFits, Remembers, MayLive
  <2> QED BY <2>1, <2>2 DEF FileInv, Told
<1>3. CASE RunStarts
  BY <1>3, RunStartsKeeps, RunStartsTells
<1>4. CASE CheckSaved \/ WaitForReady \/ RunFails \/ FollowReady
  BY <1>4, RunKeeps, RunTells
<1>5. CASE CreateUpload \/ CreateAnswered \/ CreateRefused \/ TransferFails
  BY <1>5, CreateUploadKeeps, CreateAnsweredKeeps, CreateRefusedKeeps, TransferFailsKeeps
<1>6. CASE CompleteParts \/ PartsCompleted \/ SendFails
  BY <1>6, PartsKeep
<1>7. CASE LookupAnswered \/ ReplayAnswered \/ LookupFails \/ LookupStale
  BY <1>7, LookupKeeps
<1>8. CASE CloseConfirmed \/ CloseFails \/ CloseObserved \/ CloseUnobserved
  BY <1>8, ClosingKeeps
<1>9. CASE CancelFile \/ StartFile \/ RetryFile \/ Unmount \/ Mount \/ Reload
  BY <1>9, CancelKeeps, ViewKeeps, ReloadKeeps
<1> QED BY <1>1, <1>2, <1>3, <1>4, <1>5, <1>6, <1>7, <1>8, <1>9 DEF FileNext

LEMMA FileInvAlways == FileSpec => []FileInv
BY FileInitially, FileStep, PTL DEF FileSpec

\* The task, its row and its requests keep their types.
THEOREM FileTypesHold == FileSpec => []FileTypeOK
<1>1. FileInv => FileTypeOK
  BY DEF FileInv, NetworkFits, TaskFits, TaskHolds, Task, Identity, RowFits, RowRuns,
     Row, RowState, TransferFits, Transfer, AnswersFit, Lookup, Closing, FileTypeOK
<1>2. QED BY FileInvAlways, <1>1, PTL

\* Whatever answers are lost, whatever views go and pages are loaded again: an
\* upload that may yet be published is in the storage of the page.
THEOREM CreationsAlwaysRemembered == FileSpec => []CreationsRemembered
<1>1. FileInv => CreationsRemembered
  BY DEF FileInv, Remembers, CreationsRemembered
<1>2. QED BY FileInvAlways, <1>1, PTL

\* A row that says "cancelled" has nothing left that may come to life.
THEOREM CancelledIsOver == FileSpec => CancelledWhenOver
<1>1. FileInv /\ [FileNext]_fileVars
         => [shown'.outcome = "cancelled" /\ shown.outcome # "cancelled"
                => \A u \in Upload : ~MayLive(u)']_fileVars
  <2> SUFFICES ASSUME FileInv, [FileNext]_fileVars,
                      shown'.outcome = "cancelled", shown.outcome # "cancelled",
                      NEW u \in Upload, MayLive(u)'
               PROVE  FALSE
    OBVIOUS
  <2>1. held'.creation = NoFile /\ held'.saved = NoFile /\ FileInv'
    BY FileStep DEF Told
  <2>2. u \in {held'.creation, held'.saved}
    BY <2>1 DEF FileInv, Remembers
  <2> QED BY <2>1, <2>2, FileUploadNames
<1>2. QED BY FileInvAlways, <1>1, PTL DEF FileSpec, CancelledWhenOver
=============================================================================
