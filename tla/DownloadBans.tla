---------------------------- MODULE DownloadBans ----------------------------
(***************************************************************************)
(* Who may download protected files: rows of banned_ips, the cache of them *)
(* in the API process that every download is checked against, the ceiling  *)
(* of downloads from one address that bans it, and operators who ban and   *)
(* unban.  The write of a row and the change of the cache are two steps;   *)
(* a queue in the process keeps those of one mutation together.            *)
(*                                                                         *)
(* Abstractions:                                                           *)
(*  - A target is the text of a row.  Several texts may be forms of one:   *)
(*    rows from before canonical storage keep theirs.                      *)
(*  - A bucket is the number of its hits in the current window; a hit may  *)
(*    leave the window at any moment.  The buckets of principals only      *)
(*    refuse, and are left out.                                            *)
(*  - Requests come after the warm-up, and one process serves them.  It    *)
(*    may end at any moment, and start again with the automatic bans       *)
(*    switched on or off.                                                  *)
(***************************************************************************)
EXTENDS Naturals, Sequences

CONSTANTS Target,          \* texts of rows
          Canonical(_),    \* the form of a text that is stored today
          Address,         \* canonical texts of single addresses
          Covers(_),       \* the addresses a target matches
          BanRow,          \* ids of rows, each used once
          Caller,          \* requests that change bans
          MaxIpHits,       \* downloads of an address in a window
          MaxLosses        \* bound: ends of the process, lost answers

ASSUME BanNames ==
    /\ Address \subseteq Target /\ MaxIpHits \in Nat /\ MaxLosses \in Nat
    /\ \A t \in Target : /\ Canonical(t) \in Target /\ Covers(t) \subseteq Address
                         /\ Canonical(Canonical(t)) = Canonical(t)
    /\ \A a \in Address : Canonical(a) = a /\ Covers(a) = {a}

VARIABLES
    auto,       \* DOWNLOAD_AUTO_IP_BAN_ENABLED
    bans,       \* the rows of banned_ips
    banCache,   \* texts in bannedIps of the limiter
    hits,       \* ipBuckets: hits of each address in the window
    caller,     \* what each request is doing
    banQueue,   \* the requests of the mutation queue, in its order
    lifted,     \* canonical targets an operator unbanned (history)
    unknown,    \* texts whose write had a lost answer since the last start
    losses

bansVars == <<auto, bans, banCache, hits, caller, banQueue, lifted, unknown, losses>>

NoBan  == [state |-> "none"]
NoCall == [at |-> "idle"]

Kept == {r \in BanRow : bans[r] # NoBan}
On   == {r \in Kept : bans[r].state = "active"}

\* Rows that the setting makes no more than history are not enforced.
Enforced == {r \in On : bans[r].source # "AUTO" \/ auto}

FormsOf(t) == {r \in Kept : Canonical(bans[r].ip) = t}

\* Old rows, in whatever form.
BansInit ==
    /\ auto \in BOOLEAN
    /\ \E old \in SUBSET {r \in [ip : Target, state : {"active"}, source : {"LEGACY", "AUTO"}] :
                             r.source = "AUTO" => r.ip \in Address} :
          /\ \A r, q \in old : r.ip = q.ip => r = q
          /\ bans \in [BanRow -> old \cup {NoBan}]
          /\ \A r \in old : \E i \in BanRow : bans[i] = r
    /\ \A i, j \in BanRow : i # j => bans[i] = NoBan \/ bans[i] # bans[j]
    /\ banCache = {bans[r].ip : r \in Enforced}
    /\ hits = [a \in Address |-> 0]
    /\ caller = [c \in Caller |-> NoCall] /\ banQueue = <<>>
    /\ lifted = {} /\ unknown = {} /\ losses = 0

-----------------------------------------------------------------------------
(* Downloads.                                                              *)

IsBanned(a) == \E t \in banCache : a \in Covers(t)

Hit(a) ==
    /\ auto /\ ~IsBanned(a) /\ hits[a] < MaxIpHits
    /\ hits' = [hits EXCEPT ![a] = @ + 1]
    /\ UNCHANGED <<auto, bans, banCache, caller, banQueue, lifted, unknown, losses>>

LeavesWindow(a) ==
    /\ hits[a] > 0 /\ hits' = [hits EXCEPT ![a] = @ - 1]
    /\ UNCHANGED <<auto, bans, banCache, caller, banQueue, lifted, unknown, losses>>

Enqueue(c, call) ==
    /\ caller[c] = NoCall
    /\ caller' = [caller EXCEPT ![c] = call] /\ banQueue' = Append(banQueue, c)
    /\ UNCHANGED <<auto, bans, banCache, hits, lifted, unknown, losses>>

AbuseCeiling(c, a) ==
    /\ auto /\ ~IsBanned(a) /\ hits[a] >= MaxIpHits
    /\ Enqueue(c, [at |-> "auto", ip |-> a])

RequestBan(c, t) == Enqueue(c, [at |-> "register", ip |-> t])

RequestUnban(c, r) == r \in Kept /\ Enqueue(c, [at |-> "unban", row |-> r])

-----------------------------------------------------------------------------
(* The mutation queue: one at a time, in the order they came.              *)

\* Planted bug: mutations do not wait for each other.
IsTurnAnyway(c) == caller[c] # NoCall

IsTurn(c) == banQueue # <<>> /\ Head(banQueue) = c

\* An operation ends, and the next has its turn.
Finish(c) ==
    /\ caller' = [caller EXCEPT ![c] = NoCall]
    /\ banQueue' = Tail(banQueue)

\* The row is written; the cache is next.
Written(c, change, t) ==
    /\ caller' = [caller EXCEPT ![c] = [at |-> change, ip |-> t]]
    /\ UNCHANGED <<auto, banCache, hits, banQueue, unknown, losses>>

Refused(c) ==
    /\ Finish(c)
    /\ UNCHANGED <<auto, bans, banCache, hits, lifted, unknown, losses>>

SetBan(r, ip, state, source) ==
    bans' = [bans EXCEPT ![r] = [ip |-> ip, state |-> state, source |-> source]]

NewRow(r) == r \in BanRow \ Kept

\* An inactive row in any form of the target is made the canonical one.
CreateManualBan(c) ==
    /\ IsTurn(c) /\ caller[c].at = "register"
    /\ LET t == caller[c].ip
           same == {r \in FormsOf(t) : bans[r].ip = t}
       IN \/ FormsOf(t) \cap Enforced # {} /\ Refused(c)
          \/ /\ FormsOf(t) \cap Enforced = {}
             /\ \E r \in BanRow :
                   /\ \/ r \in same
                      \/ same = {} /\ r \in FormsOf(t)
                      \/ FormsOf(t) = {} /\ NewRow(r)
                   /\ SetBan(r, t, "active", "MANUAL")
             /\ lifted' = lifted \ {t}
             /\ Written(c, "add", t)

DeleteBannedIp(c) ==
    /\ IsTurn(c) /\ caller[c].at = "unban"
    /\ LET r == caller[c].row
           t == bans[r].ip
       IN /\ SetBan(r, t, "disabled", bans[r].source)
          /\ lifted' = IF FormsOf(Canonical(t)) \cap On \subseteq {r}
                       THEN lifted \cup {Canonical(t)} ELSE lifted
          /\ Written(c, "remove", t)

\* An automatic ban never brings back what an operator has lifted.
UpsertBannedIp(c) ==
    /\ IsTurn(c) /\ caller[c].at = "auto"
    /\ LET a == caller[c].ip
           same == {r \in Kept : bans[r].ip = a}
       IN \/ FormsOf(a) \ On # {} /\ Refused(c)
          \/ /\ FormsOf(a) \subseteq On
             /\ \/ same # {} /\ UNCHANGED bans
                \/ same = {} /\ \E r \in BanRow : NewRow(r) /\ SetBan(r, a, "active", "AUTO")
             /\ UNCHANGED lifted
             /\ Written(c, "add", a)

\* addBan() also forgets the hits of the target.
AddBan(c) ==
    /\ IsTurn(c) /\ caller[c].at = "add"
    /\ banCache' = banCache \cup {caller[c].ip}
    /\ hits' = [a \in Address |-> IF a = caller[c].ip THEN 0 ELSE hits[a]]
    /\ Finish(c) /\ UNCHANGED <<auto, bans, lifted, unknown, losses>>

RemoveBan(c) ==
    /\ IsTurn(c) /\ caller[c].at = "remove"
    /\ banCache' = banCache \ {caller[c].ip}
    /\ Finish(c) /\ UNCHANGED <<auto, bans, hits, lifted, unknown, losses>>

Loss == losses < MaxLosses /\ losses' = losses + 1

WriteFails(c) ==
    /\ Loss /\ IsTurn(c) /\ caller[c].at \in {"register", "unban", "auto"}
    /\ Finish(c) /\ UNCHANGED <<auto, bans, banCache, hits, lifted, unknown>>

\* The row is committed, but the process is told otherwise.
AnswerLost(c) ==
    /\ Loss /\ IsTurn(c) /\ caller[c].at \in {"add", "remove"}
    /\ unknown' = unknown \cup {caller[c].ip}
    /\ Finish(c) /\ UNCHANGED <<auto, bans, banCache, hits, lifted>>

\* A new process loads the rows before it listens.
ProcessRestarts ==
    /\ Loss /\ auto' \in BOOLEAN
    /\ banCache' = {bans[r].ip : r \in {q \in On : bans[q].source # "AUTO" \/ auto'}}
    /\ hits' = [a \in Address |-> 0] /\ caller' = [c \in Caller |-> NoCall]
    /\ banQueue' = <<>> /\ unknown' = {}
    /\ UNCHANGED <<bans, lifted>>

-----------------------------------------------------------------------------
BansNext ==
    \/ \E a \in Address :
          Hit(a) \/ LeavesWindow(a) \/ \E c \in Caller : AbuseCeiling(c, a)
    \/ \E c \in Caller :
          \/ \E t \in {Canonical(u) : u \in Target} : RequestBan(c, t)
          \/ \E r \in BanRow : RequestUnban(c, r)
          \/ CreateManualBan(c) \/ DeleteBannedIp(c) \/ UpsertBannedIp(c)
          \/ AddBan(c) \/ RemoveBan(c) \/ WriteFails(c) \/ AnswerLost(c)
    \/ ProcessRestarts

BansSpec == BansInit /\ [][BansNext]_bansVars

-----------------------------------------------------------------------------
RowOfBan == [ip : Target, state : {"active", "disabled"},
             source : {"LEGACY", "AUTO", "MANUAL"}]

CallOfBan == {NoCall} \cup [at : {"unban"}, row : BanRow]
             \cup [at : {"register", "auto", "add", "remove"}, ip : Target]

\* Every variable has its type.
BansTypeOK ==
    /\ auto \in BOOLEAN
    /\ bans \in [BanRow -> {NoBan} \cup RowOfBan]
    /\ banCache \subseteq Target /\ hits \in [Address -> 0 .. MaxIpHits]
    /\ caller \in [Caller -> CallOfBan]
    /\ banQueue \in Seq(Caller)
    /\ lifted \subseteq Target /\ unknown \subseteq Target /\ losses \in 0 .. MaxLosses

\* What downloads are checked against is what the rows say, but for a target
\* whose mutation is between its two steps and one whose write had a lost
\* answer: no order of bans, unbans and automatic bans leaves the cache
\* behind.
CacheFollowsRows ==
    \A t \in Target \ unknown :
        (\A c \in Caller : caller[c].at \in {"add", "remove"} => caller[c].ip # t) =>
            (t \in banCache <=> \E r \in Enforced : bans[r].ip = t)

\* A target that an operator has unbanned stays so until one bans it again,
\* in whatever form it was stored.
UnbanRespected == \A t \in lifted : FormsOf(t) \cap Enforced = {}

\* Bans are enforced, and lifted bans stay lifted.
BansHonoured == CacheFollowsRows /\ UnbanRespected
=============================================================================
