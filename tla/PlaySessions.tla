---------------------------- MODULE PlaySessions ----------------------------
(***************************************************************************)
(* Play sessions of a WebGL build.  Opening the player issues a session    *)
(* that holds a snapshot of the external origins approved for the project; *)
(* the browser renews it, and every file of the build is served under it.  *)
(* Meanwhile an administrator approves and revokes origins, the build is   *)
(* replaced, the user logs out, and the budgets of sessions fill up.       *)
(*                                                                         *)
(* A transaction is modelled lock by lock: a request is somewhere between  *)
(* two of its row locks, and holds what it has taken until it commits.     *)
(*                                                                         *)
(* Abstractions:                                                           *)
(*  - One project.  Its visibility may change at any time, which only      *)
(*    refuses requests, so any check of it may fail.                       *)
(*  - Secrets, manifests and paths only refuse, too.                       *)
(*  - Revocation counts the REVOKE events of an origin newer than the      *)
(*    snapshot; the version of the newest one says as much.                *)
(*  - Reviews and batches hold only the row of the project when they wait, *)
(*    so each is one step that finds it unlocked; a request that waits for *)
(*    its review, or is rejected, changes nothing here.                    *)
(*  - The expired sessions an issue deletes, and the sessions a logout     *)
(*    takes with it, are locked together, once none of them is locked.     *)
(*  - A play expires when the clock says so; a renewal that began before   *)
(*    may still extend it.                                                 *)
(***************************************************************************)
EXTENDS Naturals, FiniteSets

CONSTANTS Play,        \* play sessions, each issued once
          Login,       \* auth sessions of users
          Nobody,      \* no auth session, no play
          Origin,      \* external origins
          Call,        \* requests in flight
          MaxVersion,  \* bound of the policy version and of the builds
          PerLogin,    \* budget of plays of a login (16)
          PerNobody,   \* budget of anonymous plays (1024)
          InAll        \* global budget (4096)

ASSUME PlayNames ==
    /\ Nobody \notin Login \cup Play \cup {"advisory", "project"}
    /\ Login \cap Play = {} /\ {"advisory", "project"} \cap (Login \cup Play) = {}
    /\ MaxVersion \in Nat
    /\ {PerLogin, PerNobody, InAll} \subseteq Nat \ {0}

VARIABLES
    play,      \* rows of webgl_play_sessions
    login,     \* rows of auth_sessions
    grant,     \* the active network request of each origin
    policy,    \* webgl_network_policy_version of the project
    revoked,   \* version of the last REVOKE event of each origin
    build,     \* the current deployment of the project
    external,  \* WEBGL_EXTERNAL_CONNECTIONS_ENABLED
    call       \* what each request is doing

tables   == <<play, login, grant, policy, revoked, build, external>>
playVars == <<tables, call>>

Version   == 0..MaxVersion
Advisory  == "advisory"
Project   == "project"
PlayLocks == {Advisory, Project} \cup Login \cup Play

Unissued == [state |-> "NONE", closed |-> FALSE, expired |-> FALSE,
             login |-> Nobody, origins |-> {}, version |-> 0, build |-> 0]
Nothing  == [kind |-> "none", at |-> "free", play |-> Nobody,
             login |-> Nobody, build |-> 0, origins |-> {}, version |-> 0,
             holds |-> {}, barred |-> FALSE]

PlayInit ==
    /\ play = [p \in Play |-> Unissued]
    /\ login = [l \in Login |-> "live"]
    /\ grant = [o \in Origin |-> "NONE"]
    /\ policy = 0 /\ revoked = [o \in Origin |-> 0]
    /\ build = 1 /\ external = TRUE
    /\ call = [c \in Call |-> Nothing]

-----------------------------------------------------------------------------
IsLive(l)     == l # Nobody => login[l] = "live"
IsOpen(p)     == play[p].state = "OPEN" /\ ~play[p].closed /\ ~play[p].expired
Approved      == {o \in Origin : grant[o] = "APPROVED"}
Budget(l)     == IF l = Nobody THEN PerNobody ELSE PerLogin
Unclosed(ps)  == {p \in ps : play[p].state = "OPEN" /\ ~play[p].closed}

\* isConnectionPolicyValid over connectionRevocationFilter.
PolicyValid(origins, version) ==
    origins = {} \/ (external /\ \A o \in origins : revoked[o] <= version)

\* A row lock is free for c; the lock of the project is shared.
CanLock(c, k) == \A d \in Call \ {c} : k \notin call[d].holds
CallTo(c, l)  == call' = [call EXCEPT ![c].at = l]
TakeLock(c, ks, l) ==
    call' = [call EXCEPT ![c].at = l, ![c].holds = @ \cup ks]
End(c)        == call' = [call EXCEPT ![c] = Nothing]

\* A request goes on with the copy of the row it read first, until the row
\* is read again.
Begin(c, kind, at, p, barred) ==
    /\ call[c].kind = "none"
    /\ call' = [call EXCEPT ![c] = [Nothing EXCEPT
          !.kind = kind, !.at = at, !.play = p, !.login = play[p].login,
          !.build = play[p].build, !.origins = play[p].origins,
          !.version = play[p].version, !.barred = barred]]

\* What can never be right again for a play: it is over, its user is gone,
\* its build is replaced or one of its origins was revoked since.
Barred(p) ==
    \/ play[p].state # "OPEN" \/ play[p].closed \/ ~IsLive(play[p].login)
    \/ play[p].build # build
    \/ \E o \in play[p].origins : revoked[o] > play[p].version

-----------------------------------------------------------------------------
(* Issuing a play: createBounded.                                          *)

\* The service checks the login and picks the deployment, in no transaction.
StartIssue(c, p, l) ==
    /\ call[c].kind = "none" /\ play[p].state = "NONE" /\ IsLive(l)
    /\ \A d \in Call : call[d].kind = "issue" => call[d].play # p
    /\ call' = [call EXCEPT ![c] = [Nothing EXCEPT
          !.kind = "issue", !.at = "advisory", !.play = p, !.login = l,
          !.build = build]]
    /\ UNCHANGED tables

\* Planted bug: the budget check is not serialized.
IssueUnserialized(c) ==
    /\ call[c].kind = "issue" /\ call[c].at = "advisory"
    /\ CallTo(c, IF call[c].login = Nobody THEN "project" ELSE "login")
    /\ UNCHANGED tables

\* pg_advisory_xact_lock
IssueAdvisory(c) ==
    /\ call[c].kind = "issue" /\ call[c].at = "advisory"
    /\ CanLock(c, Advisory)
    /\ TakeLock(c, {Advisory}, IF call[c].login = Nobody THEN "project" ELSE "login")
    /\ UNCHANGED tables

\* Planted bug: the login is looked up and not locked.
IssueLoginUnlocked(c) ==
    /\ call[c].kind = "issue" /\ call[c].at = "login"
    /\ login[call[c].login] # "gone"
    /\ CallTo(c, "project")
    /\ UNCHANGED tables

\* The login is locked before any play; one that is gone refuses.
IssueLogin(c) ==
    /\ call[c].kind = "issue" /\ call[c].at = "login"
    /\ CanLock(c, call[c].login)
    /\ \/ login[call[c].login] # "gone"
          /\ TakeLock(c, {call[c].login}, "project")
       \/ End(c)
    /\ UNCHANGED tables

\* Under the lock of the project the deployment must still be the one
\* picked, and the policy is copied.
IssueSnapshot(c) ==
    /\ call[c].kind = "issue" /\ call[c].at = "project"
    /\ \/ /\ call[c].build = build
          /\ call' = [call EXCEPT
                ![c].at = "count", ![c].holds = @ \cup {Project},
                ![c].version = policy,
                ![c].origins = IF external THEN Approved ELSE {}]
       \/ End(c)
    /\ UNCHANGED tables

\* The plays a request deletes when it commits.
Deleted(ps) ==
    play' = [p \in Play |-> IF p \in ps
               THEN [Unissued EXCEPT !.state = "DELETED"] ELSE play[p]]

\* Expired plays are deleted and the others counted; a budget that is used
\* up refuses, and the deletion stays.
CountPlays(c) ==
    LET gone == {p \in Play : play[p].expired}
        kept == Unclosed(Play \ gone)
        own  == {p \in kept : play[p].login = call[c].login}
        room == /\ Cardinality(kept) < InAll
                /\ Cardinality(own) < Budget(call[c].login)
    IN /\ call[c].kind = "issue" /\ call[c].at = "count"
       /\ \A p \in gone : CanLock(c, p)
       /\ \/ room /\ TakeLock(c, gone, "insert") /\ UNCHANGED play
          \/ ~room /\ Deleted(gone) /\ End(c)
       /\ UNCHANGED <<login, grant, policy, revoked, build, external>>

\* The insert locks the row of the login it refers to, and commits.
InsertPlay(c) ==
    /\ call[c].kind = "issue" /\ call[c].at = "insert"
    /\ call[c].login # Nobody =>
          CanLock(c, call[c].login) /\ login[call[c].login] # "gone"
    /\ play' = [p \in Play |->
          IF p = call[c].play
          THEN [Unissued EXCEPT !.state = "OPEN", !.login = call[c].login,
                   !.origins = call[c].origins, !.version = call[c].version,
                   !.build = call[c].build]
          ELSE IF p \in call[c].holds
          THEN [Unissued EXCEPT !.state = "DELETED"] ELSE play[p]]
    /\ End(c)
    /\ UNCHANGED <<login, grant, policy, revoked, build, external>>

-----------------------------------------------------------------------------
(* Renewing a play: renew and renewAuthorized.                             *)

\* The service reads the play and its login; its clock is read here.
StartRenew(c, p) ==
    /\ IsOpen(p) /\ IsLive(play[p].login)
    /\ Begin(c, "renew", "policy", p, Barred(p))
    /\ UNCHANGED tables

\* checkPolicy: with the flag off, a play that has origins is closed first.
CloseDisabled(c) ==
    LET p == call[c].play IN
    /\ call[c].at = "policy"
    /\ ~external /\ call[c].origins # {} /\ CanLock(c, p)
    /\ play' = [play EXCEPT ![p].closed = @ \/ play[p].state = "OPEN"]
    /\ End(c)
    /\ UNCHANGED <<login, grant, policy, revoked, build, external>>

CheckPolicy(c) ==
    /\ call[c].at = "policy" /\ (external \/ call[c].origins = {})
    /\ \/ /\ PolicyValid(call[c].origins, call[c].version)
          /\ call' = [call EXCEPT ![c].origins = {}, ![c].version = 0,
                ![c].build = 0,
                ![c].at = IF call[c].kind = "serve" THEN "served"
                          ELSE IF call[c].login = Nobody THEN "play" ELSE "login"]
       \/ ~PolicyValid(call[c].origins, call[c].version) /\ End(c)
    /\ UNCHANGED tables

RenewLogin(c) ==
    /\ call[c].kind = "renew" /\ call[c].at = "login"
    /\ CanLock(c, call[c].login)
    /\ TakeLock(c, {call[c].login}, "play")
    /\ UNCHANGED tables

\* The play and its login are read again under their locks.
RenewPlay(c) ==
    LET p == call[c].play IN
    /\ call[c].kind = "renew" /\ call[c].at = "play" /\ CanLock(c, p)
    /\ \/ /\ play[p].state = "OPEN" /\ ~play[p].closed
          /\ TakeLock(c, {p}, "project")
       \/ End(c)
    /\ UNCHANGED tables

\* The project is locked, and the deployment and the policy read under all
\* the locks; then the renewal commits.
ExtendPlay(c) ==
    LET p == call[c].play IN
    /\ call[c].kind = "renew" /\ call[c].at = "project"
    /\ \/ /\ play[p].build = build
          /\ PolicyValid(play[p].origins, play[p].version)
          /\ play' = [play EXCEPT ![p].expired = FALSE]
          /\ call' = [call EXCEPT ![c].at = "served", ![c].holds = {}]
       \/ End(c) /\ UNCHANGED play
    /\ UNCHANGED <<login, grant, policy, revoked, build, external>>

-----------------------------------------------------------------------------
(* Serving a file, closing, and logging out.                               *)

\* resolveRuntime: findAsset
StartServe(c, p) ==
    /\ IsOpen(p)
    /\ Begin(c, "serve", "deployment", p, Barred(p))
    /\ UNCHANGED tables

\* Planted bug: the deployment of the play is served, current or not.
ServeAnyDeployment(c) ==
    /\ call[c].kind = "serve" /\ call[c].at = "deployment"
    /\ \/ IsLive(call[c].login) /\ CallTo(c, "policy")
       \/ End(c)
    /\ UNCHANGED tables

\* The login, then the current deployment, which must be the play's.
ServeDeployment(c) ==
    /\ call[c].kind = "serve" /\ call[c].at = "deployment"
    /\ \/ /\ IsLive(call[c].login) /\ call[c].build = build
          /\ CallTo(c, "policy")
       \/ End(c)
    /\ UNCHANGED tables

\* The answer is sent, and the request is over.
Answer(c) ==
    /\ call[c].at = "served"
    /\ End(c)
    /\ UNCHANGED tables

ClosePlay(c, p) ==
    /\ play[p].state = "OPEN" /\ ~play[p].closed /\ CanLock(c, p)
    /\ play' = [play EXCEPT ![p].closed = TRUE]
    /\ UNCHANGED <<login, grant, policy, revoked, build, external, call>>

\* DELETE FROM auth_sessions locks the row, then cascades to the plays.
StartLogout(c, l) ==
    /\ call[c].kind = "none" /\ CanLock(c, l) /\ login[l] # "gone"
    /\ call' = [call EXCEPT ![c] = [Nothing EXCEPT
          !.kind = "logout", !.at = "cascade", !.login = l, !.holds = {l}]]
    /\ UNCHANGED tables

Cascade(c) ==
    LET mine == {p \in Play : play[p].login = call[c].login} IN
    /\ call[c].kind = "logout" /\ call[c].at = "cascade"
    /\ \A p \in mine : CanLock(c, p)
    /\ login' = [login EXCEPT ![call[c].login] = "gone"]
    /\ Deleted(mine) /\ End(c)
    /\ UNCHANGED <<grant, policy, revoked, build, external>>

\* A request fails or is abandoned: its transaction is rolled back.
CallFails(c) ==
    /\ call[c].kind # "none"
    /\ End(c)
    /\ UNCHANGED tables

-----------------------------------------------------------------------------
(* What happens around: reviews, publication, the clock, a restart.        *)

ProjectFree == \A c \in Call : Project \notin call[c].holds

\* The staff approves at once, or a review approves what a member asked for.
Approve(o) ==
    /\ external /\ ProjectFree /\ policy < MaxVersion
    /\ grant[o] = "NONE"
    /\ grant' = [grant EXCEPT ![o] = "APPROVED"]
    /\ policy' = policy + 1
    /\ UNCHANGED <<play, login, revoked, build, external, call>>

\* Planted bug: the event carries the version before the revocation.
RevokeOldVersion(o) ==
    /\ ProjectFree /\ grant[o] = "APPROVED" /\ policy < MaxVersion
    /\ grant' = [grant EXCEPT ![o] = "NONE"]
    /\ policy' = policy + 1 /\ revoked' = [revoked EXCEPT ![o] = policy]
    /\ UNCHANGED <<play, login, build, external, call>>

\* Revocation stays possible while the flag is off.
Revoke(o) ==
    /\ ProjectFree /\ grant[o] = "APPROVED" /\ policy < MaxVersion
    /\ grant' = [grant EXCEPT ![o] = "NONE"]
    /\ policy' = policy + 1 /\ revoked' = [revoked EXCEPT ![o] = policy + 1]
    /\ UNCHANGED <<play, login, build, external, call>>

ReplaceBuild ==
    /\ ProjectFree /\ build < MaxVersion
    /\ build' = build + 1
    /\ UNCHANGED <<play, login, grant, policy, revoked, external, call>>

PlayExpires(p) ==
    /\ play[p].state = "OPEN" /\ ~play[p].expired
    /\ play' = [play EXCEPT ![p].expired = TRUE]
    /\ UNCHANGED <<login, grant, policy, revoked, build, external, call>>

LoginExpires(l) ==
    /\ login[l] = "live"
    /\ login' = [login EXCEPT ![l] = "expired"]
    /\ UNCHANGED <<play, grant, policy, revoked, build, external, call>>

\* The flag changes with a restart of the API, which ends every request.
Restart ==
    /\ external' = ~external
    /\ call' = [c \in Call |-> Nothing]
    /\ UNCHANGED <<play, login, grant, policy, revoked, build>>

PlayNext ==
    \/ \E c \in Call :
          \/ \E p \in Play :
                \/ \E l \in Login \cup {Nobody} : StartIssue(c, p, l)
                \/ StartRenew(c, p) \/ StartServe(c, p) \/ ClosePlay(c, p)
          \/ IssueAdvisory(c) \/ IssueLogin(c) \/ IssueSnapshot(c)
          \/ CountPlays(c) \/ InsertPlay(c)
          \/ CloseDisabled(c) \/ CheckPolicy(c)
          \/ RenewLogin(c) \/ RenewPlay(c) \/ ExtendPlay(c)
          \/ ServeDeployment(c) \/ Answer(c) \/ CallFails(c)
          \/ Cascade(c) \/ \E l \in Login : StartLogout(c, l)
    \/ \E o \in Origin :
          Approve(o) \/ Revoke(o)
    \/ \E p \in Play : PlayExpires(p)
    \/ \E l \in Login : LoginExpires(l)
    \/ ReplaceBuild \/ Restart

PlaySpec == PlayInit /\ [][PlayNext]_playVars

-----------------------------------------------------------------------------
PlayState ==
    [state : {"NONE", "OPEN", "DELETED"}, closed : BOOLEAN, expired : BOOLEAN,
     login : Login \cup {Nobody}, origins : SUBSET Origin, version : Version,
     build : Nat]

CallState ==
    [kind : {"none", "issue", "renew", "serve", "logout"},
     at : {"free", "advisory", "login", "project", "count", "insert", "policy",
           "play", "deployment", "served", "cascade"},
     play : Play \cup {Nobody}, login : Login \cup {Nobody}, build : Nat,
     origins : SUBSET Origin, version : Version, holds : SUBSET PlayLocks,
     barred : BOOLEAN]

PlayTypeOK ==
    /\ play \in [Play -> PlayState]
    /\ login \in [Login -> {"live", "expired", "gone"}]
    /\ grant \in [Origin -> {"NONE", "APPROVED"}]
    /\ policy \in Version /\ revoked \in [Origin -> Version]
    /\ build \in Nat /\ external \in BOOLEAN
    /\ call \in [Call -> CallState]

(* A revocation reaches every play that was issued under the approval:    *)
(* however the two transactions interleave, an origin in the snapshot of  *)
(* a play is still approved, or was revoked after the version the play    *)
(* remembers, which is what every later check looks for.                  *)
RevocationReaches ==
    \A p \in Play : play[p].state = "OPEN" =>
        \A o \in play[p].origins :
            grant[o] = "APPROVED" \/ revoked[o] > play[p].version

(* No request that begins after a play was closed, its user logged out,   *)
(* its build was replaced or one of its origins was revoked is served or  *)
(* extends the play, however stale the rows are that it read on the way.  *)
BarredNeverServed ==
    \A c \in Call : call[c].at = "served" => ~call[c].barred

(* The budgets of plays hold whatever is issued at the same time: of each *)
(* login, of all anonymous visitors together, and of all plays.           *)
PlayBudgets ==
    /\ Cardinality(Unclosed(Play)) <= InAll
    /\ \A l \in Login \cup {Nobody} :
          Cardinality({p \in Unclosed(Play) : play[p].login = l}) <= Budget(l)

\* The requests whose locks keep c from its next step.
WaitsFor(c) ==
    {d \in Call \ {c} :
        \/ call[c].at = "advisory" /\ Advisory \in call[d].holds
        \/ /\ call[c].at \in {"login", "insert"}
           /\ call[c].login \in call[d].holds
        \/ call[c].at = "play" /\ call[c].play \in call[d].holds
        \/ /\ call[c].at = "count"
           /\ \E p \in Play : play[p].expired /\ p \in call[d].holds
        \/ /\ call[c].at = "cascade"
           /\ \E p \in Play : play[p].login = call[c].login
                                 /\ p \in call[d].holds}

(* Issue, renewal and logout take the locks of logins, plays and project  *)
(* in orders that never close a circle of requests waiting for each other.*)
NoWaitCircle ==
    \A S \in SUBSET Call : S # {} => \E c \in S : WaitsFor(c) \cap S = {}
=============================================================================
