----------------------------- MODULE Credentials ---------------------------
(***************************************************************************)
(* What lets an account in: sessions with their rotating refresh tokens,   *)
(* and the links that reset a password.                                    *)
(*                                                                         *)
(* A request is a transaction or a handler in progress.  The transactions  *)
(* run READ COMMITTED: each statement finds the rows committed before it   *)
(* began and waits for those another transaction has written, and what a   *)
(* transaction writes takes effect when it commits.                        *)
(***************************************************************************)
EXTENDS Integers

CONSTANTS
  Users,        \* accounts
  Requests,     \* slots for concurrent requests
  MaxSessions,  \* bound: session families that may be created
  MaxTokens,    \* bound: refresh tokens that may be created
  MaxLinks,     \* bound: reset links that may be issued
  MaxVersion,   \* bound: the authVersion at which an account is left alone
  NoUser        \* user of a row that does not exist

ASSUME UserAssumption == NoUser \notin Users
ASSUME BoundAssumption ==
  MaxSessions \in Nat /\ MaxTokens \in Nat /\ MaxLinks \in Nat /\ MaxVersion \in Nat

VARIABLES
  user,      \* User rows: what a login and the guard look at
  session,   \* AuthenticationSession rows
  token,     \* RefreshToken rows
  link,      \* PasswordReset rows
  req        \* requests in flight

vars == <<user, session, token, link, req>>

Sessions == 1 .. MaxSessions
Tokens == 1 .. MaxTokens
Links == 1 .. MaxLinks

\* open: approved and not disabled.  A password is the number of resets before it.
UserRow == [open : BOOLEAN, version : Nat, password : Nat]

\* ENDED: revoked, or the family has expired.  password: the one its login verified.
SessionRow == [user : Users \cup {NoUser}, state : {"NONE", "LIVE", "ENDED"}, version : Nat, password : Nat]
TokenRow == [session : Sessions \cup {0}, consumed : BOOLEAN]

\* replaced (history): the links superseded when this one was issued.
LinkRow == [user : Users \cup {NoUser}, state : {"NONE", "LIVE", "CONSUMED", "SUPERSEDED", "EXPIRED"},
            replaced : SUBSET Links]

\* saw is the account as the login read it; links and sessions are the rows that
\* the last update of a transaction found, or has written.
Request == [pc : {"idle", "creating", "rotating", "revoking", "issuing", "inserting",
                  "consuming", "superseding", "ending"},
            user : Users \cup {NoUser}, saw : UserRow, session : Sessions \cup {0}, token : Tokens \cup {0},
            link : Links \cup {0}, links : SUBSET Links, sessions : SUBSET Sessions]

NoAccount == [open |-> FALSE, version |-> 0, password |-> 0]
IdleRequest == [pc |-> "idle", user |-> NoUser, saw |-> NoAccount, session |-> 0,
                token |-> 0, link |-> 0, links |-> {}, sessions |-> {}]

TypeOK ==
  /\ user \in [Users -> UserRow]
  /\ session \in [Sessions -> SessionRow]
  /\ token \in [Tokens -> TokenRow]
  /\ link \in [Links -> LinkRow]
  /\ req \in [Requests -> Request]

\* Accounts are registered or, open from the start, bootstrapped.
Init ==
  /\ user \in [Users -> {[open |-> open, version |-> 0, password |-> 0] : open \in BOOLEAN}]
  /\ session = [s \in Sessions |-> [user |-> NoUser, state |-> "NONE", version |-> 0, password |-> 0]]
  /\ token = [t \in Tokens |-> [session |-> 0, consumed |-> FALSE]]
  /\ link = [l \in Links |-> [user |-> NoUser, state |-> "NONE", replaced |-> {}]]
  /\ req = [r \in Requests |-> IdleRequest]

NextSession(s) == session[s].state = "NONE" /\ \A o \in Sessions : o < s => session[o].state # "NONE"
NextToken(t) == token[t].session = 0 /\ \A o \in Tokens : o < t => token[o].session # 0
NextLink(l) == link[l].state = "NONE" /\ \A o \in Links : o < l => link[o].state # "NONE"

\* The guard: IdentityService.currentAccount with the claims of an access token
\* of session s, which carries the session's version.
Accepts(s) ==
  LET u == session[s].user IN
  session[s].state = "LIVE" /\ user[u].open /\ session[s].version = user[u].version

Begin(r, request) == req[r].pc = "idle" /\ req' = [req EXCEPT ![r] = request]
End(r) == req' = [req EXCEPT ![r] = IdleRequest]

----------------------------------------------------------------------------
(* Faulty variants of the definitions below, never part of Next: put in    *)
(* place of the original, each must make TLC refute a property.            *)

WithPasswordOnly(row) ==        \* a reset leaves authVersion alone
  [open |-> row.open, version |-> row.version, password |-> row.password + 1]

ChangedQuietly(row, open) ==    \* so does a change of the account
  [open |-> open, version |-> row.version, password |-> row.password]

LocksUnmarked(r) ==             \* the other links are superseded before the used one is marked
  LET q == req[r] IN
  CASE q.pc = "inserting" -> q.links
    [] q.pc = "ending" -> q.links \cup {q.link}
    [] OTHER -> {}

UnconsumedAlways(t) == TRUE     \* the update names only the token's id

CreateSessionLate(r) ==         \* the session takes its version from a second read
  /\ req[r].pc = "creating"
  /\ \E s \in Sessions, t \in Tokens :
       /\ NextSession(s) /\ NextToken(t)
       /\ session' = [session EXCEPT ![s] = [user |-> req[r].user, state |-> "LIVE",
                          version |-> user[req[r].user].version, password |-> req[r].saw.password]]
       /\ token' = [token EXCEPT ![t] = [session |-> s, consumed |-> FALSE]]
  /\ End(r)
  /\ UNCHANGED <<user, link>>

----------------------------------------------------------------------------
(* Accounts, as UserManagement changes them.                               *)

\* Approval, access or role change.
Changed(row, open) == [open |-> open, version |-> row.version + 1, password |-> row.password]

\* A reset that has written the User row makes other writers wait.
UserFree(u) == \A r \in Requests : req[r].pc = "ending" => req[r].user # u

ChangeAccount(u) ==
  /\ user[u].version < MaxVersion
  /\ UserFree(u)
  /\ \E open \in BOOLEAN : user' = [user EXCEPT ![u] = Changed(@, open)]
  /\ UNCHANGED <<session, token, link, req>>

----------------------------------------------------------------------------
(* Sessions.                                                               *)

\* The account is read once; verifying the password takes its time.
Login(r, u) ==
  /\ user[u].open
  /\ Begin(r, [IdleRequest EXCEPT !.pc = "creating", !.user = u, !.saw = user[u]])
  /\ UNCHANGED <<user, session, token, link>>

CreateSession(r) ==
  /\ req[r].pc = "creating"
  /\ \E s \in Sessions, t \in Tokens :
       /\ NextSession(s) /\ NextToken(t)
       /\ session' = [session EXCEPT ![s] = [user |-> req[r].user, state |-> "LIVE",
                          version |-> req[r].saw.version, password |-> req[r].saw.password]]
       /\ token' = [token EXCEPT ![t] = [session |-> s, consumed |-> FALSE]]
  /\ End(r)
  /\ UNCHANGED <<user, link>>

\* The first read of rotate decides between a replay and an attempt to consume.
RotateRead(r, t) ==
  LET s == token[t].session IN
  /\ s # 0 /\ session[s].state = "LIVE"
  /\ Begin(r, [IdleRequest EXCEPT !.pc = IF token[t].consumed THEN "revoking" ELSE "rotating",
                                  !.session = s, !.token = t])
  /\ UNCHANGED <<user, session, token, link>>

Unconsumed(t) == ~token[t].consumed

Rotate(r) ==
  /\ req[r].pc = "rotating"
  /\ Unconsumed(req[r].token)
  /\ \E t \in Tokens :
       /\ NextToken(t)
       /\ token' = [token EXCEPT ![req[r].token].consumed = TRUE,
                                 ![t] = [session |-> req[r].session, consumed |-> FALSE]]
  /\ End(r)
  /\ UNCHANGED <<user, session, link>>

\* Another request consumed the token after the read: no row matches.
RotateConflict(r) ==
  /\ req[r].pc = "rotating"
  /\ ~Unconsumed(req[r].token)
  /\ req' = [req EXCEPT ![r].pc = "revoking"]
  /\ UNCHANGED <<user, session, token, link>>

\* Of a request the guard admits the handler revokes the session its cookie
\* names, whichever that is; it answers without waiting for the update.
Logout(r, s) ==
  /\ \E o \in Sessions : session[o].state # "NONE" /\ Accepts(o)
  /\ session[s].state # "NONE"
  /\ Begin(r, [IdleRequest EXCEPT !.pc = "revoking", !.session = s])
  /\ UNCHANGED <<user, session, token, link>>

Revoke(r) ==
  /\ req[r].pc = "revoking"
  /\ session' = [session EXCEPT ![req[r].session].state = "ENDED"]
  /\ End(r)
  /\ UNCHANGED <<user, token, link>>

SessionExpires(s) ==
  /\ session[s].state = "LIVE"
  /\ session' = [session EXCEPT ![s].state = "ENDED"]
  /\ UNCHANGED <<user, token, link, req>>

----------------------------------------------------------------------------
(* Reset links.                                                            *)

LiveLinks(u) == {l \in Links : link[l].state = "LIVE" /\ link[l].user = u}

\* consumedAt and supersededAt are null; the updates do not look at expiresAt.
Unused(l) == link[l].state \in {"LIVE", "EXPIRED"}
UnusedLinks(u) == {l \in Links : Unused(l) /\ link[l].user = u}

\* The links a transaction has written: another's update of them waits for its end.
Locks(r) ==
  LET q == req[r] IN
  CASE q.pc = "inserting" -> q.links
    [] q.pc = "superseding" -> {q.link}
    [] q.pc = "ending" -> q.links \cup {q.link}
    [] OTHER -> {}

LinksFree(r, S) == \A o \in Requests \ {r} : Locks(o) \cap S = {}

\* The first statement of issue finds the links to supersede, ...
IssueStart(r, u) ==
  /\ Begin(r, [IdleRequest EXCEPT !.pc = "issuing", !.user = u, !.links = UnusedLinks(u)])
  /\ UNCHANGED <<user, session, token, link>>

\* ... waits for other transactions that have written them, writes those still
\* unused then, and issue goes on to insert its own.
IssueSupersede(r) ==
  /\ req[r].pc = "issuing"
  /\ LinksFree(r, req[r].links)
  /\ req' = [req EXCEPT ![r].pc = "inserting", ![r].links = {l \in @ : Unused(l)}]
  /\ UNCHANGED <<user, session, token, link>>

IssueCommit(r) ==
  /\ req[r].pc = "inserting"
  /\ \E new \in Links :
       /\ NextLink(new)
       /\ link' = [l \in Links |->
            IF l = new THEN [user |-> req[r].user, state |-> "LIVE", replaced |-> req[r].links]
            ELSE IF l \in req[r].links THEN [link[l] EXCEPT !.state = "SUPERSEDED"]
            ELSE link[l]]
  /\ End(r)
  /\ UNCHANGED <<user, session, token>>

LinkExpires(l) ==
  /\ link[l].state = "LIVE"
  /\ link' = [link EXCEPT ![l].state = "EXPIRED"]
  /\ UNCHANGED <<user, session, token, req>>

\* The read of consume; its update names only the id of what it found.
ConsumeRead(r, l) ==
  /\ link[l].state = "LIVE"
  /\ Begin(r, [IdleRequest EXCEPT !.pc = "consuming", !.user = link[l].user, !.link = l])
  /\ UNCHANGED <<user, session, token, link>>

\* The link is written, and the next statement finds the other links.
ConsumeMark(r) ==
  LET q == req[r] IN
  /\ q.pc = "consuming"
  /\ LinksFree(r, {q.link})
  /\ req' = [req EXCEPT ![r] = [q EXCEPT !.pc = "superseding", !.links = UnusedLinks(q.user) \ {q.link}]]
  /\ UNCHANGED <<user, session, token, link>>

LiveSessions(u) == {s \in Sessions : session[s].state = "LIVE" /\ session[s].user = u}

\* Those still unused are written, then the account, and the last statement
\* finds the sessions.
ConsumeSupersede(r) ==
  LET q == req[r] IN
  /\ q.pc = "superseding"
  /\ LinksFree(r, q.links)
  /\ UserFree(q.user)
  /\ user[q.user].version < MaxVersion
  /\ req' = [req EXCEPT ![r] = [q EXCEPT !.pc = "ending", !.links = {l \in @ : Unused(l)},
                                      !.sessions = LiveSessions(q.user)]]
  /\ UNCHANGED <<user, session, token, link>>

WithPassword(row) == [open |-> row.open, version |-> row.version + 1, password |-> row.password + 1]

ConsumeCommit(r) ==
  LET q == req[r] IN
  /\ q.pc = "ending"
  /\ link' = [l \in Links |->
       IF l = q.link THEN [link[l] EXCEPT !.state = "CONSUMED"]
       ELSE IF l \in q.links THEN [link[l] EXCEPT !.state = "SUPERSEDED"]
       ELSE link[l]]
  /\ user' = [user EXCEPT ![q.user] = WithPassword(@)]
  /\ session' = [s \in Sessions |-> IF s \in q.sessions THEN [session[s] EXCEPT !.state = "ENDED"] ELSE session[s]]
  /\ End(r)
  /\ UNCHANGED token

----------------------------------------------------------------------------

\* A wrong password, a database error or the end of the API: the transaction rolls back.
RequestLost(r) ==
  /\ req[r].pc # "idle"
  /\ End(r)
  /\ UNCHANGED <<user, session, token, link>>

SessionStep(r) ==
  \/ \E u \in Users : Login(r, u)
  \/ \E t \in Tokens : RotateRead(r, t)
  \/ \E s \in Sessions : Logout(r, s)
  \/ CreateSession(r) \/ Rotate(r) \/ RotateConflict(r) \/ Revoke(r)

ResetStep(r) ==
  \/ \E u \in Users : IssueStart(r, u)
  \/ IssueSupersede(r) \/ IssueCommit(r)
  \/ \E l \in Links : ConsumeRead(r, l)
  \/ ConsumeMark(r) \/ ConsumeSupersede(r) \/ ConsumeCommit(r)

Next ==
  \/ \E u \in Users : ChangeAccount(u)
  \/ \E s \in Sessions : SessionExpires(s)
  \/ \E l \in Links : LinkExpires(l)
  \/ \E r \in Requests : SessionStep(r) \/ ResetStep(r) \/ RequestLost(r)

Spec == Init /\ [][Next]_vars
----------------------------------------------------------------------------
(* Safety.                                                                 *)

\* The guard admits a session only while the password its login verified is
\* still the account's, also when the reset commits between the login's look
\* at the account and its insert, or the insert comes between the reset's last
\* statement and its commit, so that the reset does not end the session.
AcceptedKnowsPassword ==
  \A s \in Sessions :
    session[s].state # "NONE" /\ Accepts(s) => session[s].password = user[session[s].user].password

\* However refreshes of one session race, it has one token that can continue it.
OneCurrentToken ==
  \A t, o \in Tokens :
    token[t].session # 0 /\ token[t].session = token[o].session /\ ~token[t].consumed /\ ~token[o].consumed => t = o

\* A session the guard has stopped admitting is never admitted again, though
\* its account may be enabled again and its refresh token stays valid.
EndedForGood ==
  [][\A s \in Sessions : session[s].state # "NONE" /\ ~Accepts(s) => ~Accepts(s)']_vars

\* After a reset the account has no live link that took the place of the one
\* used, or whose place that one took: a request that supersedes the used link
\* leaves a link the reset finds, or waits for the reset's end.  Links left live
\* are of requests that overlapped, neither superseding the other's link.
ResetEndsLinks ==
  [][\A r \in Requests : ConsumeCommit(r) =>
       LET used == req[r].link IN
       \A l \in Links :
         link'[l].state = "LIVE" /\ link'[l].user = req[r].user =>
           used \notin link'[l].replaced /\ l \notin link'[used].replaced]_vars

\* What this module takes user management for, and has resets do to accounts.
Access == [u \in Users |-> [exists |-> TRUE, open |-> user[u].open,
                            version |-> user[u].version, password |-> user[u].password]]

Accounts == INSTANCE AccountAccess WITH access <- Access

\* Resets and changes of an account leave its version to tell who may go on.
ImplementsAccess == Accounts!Spec

(* What the documents promise and the code does not keep.                  *)

\* "Concurrent refresh/reset consumption: no two successful consumptions"
\* (specs/001-industrial-dashboard/quickstart.md:121).
LinkUsedOnce ==
  [][\A u \in Users : user'[u].password # user[u].password =>
       \E l \in LiveLinks(u) : link'[l].state = "CONSUMED"]_vars

----------------------------------------------------------------------------
(* The inductive invariant.                                                *)

\* A login or session carries an earlier account, or the present password.
Knows(u, version, password) ==
  /\ u \in Users
  /\ version <= user[u].version
  /\ version = user[u].version => password = user[u].password

SessionAgrees(s) ==
  session[s].state # "NONE" => Knows(session[s].user, session[s].version, session[s].password)

SessionsAgree == \A s \in Sessions : SessionAgrees(s)

TokensAgree == \A t \in Tokens : token[t].session # 0 => session[token[t].session].state # "NONE"

\* What a link replaced is used or superseded.
LinkAgrees(l) ==
  link[l].state # "NONE" =>
    /\ link[l].user \in Users
    /\ \A o \in link[l].replaced : link[o].state \notin {"NONE", "LIVE"}

LinksAgree == \A l \in Links : LinkAgrees(l)

RequestAgrees(r) ==
  LET q == req[r] IN
  /\ q.pc \in {"creating", "issuing", "inserting", "consuming", "superseding", "ending"} => q.user \in Users
  /\ q.pc = "creating" => Knows(q.user, q.saw.version, q.saw.password)
  /\ q.pc \in {"rotating", "revoking"} => q.session # 0 /\ session[q.session].state # "NONE"
  /\ q.pc = "rotating" => q.token # 0 /\ token[q.token].session = q.session
  /\ q.pc \in {"consuming", "superseding", "ending"} => q.link # 0 /\ link[q.link].state # "NONE"
  /\ \A l \in q.links : link[l].state # "NONE"
  /\ \A s \in q.sessions : session[s].state # "NONE"

RequestsAgree == \A r \in Requests : RequestAgrees(r)

RowsAgree == TypeOK /\ SessionsAgree /\ TokensAgree /\ LinksAgree /\ RequestsAgree /\ OneCurrentToken

\* No two transactions have written one link.
LocksApart == \A r, o \in Requests : r # o => Locks(r) \cap Locks(o) = {}

\* From the moment it has marked its link, a reset knows of every live link
\* that has taken its place.
ResetAgrees(r) ==
  LET q == req[r] IN
  q.pc \in {"superseding", "ending"} =>
    \A l \in LiveLinks(q.user) : q.link \in link[l].replaced => l \in q.links \cup {q.link}

ResetsAgree == \A r \in Requests : ResetAgrees(r)

Ind == RowsAgree /\ LocksApart /\ ResetsAgree
============================================================================
