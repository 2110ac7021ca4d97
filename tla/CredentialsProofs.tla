-------------------------- MODULE CredentialsProofs ------------------------
(***************************************************************************)
(* Theorems about Credentials: the inductive invariant Ind, and from it    *)
(* that the guard admits no session whose password is no longer the        *)
(* account's, that racing refreshes leave one current token, that a        *)
(* session which has ended stays so, that a reset leaves no link that took *)
(* the place of the one it used, and that accounts change as AccountAccess *)
(* has it.                                                                 *)
(***************************************************************************)
EXTENDS Credentials, TLAPS

----------------------------------------------------------------------------
(* What no step takes back.                                                *)

\* An account changes only with its version, and rows keep what they refer to.
Persists ==
  /\ \A u \in Users : user'[u] = user[u] \/ user'[u].version > user[u].version
  /\ \A s \in Sessions : session[s].state # "NONE" =>
       /\ session'[s].state # "NONE"
       /\ session'[s].state = "LIVE" => session[s].state = "LIVE"
       /\ session'[s].user = session[s].user
       /\ session'[s].version = session[s].version
       /\ session'[s].password = session[s].password
  /\ \A t \in Tokens : token[t].session # 0 => token'[t].session = token[t].session
  /\ \A l \in Links : link[l].state # "NONE" =>
       /\ link'[l].state # "NONE"
       /\ link'[l].state = "LIVE" => link[l].state = "LIVE"
       /\ link'[l].user = link[l].user
       /\ link'[l].replaced = link[l].replaced

LEMMA IdleType == IdleRequest \in Request
  BY DEF IdleRequest, Request, NoAccount, UserRow

LEMMA IdleAgrees == ASSUME NEW r \in Requests, req'[r] = IdleRequest PROVE RequestAgrees(r)'
  BY DEF RequestAgrees, IdleRequest

\* What a login or session knows stays true of a later account.
LEMMA KnowsStays ==
  ASSUME TypeOK, TypeOK', Persists, NEW u \in Users, NEW v \in Nat, NEW p \in Nat, Knows(u, v, p)
  PROVE  Knows(u, v, p)'
<1>1. user[u].version \in Nat /\ user'[u].version \in Nat
  BY DEF TypeOK, UserRow
<1>2. user'[u] = user[u] \/ user'[u].version > user[u].version
  BY DEF Persists
<1> QED BY <1>1, <1>2 DEF Knows

LEMMA RequestStays ==
  ASSUME TypeOK, TypeOK', Persists, NEW r \in Requests, RequestAgrees(r), req'[r] = req[r]
  PROVE  RequestAgrees(r)'
<1> DEFINE q == req[r]
<1>1. q \in Request
  BY DEF TypeOK
<1>2. ASSUME q.pc = "creating"
      PROVE  Knows(req[r].user, req[r].saw.version, req[r].saw.password)'
  <2>1. PICK u \in Users, v \in Nat, p \in Nat : u = q.user /\ v = q.saw.version /\ p = q.saw.password
    BY <1>1, <1>2 DEF RequestAgrees, Request, UserRow
  <2>2. Knows(u, v, p)'
    BY <1>2, <2>1, KnowsStays DEF RequestAgrees
  <2> QED BY <2>1, <2>2
<1>3. q.pc \in {"rotating", "revoking"} => q.session # 0 /\ session'[q.session].state # "NONE"
  BY <1>1 DEF RequestAgrees, Request, Persists
<1>4. q.pc = "rotating" => q.token # 0 /\ token'[q.token].session = q.session
  BY <1>1 DEF RequestAgrees, Request, Persists
<1>5. q.pc \in {"consuming", "superseding", "ending"} => q.link # 0 /\ link'[q.link].state # "NONE"
  BY <1>1 DEF RequestAgrees, Request, Persists
<1>6. (\A l \in q.links : link'[l].state # "NONE") /\ \A s \in q.sessions : session'[s].state # "NONE"
  BY <1>1 DEF RequestAgrees, Request, Persists
<1> QED BY <1>1, <1>2, <1>3, <1>4, <1>5, <1>6 DEF RequestAgrees

\* A step of request r preserves RowsAgree if it does so for r and the rows it adds.
LEMMA RowsStay ==
  ASSUME RowsAgree, TypeOK', Persists, OneCurrentToken', NEW D \in SUBSET Requests,
         \A r \in Requests \ D : req'[r] = req[r],
         \A r \in D : RequestAgrees(r)',
         \A s \in Sessions : session[s].state = "NONE" => SessionAgrees(s)',
         \A t \in Tokens : token[t].session = 0 /\ token'[t].session # 0 =>
            session'[token'[t].session].state # "NONE",
         \A l \in Links : link[l].state = "NONE" => LinkAgrees(l)'
  PROVE  RowsAgree'
<1>1. ASSUME NEW s \in Sessions, session[s].state # "NONE"
      PROVE  SessionAgrees(s)'
  <2>1. Knows(session[s].user, session[s].version, session[s].password)
    BY <1>1 DEF RowsAgree, SessionsAgree, SessionAgrees
  <2>2. PICK u \in Users, v \in Nat, p \in Nat :
          u = session[s].user /\ v = session[s].version /\ p = session[s].password
    BY <2>1 DEF Knows, RowsAgree, TypeOK, SessionRow
  <2>3. Knows(u, v, p)'
    BY <2>1, <2>2, KnowsStays DEF RowsAgree
  <2> QED BY <1>1, <2>2, <2>3 DEF Persists, SessionAgrees
<1>2. SessionsAgree'
  BY <1>1 DEF SessionsAgree
<1>3. TokensAgree'
  BY DEF RowsAgree, TypeOK, TokenRow, TokensAgree, Persists
<1>4. LinksAgree'
  <2>1. ASSUME NEW l \in Links, link[l].state # "NONE" PROVE LinkAgrees(l)'
    <3>1. link[l].user \in Users /\ link[l].replaced \in SUBSET Links
      BY <2>1 DEF RowsAgree, LinksAgree, LinkAgrees, TypeOK, LinkRow
    <3>2. \A o \in link[l].replaced : link[o].state \notin {"NONE", "LIVE"}
      BY <2>1 DEF RowsAgree, LinksAgree, LinkAgrees
    <3>3. link'[l].user = link[l].user /\ link'[l].replaced = link[l].replaced
      BY <2>1 DEF Persists
    <3>4. \A o \in link[l].replaced : link'[o].state \notin {"NONE", "LIVE"}
      BY <3>1, <3>2 DEF Persists
    <3> QED BY <3>1, <3>3, <3>4 DEF LinkAgrees
  <2> QED BY <2>1 DEF LinksAgree
<1>5. RequestsAgree'
  BY RequestStays DEF RowsAgree, RequestsAgree
<1> QED BY <1>2, <1>3, <1>4, <1>5 DEF RowsAgree

\* A step that only moves request r.
LEMMA RequestMoves ==
  ASSUME RowsAgree, UNCHANGED <<user, session, token, link>>, NEW r \in Requests, NEW q \in Request,
         req' = [req EXCEPT ![r] = q], RequestAgrees(r)'
  PROVE  RowsAgree'
<1>1. TypeOK'
  BY DEF RowsAgree, TypeOK
<1>2. Persists
  BY DEF Persists
<1>3. OneCurrentToken'
  BY DEF RowsAgree, OneCurrentToken
<1>4. \A s \in Requests \ {r} : req'[s] = req[s]
  BY DEF RowsAgree, TypeOK
<1>5. /\ \A s \in Sessions : session[s].state = "NONE" => SessionAgrees(s)'
      /\ \A l \in Links : link[l].state = "NONE" => LinkAgrees(l)'
  BY DEF SessionAgrees, LinkAgrees
<1>6. {r} \in SUBSET Requests /\ \A s \in {r} : RequestAgrees(s)'
  OBVIOUS
<1> QED BY <1>1, <1>2, <1>3, <1>4, <1>5, <1>6, RowsStay

\* A step that ends request r, or none.
LEMMA RowsMove ==
  ASSUME RowsAgree, TypeOK', Persists, OneCurrentToken',
         UNCHANGED req \/ \E r \in Requests : End(r),
         \A s \in Sessions : session[s].state = "NONE" => SessionAgrees(s)',
         \A t \in Tokens : token[t].session = 0 /\ token'[t].session # 0 =>
            session'[token'[t].session].state # "NONE",
         \A l \in Links : link[l].state = "NONE" => LinkAgrees(l)'
  PROVE  RowsAgree'
<1>1. CASE UNCHANGED req
  <2>1. {} \in SUBSET Requests /\ \A s \in {} : RequestAgrees(s)'
    OBVIOUS
  <2>2. \A s \in Requests \ {} : req'[s] = req[s]
    BY <1>1
  <2> QED BY <2>1, <2>2, RowsStay
<1>2. CASE \E r \in Requests : End(r)
  <2>1. PICK r \in Requests : End(r)
    BY <1>2
  <2>2. {r} \in SUBSET Requests /\ (\A s \in {r} : RequestAgrees(s)') /\ (\A s \in Requests \ {r} : req'[s] = req[s])
    BY <2>1, IdleAgrees DEF End, RowsAgree, TypeOK
  <2> QED BY <2>2, RowsStay
<1> QED BY <1>1, <1>2

----------------------------------------------------------------------------
(* Every step preserves RowsAgree.                                         *)

LEMMA ChangeAccountStep ==
  ASSUME RowsAgree, NEW u \in Users, ChangeAccount(u) PROVE RowsAgree' /\ Persists
<1>1. PICK open \in BOOLEAN : user' = [user EXCEPT ![u] = Changed(user[u], open)]
  BY DEF ChangeAccount
<1>2. /\ Changed(user[u], open) \in UserRow
      /\ Changed(user[u], open).version > user[u].version
  BY DEF RowsAgree, TypeOK, UserRow, Changed
<1>3. TypeOK'
  BY <1>1, <1>2 DEF ChangeAccount, RowsAgree, TypeOK
<1>4. Persists
  BY <1>1, <1>2 DEF ChangeAccount, RowsAgree, TypeOK, Persists
<1>5. OneCurrentToken'
  BY DEF ChangeAccount, RowsAgree, OneCurrentToken
<1>6. /\ \A s \in Sessions : session[s].state = "NONE" => SessionAgrees(s)'
      /\ \A l \in Links : link[l].state = "NONE" => LinkAgrees(l)'
  BY DEF ChangeAccount, SessionAgrees, LinkAgrees
<1> QED BY <1>3, <1>4, <1>5, <1>6, RowsMove DEF ChangeAccount

LEMMA EndSessionStep ==
  ASSUME RowsAgree, NEW s \in Sessions, session[s].state # "NONE",
         session' = [session EXCEPT ![s].state = "ENDED"],
         UNCHANGED <<user, token, link>>, UNCHANGED req \/ \E r \in Requests : End(r)
  PROVE  RowsAgree' /\ Persists
<1>1. TypeOK'
  BY IdleType DEF RowsAgree, TypeOK, SessionRow, End
<1>2. Persists
  BY DEF RowsAgree, TypeOK, SessionRow, Persists
<1>3. OneCurrentToken'
  BY DEF RowsAgree, OneCurrentToken
<1>4. \A o \in Sessions : session[o].state = "NONE" => SessionAgrees(o)'
  BY DEF RowsAgree, TypeOK, SessionRow, SessionAgrees
<1>5. \A l \in Links : link[l].state = "NONE" => LinkAgrees(l)'
  BY DEF LinkAgrees
<1> QED BY <1>1, <1>2, <1>3, <1>4, <1>5, RowsMove

LEMMA LinkExpiresStep ==
  ASSUME RowsAgree, NEW l \in Links, LinkExpires(l) PROVE RowsAgree' /\ Persists
<1>1. TypeOK'
  BY DEF RowsAgree, TypeOK, LinkRow, LinkExpires
<1>2. Persists
  BY DEF RowsAgree, TypeOK, LinkRow, LinkExpires, Persists
<1>3. OneCurrentToken'
  BY DEF RowsAgree, OneCurrentToken, LinkExpires
<1>4. \A s \in Sessions : session[s].state = "NONE" => SessionAgrees(s)'
  BY DEF LinkExpires, SessionAgrees
<1>5. \A o \in Links : link[o].state = "NONE" => LinkAgrees(o)'
  BY DEF RowsAgree, TypeOK, LinkRow, LinkExpires, LinkAgrees
<1> QED BY <1>1, <1>2, <1>3, <1>4, <1>5, RowsMove DEF LinkExpires

\* The new session carries what the login saw; its token is the only one it has.
LEMMA CreateSessionStep ==
  ASSUME RowsAgree, NEW r \in Requests, CreateSession(r) PROVE RowsAgree' /\ Persists
<1> DEFINE q == req[r]
           row == [user |-> q.user, state |-> "LIVE", version |-> q.saw.version, password |-> q.saw.password]
<1>1. PICK s \in Sessions, t \in Tokens :
        /\ NextSession(s) /\ NextToken(t)
        /\ session' = [session EXCEPT ![s] = row]
        /\ token' = [token EXCEPT ![t] = [session |-> s, consumed |-> FALSE]]
  BY DEF CreateSession
<1>2. q \in Request /\ q.pc = "creating" /\ RequestAgrees(r) /\ UNCHANGED <<user, link>> /\ End(r)
  BY DEF CreateSession, RowsAgree, TypeOK, RequestsAgree
<1>3. row \in SessionRow /\ Knows(q.user, q.saw.version, q.saw.password)
  BY <1>2 DEF Request, SessionRow, UserRow, RequestAgrees
<1>4. TypeOK'
  BY <1>1, <1>2, <1>3, IdleType DEF RowsAgree, TypeOK, TokenRow, End
<1>5. session'[s] = row /\ (\A o \in Sessions \ {s} : session'[o] = session[o])
  BY <1>1 DEF RowsAgree, TypeOK
<1>6. token'[t] = [session |-> s, consumed |-> FALSE] /\ (\A o \in Tokens \ {t} : token'[o] = token[o])
  BY <1>1 DEF RowsAgree, TypeOK
<1>7. session[s].state = "NONE" /\ token[t].session = 0 /\ (\A o \in Tokens : token[o].session # s)
  BY <1>1 DEF NextSession, NextToken, RowsAgree, TokensAgree, Sessions
<1>8. Persists
  BY <1>2, <1>5, <1>6, <1>7 DEF Persists
<1>9. OneCurrentToken'
  BY <1>6, <1>7 DEF RowsAgree, OneCurrentToken
<1>10. \A o \in Sessions : session[o].state = "NONE" => SessionAgrees(o)'
  <2>1. SessionAgrees(s)'
    BY <1>2, <1>3, <1>5 DEF SessionAgrees, Knows
  <2>2. \A o \in Sessions \ {s} : session[o].state = "NONE" => SessionAgrees(o)'
    BY <1>5 DEF SessionAgrees
  <2> QED BY <2>1, <2>2
<1>11. \A o \in Tokens : token[o].session = 0 /\ token'[o].session # 0 => session'[token'[o].session].state # "NONE"
  BY <1>5, <1>6
<1>12. \A l \in Links : link[l].state = "NONE" => LinkAgrees(l)'
  BY <1>2 DEF LinkAgrees
<1> QED BY <1>2, <1>4, <1>8, <1>9, <1>10, <1>11, <1>12, RowsMove

\* The token that is consumed was the current one, so its replacement is alone.
LEMMA RotateStep ==
  ASSUME RowsAgree, NEW r \in Requests, Rotate(r) PROVE RowsAgree' /\ Persists
<1> DEFINE q == req[r]
<1>1. PICK t \in Tokens :
        /\ NextToken(t)
        /\ token' = [token EXCEPT ![q.token].consumed = TRUE, ![t] = [session |-> q.session, consumed |-> FALSE]]
  BY DEF Rotate
<1>2. /\ q \in Request /\ RequestAgrees(r) /\ End(r) /\ ~token[q.token].consumed
      /\ UNCHANGED <<user, session, link>> /\ q.pc = "rotating"
  BY DEF Rotate, RowsAgree, TypeOK, RequestsAgree, Unconsumed
<1>3. /\ q.token \in Tokens /\ q.session \in Sessions
      /\ token[q.token].session = q.session /\ session[q.session].state # "NONE"
  BY <1>2 DEF RequestAgrees, Request
<1>4. token[t].session = 0 /\ t # q.token
  BY <1>1, <1>3 DEF NextToken, Sessions
<1>5. /\ token'[t] = [session |-> q.session, consumed |-> FALSE]
      /\ token'[q.token].session = q.session /\ token'[q.token].consumed
      /\ \A o \in Tokens \ {t, q.token} : token'[o] = token[o]
  BY <1>1, <1>3, <1>4 DEF RowsAgree, TypeOK, TokenRow
<1>6. token' \in [Tokens -> TokenRow]
  BY <1>1, <1>3 DEF RowsAgree, TypeOK, TokenRow
<1>7. TypeOK'
  BY <1>2, <1>6, IdleType DEF RowsAgree, TypeOK, End
<1>8. Persists
  BY <1>2, <1>3, <1>4, <1>5 DEF Persists
<1>9. \A o \in Tokens : token[o].session = q.session /\ ~token[o].consumed => o = q.token
  BY <1>2, <1>3 DEF RowsAgree, OneCurrentToken, Sessions
<1>10. OneCurrentToken'
  BY <1>5, <1>9 DEF RowsAgree, OneCurrentToken
<1>11. \A s \in Sessions : session[s].state = "NONE" => SessionAgrees(s)'
  BY <1>2 DEF SessionAgrees
<1>12. \A o \in Tokens : token[o].session = 0 /\ token'[o].session # 0 => session'[token'[o].session].state # "NONE"
  BY <1>2, <1>3, <1>5
<1>13. \A l \in Links : link[l].state = "NONE" => LinkAgrees(l)'
  BY <1>2 DEF LinkAgrees
<1> QED BY <1>2, <1>7, <1>8, <1>10, <1>11, <1>12, <1>13, RowsMove

LEMMA IssueCommitStep ==
  ASSUME RowsAgree, NEW r \in Requests, IssueCommit(r) PROVE RowsAgree' /\ Persists
<1> DEFINE q == req[r]
           row == [user |-> q.user, state |-> "LIVE", replaced |-> q.links]
<1>1. PICK new \in Links :
        /\ NextLink(new)
        /\ link' = [l \in Links |->
             IF l = new THEN row
             ELSE IF l \in q.links THEN [link[l] EXCEPT !.state = "SUPERSEDED"]
             ELSE link[l]]
  BY DEF IssueCommit
<1>2. /\ q.user \in Users /\ q.links \in SUBSET Links /\ UNCHANGED <<user, session, token>> /\ End(r)
      /\ \A l \in q.links : link[l].state # "NONE"
  BY DEF IssueCommit, RowsAgree, TypeOK, Request, RequestsAgree, RequestAgrees
<1>3. link[new].state = "NONE" /\ new \notin q.links /\ link'[new] = row /\ row \in LinkRow
  BY <1>1, <1>2 DEF NextLink, LinkRow
<1>4. ASSUME NEW l \in Links \ {new}
      PROVE  /\ link'[l] \in LinkRow /\ link'[l].user = link[l].user /\ link'[l].replaced = link[l].replaced
             /\ l \in q.links => link'[l].state = "SUPERSEDED"
             /\ l \notin q.links => link'[l] = link[l]
  <2>1. link[l] \in LinkRow
    BY DEF RowsAgree, TypeOK
  <2>2. link'[l] = IF l \in q.links THEN [link[l] EXCEPT !.state = "SUPERSEDED"] ELSE link[l]
    BY <1>1
  <2> QED BY <2>1, <2>2 DEF LinkRow
<1>5. link' \in [Links -> LinkRow]
  <2>1. link' = [l \in Links |-> link'[l]]
    BY <1>1
  <2>2. \A l \in Links : link'[l] \in LinkRow
    BY <1>3, <1>4
  <2> QED BY <2>1, <2>2
<1>6. TypeOK'
  BY <1>2, <1>5, IdleType DEF RowsAgree, TypeOK, End
<1>7. Persists
  <2>1. ASSUME NEW l \in Links, link[l].state # "NONE"
        PROVE  /\ link'[l].state # "NONE"
               /\ link'[l].state = "LIVE" => link[l].state = "LIVE"
               /\ link'[l].user = link[l].user
               /\ link'[l].replaced = link[l].replaced
    <3>1. l \in Links \ {new}
      BY <1>3, <2>1
    <3> QED BY <1>4, <2>1, <3>1
  <2> QED BY <1>2, <2>1 DEF Persists
<1>8. OneCurrentToken'
  BY <1>2 DEF RowsAgree, OneCurrentToken
<1>9. \A s \in Sessions : session[s].state = "NONE" => SessionAgrees(s)'
  BY <1>2 DEF SessionAgrees
<1>10. ASSUME NEW l \in Links, link[l].state = "NONE" PROVE LinkAgrees(l)'
  <2>1. CASE l = new
    <3>1. link'[l].user \in Users /\ link'[l].replaced = q.links
      BY <1>2, <1>3, <2>1
    <3>2. \A o \in q.links : link'[o].state \notin {"NONE", "LIVE"}
      BY <1>2, <1>3, <1>4
    <3> QED BY <3>1, <3>2 DEF LinkAgrees
  <2>2. CASE l # new
    BY <1>2, <1>4, <1>10, <2>2 DEF LinkAgrees
  <2> QED BY <2>1, <2>2
<1> QED BY <1>2, <1>6, <1>7, <1>8, <1>9, <1>10, RowsMove

LEMMA ConsumeCommitStep ==
  ASSUME RowsAgree, NEW r \in Requests, ConsumeCommit(r) PROVE RowsAgree' /\ Persists
<1> DEFINE q == req[r]
           u == q.user
<1>1. /\ u \in Users /\ q.link \in Links /\ link[q.link].state # "NONE"
      /\ UNCHANGED token /\ End(r)
      /\ user' = [user EXCEPT ![u] = WithPassword(user[u])]
  BY DEF ConsumeCommit, RowsAgree, TypeOK, Request, RequestsAgree, RequestAgrees
<1>2. /\ WithPassword(user[u]) \in UserRow
      /\ WithPassword(user[u]).version > user[u].version
  BY <1>1 DEF RowsAgree, TypeOK, UserRow, WithPassword
<1>3. (\A l \in q.links : link[l].state # "NONE") /\ \A s \in q.sessions : session[s].state # "NONE"
  BY DEF RowsAgree, RequestsAgree, RequestAgrees
<1>4. ASSUME NEW l \in Links
      PROVE  /\ link'[l] \in LinkRow /\ link'[l].user = link[l].user /\ link'[l].replaced = link[l].replaced
             /\ link'[l].state = "NONE" <=> link[l].state = "NONE"
             /\ link'[l].state = "LIVE" => link[l].state = "LIVE"
  <2>1. link[l] \in LinkRow
    BY DEF RowsAgree, TypeOK
  <2>2. link'[l] = IF l = q.link THEN [link[l] EXCEPT !.state = "CONSUMED"]
                   ELSE IF l \in q.links THEN [link[l] EXCEPT !.state = "SUPERSEDED"]
                   ELSE link[l]
    BY DEF ConsumeCommit
  <2>3. CASE l = q.link
    BY <1>1, <2>1, <2>2, <2>3 DEF LinkRow
  <2>4. CASE l # q.link /\ l \in q.links
    BY <1>3, <2>1, <2>2, <2>4 DEF LinkRow
  <2>5. CASE l # q.link /\ l \notin q.links
    BY <2>1, <2>2, <2>5
  <2> QED BY <2>3, <2>4, <2>5
<1>5. link' \in [Links -> LinkRow]
  <2>1. link' = [l \in Links |-> link'[l]]
    BY DEF ConsumeCommit
  <2>2. \A l \in Links : link'[l] \in LinkRow
    BY <1>4
  <2> QED BY <2>1, <2>2
<1>6. \A s \in Sessions :
        \/ session'[s] = session[s]
        \/ session[s].state # "NONE" /\ session'[s] = [session[s] EXCEPT !.state = "ENDED"]
  BY <1>3 DEF ConsumeCommit
<1>7. session' \in [Sessions -> SessionRow]
  BY DEF ConsumeCommit, RowsAgree, TypeOK, SessionRow
<1>8. TypeOK'
  BY <1>1, <1>2, <1>5, <1>7, IdleType DEF RowsAgree, TypeOK, End
<1>9. Persists
  <2>1. \A v \in Users : user'[v] = user[v] \/ user'[v].version > user[v].version
    BY <1>1, <1>2 DEF RowsAgree, TypeOK
  <2>2. \A s \in Sessions : session[s].state # "NONE" =>
          /\ session'[s].state # "NONE"
          /\ session'[s].state = "LIVE" => session[s].state = "LIVE"
          /\ session'[s].user = session[s].user
          /\ session'[s].version = session[s].version
          /\ session'[s].password = session[s].password
    BY <1>6 DEF RowsAgree, TypeOK, SessionRow
  <2>3. \A t \in Tokens : token'[t].session = token[t].session
    BY <1>1
  <2> QED BY <1>4, <2>1, <2>2, <2>3 DEF Persists
<1>10. OneCurrentToken'
  BY <1>1 DEF RowsAgree, OneCurrentToken
<1>11. \A s \in Sessions : session[s].state = "NONE" => SessionAgrees(s)'
  BY <1>6 DEF SessionAgrees
<1>12. \A l \in Links : link[l].state = "NONE" => LinkAgrees(l)'
  BY <1>4 DEF LinkAgrees
<1> QED BY <1>1, <1>8, <1>9, <1>10, <1>11, <1>12, RowsMove

\* The steps that write no row.
LEMMA ReadSteps ==
  ASSUME RowsAgree, NEW r \in Requests,
         \/ \E u \in Users : Login(r, u) \/ IssueStart(r, u)
         \/ \E t \in Tokens : RotateRead(r, t)
         \/ \E s \in Sessions : Logout(r, s)
         \/ \E l \in Links : ConsumeRead(r, l)
         \/ IssueSupersede(r) \/ ConsumeMark(r) \/ ConsumeSupersede(r)
         \/ RotateConflict(r) \/ RequestLost(r)
  PROVE  RowsAgree' /\ UNCHANGED <<user, session, token, link>>
<1>0. req \in [Requests -> Request]
  BY DEF RowsAgree, TypeOK
<1>1. ASSUME NEW u \in Users, Login(r, u) PROVE RowsAgree'
  <2> DEFINE q == [IdleRequest EXCEPT !.pc = "creating", !.user = u, !.saw = user[u]]
  <2>1. q \in Request /\ req' = [req EXCEPT ![r] = q] /\ UNCHANGED <<user, session, token, link>>
    BY <1>1 DEF Login, Begin, Request, IdleRequest, RowsAgree, TypeOK
  <2>2. RequestAgrees(r)'
    BY <1>0, <2>1 DEF RequestAgrees, Knows, IdleRequest, RowsAgree, TypeOK, UserRow
  <2> QED BY <2>1, <2>2, RequestMoves
<1>2. ASSUME NEW u \in Users, IssueStart(r, u) PROVE RowsAgree'
  <2> DEFINE q == [IdleRequest EXCEPT !.pc = "issuing", !.user = u, !.links = UnusedLinks(u)]
  <2>1. q \in Request /\ req' = [req EXCEPT ![r] = q] /\ UNCHANGED <<user, session, token, link>>
    BY <1>2, IdleType DEF IssueStart, Begin, Request, IdleRequest, UnusedLinks
  <2>2. \A l \in UnusedLinks(u) : link[l].state # "NONE"
    BY DEF UnusedLinks, Unused
  <2>3. q.pc = "issuing" /\ q.user = u /\ q.links = UnusedLinks(u) /\ q.sessions = {} /\ req'[r] = q
    BY <1>0, <2>1 DEF IdleRequest
  <2> HIDE DEF q
  <2>4. RequestAgrees(r)'
    BY <2>1, <2>2, <2>3 DEF RequestAgrees
  <2> QED BY <2>1, <2>4, RequestMoves
<1>3. ASSUME NEW t \in Tokens, RotateRead(r, t) PROVE RowsAgree'
  <2> DEFINE q == [IdleRequest EXCEPT !.pc = IF token[t].consumed THEN "revoking" ELSE "rotating",
                                      !.session = token[t].session, !.token = t]
  <2>0. t # 0 /\ token[t] \in TokenRow
    BY DEF RowsAgree, TypeOK, Tokens
  <2>1. token[t].session \in Sessions /\ token[t].session # 0 /\ session[token[t].session].state = "LIVE"
    BY <1>3, <2>0 DEF RotateRead, TokenRow
  <2>2. q \in Request /\ req' = [req EXCEPT ![r] = q] /\ UNCHANGED <<user, session, token, link>>
    BY <1>3, <2>1, IdleType DEF RotateRead, Begin, Request, IdleRequest
  <2>3. RequestAgrees(r)'
    BY <1>0, <2>0, <2>1, <2>2 DEF RequestAgrees, IdleRequest
  <2> QED BY <2>2, <2>3, RequestMoves
<1>4. ASSUME NEW s \in Sessions, Logout(r, s) PROVE RowsAgree'
  <2> DEFINE q == [IdleRequest EXCEPT !.pc = "revoking", !.session = s]
  <2>1. q \in Request /\ req' = [req EXCEPT ![r] = q] /\ UNCHANGED <<user, session, token, link>>
    BY <1>4, IdleType DEF Logout, Begin, Request, IdleRequest
  <2>2. RequestAgrees(r)'
    <3>1. s # 0 /\ session'[s].state # "NONE"
      <4>1. s # 0
        BY BoundAssumption DEF Sessions
      <4>2. session' = session /\ session[s].state # "NONE"
        BY <1>4 DEF Logout
      <4> QED BY <4>1, <4>2
    <3>2. req'[r] = q
      BY <1>0, <2>1
    <3>3. q.pc = "revoking" /\ q.session = s /\ q.links = {} /\ q.sessions = {}
      BY DEF IdleRequest
    <3> HIDE DEF q
    <3> QED BY <3>1, <3>2, <3>3 DEF RequestAgrees
  <2> QED BY <2>1, <2>2, RequestMoves
<1>5. ASSUME NEW l \in Links, ConsumeRead(r, l) PROVE RowsAgree'
  <2> DEFINE q == [IdleRequest EXCEPT !.pc = "consuming", !.user = link[l].user, !.link = l]
  <2>1. link[l].user \in Users /\ link[l].state = "LIVE"
    BY <1>5 DEF ConsumeRead, RowsAgree, LinksAgree, LinkAgrees
  <2>2. q \in Request /\ req' = [req EXCEPT ![r] = q] /\ UNCHANGED <<user, session, token, link>>
    BY <1>5, <2>1, IdleType DEF ConsumeRead, Begin, Request, IdleRequest
  <2>3. RequestAgrees(r)'
    BY <1>0, <2>1, <2>2 DEF RequestAgrees, IdleRequest, Links
  <2> QED BY <2>2, <2>3, RequestMoves
<1>6. ASSUME RotateConflict(r) PROVE RowsAgree'
  <2> DEFINE q == [req[r] EXCEPT !.pc = "revoking"]
  <2>1. q \in Request /\ req' = [req EXCEPT ![r] = q] /\ UNCHANGED <<user, session, token, link>>
    BY <1>0, <1>6 DEF RotateConflict, Request
  <2>2. RequestAgrees(r)'
    BY <1>0, <1>6, <2>1 DEF RotateConflict, RequestAgrees, RowsAgree, RequestsAgree, Request
  <2> QED BY <2>1, <2>2, RequestMoves
<1>7. ASSUME RequestLost(r) PROVE RowsAgree'
  <2>1. req' = [req EXCEPT ![r] = IdleRequest] /\ UNCHANGED <<user, session, token, link>>
    BY <1>7 DEF RequestLost, End
  <2>2. RequestAgrees(r)'
    BY <1>0, <2>1, IdleAgrees
  <2> QED BY <2>1, <2>2, IdleType, RequestMoves
<1>8. ASSUME IssueSupersede(r) PROVE RowsAgree'
  <2> DEFINE L == {l \in req[r].links : Unused(l)}
             q == [req[r] EXCEPT !.pc = "inserting", !.links = L]
  <2>1. req[r] \in Request /\ req[r].pc = "issuing" /\ RequestAgrees(r) /\ L \subseteq req[r].links
    BY <1>0, <1>8 DEF IssueSupersede, RowsAgree, RequestsAgree
  <2>2. q \in Request /\ req' = [req EXCEPT ![r] = q] /\ UNCHANGED <<user, session, token, link>>
    BY <1>0, <1>8, <2>1 DEF IssueSupersede, Request
  <2>3. req'[r].pc = "inserting" /\ req'[r].user = req[r].user /\ req'[r].links = L /\ req'[r].sessions = req[r].sessions
    BY <1>0, <2>1, <2>2 DEF Request
  <2>4. RequestAgrees(r)'
    BY <2>1, <2>2, <2>3 DEF RequestAgrees
  <2> QED BY <2>2, <2>4, RequestMoves
<1>9. ASSUME ConsumeMark(r) PROVE RowsAgree'
  <2> DEFINE L == UnusedLinks(req[r].user) \ {req[r].link}
             q == [req[r] EXCEPT !.pc = "superseding", !.links = L]
  <2>1. req[r] \in Request /\ req[r].pc = "consuming" /\ RequestAgrees(r)
    BY <1>0, <1>9 DEF ConsumeMark, RowsAgree, RequestsAgree
  <2>2. q \in Request /\ req' = [req EXCEPT ![r] = q] /\ UNCHANGED <<user, session, token, link>>
    BY <1>0, <1>9, <2>1 DEF ConsumeMark, Request, UnusedLinks
  <2>3. /\ req'[r].pc = "superseding" /\ req'[r].user = req[r].user /\ req'[r].link = req[r].link
        /\ req'[r].links = L /\ req'[r].sessions = req[r].sessions
    BY <1>0, <2>1, <2>2 DEF Request
  <2>4. \A l \in L : link[l].state # "NONE"
    BY DEF UnusedLinks, Unused
  <2>5. RequestAgrees(r)'
    BY <2>1, <2>2, <2>3, <2>4 DEF RequestAgrees
  <2> QED BY <2>2, <2>5, RequestMoves
<1>10. ASSUME ConsumeSupersede(r) PROVE RowsAgree'
  <2> DEFINE L == {l \in req[r].links : Unused(l)}
             q == [req[r] EXCEPT !.pc = "ending", !.links = L, !.sessions = LiveSessions(req[r].user)]
  <2>1. req[r] \in Request /\ req[r].pc = "superseding" /\ RequestAgrees(r) /\ L \subseteq req[r].links
    BY <1>0, <1>10 DEF ConsumeSupersede, RowsAgree, RequestsAgree
  <2>2. q \in Request /\ req' = [req EXCEPT ![r] = q] /\ UNCHANGED <<user, session, token, link>>
    BY <1>0, <1>10, <2>1 DEF ConsumeSupersede, Request, LiveSessions
  <2>3. /\ req'[r].pc = "ending" /\ req'[r].user = req[r].user /\ req'[r].link = req[r].link
        /\ req'[r].links = L /\ req'[r].sessions = LiveSessions(req[r].user)
    BY <1>0, <2>1, <2>2 DEF Request
  <2>4. \A s \in LiveSessions(req[r].user) : session[s].state # "NONE"
    BY DEF LiveSessions
  <2>5. RequestAgrees(r)'
    BY <2>1, <2>2, <2>3, <2>4 DEF RequestAgrees
  <2> QED BY <2>2, <2>5, RequestMoves
<1>11. UNCHANGED <<user, session, token, link>>
  BY DEF Login, IssueStart, RotateRead, Logout, ConsumeRead, IssueSupersede, ConsumeMark, ConsumeSupersede,
         RotateConflict, RequestLost
<1> QED BY <1>1, <1>2, <1>3, <1>4, <1>5, <1>6, <1>7, <1>8, <1>9, <1>10, <1>11

LEMMA RowsStep == ASSUME RowsAgree, [Next]_vars PROVE RowsAgree' /\ Persists
<1>1. ASSUME NEW u \in Users, ChangeAccount(u) PROVE RowsAgree' /\ Persists
  BY <1>1, ChangeAccountStep
<1>2. ASSUME NEW s \in Sessions, SessionExpires(s) PROVE RowsAgree' /\ Persists
  BY <1>2, EndSessionStep DEF SessionExpires
<1>3. ASSUME NEW l \in Links, LinkExpires(l) PROVE RowsAgree' /\ Persists
  BY <1>3, LinkExpiresStep
<1>4. ASSUME NEW r \in Requests, CreateSession(r) \/ Rotate(r) \/ IssueCommit(r) \/ ConsumeCommit(r)
      PROVE  RowsAgree' /\ Persists
  BY <1>4, CreateSessionStep, RotateStep, IssueCommitStep, ConsumeCommitStep
<1>5. ASSUME NEW r \in Requests, Revoke(r) PROVE RowsAgree' /\ Persists
  <2>1. req[r].session \in Sessions /\ session[req[r].session].state # "NONE"
    BY <1>5 DEF Revoke, RowsAgree, TypeOK, Request, RequestsAgree, RequestAgrees
  <2> QED BY <1>5, <2>1, EndSessionStep DEF Revoke
<1>6. ASSUME NEW r \in Requests,
             \/ \E u \in Users : Login(r, u) \/ IssueStart(r, u)
             \/ \E t \in Tokens : RotateRead(r, t)
             \/ \E s \in Sessions : Logout(r, s)
             \/ \E l \in Links : ConsumeRead(r, l)
             \/ IssueSupersede(r) \/ ConsumeMark(r) \/ ConsumeSupersede(r)
             \/ RotateConflict(r) \/ RequestLost(r)
      PROVE  RowsAgree' /\ Persists
  <2>1. RowsAgree' /\ UNCHANGED <<user, session, token, link>>
    BY <1>6, ReadSteps
  <2> QED BY <2>1 DEF Persists
<1>7. CASE UNCHANGED vars
  <2>1. Persists
    BY <1>7 DEF vars, Persists
  <2>2. RowsAgree'
    BY <1>7 DEF vars, RowsAgree, TypeOK, SessionsAgree, SessionAgrees, Knows, TokensAgree, LinksAgree,
                LinkAgrees, RequestsAgree, RequestAgrees, OneCurrentToken
  <2> QED BY <2>1, <2>2
<1> QED BY <1>1, <1>2, <1>3, <1>4, <1>5, <1>6, <1>7 DEF Next, SessionStep, ResetStep


----------------------------------------------------------------------------
(* What transactions have written, and what a reset knows.                 *)

\* A step after which nobody holds more links than before.
LEMMA ApartStays ==
  ASSUME LocksApart, \A r \in Requests : Locks(r)' \subseteq Locks(r) PROVE LocksApart'
  BY DEF LocksApart

\* A step after which r holds S, which nobody else does.
LEMMA ApartMoves ==
  ASSUME LocksApart, NEW r \in Requests, NEW S, Locks(r)' \subseteq S,
         \A o \in Requests \ {r} : Locks(o)' = Locks(o) /\ Locks(o) \cap S = {}
  PROVE  LocksApart'
<1> SUFFICES ASSUME NEW o \in Requests, NEW p \in Requests, o # p PROVE (Locks(o) \cap Locks(p))' = {}
  BY DEF LocksApart
<1>1. CASE o = r
  <2>1. p \in Requests \ {r}
    BY <1>1
  <2> QED BY <1>1, <2>1
<1>2. CASE p = r
  <2>1. o \in Requests \ {r}
    BY <1>2
  <2> QED BY <1>2, <2>1
<1>3. CASE o # r /\ p # r
  <2>1. Locks(o)' = Locks(o) /\ Locks(p)' = Locks(p)
    BY <1>3
  <2> QED BY <2>1 DEF LocksApart
<1> QED BY <1>1, <1>2, <1>3

\* What a reset knows suffices as long as no link takes the used one's place.
LEMMA ResetStays ==
  ASSUME RowsAgree, NEW r \in Requests, ResetAgrees(r), req'[r] = req[r],
         \A l \in Links : link'[l].state = "LIVE" /\ req[r].link \in link'[l].replaced => link'[l] = link[l]
  PROVE  ResetAgrees(r)'
  BY DEF ResetAgrees, LiveLinks

\* A step in which no request moves but those that hold nothing when it is done,
\* and no link becomes live.
LEMMA NothingTaken ==
  ASSUME Ind, \A r \in Requests : req'[r] = req[r] \/ req'[r].pc \notin {"inserting", "superseding", "ending"},
         \A l \in Links : link'[l].state = "LIVE" => link'[l] = link[l]
  PROVE  LocksApart' /\ ResetsAgree'
<1>1. \A r \in Requests : Locks(r)' \subseteq Locks(r)
  BY DEF Locks
<1>2. ASSUME NEW r \in Requests PROVE ResetAgrees(r)'
  <2>1. CASE req'[r] = req[r]
    BY <2>1, ResetStays DEF Ind, ResetsAgree
  <2>2. CASE req'[r].pc \notin {"inserting", "superseding", "ending"}
    BY <2>2 DEF ResetAgrees
  <2> QED BY <2>1, <2>2
<1> QED BY <1>1, <1>2, ApartStays DEF Ind, ResetsAgree

\* The end of a request, or a first read.
LEMMA EndTakesNothing ==
  ASSUME Ind, NEW r \in Requests, NEW q, q.pc \notin {"inserting", "superseding", "ending"},
         req' = [req EXCEPT ![r] = q],
         \A l \in Links : link'[l].state = "LIVE" => link'[l] = link[l]
  PROVE  LocksApart' /\ ResetsAgree'
<1>1. \A o \in Requests : req'[o] = req[o] \/ req'[o].pc \notin {"inserting", "superseding", "ending"}
  BY DEF Ind, RowsAgree, TypeOK
<1> QED BY <1>1, NothingTaken

\* The new link took the place of links its request has written: of none that a
\* reset has marked.
LEMMA IssueCommitTakesNothing ==
  ASSUME Ind, NEW r \in Requests, IssueCommit(r) PROVE LocksApart' /\ ResetsAgree'
<1> DEFINE row == [user |-> req[r].user, state |-> "LIVE", replaced |-> req[r].links]
<1>1. PICK new \in Links :
        link' = [l \in Links |->
             IF l = new THEN row
             ELSE IF l \in req[r].links THEN [link[l] EXCEPT !.state = "SUPERSEDED"]
             ELSE link[l]]
  BY DEF IssueCommit
<1>2. /\ req'[r].pc = "idle" /\ req[r].pc = "inserting" /\ Locks(r) = req[r].links
      /\ \A o \in Requests \ {r} : req'[o] = req[o]
  BY DEF IssueCommit, End, Ind, RowsAgree, TypeOK, IdleRequest, Locks
<1>3. \A o \in Requests : Locks(o)' \subseteq Locks(o)
  BY <1>2 DEF Locks
<1>4. ASSUME NEW o \in Requests, req'[o].pc \in {"superseding", "ending"} PROVE ResetAgrees(o)'
  <2>1. o # r /\ req'[o] = req[o]
    BY <1>2, <1>4
  <2>2. req[o].link \in Locks(o)
    BY <1>4, <2>1 DEF Locks
  <2>3. req[o].link \notin req[r].links
    BY <1>2, <2>1, <2>2 DEF Ind, LocksApart
  <2>4. ASSUME NEW l \in Links, link'[l].state = "LIVE", req[o].link \in link'[l].replaced
        PROVE  link'[l] = link[l]
    <3>1. l # new
      BY <1>1, <2>3, <2>4
    <3>2. link[l] \in LinkRow
      BY DEF Ind, RowsAgree, TypeOK
    <3>3. l \notin req[r].links
      BY <1>1, <2>4, <3>1, <3>2 DEF LinkRow
    <3> QED BY <1>1, <3>1, <3>3
  <2> QED BY <2>1, <2>4, ResetStays DEF Ind, ResetsAgree
<1>5. ResetsAgree'
  BY <1>4 DEF ResetsAgree, ResetAgrees
<1> QED BY <1>3, <1>5, ApartStays DEF Ind

LEMMA IssueSupersedeTakes ==
  ASSUME Ind, NEW r \in Requests, IssueSupersede(r) PROVE LocksApart' /\ ResetsAgree'
<1>1. req \in [Requests -> Request]
  BY DEF Ind, RowsAgree, TypeOK
<1>2. /\ req'[r].pc = "inserting" /\ req'[r].links \subseteq req[r].links /\ link' = link
      /\ \A o \in Requests \ {r} : req'[o] = req[o] /\ Locks(o) \cap req[r].links = {}
  BY <1>1 DEF IssueSupersede, LinksFree, Request
<1>3. Locks(r)' \subseteq req[r].links /\ \A o \in Requests \ {r} : Locks(o)' = Locks(o)
  BY <1>2 DEF Locks
<1>4. LocksApart'
  BY <1>2, <1>3, ApartMoves DEF Ind
<1>5. ASSUME NEW o \in Requests PROVE ResetAgrees(o)'
  <2>1. CASE o = r
    BY <1>2, <2>1 DEF ResetAgrees
  <2>2. CASE o # r
    BY <1>2, <2>2, ResetStays DEF Ind, ResetsAgree
  <2> QED BY <2>1, <2>2
<1> QED BY <1>4, <1>5 DEF ResetsAgree

\* With its link marked, a reset finds every live link that took its place.
LEMMA ConsumeMarkTakes ==
  ASSUME Ind, NEW r \in Requests, ConsumeMark(r) PROVE LocksApart' /\ ResetsAgree'
<1> DEFINE q == req[r]
<1>1. req \in [Requests -> Request]
  BY DEF Ind, RowsAgree, TypeOK
<1>2. /\ req'[r].pc = "superseding" /\ req'[r].link = q.link /\ req'[r].user = q.user /\ link' = link
      /\ req'[r].links = UnusedLinks(q.user) \ {q.link}
      /\ \A o \in Requests \ {r} : req'[o] = req[o] /\ Locks(o) \cap {q.link} = {}
  BY <1>1 DEF ConsumeMark, LinksFree, Request
<1>3. Locks(r)' \subseteq {q.link} /\ \A o \in Requests \ {r} : Locks(o)' = Locks(o)
  BY <1>2 DEF Locks
<1>4. LocksApart'
  BY <1>2, <1>3, ApartMoves DEF Ind
<1>5. ASSUME NEW o \in Requests PROVE ResetAgrees(o)'
  <2>1. CASE o = r
    BY <1>2, <2>1 DEF ResetAgrees, LiveLinks, UnusedLinks, Unused
  <2>2. CASE o # r
    BY <1>2, <2>2, ResetStays DEF Ind, ResetsAgree
  <2> QED BY <2>1, <2>2
<1> QED BY <1>4, <1>5 DEF ResetsAgree

LEMMA ConsumeSupersedeTakes ==
  ASSUME Ind, NEW r \in Requests, ConsumeSupersede(r) PROVE LocksApart' /\ ResetsAgree'
<1> DEFINE q == req[r]
           S == q.links \cup {q.link}
<1>1. req \in [Requests -> Request] /\ q.pc = "superseding"
  BY DEF Ind, RowsAgree, TypeOK, ConsumeSupersede
<1>2. /\ req'[r].pc = "ending" /\ req'[r].link = q.link /\ req'[r].user = q.user /\ link' = link
      /\ req'[r].links = {l \in q.links : Unused(l)}
      /\ \A o \in Requests \ {r} : req'[o] = req[o] /\ Locks(o) \cap q.links = {}
  BY <1>1 DEF ConsumeSupersede, LinksFree, Request
<1>3. Locks(r)' \subseteq S /\ \A o \in Requests \ {r} : Locks(o)' = Locks(o)
  BY <1>2 DEF Locks
<1>4. Locks(r) = {q.link}
  BY <1>1 DEF Locks
<1>5. ASSUME NEW o \in Requests \ {r} PROVE Locks(o) \cap S = {}
  <2>1. Locks(o) \cap {q.link} = {}
    BY <1>4 DEF Ind, LocksApart
  <2> QED BY <1>2, <2>1
<1>6. LocksApart'
  <2> HIDE DEF S
  <2> QED BY <1>3, <1>5, ApartMoves DEF Ind
<1>7. ASSUME NEW o \in Requests PROVE ResetAgrees(o)'
  <2>1. CASE o = r
    <3>1. \A l \in LiveLinks(q.user) : q.link \in link[l].replaced => l \in S
      BY <1>1 DEF Ind, ResetsAgree, ResetAgrees
    <3>2. \A l \in LiveLinks(q.user) : Unused(l)
      BY DEF LiveLinks, Unused
    <3>3. LiveLinks(q.user)' = LiveLinks(q.user)
      BY <1>2 DEF LiveLinks
    <3> QED BY <1>2, <2>1, <3>1, <3>2, <3>3 DEF ResetAgrees, LiveLinks
  <2>2. CASE o # r
    BY <1>2, <2>2, ResetStays DEF Ind, ResetsAgree
  <2> QED BY <2>1, <2>2
<1> QED BY <1>6, <1>7 DEF ResetsAgree

LEMMA TransactionsStep ==
  ASSUME Ind, [Next]_vars PROVE LocksApart' /\ ResetsAgree'
<1>1. CASE /\ UNCHANGED req
           /\ \/ UNCHANGED link
              \/ \E l \in Links : LinkExpires(l)
  <2>1. \A l \in Links : link'[l].state = "LIVE" => link'[l] = link[l]
    BY <1>1 DEF LinkExpires, Ind, RowsAgree, TypeOK, LinkRow
  <2> QED BY <1>1, <2>1, NothingTaken
<1>2. ASSUME NEW r \in Requests,
             \/ \E u \in Users : Login(r, u) \/ IssueStart(r, u)
             \/ \E t \in Tokens : RotateRead(r, t)
             \/ \E s \in Sessions : Logout(r, s)
             \/ \E l \in Links : ConsumeRead(r, l)
             \/ CreateSession(r) \/ Rotate(r) \/ RotateConflict(r) \/ Revoke(r) \/ RequestLost(r)
      PROVE  LocksApart' /\ ResetsAgree'
  <2>1. /\ req'[r].pc \notin {"inserting", "superseding", "ending"}
        /\ \A o \in Requests \ {r} : req'[o] = req[o]
        /\ link' = link
    <3>1. req \in [Requests -> Request]
      BY DEF Ind, RowsAgree, TypeOK
    <3>2. CASE \E u \in Users : Login(r, u)
      BY <3>1, <3>2 DEF Login, Begin, IdleRequest
    <3>3. CASE \E t \in Tokens : RotateRead(r, t)
      BY <3>1, <3>3 DEF RotateRead, Begin, IdleRequest
    <3>4. CASE \E s \in Sessions : Logout(r, s)
      BY <3>1, <3>4 DEF Logout, Begin, IdleRequest
    <3>5. CASE CreateSession(r) \/ Rotate(r) \/ Revoke(r) \/ RequestLost(r)
      BY <3>1, <3>5 DEF CreateSession, Rotate, Revoke, RequestLost, End, IdleRequest
    <3>6. CASE RotateConflict(r)
      BY <3>1, <3>6 DEF RotateConflict, Request
    <3>7. CASE \E u \in Users : IssueStart(r, u)
      BY <3>1, <3>7 DEF IssueStart, Begin, IdleRequest
    <3>8. CASE \E l \in Links : ConsumeRead(r, l)
      BY <3>1, <3>8 DEF ConsumeRead, Begin, IdleRequest
    <3> QED BY <1>2, <3>2, <3>3, <3>4, <3>5, <3>6, <3>7, <3>8
  <2> QED BY <2>1, NothingTaken
<1>3. ASSUME NEW r \in Requests, ConsumeCommit(r) PROVE LocksApart' /\ ResetsAgree'
  <2>1. ASSUME NEW l \in Links, link'[l].state = "LIVE" PROVE link'[l] = link[l]
    <3>1. link[l] \in LinkRow
      BY DEF Ind, RowsAgree, TypeOK
    <3> QED BY <1>3, <2>1, <3>1 DEF ConsumeCommit, LinkRow
  <2>2. IdleRequest.pc \notin {"inserting", "superseding", "ending"}
    BY DEF IdleRequest
  <2> QED BY <1>3, <2>1, <2>2, EndTakesNothing DEF ConsumeCommit, End
<1>4. CASE UNCHANGED vars
  BY <1>1, <1>4 DEF vars
<1> QED BY <1>1, <1>2, <1>3, <1>4, IssueCommitTakesNothing, IssueSupersedeTakes, ConsumeMarkTakes, ConsumeSupersedeTakes
        DEF Next, SessionStep, ResetStep, ChangeAccount, SessionExpires, LinkExpires

LEMMA InitInd == Init => Ind
<1> SUFFICES ASSUME Init PROVE Ind
  OBVIOUS
<1>1. TypeOK
  BY IdleType DEF Init, TypeOK, NoAccount, UserRow, SessionRow, TokenRow, LinkRow
<1>2. SessionsAgree /\ TokensAgree /\ LinksAgree /\ OneCurrentToken
  BY DEF Init, SessionsAgree, SessionAgrees, TokensAgree, LinksAgree, LinkAgrees, OneCurrentToken
<1>3. RequestsAgree
  BY DEF Init, RequestsAgree, RequestAgrees, IdleRequest
<1>4. LocksApart /\ ResetsAgree
  BY DEF Init, LocksApart, Locks, ResetsAgree, ResetAgrees, IdleRequest
<1> QED BY <1>1, <1>2, <1>3, <1>4 DEF Ind, RowsAgree

LEMMA Step == Ind /\ [Next]_vars => Ind' /\ Persists
  BY RowsStep, TransactionsStep DEF Ind

----------------------------------------------------------------------------
(* The theorems.                                                           *)

\* The inductive invariant, and with it type correctness, holds in every
\* reachable state, for any number of accounts, requests, sessions and links.
THEOREM IndInvariant == Spec => []Ind
  BY InitInd, Step, PTL DEF Spec

\* However refreshes of one session race, it has one token that can continue it.
THEOREM CurrentTokenUnique == Spec => []OneCurrentToken
<1>1. Ind => OneCurrentToken
  BY DEF Ind, RowsAgree
<1> QED BY <1>1, IndInvariant, PTL

\* The guard admits no session whose login verified another password than the
\* account's present one.
THEOREM GuardKnowsPassword == Spec => []AcceptedKnowsPassword
<1>1. Ind => AcceptedKnowsPassword
  BY DEF Ind, RowsAgree, SessionsAgree, SessionAgrees, Knows, Accepts, AcceptedKnowsPassword
<1> QED BY <1>1, IndInvariant, PTL

\* A session that has stopped being admitted is never admitted again.
THEOREM SessionsEndForGood == Spec => EndedForGood
<1>1. ASSUME Ind, Ind', [Next]_vars, NEW s \in Sessions, session[s].state # "NONE", ~Accepts(s)
      PROVE  ~Accepts(s)'
  <2> DEFINE u == session[s].user
  <2>1. Persists
    BY <1>1, Step
  <2>2. u \in Users /\ session[s].version <= user[u].version
    BY <1>1 DEF Ind, RowsAgree, SessionsAgree, SessionAgrees, Knows
  <2>3. session'[s].user = u /\ session'[s].version = session[s].version
    BY <1>1, <2>1 DEF Persists
  <2>4. session'[s].state = "LIVE" => session[s].state = "LIVE"
    BY <1>1, <2>1 DEF Persists
  <2>5. user[u].version \in Nat /\ user'[u].version \in Nat /\ session[s].version \in Nat
    BY <1>1, <2>2 DEF Ind, RowsAgree, TypeOK, UserRow, SessionRow
  <2>6. CASE user'[u] = user[u]
    BY <1>1, <2>3, <2>4, <2>6 DEF Accepts
  <2>7. CASE user'[u].version > user[u].version
    BY <2>2, <2>3, <2>5, <2>7 DEF Accepts
  <2> QED BY <2>1, <2>2, <2>6, <2>7 DEF Persists
<1>2. Ind /\ Ind' /\ [Next]_vars =>
        [\A s \in Sessions : session[s].state # "NONE" /\ ~Accepts(s) => ~Accepts(s)']_vars
  BY <1>1
<1> QED BY <1>2, IndInvariant, PTL DEF Spec, EndedForGood

\* Only the change of an account and the end of a reset write a User row.
LEMMA UserSteps ==
  ASSUME [Next]_vars
  PROVE  user' = user \/ (\E u \in Users : ChangeAccount(u)) \/ \E r \in Requests : ConsumeCommit(r)
<1>1. CASE Next
  BY <1>1 DEF Next, SessionStep, ResetStep, SessionExpires, LinkExpires, Login, RotateRead, Logout,
              CreateSession, Rotate, RotateConflict, Revoke, IssueStart, IssueSupersede, IssueCommit, ConsumeRead,
              ConsumeMark, ConsumeSupersede, RequestLost
<1>2. CASE UNCHANGED vars
  BY <1>2 DEF vars
<1> QED BY <1>1, <1>2

\* A reset leaves its account no live link that took the place of the one it
\* used, or whose place that one took, however issues and resets overlap.
THEOREM ResetsEndLinks == Spec => ResetEndsLinks
<1>1. ASSUME Ind, Ind', [Next]_vars, NEW r \in Requests, ConsumeCommit(r),
             NEW l \in Links, link'[l].state = "LIVE", link'[l].user = req[r].user
      PROVE  req[r].link \notin link'[l].replaced /\ l \notin link'[req[r].link].replaced
  <2> DEFINE q == req[r]
  <2>1. q.pc = "ending" /\ q.link \in Links /\ link[q.link] \in LinkRow /\ link[l] \in LinkRow
    BY <1>1 DEF ConsumeCommit, Ind, RowsAgree, TypeOK, Request, RequestsAgree, RequestAgrees
  <2>2. link'[l] = IF l = q.link THEN [link[l] EXCEPT !.state = "CONSUMED"]
                   ELSE IF l \in q.links THEN [link[l] EXCEPT !.state = "SUPERSEDED"]
                   ELSE link[l]
    BY <1>1 DEF ConsumeCommit
  <2>3. l # q.link /\ l \notin q.links /\ link'[l] = link[l]
    BY <1>1, <2>1, <2>2 DEF LinkRow
  <2>4. q.link \notin link'[l].replaced
    <3>1. l \in LiveLinks(q.user)
      BY <1>1, <2>3 DEF LiveLinks
    <3> QED BY <1>1, <2>1, <2>3, <3>1 DEF Ind, ResetsAgree, ResetAgrees
  <2>5. link'[q.link].state = "CONSUMED"
    BY <1>1, <2>1 DEF ConsumeCommit, LinkRow
  <2>6. l \notin link'[q.link].replaced
    BY <1>1, <2>1, <2>5 DEF Ind, RowsAgree, LinksAgree, LinkAgrees
  <2> QED BY <2>4, <2>6
<1>2. Ind /\ Ind' /\ [Next]_vars =>
        [\A r \in Requests : ConsumeCommit(r) =>
           LET used == req[r].link IN
           \A l \in Links :
             link'[l].state = "LIVE" /\ link'[l].user = req[r].user =>
               used \notin link'[l].replaced /\ l \notin link'[used].replaced]_vars
  BY <1>1
<1> QED BY <1>2, IndInvariant, PTL DEF Spec, ResetEndsLinks

----------------------------------------------------------------------------
(* The refinement of AccountAccess.                                        *)

LEMMA StepKeepsVersion == ASSUME Ind, [Next]_vars PROVE [Accounts!Next]_Access
<1>1. user \in [Users -> UserRow]
  BY DEF Ind, RowsAgree, TypeOK
<1>2. \A u \in Users : Access[u].exists /\ Access[u].version = user[u].version /\ Access[u].password = user[u].password
  BY DEF Access
<1>3. CASE user' = user
  BY <1>3 DEF Access
<1>4. ASSUME NEW u \in Users, ChangeAccount(u) PROVE Accounts!Next
  <2>1. PICK open \in BOOLEAN : user' = [user EXCEPT ![u] = Changed(user[u], open)]
    BY <1>4 DEF ChangeAccount
  <2>2. Access' = [Access EXCEPT ![u].open = open, ![u].version = @ + 1]
    BY <1>1, <2>1 DEF Access, Changed
  <2> QED BY <1>2, <2>2 DEF Accounts!Next, Accounts!Change
<1>5. ASSUME NEW r \in Requests, ConsumeCommit(r) PROVE Accounts!Next
  <2> DEFINE u == req[r].user
  <2>1. u \in Users
    BY <1>5 DEF ConsumeCommit, Ind, RowsAgree, RequestsAgree, RequestAgrees
  <2>2. user' = [user EXCEPT ![u] = WithPassword(user[u])]
    BY <1>5 DEF ConsumeCommit
  <2> HIDE DEF u
  <2>3. Access' = [Access EXCEPT ![u].password = @ + 1, ![u].version = @ + 1]
    BY <1>1, <2>1, <2>2 DEF Access, WithPassword
  <2> QED BY <1>2, <2>1, <2>3 DEF Accounts!Next, Accounts!SetPassword
<1> QED BY <1>3, <1>4, <1>5, UserSteps

\* Changes of accounts and resets leave a version that tells who may go on.
THEOREM AccountsKeepVersion == Spec => ImplementsAccess
<1>1. Init => Accounts!Init
  <2>1. ASSUME Init, NEW u \in Users
        PROVE  Access[u] \in {Accounts!NewAccount(open) : open \in BOOLEAN}
    <3>1. PICK open \in BOOLEAN : user[u] = [open |-> open, version |-> 0, password |-> 0]
      BY <2>1 DEF Init
    <3>2. user[u].open = open /\ user[u].version = 0 /\ user[u].password = 0
      BY <3>1
    <3>3. Access[u] = Accounts!NewAccount(open)
      BY <3>2 DEF Access, Accounts!NewAccount
    <3> QED BY <3>3
  <2> QED BY <2>1 DEF Access, Accounts!Init
<1>2. Ind /\ [Next]_vars => [Accounts!Next]_Access
  BY StepKeepsVersion
<1> QED BY <1>1, <1>2, IndInvariant, PTL DEF Spec, ImplementsAccess, Accounts!Spec
============================================================================
