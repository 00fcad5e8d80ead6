-------------------------- MODULE AuthSessionProofs --------------------------
(***************************************************************************)
(* Theorems about AuthSession, for every number of requests, addresses and *)
(* pooled connections, with and without authentication.                    *)
(***************************************************************************)
EXTENDS AuthSession, TLAPS

-----------------------------------------------------------------------------
(* The inductive invariant.                                                *)

\* The steps up to the first write of the request.
Fresh ==
    {"idle", "principal", "keyFind", "userFind", "build"} \cup Connecting
        \cup (Statements \ {"issue", "audit"})

\* What the session of a request holds at each of its steps.
SessionAt(r) ==
    /\ pc[r] \in Fresh => wrote[r] = {} /\ \A e \in Emails : lock[e] # r
    /\ pc[r] \in {"idle", "principal", "build"} \cup Connecting => conns[r] = 0
    /\ pc[r] \in {"keyFind", "userFind"} \cup Statements => conns[r] = 1
    /\ \A e \in Emails : lock[e] = r => conns[r] > 0

\* Nothing a service writes is ever committed: the one commit of its session
\* comes before its first statement.
NothingCommitted == committed = {}

\* The endpoints whose handlers take a step.
KindsAt(step) ==
    CASE step \in {"principal", "keyConnect", "keyFind"} -> {"logout", "api-keys"}
      [] step \in {"userConnect", "userFind", "insertKey"} -> {"api-keys"}
      [] step \in {"lookup", "fail", "reset", "issue"} -> {"login"}
      [] step \in {"findOrg", "findUser", "insertUser"} -> {"register"}
      [] step = "findToken" -> {"refresh"}
      [] step = "revoke" -> {"logout"}
      [] step = "audit" -> {"login", "logout", "register", "api-keys"}
      [] OTHER -> {"login", "logout", "register", "api-keys", "refresh"}

Going(r) == pc[r] \notin {"idle", "done"}

\* What is asked goes with the step, and the user with what is asked.
AskedAt(r) ==
    /\ Going(r) => req[r] \in Request /\ req[r].kind \in KindsAt(pc[r])
    /\ Going(r) /\ req[r].kind \in {"login", "register"} => who[r] = req[r].of
    /\ pc[r] \in {"idle", "principal", "keyConnect", "keyFind"} => who[r] = Nobody
    /\ who[r] # Nobody => req[r] \in Request
    /\ pc[r] # "done" => answer[r] = Nobody

\* Request l was answered tokens for the right password of the account e.
TokensFor(l, e) ==
    /\ answer[l] = "tokens"
    /\ pc[l] = "done"
    /\ req[l] \in Request
    /\ req[l].kind = "login" /\ req[l].cred = "right"
    /\ req[l].of = e /\ who[l] = e
    /\ e \in Emails /\ users[e].status # "absent"

\* Tokens are given for an account that is there, a bearer token is one of them,
\* and a caller has had one.
TokensAt(r) ==
    /\ answer[r] = "tokens" => TokensFor(r, who[r])
    /\ pc[r] \in {"fail", "reset", "issue", "audit"} /\ req[r].kind = "login"
           => users[who[r]].status # "absent"
    /\ pc[r] = "principal" /\ req[r].cred = "jwt"
           => req[r].of \in Requests /\ TokensFor(req[r].of, who[req[r].of])
    /\ who[r] # Nobody /\ req[r].kind \in {"logout", "api-keys"}
           => \E l \in Requests : TokensFor(l, who[r])

AuthInv ==
    /\ TypeOK
    /\ NothingCommitted
    /\ \A r \in Requests : SessionAt(r) /\ AskedAt(r) /\ TokensAt(r)

\* A step of request r.
RequestStep(r) == Send(r) \/ Step(r) \/ Fails(r) \/ Collect(r)

-----------------------------------------------------------------------------
(* What the steps do.                                                      *)

\* What is asked, by endpoint.
LEMMA RequestFields ==
    ASSUME NEW q \in Request
    PROVE  /\ q.kind \in {"login", "logout", "register", "api-keys", "refresh"}
           /\ q.kind \in {"login", "register"} => q.of \in Emails
           /\ q.kind \in {"logout", "api-keys"} => q.of \in Requests \cup {Nobody}
           /\ q.kind = "refresh" => q.of \in Requests
           /\ q.cred \in {"right", "wrong"} <=> q.kind = "login"
BY DEF Request

\* The answers of a service that has written its audit row.
LEMMA AuditOutcome ==
    ASSUME AuthInv, NEW r \in Requests, Audit(r)
    PROVE  /\ pc[r] = "audit" /\ UNCHANGED <<db, conns, admin>>
           /\ \/ Refuse(r)
              \/ req[r].kind = "login" /\ req[r].cred = "right" /\ Reply(r, "tokens")
              \/ req[r].kind # "login" /\ \E a \in {"204", "201", "key"} : Reply(r, a)
<1>1. pc[r] = "audit" /\ req[r] \in Request /\ req[r].kind \in KindsAt("audit")
    BY DEF AuthInv, AskedAt, Going, Audit, At
<1>2. req[r].kind \in {"login", "logout", "register", "api-keys"}
    BY <1>1 DEF KindsAt
<1>3. req[r].cred \in {"right", "wrong"} <=> req[r].kind = "login"
    BY <1>1, RequestFields
<1> QED BY <1>1, <1>2, <1>3 DEF Audit

\* The statement a connection is checked out for.
LEMMA ConnectOutcome ==
    ASSUME AuthInv, NEW r \in Requests, Connect(r)
    PROVE  /\ pc[r] \in Connecting
           /\ conns' = [conns EXCEPT ![r] = @ + 1] /\ UNCHANGED <<db, admin>>
           /\ \/ pc[r] = "keyConnect" /\ GoOn(r, "keyFind")
              \/ pc[r] = "userConnect" /\ GoOn(r, "userFind")
              \/ /\ pc[r] = "connect"
                 /\ \/ req[r].kind = "login" /\ GoOn(r, "lookup")
                    \/ req[r].kind = "refresh" /\ GoOn(r, "findToken")
                    \/ req[r].kind = "logout" /\ GoOn(r, "revoke")
                    \/ req[r].kind = "register" /\ GoOn(r, "findOrg")
                    \/ req[r].kind = "api-keys" /\ GoOn(r, "insertKey")
<1>1. pc[r] \in Connecting
    BY DEF Connect
<1>2. req[r] \in Request
    BY <1>1 DEF AuthInv, AskedAt, Going, Connecting
<1>3. req[r].kind \in {"login", "logout", "register", "api-keys", "refresh"}
    BY <1>2, RequestFields
<1> QED BY <1>1, <1>3 DEF Connect, Connecting, First

\* The caller of a request with a bearer token; the key of a request is never
\* found.
LEMMA CallerOutcome ==
    ASSUME AuthInv, NEW r \in Requests, ResolvePrincipal(r) \/ FindKey(r)
    PROVE  /\ pc[r] \in {"principal", "keyFind"} /\ UNCHANGED <<db, admin>>
           /\ \/ pc[r] = "principal" /\ UNCHANGED conns
              \/ pc[r] = "keyFind" /\ Release(r)
           /\ \/ Refuse(r)
              \/ Reply(r, "204")
              \/ pc[r] = "principal" /\ GoOn(r, "keyConnect")
              \/ /\ pc[r] = "principal"
                 /\ UNCHANGED <<req, answer>>
                 /\ \E l \in Requests : /\ TokensFor(l, who[l])
                                        /\ who' = [who EXCEPT ![r] = who[l]]
                 /\ \/ req[r].kind = "logout" /\ Goto(r, "build")
                    \/ req[r].kind = "api-keys" /\ Goto(r, "userConnect")
<1>1. CASE ResolvePrincipal(r)
    <2>1. pc[r] = "principal" /\ req[r].kind \in KindsAt("principal")
        BY <1>1 DEF ResolvePrincipal, At, AuthInv, AskedAt, Going
    <2>2. req[r].kind \in {"logout", "api-keys"}
        BY <2>1 DEF KindsAt
    <2>3. req[r].cred = "jwt" => req[r].of \in Requests /\ TokensFor(req[r].of, who[req[r].of])
        BY <2>1 DEF AuthInv, TokensAt
    <2> QED BY <1>1, <2>1, <2>2, <2>3 DEF ResolvePrincipal, Proceed, ProceedAnonymously
<1>2. CASE FindKey(r)
    BY <1>2 DEF FindKey, At, AuthInv, NothingCommitted
<1> QED BY <1>1, <1>2

\* A step of one request leaves the others where they are.
LEMMA OthersStay ==
    ASSUME AuthInv, NEW r \in Requests, RequestStep(r), NEW s \in Requests, s # r
    PROVE  /\ pc'[s] = pc[s] /\ req'[s] = req[s] /\ who'[s] = who[s] /\ answer'[s] = answer[s]
           /\ wrote'[s] = wrote[s] /\ conns'[s] = conns[s]
           /\ \A e \in Emails : lock'[e] = s => lock[e] = s
<1> USE AuthAssumption
    DEF AuthInv, TypeOK, db, GoOn, Goto, Reply, Refuse, Release, Write, TakeRow
<1>1. CASE Send(r)
    BY <1>1 DEF Send
<1>2. CASE ResolvePrincipal(r)
    BY <1>2, CallerOutcome
<1>3. CASE FindKey(r)
    BY <1>3, CallerOutcome
<1>4. CASE FindUser(r)
    BY <1>4 DEF FindUser
<1>5. CASE BuildAuthService(r)
    BY <1>5 DEF BuildAuthService
<1>6. CASE Connect(r)
    BY <1>6, ConnectOutcome
<1>7. CASE PoolTimeout(r)
    BY <1>7 DEF PoolTimeout
<1>8. CASE Lookup(r)
    BY <1>8 DEF Lookup
<1>9. CASE FailedPassword(r)
    BY <1>9 DEF FailedPassword
<1>10. CASE ResetFailedAttempts(r)
    BY <1>10 DEF ResetFailedAttempts
<1>11. CASE IssueTokens(r)
    BY <1>11 DEF IssueTokens
<1>12. CASE FindToken(r)
    BY <1>12 DEF FindToken
<1>13. CASE RevokeAll(r)
    BY <1>13 DEF RevokeAll
<1>14. CASE FindOrg(r)
    BY <1>14 DEF FindOrg
<1>15. CASE FindEmail(r)
    BY <1>15 DEF FindEmail
<1>16. CASE InsertUser(r)
    BY <1>16 DEF InsertUser
<1>17. CASE InsertKey(r)
    BY <1>17 DEF InsertKey
<1>18. CASE Audit(r)
    BY <1>18, AuditOutcome
<1>19. CASE StatementFails(r)
    BY <1>19 DEF StatementFails
<1>20. CASE ManagedFails(r)
    BY <1>20 DEF ManagedFails
<1>21. CASE Collect(r)
    BY <1>21 DEF Collect
<1> QED
    BY <1>1, <1>2, <1>3, <1>4, <1>5, <1>6, <1>7, <1>8, <1>9, <1>10, <1>11, <1>12, <1>13,
       <1>14, <1>15, <1>16, <1>17, <1>18, <1>19, <1>20, <1>21 DEF RequestStep, Step, Fails

\* Requests change no committed row but by the commit of their session.
LEMMA RowsStay ==
    ASSUME AuthInv, NEW r \in Requests, RequestStep(r)
    PROVE  users' = users /\ NothingCommitted'
<1> USE DEF AuthInv, NothingCommitted, db
<1>1. CASE Send(r)
    BY <1>1 DEF Send
<1>2. CASE ResolvePrincipal(r)
    BY <1>2, CallerOutcome
<1>3. CASE FindKey(r)
    BY <1>3, CallerOutcome
<1>4. CASE FindUser(r)
    BY <1>4 DEF FindUser
<1>5. CASE BuildAuthService(r)
    BY <1>5 DEF BuildAuthService, SessionAt, Fresh, At
<1>6. CASE Connect(r)
    BY <1>6, ConnectOutcome
<1>7. CASE PoolTimeout(r)
    BY <1>7 DEF PoolTimeout
<1>8. CASE Lookup(r)
    BY <1>8 DEF Lookup
<1>9. CASE FailedPassword(r)
    BY <1>9 DEF FailedPassword
<1>10. CASE ResetFailedAttempts(r)
    BY <1>10 DEF ResetFailedAttempts
<1>11. CASE IssueTokens(r)
    BY <1>11 DEF IssueTokens
<1>12. CASE FindToken(r)
    BY <1>12 DEF FindToken
<1>13. CASE RevokeAll(r)
    BY <1>13 DEF RevokeAll
<1>14. CASE FindOrg(r)
    BY <1>14 DEF FindOrg
<1>15. CASE FindEmail(r)
    BY <1>15 DEF FindEmail
<1>16. CASE InsertUser(r)
    BY <1>16 DEF InsertUser
<1>17. CASE InsertKey(r)
    BY <1>17 DEF InsertKey
<1>18. CASE Audit(r)
    BY <1>18, AuditOutcome
<1>19. CASE StatementFails(r)
    BY <1>19 DEF StatementFails
<1>20. CASE ManagedFails(r)
    BY <1>20 DEF ManagedFails
<1>21. CASE Collect(r)
    BY <1>21 DEF Collect
<1> QED
    BY <1>1, <1>2, <1>3, <1>4, <1>5, <1>6, <1>7, <1>8, <1>9, <1>10, <1>11, <1>12, <1>13,
       <1>14, <1>15, <1>16, <1>17, <1>18, <1>19, <1>20, <1>21 DEF RequestStep, Step, Fails

\* An account does not go away.
LEMMA StatusStays ==
    ASSUME AuthInv, [Next]_vars, NEW e \in Emails, users[e].status # "absent"
    PROVE  users'[e].status # "absent"
<1>1. CASE \E r \in Requests : RequestStep(r)
    BY <1>1, RowsStay
<1>2. ASSUME NEW d \in Emails, SaveDeactivated(d)
      PROVE  users'[e].status # "absent"
    BY <1>2 DEF SaveDeactivated, AuthInv, TypeOK, Row
<1>3. CASE UNCHANGED users
    BY <1>3
<1> QED BY <1>1, <1>2, <1>3 DEF Next, RequestStep, FindForDeactivation, Quiescent, vars, db

\* A request that is done stays as it is, but for its session.
LEMMA DoneStays ==
    ASSUME AuthInv, NEW r \in Requests, pc[r] = "done", RequestStep(r)
    PROVE  UNCHANGED <<pc, req, who, answer>>
<1> USE DEF Connecting, Statements, RowSteps, At
<1>1. CASE Send(r)
    BY <1>1 DEF Send
<1>2. CASE ResolvePrincipal(r)
    BY <1>2, CallerOutcome
<1>3. CASE FindKey(r)
    BY <1>3, CallerOutcome
<1>4. CASE FindUser(r)
    BY <1>4 DEF FindUser
<1>5. CASE BuildAuthService(r)
    BY <1>5 DEF BuildAuthService
<1>6. CASE Connect(r)
    BY <1>6, ConnectOutcome
<1>7. CASE PoolTimeout(r)
    BY <1>7 DEF PoolTimeout
<1>8. CASE Lookup(r)
    BY <1>8 DEF Lookup
<1>9. CASE FailedPassword(r)
    BY <1>9 DEF FailedPassword
<1>10. CASE ResetFailedAttempts(r)
    BY <1>10 DEF ResetFailedAttempts
<1>11. CASE IssueTokens(r)
    BY <1>11 DEF IssueTokens
<1>12. CASE FindToken(r)
    BY <1>12 DEF FindToken
<1>13. CASE RevokeAll(r)
    BY <1>13 DEF RevokeAll
<1>14. CASE FindOrg(r)
    BY <1>14 DEF FindOrg
<1>15. CASE FindEmail(r)
    BY <1>15 DEF FindEmail
<1>16. CASE InsertUser(r)
    BY <1>16 DEF InsertUser
<1>17. CASE InsertKey(r)
    BY <1>17 DEF InsertKey
<1>18. CASE Audit(r)
    BY <1>18, AuditOutcome
<1>19. CASE StatementFails(r)
    BY <1>19 DEF StatementFails
<1>20. CASE ManagedFails(r)
    BY <1>20 DEF ManagedFails
<1>21. CASE Collect(r)
    BY <1>21 DEF Collect
<1> QED
    BY <1>1, <1>2, <1>3, <1>4, <1>5, <1>6, <1>7, <1>8, <1>9, <1>10, <1>11, <1>12, <1>13,
       <1>14, <1>15, <1>16, <1>17, <1>18, <1>19, <1>20, <1>21 DEF RequestStep, Step, Fails

\* A request that was answered tokens for an account remains one.
LEMMA TokensStay ==
    ASSUME AuthInv, [Next]_vars, NEW l \in Requests, NEW e \in Emails, TokensFor(l, e)
    PROVE  TokensFor(l, e)'
<1>1. users'[e].status # "absent"
    BY StatusStays DEF TokensFor
<1>2. pc'[l] = pc[l] /\ req'[l] = req[l] /\ who'[l] = who[l] /\ answer'[l] = answer[l]
    <2>1. ASSUME NEW r \in Requests, RequestStep(r)
          PROVE  pc'[l] = pc[l] /\ req'[l] = req[l] /\ who'[l] = who[l] /\ answer'[l] = answer[l]
        BY <2>1, DoneStays, OthersStay DEF TokensFor
    <2>2. CASE UNCHANGED <<pc, req, who, answer>>
        BY <2>2
    <2> QED BY <2>1, <2>2
            DEF Next, RequestStep, FindForDeactivation, SaveDeactivated, Quiescent, vars
<1> QED BY <1>1, <1>2 DEF TokensFor

-----------------------------------------------------------------------------
(* Each part of the invariant, for the request that steps.                 *)

\* Types.
LEMMA TypeStep ==
    ASSUME AuthInv, NEW r \in Requests, RequestStep(r)
    PROVE  TypeOK'
<1> USE AuthAssumption
    DEF AuthInv, TypeOK, db, At, GoOn, Goto, Reply, Refuse, Release, Write, TakeRow, Connecting,
        Statements, RowSteps, Answers
<1>1. CASE Send(r)
    BY <1>1 DEF Send, Sendable, Holding, Request
<1>2. CASE ResolvePrincipal(r)
    <2>1. UNCHANGED <<users, committed, wrote, lock, conns, admin>>
        BY <1>2, CallerOutcome DEF ResolvePrincipal
    <2>2. pc' \in [Requests -> {"idle", "principal", "keyFind", "userFind", "build", "done"}
                               \cup Connecting \cup Statements]
        BY <1>2, CallerOutcome
    <2>3. req' \in [Requests -> Request \cup {Nobody}]
        BY <1>2, CallerOutcome
    <2>4. answer' \in [Requests -> Answers \cup {Nobody}]
        BY <1>2, CallerOutcome
    <2>5. who' \in [Requests -> Emails \cup {Nobody}]
        BY <1>2, CallerOutcome DEF TokensFor
    <2> QED BY <2>1, <2>2, <2>3, <2>4, <2>5
<1>3. CASE FindKey(r)
    BY <1>3, CallerOutcome DEF TokensFor, SessionAt
<1>4. CASE FindUser(r)
    BY <1>4 DEF FindUser, SessionAt
<1>5. CASE BuildAuthService(r)
    BY <1>5 DEF BuildAuthService
<1>6. CASE Connect(r)
    BY <1>6, ConnectOutcome
<1>7. CASE PoolTimeout(r)
    BY <1>7 DEF PoolTimeout
<1>8. CASE Lookup(r)
    BY <1>8 DEF Lookup
<1>9. CASE FailedPassword(r)
    <2>1. who[r] \in Emails
        BY <1>9, RequestFields DEF FailedPassword, At, AskedAt, Going, KindsAt
    <2> QED BY <1>9, <2>1 DEF FailedPassword, Item
<1>10. CASE ResetFailedAttempts(r)
    <2>1. who[r] \in Emails
        BY <1>10, RequestFields DEF ResetFailedAttempts, At, AskedAt, Going, KindsAt
    <2> QED BY <1>10, <2>1 DEF ResetFailedAttempts, Item
<1>11. CASE IssueTokens(r)
    BY <1>11 DEF IssueTokens, Item
<1>12. CASE FindToken(r)
    BY <1>12 DEF FindToken
<1>13. CASE RevokeAll(r)
    BY <1>13 DEF RevokeAll
<1>14. CASE FindOrg(r)
    BY <1>14 DEF FindOrg
<1>15. CASE FindEmail(r)
    BY <1>15 DEF FindEmail
<1>16. CASE InsertUser(r)
    <2>1. who[r] \in Emails
        BY <1>16, RequestFields DEF InsertUser, At, AskedAt, Going, KindsAt
    <2> QED BY <1>16, <2>1 DEF InsertUser, Item
<1>17. CASE InsertKey(r)
    BY <1>17 DEF InsertKey, Item
<1>18. CASE Audit(r)
    BY <1>18, AuditOutcome
<1>19. CASE StatementFails(r)
    BY <1>19 DEF StatementFails
<1>20. CASE ManagedFails(r)
    BY <1>20 DEF ManagedFails, SessionAt
<1>21. CASE Collect(r)
    BY <1>21 DEF Collect
<1> QED
    BY <1>1, <1>2, <1>3, <1>4, <1>5, <1>6, <1>7, <1>8, <1>9, <1>10, <1>11, <1>12, <1>13,
       <1>14, <1>15, <1>16, <1>17, <1>18, <1>19, <1>20, <1>21 DEF RequestStep, Step, Fails

\* Connections, rows and uncommitted writes.
LEMMA SessionStep ==
    ASSUME AuthInv, NEW r \in Requests, RequestStep(r)
    PROVE  SessionAt(r)'
<1> USE AuthAssumption
    DEF AuthInv, TypeOK, SessionAt, Fresh, db, At, GoOn, Goto, Reply, Refuse, Release, Write,
        TakeRow, Connecting, Statements, RowSteps
<1>1. CASE Send(r)
    BY <1>1 DEF Send
<1>2. CASE ResolvePrincipal(r)
    BY <1>2, CallerOutcome
<1>3. CASE FindKey(r)
    BY <1>3, CallerOutcome
<1>4. CASE FindUser(r)
    BY <1>4 DEF FindUser
<1>5. CASE BuildAuthService(r)
    BY <1>5 DEF BuildAuthService
<1>6. CASE Connect(r)
    BY <1>6, ConnectOutcome
<1>7. CASE PoolTimeout(r)
    BY <1>7 DEF PoolTimeout
<1>8. CASE Lookup(r)
    BY <1>8 DEF Lookup
<1>9. CASE FailedPassword(r)
    BY <1>9 DEF FailedPassword
<1>10. CASE ResetFailedAttempts(r)
    BY <1>10 DEF ResetFailedAttempts
<1>11. CASE IssueTokens(r)
    BY <1>11 DEF IssueTokens
<1>12. CASE FindToken(r)
    BY <1>12 DEF FindToken
<1>13. CASE RevokeAll(r)
    BY <1>13 DEF RevokeAll
<1>14. CASE FindOrg(r)
    BY <1>14 DEF FindOrg
<1>15. CASE FindEmail(r)
    BY <1>15 DEF FindEmail
<1>16. CASE InsertUser(r)
    BY <1>16 DEF InsertUser
<1>17. CASE InsertKey(r)
    BY <1>17 DEF InsertKey
<1>18. CASE Audit(r)
    BY <1>18, AuditOutcome
<1>19. CASE StatementFails(r)
    BY <1>19 DEF StatementFails
<1>20. CASE ManagedFails(r)
    BY <1>20 DEF ManagedFails
<1>21. CASE Collect(r)
    BY <1>21 DEF Collect
<1> QED
    BY <1>1, <1>2, <1>3, <1>4, <1>5, <1>6, <1>7, <1>8, <1>9, <1>10, <1>11, <1>12, <1>13,
       <1>14, <1>15, <1>16, <1>17, <1>18, <1>19, <1>20, <1>21 DEF RequestStep, Step, Fails

\* What is asked goes with the step.
LEMMA AskedStep ==
    ASSUME AuthInv, NEW r \in Requests, RequestStep(r)
    PROVE  AskedAt(r)'
<1> USE AuthAssumption, RequestFields
    DEF AuthInv, TypeOK, AskedAt, Going, KindsAt, At, GoOn, Goto, Reply, Refuse, Connecting,
        Statements, RowSteps
<1>1. CASE Send(r)
    BY <1>1 DEF Send, Sendable
<1>2. CASE ResolvePrincipal(r)
    BY <1>2, CallerOutcome
<1>3. CASE FindKey(r)
    BY <1>3, CallerOutcome
<1>4. CASE FindUser(r)
    BY <1>4 DEF FindUser
<1>5. CASE BuildAuthService(r)
    BY <1>5 DEF BuildAuthService
<1>6. CASE Connect(r)
    BY <1>6, ConnectOutcome
<1>7. CASE PoolTimeout(r)
    BY <1>7 DEF PoolTimeout
<1>8. CASE Lookup(r)
    BY <1>8 DEF Lookup
<1>9. CASE FailedPassword(r)
    BY <1>9 DEF FailedPassword
<1>10. CASE ResetFailedAttempts(r)
    BY <1>10 DEF ResetFailedAttempts
<1>11. CASE IssueTokens(r)
    BY <1>11 DEF IssueTokens
<1>12. CASE FindToken(r)
    BY <1>12 DEF FindToken
<1>13. CASE RevokeAll(r)
    BY <1>13 DEF RevokeAll
<1>14. CASE FindOrg(r)
    BY <1>14 DEF FindOrg
<1>15. CASE FindEmail(r)
    BY <1>15 DEF FindEmail
<1>16. CASE InsertUser(r)
    BY <1>16 DEF InsertUser
<1>17. CASE InsertKey(r)
    BY <1>17 DEF InsertKey
<1>18. CASE Audit(r)
    BY <1>18, AuditOutcome
<1>19. CASE StatementFails(r)
    BY <1>19 DEF StatementFails
<1>20. CASE ManagedFails(r)
    BY <1>20 DEF ManagedFails
<1>21. CASE Collect(r)
    BY <1>21 DEF Collect
<1> QED
    BY <1>1, <1>2, <1>3, <1>4, <1>5, <1>6, <1>7, <1>8, <1>9, <1>10, <1>11, <1>12, <1>13,
       <1>14, <1>15, <1>16, <1>17, <1>18, <1>19, <1>20, <1>21 DEF RequestStep, Step, Fails

\* Callers were answered tokens.
LEMMA TokensStep ==
    ASSUME AuthInv, NEW r \in Requests, RequestStep(r)
    PROVE  TokensAt(r)'
<1> USE NobodyAssumption DEF At
<1>1. /\ r \in DOMAIN pc /\ r \in DOMAIN req /\ r \in DOMAIN who /\ r \in DOMAIN answer
      /\ AskedAt(r) /\ TokensAt(r) /\ users' = users
    BY RowsStay DEF AuthInv, TypeOK
<1>2. \A l \in Requests : \A e : TokensFor(l, e) => TokensFor(l, e)'
    <2>1. [Next]_vars
        BY DEF Next, RequestStep
    <2> QED BY <2>1, TokensStay DEF TokensFor
<1>3. ASSUME Refuse(r) PROVE TokensAt(r)'
    BY <1>1, <1>3 DEF Refuse, Goto, TokensAt
<1>4. ASSUME NEW a \in {"204", "201", "key"}, Reply(r, a) PROVE TokensAt(r)'
    BY <1>1, <1>2, <1>4 DEF Reply, Goto, TokensAt
<1>5. ASSUME NEW step, GoOn(r, step), step # "principal",
             step \in {"fail", "reset", "issue", "audit"} /\ req[r].kind = "login"
                 => users[who[r]].status # "absent"
      PROVE  TokensAt(r)'
    BY <1>1, <1>2, <1>5 DEF GoOn, Goto, TokensAt
<1>6. CASE Send(r)
    <2>1. PICK q \in Sendable :
              /\ req' = [req EXCEPT ![r] = q]
              /\ who' = [who EXCEPT ![r] =
                            IF q.kind \in {"login", "register"} THEN q.of ELSE Nobody]
              /\ Goto(r, IF q.kind \in {"logout", "api-keys"} THEN "principal" ELSE "build")
        BY <1>6 DEF Send
    <2>2. answer' = answer /\ answer[r] # "tokens"
        BY <1>1, <1>6 DEF Send, AskedAt, Answers
    <2>3. q.cred = "jwt" => q.of \in Requests /\ TokensFor(q.of, who[q.of]) /\ q.of # r
        BY <2>2 DEF Sendable, Holding, AuthInv, TokensAt
    <2>4. q.cred = "jwt" => TokensFor(q.of, who[q.of])'
        BY <1>1, <1>2, <2>1, <2>3
    <2> QED BY <1>1, <2>1, <2>2, <2>3, <2>4 DEF Goto, TokensAt
<1>7. CASE ResolvePrincipal(r) \/ FindKey(r)
    <2>1. ASSUME NEW l \in Requests, TokensFor(l, who[l]), who' = [who EXCEPT ![r] = who[l]],
                 UNCHANGED <<req, answer>>, pc[r] = "principal",
                 Goto(r, "build") \/ Goto(r, "userConnect")
          PROVE  TokensAt(r)'
        <3>1. TokensFor(l, who[r])' /\ answer'[r] # "tokens"
            BY <1>1, <1>2, <2>1 DEF AskedAt, Answers
        <3> QED BY <1>1, <2>1, <3>1 DEF Goto, TokensAt
    <2> QED BY <1>3, <1>4, <1>5, <1>7, <2>1, CallerOutcome
<1>8. CASE FindUser(r) \/ BuildAuthService(r) \/ FindToken(r) \/ RevokeAll(r) \/ FindOrg(r)
           \/ FindEmail(r) \/ InsertUser(r) \/ InsertKey(r)
    <2>1. pc[r] \in {"revoke", "insertUser", "insertKey"} => req[r].kind # "login"
        BY <1>1 DEF AskedAt, Going, KindsAt
    <2> QED BY <1>3, <1>5, <1>8, <2>1
            DEF FindUser, BuildAuthService, FindToken, RevokeAll, FindOrg, FindEmail, InsertUser,
                InsertKey
<1>9. CASE Connect(r)
    BY <1>5, <1>9, ConnectOutcome
<1>10. CASE Lookup(r)
    BY <1>3, <1>5, <1>10 DEF Lookup
<1>11. CASE FailedPassword(r) \/ ResetFailedAttempts(r) \/ IssueTokens(r)
    BY <1>1, <1>5, <1>11 DEF FailedPassword, ResetFailedAttempts, IssueTokens, TokensAt
<1>12. CASE Audit(r)
    <2>1. ASSUME pc[r] = "audit", req[r].kind = "login", req[r].cred = "right", Reply(r, "tokens")
          PROVE  TokensAt(r)'
        <3>1. req[r] \in Request /\ who[r] = req[r].of /\ who[r] \in Emails
              /\ users[who[r]].status # "absent"
            BY <1>1, <2>1, RequestFields DEF AskedAt, Going, TokensAt
        <3>2. TokensFor(r, who[r])'
            BY <1>1, <2>1, <3>1 DEF Reply, Goto, TokensFor
        <3> QED BY <1>1, <2>1, <3>1, <3>2 DEF Reply, Goto, TokensAt
    <2> QED BY <1>3, <1>4, <1>12, <2>1, AuditOutcome
<1>13. CASE PoolTimeout(r) \/ StatementFails(r) \/ ManagedFails(r)
    BY <1>3, <1>13 DEF PoolTimeout, StatementFails, ManagedFails
<1>14. CASE Collect(r)
    BY <1>1, <1>2, <1>14 DEF Collect, TokensAt
<1> QED
    BY <1>6, <1>7, <1>8, <1>9, <1>10, <1>11, <1>12, <1>13, <1>14 DEF RequestStep, Step, Fails

-----------------------------------------------------------------------------
(* The invariant.                                                          *)

\* The step of one request keeps what holds of the others.
LEMMA OthersKeep ==
    ASSUME AuthInv, NEW r \in Requests, RequestStep(r), NEW s \in Requests, s # r
    PROVE  SessionAt(s)' /\ AskedAt(s)' /\ TokensAt(s)'
<1>1. SessionAt(s)'
    BY OthersStay DEF AuthInv, SessionAt
<1>2. AskedAt(s)'
    BY OthersStay DEF AuthInv, AskedAt, Going
<1>3. TokensAt(s)'
    <2>1. users' = users
        BY RowsStay
    <2>2. \A l \in Requests, e \in Emails : TokensFor(l, e) => TokensFor(l, e)'
        BY TokensStay DEF Next, RequestStep
    <2>3. \A l \in Requests : TokensFor(l, who[l]) => who[l] \in Emails /\ who'[l] = who[l]
        BY <2>2 DEF TokensFor
    <2> QED BY <2>1, <2>2, <2>3, OthersStay DEF AuthInv, TypeOK, TokensAt
<1> QED BY <1>1, <1>2, <1>3

\* The invariant holds of the rows an operator has inserted.
LEMMA AuthInvInit == Init => AuthInv
<1> SUFFICES ASSUME Init PROVE AuthInv
    OBVIOUS
<1> USE AuthAssumption, NobodyAssumption DEF Init
<1>1. TypeOK
    <2>1. users \in [Emails -> Row]
        <3> SUFFICES ASSUME NEW e \in Emails PROVE users[e] \in Row
            OBVIOUS
        <3>1. NoRow \in Row
            BY DEF NoRow, Row
        <3>2. ASSUME NEW row \in [status : {"active"}, role : Roles, failed : {0}, locked : {FALSE}]
              PROVE  row \in Row
            <4>1. \A role \in Roles :
                      [status |-> "active", role |-> role, failed |-> 0, locked |-> FALSE] \in Row
                BY DEF Row
            <4>2. /\ row = [status |-> "active", role |-> row.role, failed |-> 0, locked |-> FALSE]
                  /\ row.role \in Roles
                OBVIOUS
            <4> QED BY <4>1, <4>2
        <3> QED BY <3>1, <3>2
    <2> QED BY <2>1 DEF TypeOK
<1>2. NothingCommitted
    BY DEF NothingCommitted
<1>3. ASSUME NEW r \in Requests PROVE SessionAt(r) /\ AskedAt(r) /\ TokensAt(r)
    <2>1. SessionAt(r)
        BY DEF SessionAt, Connecting, Statements, RowSteps
    <2>2. AskedAt(r) /\ TokensAt(r)
        BY DEF AskedAt, Going, TokensAt, Answers
    <2> QED BY <2>1, <2>2
<1> QED BY <1>1, <1>2, <1>3 DEF AuthInv

\* A deactivation keeps it: it takes no account away.
LEMMA AdminKeeps ==
    ASSUME AuthInv, NEW e \in Emails, FindForDeactivation(e) \/ SaveDeactivated(e)
    PROVE  AuthInv'
<1>1. /\ UNCHANGED <<committed, wrote, lock, conns, pc, req, who, answer>>
      /\ users' = users \/ users' = [users EXCEPT ![e].status = "inactive"]
      /\ admin' \in [Emails -> {"idle", "saving", "done"}]
    BY DEF FindForDeactivation, SaveDeactivated, db, AuthInv, TypeOK
<1>2. users' \in [Emails -> Row]
    <2>1. \A s \in {"absent", "active", "inactive"}, role \in Roles \cup {""}, n \in Nat,
             l \in BOOLEAN :
              [[status |-> s, role |-> role, failed |-> n, locked |-> l]
                  EXCEPT !.status = "inactive"] \in Row
        BY DEF Row
    <2>2. ASSUME NEW row \in Row PROVE [row EXCEPT !.status = "inactive"] \in Row
        <3>1. \E s \in {"absent", "active", "inactive"}, role \in Roles \cup {""}, n \in Nat,
                 l \in BOOLEAN :
                  row = [status |-> s, role |-> role, failed |-> n, locked |-> l]
            BY DEF Row
        <3> QED BY <2>1, <3>1, Zenon
    <2> QED BY <1>1, <2>2 DEF AuthInv, TypeOK
<1>3. TypeOK'
    BY <1>1, <1>2 DEF AuthInv, TypeOK
<1>4. NothingCommitted'
    BY <1>1 DEF AuthInv, NothingCommitted
<1>5. ASSUME NEW r \in Requests PROVE SessionAt(r)' /\ AskedAt(r)'
    BY <1>1 DEF AuthInv, SessionAt, AskedAt, Going
<1>6. \A d \in Emails : users[d].status # "absent" => users'[d].status # "absent"
    BY StatusStays DEF Next
<1>7. \A l \in Requests : \A d : TokensFor(l, d) => TokensFor(l, d)'
    BY <1>1, <1>6 DEF TokensFor
<1>8. ASSUME NEW r \in Requests PROVE TokensAt(r)'
    <2>1. Going(r) /\ req[r].kind = "login" => who[r] \in Emails
        BY RequestFields DEF AuthInv, AskedAt
    <2> QED BY <1>1, <1>6, <1>7, <2>1 DEF AuthInv, TokensAt, Going
<1> QED BY <1>3, <1>4, <1>5, <1>8 DEF AuthInv

\* The invariant holds in every reachable state.
LEMMA AuthInvariant == Spec => []AuthInv
<1>1. AuthInv /\ [Next]_vars => AuthInv'
    <2> SUFFICES ASSUME AuthInv, [Next]_vars PROVE AuthInv'
        OBVIOUS
    <2>1. ASSUME NEW r \in Requests, RequestStep(r) PROVE AuthInv'
        <3>1. TypeOK' /\ NothingCommitted'
            BY <2>1, TypeStep, RowsStay
        <3>2. ASSUME NEW s \in Requests PROVE SessionAt(s)' /\ AskedAt(s)' /\ TokensAt(s)'
            BY <2>1, SessionStep, AskedStep, TokensStep, OthersKeep
        <3> QED BY <3>1, <3>2 DEF AuthInv
    <2>2. CASE UNCHANGED vars
        BY <2>2 DEF vars, AuthInv, TypeOK, NothingCommitted, SessionAt, AskedAt, Going, TokensAt,
            TokensFor
    <2> QED BY <2>1, <2>2, AdminKeeps DEF Next, RequestStep, Quiescent
<1> QED BY <1>1, AuthInvInit, PTL DEF Spec

-----------------------------------------------------------------------------
(* The theorems.                                                           *)

\* The requests, their sessions and the rows are well typed: no session gives
\* back a connection it has not checked out.
THEOREM AuthTypeCorrect == Spec => []TypeOK
BY AuthInvariant, PTL DEF AuthInv

\* _build_auth_service: no account, token, key or attempt that the endpoints
\* write is ever committed.
THEOREM NothingIsCommitted == Spec => []NothingCommitted
BY AuthInvariant, PTL DEF AuthInv

\* Neither the pool nor the row locks can deadlock, for any number of requests,
\* addresses and connections, although both are held past the end of a request.
THEOREM NobodyEverWaitsHolding == Spec => []NobodyWaitsHolding
<1>1. AuthInv => NobodyWaitsHolding
    BY DEF AuthInv, SessionAt, Fresh, NobodyWaitsHolding, WaitsForConnection, WaitsForRow,
        Connecting, Statements, RowSteps
<1> QED BY <1>1, AuthInvariant, PTL

\* Whoever acts as a user was answered tokens for that user's password.
THEOREM PrincipalsAlwaysEarned == Spec => []PrincipalsAreEarned
<1>1. AuthInv => PrincipalsAreEarned
    BY DEF AuthInv, TokensAt, TokensFor, PrincipalsAreEarned
<1> QED BY <1>1, AuthInvariant, PTL
=============================================================================
