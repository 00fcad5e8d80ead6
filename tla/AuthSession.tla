---------------------------- MODULE AuthSession ----------------------------
(***************************************************************************)
(* The endpoints of auth_router.py, the AuthService behind them, the       *)
(* resolution of the caller (dependencies.py) and the database sessions    *)
(* they work in (database_component.py, repository.py), with the           *)
(* deactivation of users by the enterprise services.                       *)
(*                                                                         *)
(* _build_auth_service returns the service out of "async with              *)
(* db.get_session()", so the session is committed and closed before the    *)
(* service runs its first statement.  That statement begins another        *)
(* transaction on the same session, which nobody commits or closes: its    *)
(* connection and its row locks are held until the garbage collector finds *)
(* the session, and then it is rolled back.                                *)
(*                                                                         *)
(* PostgreSQL runs at READ COMMITTED: a statement sees the rows committed  *)
(* before it and those of its own transaction, an UPDATE of a row waits    *)
(* for the transaction that has changed it, and an INSERT into a unique    *)
(* index waits for the transaction that has inserted the same key.  The    *)
(* key-share locks of the foreign keys conflict with none of these.        *)
(* Passwords, hashes and claims are reduced to whether they are right.     *)
(***************************************************************************)
EXTENDS Integers, FiniteSets

CONSTANTS
    Requests,          \* HTTP requests, numbered in the order they arrive
    Emails,            \* addresses, the identities of users
    Roles,             \* the roles of the users an operator inserts
    PoolMax,           \* pool_size + max_overflow
    MaxFailedAttempts, \* _MAX_FAILED_ATTEMPTS
    JwtSecretSet,      \* server.auth.secret is not empty
    AuthEnabled,       \* server.auth.enabled
    Nobody             \* no request, no user

ASSUME AuthAssumption ==
    /\ Requests \subseteq Nat
    /\ PoolMax \in Nat \ {0}
    /\ MaxFailedAttempts \in Nat \ {0}
    /\ {JwtSecretSet, AuthEnabled} \subseteq BOOLEAN
    /\ Nobody \notin Requests \cup Emails

VARIABLES
    users,      \* users[e]: the committed row of e
    committed,  \* the other rows committed by sessions
    wrote,      \* wrote[r]: the uncommitted rows of the transaction of r
    lock,       \* lock[e]: the request whose transaction has changed the row of e
    conns,      \* conns[r]: the pooled connections r has checked out
    pc,         \* pc[r]: the next step of r
    req,        \* req[r]: what r asks
    who,        \* who[r]: the user r acts as
    answer,     \* answer[r]: its response
    admin       \* admin[e]: how far the deactivation of e is

db == <<users, committed, wrote, lock>>
vars == <<users, committed, wrote, lock, conns, pc, req, who, answer, admin>>

\* _ROLE_HIERARCHY; other strings may be stored, and rank below all of these.
Level(role) ==
    CASE role = "readonly" -> 0
      [] role = "user" -> 1
      [] role = "org_admin" -> 2
      [] role = "super_admin" -> 3
      [] OTHER -> -1

HasRole(role, required) == Level(role) >= Level(required)

Row == [status : {"absent", "active", "inactive"}, role : Roles \cup {""},
        failed : Nat, locked : BOOLEAN]

NoRow == [status |-> "absent", role |-> "", failed |-> 0, locked |-> FALSE]

\* What a transaction writes: rows of a table, named by whom they are of.
Item == ({"user", "attempts", "lockout", "reset"} \X Emails)
            \cup ({"token", "key"} \X Requests)

Request ==
    [kind : {"login"}, cred : {"right", "wrong"}, of : Emails]
        \cup [kind : {"register"}, cred : {"org", "noOrg"}, of : Emails]
        \cup [kind : {"refresh"}, cred : {"token"}, of : Requests]
        \cup [kind : {"logout", "api-keys"},
              cred : {"jwt", "key", "bad", "none"}, of : Requests \cup {Nobody}]

Answers == {"tokens", "201", "key", "204", "refused"}

ASSUME NobodyAssumption == Nobody \notin Answers

\* The steps at which a request waits for a connection, and for a row.
Connecting == {"keyConnect", "userConnect", "connect"}
RowSteps == {"fail", "reset", "insertUser"}
Statements == RowSteps \cup
    {"lookup", "issue", "findToken", "revoke", "findOrg", "findUser",
     "insertKey", "audit"}

TypeOK ==
    /\ users \in [Emails -> Row]
    /\ committed \subseteq Item
    /\ wrote \in [Requests -> SUBSET Item]
    /\ lock \in [Emails -> Requests \cup {Nobody}]
    /\ conns \in [Requests -> Nat]
    /\ pc \in [Requests -> {"idle", "principal", "keyFind", "userFind", "build",
                            "done"} \cup Connecting \cup Statements]
    /\ req \in [Requests -> Request \cup {Nobody}]
    /\ who \in [Requests -> Emails \cup {Nobody}]
    /\ answer \in [Requests -> Answers \cup {Nobody}]
    /\ admin \in [Emails -> {"idle", "saving", "done"}]

\* Rows that an operator has inserted: the other columns have their defaults.
Init ==
    /\ users \in [Emails -> {NoRow} \cup
                    [status : {"active"}, role : Roles, failed : {0}, locked : {FALSE}]]
    /\ committed = {}
    /\ wrote = [r \in Requests |-> {}]
    /\ lock = [e \in Emails |-> Nobody]
    /\ conns = [r \in Requests |-> 0]
    /\ pc = [r \in Requests |-> "idle"]
    /\ req = [r \in Requests |-> Nobody]
    /\ who = [r \in Requests |-> Nobody]
    /\ answer = [r \in Requests |-> Nobody]
    /\ admin = [e \in Emails |-> "idle"]

-----------------------------------------------------------------------------
(* Helpers                                                                 *)

At(r, step) == pc[r] = step
Goto(r, step) == pc' = [pc EXCEPT ![r] = step]

\* The request goes on at a step.
GoOn(r, step) == Goto(r, step) /\ UNCHANGED <<req, who, answer>>

Reply(r, a) ==
    /\ Goto(r, "done")
    /\ answer' = [answer EXCEPT ![r] = a]
    /\ UNCHANGED <<req, who>>

\* An answer of 4xx or 5xx; what was asked need not be remembered.
Refuse(r) ==
    /\ Goto(r, "done")
    /\ answer' = [answer EXCEPT ![r] = "refused"]
    /\ req' = [req EXCEPT ![r] = Nobody]
    /\ who' = [who EXCEPT ![r] = Nobody]

Exists(e) == users[e].status # "absent" \/ <<"user", e>> \in committed

\* A request has at most one session open for each of its two services.
InUse == Cardinality({c \in Requests \X (1 .. 2) : c[2] <= conns[c[1]]})

\* A session of "async with db.get_session()" gives its connection back.
Release(r) == conns' = [conns EXCEPT ![r] = @ - 1]

Write(r, items) == wrote' = [wrote EXCEPT ![r] = @ \cup items]

\* The row of e is not changed by another transaction; now r has changed it.
TakeRow(r, e) ==
    /\ lock[e] \in {Nobody, r}
    /\ lock' = [lock EXCEPT ![e] = r]

-----------------------------------------------------------------------------
(* Requests arrive, and their caller is resolved                           *)

Holding(a) == {r \in Requests : answer[r] = a}

\* What a client can send: tokens and keys are those it was answered with,
\* or ("bad", or a key of nobody) unknown, forged or expired ones, among them
\* the tokens of the enterprise services, which carry no type.
Sendable ==
    {q \in Request :
        /\ q.cred \in {"token", "jwt"} => q.of \in Holding("tokens")
        /\ q.cred = "key" => q.of \in Holding("key") \cup {Nobody}
        /\ q.cred \in {"bad", "none"} => q.of = Nobody}

Send(r) ==
    /\ At(r, "idle")
    /\ \A earlier \in Requests : earlier < r => ~At(earlier, "idle")
    /\ \E q \in Sendable :
          /\ req' = [req EXCEPT ![r] = q]
          /\ who' = [who EXCEPT ![r] =
                        IF q.kind \in {"login", "register"} THEN q.of ELSE Nobody]
          /\ Goto(r, IF q.kind \in {"logout", "api-keys"}
                     THEN "principal" ELSE "build")
    /\ UNCHANGED <<db, conns, answer, admin>>

\* Where a request goes whose caller is user e, or, with the legacy secret or
\* with authentication disabled, nobody in particular.
Proceed(r, e) ==
    IF req[r].kind = "api-keys" /\ ~HasRole(users[e].role, "user") THEN Refuse(r)
    ELSE /\ who' = [who EXCEPT ![r] = e]
         /\ UNCHANGED <<req, answer>>
         /\ Goto(r, IF req[r].kind = "logout" THEN "build" ELSE "userConnect")

ProceedAnonymously(r) ==
    IF req[r].kind = "logout" THEN Reply(r, "204") ELSE Refuse(r)

\* get_current_principal: the bearer token first, then the key, then the
\* legacy secret.  A handler without a secret makes up one of its own.
ResolvePrincipal(r) ==
    /\ At(r, "principal")
    /\ UNCHANGED <<db, conns, admin>>
    /\ \/ req[r].cred = "key" /\ GoOn(r, "keyConnect")
       \/ req[r].cred = "jwt" /\ JwtSecretSet /\ Proceed(r, who[req[r].of])
       \/ req[r].cred = "bad" /\ Refuse(r)
       \/ req[r].cred = "jwt" /\ ~JwtSecretSet /\ Refuse(r)
       \/ req[r].cred = "none" /\ ProceedAnonymously(r)
       \/ req[r].cred = "none" /\ AuthEnabled /\ Refuse(r)

\* _resolve_api_key, in a session of its own that is committed at its end.
FindKey(r) ==
    /\ At(r, "keyFind")
    /\ Release(r)
    /\ UNCHANGED <<db, admin>>
    /\ IF <<"key", req[r].of>> \in committed
       THEN Proceed(r, who[req[r].of])
       ELSE Refuse(r)

\* Mutant: the service is built inside the session that read the user.
FindUserNested(r) ==
    /\ At(r, "userFind")
    /\ UNCHANGED <<db, conns, admin>>
    /\ IF Exists(who[r]) THEN GoOn(r, "build") ELSE Refuse(r)

\* create_api_key reads its user in a session of its own.
FindUser(r) ==
    /\ At(r, "userFind")
    /\ Release(r)
    /\ UNCHANGED <<db, admin>>
    /\ IF Exists(who[r]) THEN GoOn(r, "build") ELSE Refuse(r)

-----------------------------------------------------------------------------
(* Sessions and connections                                                *)

\* Mutant: the exit gives a connection back, checked out or not.
BuildReleasing(r) ==
    /\ At(r, "build")
    /\ Release(r)
    /\ GoOn(r, "connect")
    /\ UNCHANGED <<db, admin>>

\* _build_auth_service: the session is committed and closed on the way out.
BuildAuthService(r) ==
    /\ At(r, "build")
    /\ committed' = committed \cup wrote[r]
    /\ wrote' = [wrote EXCEPT ![r] = {}]
    /\ GoOn(r, "connect")
    /\ UNCHANGED <<users, lock, conns, admin>>

\* The first statement of the service.
First(kind) ==
    CASE kind = "login" -> "lookup"
      [] kind = "refresh" -> "findToken"
      [] kind = "logout" -> "revoke"
      [] kind = "register" -> "findOrg"
      [] kind = "api-keys" -> "insertKey"

\* The first statement of a session checks a connection out.
Connect(r) ==
    /\ pc[r] \in Connecting
    /\ InUse < PoolMax
    /\ conns' = [conns EXCEPT ![r] = @ + 1]
    /\ GoOn(r, CASE pc[r] = "keyConnect" -> "keyFind"
                 [] pc[r] = "userConnect" -> "userFind"
                 [] pc[r] = "connect" -> First(req[r].kind))
    /\ UNCHANGED <<db, admin>>

\* No connection within 30 seconds.
PoolTimeout(r) ==
    /\ pc[r] \in Connecting
    /\ InUse >= PoolMax
    /\ Refuse(r)
    /\ UNCHANGED <<db, conns, admin>>

\* Mutant: a statement that fails is tried again on another connection.
StatementRetries(r) ==
    /\ pc[r] \in Statements
    /\ Release(r)
    /\ GoOn(r, "connect")
    /\ UNCHANGED <<db, admin>>

\* A statement of the service fails: its transaction is left as it is.
StatementFails(r) ==
    /\ pc[r] \in Statements
    /\ Refuse(r)
    /\ UNCHANGED <<db, conns, admin>>

\* A statement of a managed session fails: it is rolled back and closed.
ManagedFails(r) ==
    /\ pc[r] \in {"keyFind", "userFind"}
    /\ Release(r)
    /\ Refuse(r)
    /\ UNCHANGED <<db, admin>>

\* The session of a request that is over is collected, and rolled back.
Collect(r) ==
    /\ At(r, "done") /\ conns[r] > 0
    /\ conns' = [conns EXCEPT ![r] = 0]
    /\ wrote' = [wrote EXCEPT ![r] = {}]
    /\ lock' = [e \in Emails |-> IF lock[e] = r THEN Nobody ELSE lock[e]]
    /\ UNCHANGED <<users, committed, pc, req, who, answer, admin>>

-----------------------------------------------------------------------------
(* AuthService                                                             *)

\* login: get_active_by_email, the lockout, the password.
Lookup(r) ==
    LET row == users[who[r]]
    IN  /\ At(r, "lookup")
        /\ UNCHANGED <<db, conns, admin>>
        /\ IF row.status = "active" /\ ~row.locked
           THEN GoOn(r, IF req[r].cred = "right" THEN "reset" ELSE "fail")
           ELSE Refuse(r)

\* increment_failed_attempts: the UPDATE also increments the object in memory,
\* and the lockout compares that object plus one.
FailedPassword(r) ==
    LET e == who[r]
        inMemory == users[e].failed + 1
    IN  /\ At(r, "fail")
        /\ TakeRow(r, e)
        /\ Write(r, IF inMemory + 1 >= MaxFailedAttempts
                    THEN {<<"attempts", e>>, <<"lockout", e>>}
                    ELSE {<<"attempts", e>>})
        /\ GoOn(r, "audit")
        /\ UNCHANGED <<users, committed, conns, admin>>

\* reset_failed_attempts
ResetFailedAttempts(r) ==
    /\ At(r, "reset")
    /\ TakeRow(r, who[r])
    /\ Write(r, {<<"reset", who[r]>>})
    /\ GoOn(r, "issue")
    /\ UNCHANGED <<users, committed, conns, admin>>

\* _issue_tokens: the refresh token is a row of the same transaction.
IssueTokens(r) ==
    /\ At(r, "issue")
    /\ Write(r, {<<"token", r>>})
    /\ GoOn(r, "audit")
    /\ UNCHANGED <<users, committed, lock, conns, admin>>

\* refresh: a token whose row is committed would be rotated, but none is.
FindToken(r) ==
    /\ At(r, "findToken")
    /\ <<"token", req[r].of>> \notin committed
    /\ Refuse(r)
    /\ UNCHANGED <<db, conns, admin>>

\* logout: revoke_all_for_user updates the committed rows, of which there are
\* none; no session id is given, so no cached session is invalidated.
RevokeAll(r) ==
    /\ At(r, "revoke")
    /\ GoOn(r, "audit")
    /\ UNCHANGED <<db, conns, admin>>

\* register: the organisation, then the address, then the insertion.
FindOrg(r) ==
    /\ At(r, "findOrg")
    /\ IF req[r].cred = "org" THEN GoOn(r, "findUser") ELSE Refuse(r)
    /\ UNCHANGED <<db, conns, admin>>

FindEmail(r) ==
    /\ At(r, "findUser")
    /\ IF Exists(who[r]) THEN Refuse(r) ELSE GoOn(r, "insertUser")
    /\ UNCHANGED <<db, conns, admin>>

\* The unique index makes it wait for the other who inserts the address.
InsertUser(r) ==
    /\ At(r, "insertUser")
    /\ TakeRow(r, who[r])
    /\ Write(r, {<<"user", who[r]>>})
    /\ GoOn(r, "audit")
    /\ UNCHANGED <<users, committed, conns, admin>>

InsertKey(r) ==
    /\ At(r, "insertKey")
    /\ Write(r, {<<"key", r>>})
    /\ GoOn(r, "audit")
    /\ UNCHANGED <<users, committed, lock, conns, admin>>

\* Mutant: a failed login falls through to the tokens.
AuditNoRaise(r) ==
    /\ At(r, "audit")
    /\ Reply(r, CASE req[r].kind = "login" -> "tokens"
                  [] req[r].kind = "logout" -> "204"
                  [] req[r].kind = "register" -> "201"
                  [] req[r].kind = "api-keys" -> "key")
    /\ UNCHANGED <<db, conns, admin>>

\* AuditLogRepository.log, the last statement before the answer; nothing
\* reads its row.
Audit(r) ==
    /\ At(r, "audit")
    /\ CASE req[r].cred = "wrong" -> Refuse(r)
         [] req[r].cred = "right" -> Reply(r, "tokens")
         [] req[r].kind = "logout" -> Reply(r, "204")
         [] req[r].kind = "register" -> Reply(r, "201")
         [] req[r].kind = "api-keys" -> Reply(r, "key")
    /\ UNCHANGED <<db, conns, admin>>

-----------------------------------------------------------------------------
(* AdminService.deactivateUser                                             *)

FindForDeactivation(e) ==
    /\ admin[e] = "idle"
    /\ users[e].status = "active"
    /\ admin' = [admin EXCEPT ![e] = "saving"]
    /\ UNCHANGED <<db, conns, pc, req, who, answer>>

\* Mutant: the entity is saved as it was read.
SaveUnchanged(e) ==
    /\ admin[e] = "saving"
    /\ lock[e] = Nobody
    /\ admin' = [admin EXCEPT ![e] = "done"]
    /\ UNCHANGED <<db, conns, pc, req, who, answer>>

\* save updates the row, and waits for a transaction that has changed it.
SaveDeactivated(e) ==
    /\ admin[e] = "saving"
    /\ lock[e] = Nobody
    /\ users' = [users EXCEPT ![e].status = "inactive"]
    /\ admin' = [admin EXCEPT ![e] = "done"]
    /\ UNCHANGED <<committed, wrote, lock, conns, pc, req, who, answer>>

-----------------------------------------------------------------------------

Step(r) ==
    \/ ResolvePrincipal(r)
    \/ FindKey(r)
    \/ FindUser(r)
    \/ BuildAuthService(r)
    \/ Connect(r)
    \/ PoolTimeout(r)
    \/ Lookup(r)
    \/ FailedPassword(r)
    \/ ResetFailedAttempts(r)
    \/ IssueTokens(r)
    \/ FindToken(r)
    \/ RevokeAll(r)
    \/ FindOrg(r)
    \/ FindEmail(r)
    \/ InsertUser(r)
    \/ InsertKey(r)
    \/ Audit(r)

Fails(r) == StatementFails(r) \/ ManagedFails(r)

\* All requests are answered and their sessions collected.
Quiescent ==
    /\ \A r \in Requests : At(r, "done") /\ conns[r] = 0
    /\ \A e \in Emails : admin[e] # "saving"
    /\ UNCHANGED vars

Next ==
    \/ \E r \in Requests : Send(r) \/ Step(r) \/ Fails(r) \/ Collect(r)
    \/ \E e \in Emails : FindForDeactivation(e) \/ SaveDeactivated(e)
    \/ Quiescent

Spec == Init /\ [][Next]_vars

\* The event loop runs every request on, the collector runs again and again,
\* and a save that can go on does.
FairSpec ==
    /\ Spec
    /\ \A r \in Requests : WF_vars(Step(r) \/ Collect(r))
    /\ \A e \in Emails : WF_vars(SaveDeactivated(e))

-----------------------------------------------------------------------------
(* Properties                                                              *)

WaitsForConnection(r) == pc[r] \in Connecting
WaitsForRow(r) == pc[r] \in RowSteps

\* Nobody waits while others wait for him: a request that waits for a pooled
\* connection has none, and one that waits for a row has changed no row.  And a
\* row is held only by a session that has its connection, so that the collector,
\* who looks for connections, gives it back.  So neither the pool nor the row
\* locks can deadlock, although both are held past the end of the requests.
NobodyWaitsHolding ==
    \A r \in Requests :
        /\ WaitsForConnection(r) => conns[r] = 0
        /\ WaitsForConnection(r) \/ WaitsForRow(r) => \A e \in Emails : lock[e] # r
        /\ \A e \in Emails : lock[e] = r => conns[r] > 0

\* A request acts as a user only if that user was answered tokens for the
\* right password while the account was there.
PrincipalsAreEarned ==
    \A r \in Requests :
        req[r] # Nobody /\ who[r] # Nobody /\ req[r].kind \in {"logout", "api-keys"} =>
            \E l \in Requests :
                /\ answer[l] = "tokens"
                /\ req[l].kind = "login" /\ req[l].cred = "right"
                /\ req[l].of = who[r]
                /\ users[who[r]].status # "absent"

\* Every request is answered, although sessions are never closed: the
\* collector gives their connections and rows back.
RequestsAreAnswered ==
    \A r \in Requests : pc[r] # "idle" ~> pc[r] = "done"

\* A deactivation gets past the logins that hold the row.
DeactivationsComplete ==
    \A e \in Emails : admin[e] = "saving" ~> users[e].status = "inactive"

\* The answer 201 is given for an account that is in the database: the
\* session "commits on success".
AnsweredIsStored ==
    \A r \in Requests : answer[r] = "201" => <<"user", req[r].of>> \in committed
=============================================================================
