----------------------------- MODULE AdminSession ----------------------------
(***************************************************************************)
(* The admin login (internal/api/admin/handler.go), its in-memory sessions *)
(* (internal/auth/session.go, csrf.go), the login lockout and its audit    *)
(* row, the password change (pages.go) and the admin_auth row             *)
(* (postgres/admin_auth_audit.go).                                         *)
(*                                                                         *)
(* Time is left out: a session or a lockout record may be found expired at *)
(* any moment (ExpireSession, ExpireAttempts).  A bcrypt hash is a version *)
(* number, since every change stores a freshly salted one.  A browser has  *)
(* one request under way, its own IP and one cookie; form is the session   *)
(* whose CSRF token its last page carried.  Session identifiers are random *)
(* and never met again, so one that nothing names any more is reused.      *)
(***************************************************************************)
EXTENDS Naturals, FiniteSets

CONSTANTS Browsers, MaxAttempts, MaxPassword, Ids

VARIABLES auth,      \* the admin_auth row: hash version (0: no row), password_is_bootstrap
          sess,      \* sm.sessions: id -> [kind, boot, audited]
          cookie,    \* browser -> session id its cookie names, 0 for none
          form,      \* browser -> session id its form's CSRF token belongs to
          attempts,  \* h.loginAttempts: key -> [n, claimed], and rows written for the window
          req        \* browser -> its request: where it is, the hash it read, its session, its claim
vars == <<auth, sess, cookie, form, attempts, req>>

Account == "account:admin"
Keys == Browsers \cup {Account}
NoSession == [kind |-> "none", boot |-> FALSE, audited |-> FALSE]
Pre == [NoSession EXCEPT !.kind = "pre"]
NoAttempt == [n |-> 0, claimed |-> FALSE, rows |-> 0]
Idle == [pc |-> "idle", op |-> "login", hash |-> 0, boot |-> FALSE, id |-> 0, marks |-> {}]

\* Start-up with PACKMON_ADMIN_INITIAL_PASSWORD set or not: an existing row
\* is kept, and a first row is a bootstrap password.
BootstrapAdmin(row, given) ==
    IF row.hash # 0 \/ ~given THEN row ELSE [hash |-> 1, boot |-> TRUE]

Init == /\ \E given \in BOOLEAN : auth = BootstrapAdmin([hash |-> 0, boot |-> FALSE], given)
        /\ sess = [i \in Ids |-> NoSession]
        /\ cookie = [b \in Browsers |-> 0] /\ form = [b \in Browsers |-> 0]
        /\ attempts = [k \in Keys |-> NoAttempt]
        /\ req = [b \in Browsers |-> Idle]

-----------------------------------------------------------------------------
(* Sessions.                                                               *)

Kind(s, i) == IF i = 0 THEN "none" ELSE s[i].kind
FreeIds == {i \in Ids : /\ sess[i] = NoSession
                        /\ \A b \in Browsers : i \notin {cookie[b], form[b], req[b].id}}
generateSessionID == CHOOSE i \in FreeIds : \A j \in FreeIds : i <= j

\* requireAdmin's session, as sm.Get finds it.
Get(b) == Kind(sess, cookie[b])
ValidateCSRF(b) == Get(b) # "none" /\ form[b] = cookie[b]
DeleteByID(i) == IF i = 0 THEN sess ELSE [sess EXCEPT ![i] = NoSession]
deleteAdminSessions == [i \in Ids |-> IF sess[i].kind = "admin" THEN NoSession ELSE sess[i]]
CreateAdmin(s, i, boot, audited) ==
    [s EXCEPT ![i] = [kind |-> "admin", boot |-> boot, audited |-> audited]]
Cookie(b, i) == cookie' = [cookie EXCEPT ![b] = i]

\* Get and the cleanup goroutine drop a session past its lifetime or, for an
\* admin session, idle too long.
ExpireSession == \E i \in Ids :
    /\ sess[i].kind # "none"
    /\ sess' = [sess EXCEPT ![i] = NoSession]
    /\ UNCHANGED <<auth, cookie, form, attempts, req>>

reusablePreAuthSession(b, s) == Kind(s, cookie[b]) = "pre"

\* An admin sees the dashboard instead; a valid pre-login session of the
\* request is used again, and otherwise a new one carries the CSRF token.
\* s is the session table the handler has left so far.
showLoginForm(b, s) ==
    \/ /\ Kind(s, cookie[b]) = "admin"
       /\ sess' = s /\ UNCHANGED <<cookie, form>>
    \/ /\ reusablePreAuthSession(b, s)
       /\ sess' = s /\ form' = [form EXCEPT ![b] = cookie[b]] /\ UNCHANGED cookie
    \/ /\ Kind(s, cookie[b]) = "none" /\ FreeIds # {}
       /\ sess' = [s EXCEPT ![generateSessionID] = Pre]
       /\ Cookie(b, generateSessionID)
       /\ form' = [form EXCEPT ![b] = generateSessionID]

Respond(b) == req' = [req EXCEPT ![b] = Idle]

HandleLoginGet(b) ==
    /\ req[b].pc = "idle" /\ showLoginForm(b, sess)
    /\ UNCHANGED <<auth, attempts, req>>

\* The session is deleted and the cookie cleared.
redirectToAdminLogin(b) == sess' = DeleteByID(cookie[b]) /\ Cookie(b, 0) /\ UNCHANGED form

\* Any admin page: its forms carry the session's token.
requireAdmin(b) ==
    /\ req[b].pc = "idle"
    /\ IF Get(b) = "admin"
       THEN form' = [form EXCEPT ![b] = cookie[b]] /\ UNCHANGED <<sess, cookie>>
       ELSE redirectToAdminLogin(b)
    /\ UNCHANGED <<auth, attempts, req>>

-----------------------------------------------------------------------------
(* Lockout.  A record that is deleted takes the claims on it with it:      *)
(* releaseLockoutAudit leaves a record alone that is not the claimed one.  *)

isAttemptLocked(k) == attempts[k].n >= MaxAttempts
isLockedOut(b) == isAttemptLocked(b) \/ isAttemptLocked(Account)

\* The n failures beyond the maximum change nothing the handlers look at.
recordFailedAttempt(keys) ==
    attempts' = [k \in Keys |->
        IF k \in keys /\ attempts[k].n < MaxAttempts THEN [attempts[k] EXCEPT !.n = @ + 1] ELSE attempts[k]]

forget(keys) == [k \in Keys |-> IF k \in keys THEN NoAttempt ELSE attempts[k]]
resetAttempts(b, r) ==
    /\ attempts' = forget({b, Account})
    /\ req' = [c \in Browsers |-> [(IF c = b THEN r ELSE req[c]) EXCEPT !.marks = @ \ {b, Account}]]

ExpireAttempts == \E k \in Keys :
    /\ attempts[k].n > 0
    /\ attempts' = forget({k})
    /\ req' = [c \in Browsers |-> [req[c] EXCEPT !.marks = @ \ {k}]]
    /\ UNCHANGED <<auth, sess, cookie, form>>

claimable(b) == {k \in {b, Account} : isAttemptLocked(k) /\ ~attempts[k].claimed}
Mark(keys, claimed) == [k \in Keys |-> IF k \in keys THEN [attempts[k] EXCEPT !.claimed = claimed] ELSE attempts[k]]

\* The first request of a lockout window reserves its audit row; the others
\* are only turned away.
claimLockoutAudit(b, op) ==
    /\ claimable(b) # {}
    /\ attempts' = Mark(claimable(b), TRUE)
    /\ req' = [req EXCEPT ![b] = [Idle EXCEPT !.pc = "lockout", !.op = op, !.marks = claimable(b)]]
    /\ UNCHANGED <<sess, cookie, form>>

turnAway(b, op) == IF op = "login" THEN showLoginForm(b, sess) ELSE UNCHANGED <<sess, cookie, form>>

LockedOut(b, op) ==
    /\ isLockedOut(b)
    /\ \/ claimLockoutAudit(b, op)
       \/ claimable(b) = {} /\ turnAway(b, op) /\ UNCHANGED <<attempts, req>>
    /\ UNCHANGED auth

\* Mutant: a failed audit write keeps its claim.
releaseLockoutAuditNever(marks) == attempts' = attempts

releaseLockoutAudit(marks) == attempts' = Mark(marks, FALSE)

\* The login_lockout row is written, or the claim is handed back.
AuditLockout(b) ==
    /\ req[b].pc = "lockout" /\ Respond(b) /\ UNCHANGED auth
    /\ \/ /\ attempts' = [k \in Keys |-> IF k \in req[b].marks
                                         THEN [attempts[k] EXCEPT !.rows = @ + 1] ELSE attempts[k]]
          /\ turnAway(b, req[b].op)
       \/ releaseLockoutAudit(req[b].marks) /\ UNCHANGED <<sess, cookie, form>>

-----------------------------------------------------------------------------
(* POST /admin/login.                                                      *)

processLogin(b) ==
    /\ req[b].pc = "idle"
    /\ \/ LockedOut(b, "login")
       \/ /\ ~isLockedOut(b) /\ ~ValidateCSRF(b)
          /\ recordFailedAttempt({b}) /\ showLoginForm(b, sess) /\ UNCHANGED <<auth, req>>
       \/ /\ ~isLockedOut(b) /\ ValidateCSRF(b)
          /\ sess' = DeleteByID(cookie[b])
          /\ req' = [req EXCEPT ![b] = [Idle EXCEPT !.pc = "verify"]]
          /\ UNCHANGED <<auth, cookie, form, attempts>>

\* Unknown user, no account or wrong password: the failure counts before its
\* audit row is written, and a failed row is a 500 that leaves no cookie.
CheckFails(b) ==
    /\ req[b].pc = "verify" /\ recordFailedAttempt({b, Account})
    /\ \/ showLoginForm(b, sess)
       \/ Cookie(b, 0) /\ UNCHANGED <<sess, form>>
    /\ Respond(b) /\ UNCHANGED auth

CheckPassword(b) ==
    /\ req[b].pc = "verify" /\ auth.hash # 0
    /\ req' = [req EXCEPT ![b].pc = "create", ![b].boot = auth.boot]
    /\ UNCHANGED <<auth, sess, cookie, form, attempts>>

\* The row cannot be read or the session cannot be created: a 500.
LoginFails(b) ==
    /\ req[b].pc \in {"verify", "create"}
    /\ Cookie(b, 0) /\ Respond(b) /\ UNCHANGED <<auth, sess, form, attempts>>

newAdminSession(b) ==
    /\ req[b].pc = "create" /\ FreeIds # {}
    /\ sess' = CreateAdmin(sess, generateSessionID, req[b].boot, FALSE)
    /\ req' = [req EXCEPT ![b].pc = "audit", ![b].id = generateSessionID]
    /\ UNCHANGED <<auth, cookie, form, attempts>>

\* The row is written and the response carries the cookie.
LoginAudited(b) ==
    /\ req[b].pc = "audit"
    /\ sess' = IF sess[req[b].id].kind = "admin" THEN [sess EXCEPT ![req[b].id].audited = TRUE] ELSE sess
    /\ Cookie(b, req[b].id) /\ resetAttempts(b, Idle)
    /\ UNCHANGED <<auth, form>>

\* Mutant: the session stays when its audit row fails.
rollbackSessionNever(b) == Cookie(b, req[b].id) /\ UNCHANGED sess

rollbackSession(b) == sess' = DeleteByID(req[b].id) /\ Cookie(b, 0)

\* The row cannot be written, or writing it panics.
LoginNotAudited(b) ==
    /\ req[b].pc = "audit" /\ rollbackSession(b)
    /\ Respond(b) /\ UNCHANGED <<auth, form, attempts>>

-----------------------------------------------------------------------------
(* Logged-in requests.                                                     *)

requireAdminPost(b) == req[b].pc = "idle" /\ Get(b) = "admin" /\ ValidateCSRF(b)
requireBootstrapPasswordRotated(b) == ~sess[cookie[b]].boot /\ ~auth.boot

\* Its audit row is written first; without it the session stays.
HandleLogout(b) ==
    /\ req[b].pc = "idle" /\ ValidateCSRF(b)
    /\ sess' = DeleteByID(cookie[b]) /\ Cookie(b, 0)
    /\ UNCHANGED <<auth, form, attempts, req>>

\* The current password asked for before an API key is created: a wrong one
\* counts towards the lockout, the right one clears it.
requireAPIKeyCreateStepUp(b) ==
    /\ requireAdminPost(b) /\ requireBootstrapPasswordRotated(b)
    /\ \/ LockedOut(b, "key")
       \/ ~isLockedOut(b) /\ recordFailedAttempt({b, Account}) /\ UNCHANGED <<auth, sess, cookie, form, req>>
       \/ ~isLockedOut(b) /\ resetAttempts(b, Idle) /\ UNCHANGED <<auth, sess, cookie, form>>

\* A mismatched, weak or reused new password changes nothing.
HandlePasswordChange(b) ==
    /\ requireAdminPost(b)
    /\ \/ LockedOut(b, "password")
       \/ ~isLockedOut(b) /\ recordFailedAttempt({b, Account}) /\ UNCHANGED <<auth, sess, cookie, form, req>>
       \/ /\ ~isLockedOut(b) /\ auth.hash # 0
          /\ req' = [req EXCEPT ![b] = [Idle EXCEPT !.pc = "change", !.op = "password", !.hash = auth.hash]]
          /\ UNCHANGED <<auth, sess, cookie, form, attempts>>

\* Mutant: the update does not name the hash that was verified.
changeAdminPasswordBlind(hash) == auth.hash < MaxPassword

\* UPDATE ... WHERE id = 1 AND password_hash = expectedOldHash finds its row.
changeAdminPassword(hash) == auth.hash = hash /\ auth.hash < MaxPassword

ChangeAdminPasswordWithAudit(b) ==
    /\ req[b].pc = "change"
    /\ \/ /\ changeAdminPassword(req[b].hash)
          /\ auth' = [hash |-> auth.hash + 1, boot |-> FALSE]
          /\ req' = [req EXCEPT ![b].pc = "rotate"]
       \/ Respond(b) /\ UNCHANGED auth
    /\ UNCHANGED <<sess, cookie, form, attempts>>

\* The password is committed: a new session replaces every admin session, or
\* an error or panic removes them all.
RotateSession(b) ==
    /\ req[b].pc = "rotate"
    /\ \/ /\ FreeIds # {}
          /\ sess' = CreateAdmin(deleteAdminSessions, generateSessionID, FALSE, TRUE)
          /\ Cookie(b, generateSessionID)
       \/ sess' = deleteAdminSessions /\ Cookie(b, 0)
    /\ resetAttempts(b, Idle) /\ UNCHANGED <<auth, form>>

\* A crash or a restart loses what is in memory, between any two steps.
Restart ==
    /\ sess' = [i \in Ids |-> NoSession] /\ attempts' = [k \in Keys |-> NoAttempt]
    /\ req' = [b \in Browsers |-> Idle]
    /\ \E given \in BOOLEAN : auth' = BootstrapAdmin(auth, given)
    /\ UNCHANGED <<cookie, form>>

Next == \/ ExpireSession \/ ExpireAttempts \/ Restart
        \/ \E b \in Browsers :
              \/ HandleLoginGet(b) \/ requireAdmin(b) \/ processLogin(b) \/ AuditLockout(b)
              \/ CheckFails(b) \/ CheckPassword(b) \/ LoginFails(b) \/ newAdminSession(b)
              \/ LoginAudited(b) \/ LoginNotAudited(b) \/ HandleLogout(b)
              \/ requireAPIKeyCreateStepUp(b) \/ HandlePasswordChange(b)
              \/ ChangeAdminPasswordWithAudit(b) \/ RotateSession(b)

Spec == Init /\ [][Next]_vars

-----------------------------------------------------------------------------
TypeOK ==
    /\ auth \in [hash : 0..MaxPassword, boot : BOOLEAN]
    /\ sess \in [Ids -> [kind : {"none", "pre", "admin"}, boot : BOOLEAN, audited : BOOLEAN]]
    /\ cookie \in [Browsers -> Ids \cup {0}] /\ form \in [Browsers -> Ids \cup {0}]
    /\ \A k \in Keys : attempts[k].n \in 0..MaxAttempts
    /\ \A b \in Browsers : req[b].marks \subseteq Keys

\* An admin session a browser's cookie names was recorded: its login_success
\* row, or the password_change row of the change that replaced the sessions,
\* is in the audit log.  A login whose row fails takes its session back
\* before the response leaves, whatever happened to the session meanwhile.
SessionAudited ==
    \A b \in Browsers : Get(b) = "admin" => sess[cookie[b]].audited

\* A lockout window marked as audited has its one login_lockout row, or a
\* request is about to write it: concurrent requests never write a second
\* row, and a failed write leaves the window to the next attempt.
LockoutAuditedOnce ==
    \A k \in Keys : IF attempts[k].claimed
        THEN attempts[k].rows + Cardinality({b \in Browsers : k \in req[b].marks}) = 1
        ELSE attempts[k].rows = 0

\* A password is only replaced by a request that verified that very password:
\* of two changes that both checked the same one, the second is refused.
ReplacesVerifiedPassword ==
    auth.hash \notin {0, auth'.hash} =>
       \E b \in Browsers : /\ req[b].pc = "change" /\ req'[b].pc = "rotate"
                           /\ req[b].hash = auth.hash
=============================================================================
