------------------------------- MODULE Accounts -------------------------------
(***************************************************************************)
(* One account of CompeteHub: the users row that sign-in, password reset,  *)
(* e-mail verification, second factor, deletion and administration all     *)
(* read and write.                                                         *)
(*                                                                         *)
(* A handler reads the row, awaits (bcrypt, Redis, mail) and updates some  *)
(* columns from what it read; no handler uses a transaction, so handlers   *)
(* interleave between their reads and their updates.  call[h] holds the    *)
(* row as handler h read it.  A request that a check refuses changes       *)
(* nothing and is not a step.  The links, codes and tokens a call creates  *)
(* are named by the number of the call, so that no two are equal; what     *)
(* expires is left in place, as a request that comes too late is refused.  *)
(*                                                                         *)
(* A handler misses a group of columns when another one changes it after   *)
(* its read.  seen.raced holds the groups written by a handler that had    *)
(* missed something it decided on: the properties say what holds short of  *)
(* that.                                                                   *)
(***************************************************************************)
EXTENDS Integers, FiniteSets

CONSTANTS
  Handlers,         \* requests in flight at one time
  None,             \* null
  MaxFailedLogins,  \* config.auth.maxFailedLogins
  BackupCodes,      \* BACKUP_CODE_COUNT
  MaxCalls          \* bound: requests that pass their checks

ASSUME AccountsAssumption ==
  /\ MaxFailedLogins \in Nat \ {0} /\ BackupCodes \in Nat \ {0} /\ MaxCalls \in Nat
  /\ None \notin Nat

VARIABLES
  row,      \* the users row, None before registration
  call,     \* per handler: op, number, row read, argument, groups missed
  calls,    \* requests begun
  pending,  \* Redis mfa:pending:*, the sign-ins that wait for a code
  seen      \* history: raced groups, wrong passwords since the counter was
            \* cleared, backup codes accepted, secret confirmed, tokens stored,
            \* activated again after deletion

vars == <<row, call, calls, pending, seen>>

Id == 0..MaxCalls
Codes(n) == {n} \X (1..BackupCodes)
Token == [id : Id, pw : Id \union {None}, late : BOOLEAN]

Columns ==
  [password |-> {"pw", "deleted"}, session |-> {"refresh"}, email |-> {"verified", "vtok"},
   lock |-> {"failed", "locked"}, mfa |-> {"totp", "secret", "codes"}]
Groups == DOMAIN Columns

User == [active : BOOLEAN, deleted : BOOLEAN, pw : Id \union {None}, link : Id \union {None},
         refresh : Token \union {None}, oauth : BOOLEAN, verified : BOOLEAN, vtok : Id \union {None},
         failed : 0..(MaxFailedLogins - 1), locked : BOOLEAN,
         totp : BOOLEAN, secret : Id \union {None}, codes : SUBSET (Id \X (1..BackupCodes))]

ASSUME NoAccountAssumption == None \notin User

\* The groups the outcome of a request rests on.
Basis ==
  [login |-> {"password", "lock"}, clear |-> {"password", "lock"}, store |-> {"password"},
   pending |-> {"password"}, code |-> {"password", "mfa"}, session |-> {"password", "mfa"},
   refresh |-> {"password", "session"},
   verify |-> {"password", "email"}, resend |-> {"password", "email"},
   forgot |-> {"password"}, reset |-> {"password"}, oauth |-> {"password"},
   logout |-> {"password"}, setup |-> {"password", "mfa"}, enable |-> {"password", "mfa"},
   disable |-> {"password", "mfa"}, regenerate |-> {"password", "mfa"}, delete |-> {"password", "mfa"},
   register |-> {}]

\* The groups an update writes, whether or not their values change.
Writes ==
  [login |-> {"lock"}, code |-> {"mfa"}, verify |-> {"email"}, resend |-> {"email"},
   reset |-> {"password", "session", "lock"}, delete |-> {"password", "session", "email", "mfa"},
   setup |-> {"mfa"}, enable |-> {"mfa"}, disable |-> {"mfa"}, regenerate |-> {"mfa"},
   clear |-> {"session"}, store |-> {"session"}, session |-> {"session"},
   refresh |-> {"session"}, logout |-> {"session"},
   register |-> {}, oauth |-> {}, forgot |-> {}]

Idle == [op |-> "idle"]
NewUser(n) ==
  [active |-> TRUE, deleted |-> FALSE, pw |-> n, link |-> None, refresh |-> None,
   oauth |-> FALSE, verified |-> FALSE, vtok |-> n, failed |-> 0, locked |-> FALSE,
   totp |-> FALSE, secret |-> None, codes |-> {}]

Verified(u) == [u EXCEPT !.verified = TRUE, !.vtok = None]

\* No account yet, one that is verified and has signed in before, and one with
\* a second factor.
Init ==
  /\ row \in {None, Verified(NewUser(0)),
              [Verified(NewUser(0)) EXCEPT !.totp = TRUE, !.secret = 0, !.codes = Codes(0)]}
  /\ call = [h \in Handlers |-> Idle]
  /\ calls = 0
  /\ pending = {}
  /\ seen = [raced |-> {}, wrong |-> 0, used |-> {},
             confirmed |-> IF row # None /\ row.totp THEN 0 ELSE None,
             tokens |-> IF row = None THEN 0 ELSE 1, revived |-> FALSE]

-----------------------------------------------------------------------------
At(h, op) == call[h].op = op
Snap(h) == call[h].snap
N(h) == call[h].n

\* The handler has read the row.
Begin(h, op, arg) ==
  /\ At(h, "idle") /\ calls < MaxCalls
  /\ calls' = calls + 1
  /\ call' = [call EXCEPT ![h] = [op |-> op, n |-> calls + 1, snap |-> row, arg |-> arg, missed |-> {}]]
  /\ UNCHANGED <<row, pending, seen>>

Changed(new) ==
  IF row = None THEN Groups
  ELSE {g \in Groups : \E col \in Columns[g] : row[col] # new[col]}

\* An update lands, and h goes on as next.
Put(h, new, next, noted) ==
  /\ row' = new
  /\ call' = [k \in Handlers |->
       IF k = h THEN next
       ELSE IF At(k, "idle") THEN Idle ELSE [call[k] EXCEPT !.missed = @ \union Changed(new)]]
  /\ seen' = [noted EXCEPT !.raced =
       @ \union IF call[h].missed \intersect Basis[call[h].op] = {} THEN {} ELSE Writes[call[h].op]]
  /\ UNCHANGED calls

Then(h, op) == [call[h] EXCEPT !.op = op]
Update(h, new) == Put(h, new, Idle, seen) /\ UNCHANGED pending

\* The stored refresh token of a sign-in whose password was pw; late when the
\* password has changed since it was checked.
StoreToken(h, pw, late) ==
  Put(h, [row EXCEPT !.refresh = [id |-> N(h), pw |-> pw, late |-> late \/ "password" \in call[h].missed]],
      Idle, [seen EXCEPT !.tokens = @ + 1])

\* authenticate: an access token outlives everything but isActive.
Authenticated == row # None /\ row.active
\* findUnique by the address of the account, which deletion replaces.
Addressed == row # None /\ ~row.deleted

-----------------------------------------------------------------------------
\* Registration and the e-mail address.

RegisterRequest(h) == row = None /\ Begin(h, "register", None)

\* users.email is UNIQUE: the second of two inserts fails.
Register(h) ==
  /\ At(h, "register")
  /\ IF row = None THEN Update(h, NewUser(N(h)))
     ELSE call' = [call EXCEPT ![h] = Idle] /\ UNCHANGED <<row, calls, pending, seen>>

VerifyRequest(h) == row # None /\ row.vtok # None /\ Begin(h, "verify", None)
\* A user who is verified already keeps the token.
VerifyEmail(h) ==
  At(h, "verify") /\ Update(h, IF Snap(h).verified THEN row ELSE Verified(row))

ResendRequest(h) == Addressed /\ ~row.verified /\ Begin(h, "resend", None)
ResendVerification(h) == At(h, "resend") /\ Update(h, [row EXCEPT !.vtok = N(h)])

-----------------------------------------------------------------------------
\* Sign-in: read and checks; counter and lock; token or pending code.

LoginRequest(h, right) ==
  /\ Addressed /\ row.pw # None /\ row.active /\ ~row.locked /\ row.verified
  /\ Begin(h, "login", right)

\* Faulty variant: the counter is kept at the lock.
WrongPasswordKeepsCount(h) ==
  LET failed == Snap(h).failed + 1
  IN  /\ At(h, "login") /\ ~call[h].arg
      /\ Put(h, [row EXCEPT !.failed = failed, !.locked = @ \/ failed >= MaxFailedLogins],
             Idle, [seen EXCEPT !.wrong = @ + 1])
      /\ UNCHANGED pending

WrongPassword(h) ==
  LET failed == Snap(h).failed + 1
      lock == failed >= MaxFailedLogins
  IN  /\ At(h, "login") /\ ~call[h].arg
      /\ Put(h, [row EXCEPT !.failed = IF lock THEN 0 ELSE failed, !.locked = @ \/ lock],
             Idle, [seen EXCEPT !.wrong = IF lock THEN 0 ELSE @ + 1])
      /\ UNCHANGED pending

\* Faulty variant: the counter is not cleared.
RightPasswordKeepsCount(h) ==
  /\ At(h, "login") /\ call[h].arg
  /\ Put(h, [row EXCEPT !.locked = FALSE], Then(h, "clear"), [seen EXCEPT !.wrong = 0])
  /\ UNCHANGED pending

RightPassword(h) ==
  /\ At(h, "login") /\ call[h].arg
  /\ Put(h, [row EXCEPT !.failed = 0, !.locked = FALSE], Then(h, "clear"), [seen EXCEPT !.wrong = 0])
  /\ UNCHANGED pending

FinishLogin(h) ==
  /\ At(h, "clear")
  /\ IF Snap(h).totp
     THEN /\ pending' = pending \union {[id |-> N(h), pw |-> Snap(h).pw]}
          /\ call' = [call EXCEPT ![h] = Idle]
          /\ UNCHANGED <<row, calls, seen>>
     ELSE StoreToken(h, Snap(h).pw, FALSE) /\ UNCHANGED pending

\* The lock runs out.
Unlock ==
  /\ row # None /\ row.locked
  /\ row' = [row EXCEPT !.locked = FALSE]
  /\ UNCHANGED <<call, calls, pending, seen>>

-----------------------------------------------------------------------------
\* The code: Redis, then MfaService.verify, then the token.

MfaRequest(h, p) == p \in pending /\ Begin(h, "pending", p)

\* verify reads the row; a TOTP code (None) is checked against the secret, a
\* backup code against the hashes; a code that fails ends the request.
VerifyCode(h, code) ==
  /\ At(h, "pending") /\ code \in row.codes \union {None}   \* a code that would pass
  /\ call' = [call EXCEPT ![h] =
       IF row.totp /\ row.secret # None
       THEN [op |-> IF code = None THEN "session" ELSE "code", n |-> N(h), snap |-> row,
             arg |-> [pending |-> call[h].arg, code |-> code], missed |-> {}]
       ELSE Idle]
  /\ UNCHANGED <<row, calls, pending, seen>>

\* Faulty variant: the code that was used stays in the list.
UseCodeAgain(h) ==
  /\ At(h, "code")
  /\ Put(h, row, Then(h, "session"), [seen EXCEPT !.used = @ \union {call[h].arg.code}])
  /\ UNCHANGED pending

UseBackupCode(h) ==
  /\ At(h, "code")
  /\ Put(h, [row EXCEPT !.codes = Snap(h).codes \ {call[h].arg.code}], Then(h, "session"),
         [seen EXCEPT !.used = @ \union {call[h].arg.code}])
  /\ UNCHANGED pending

LoginMfa(h) ==
  /\ At(h, "session")
  /\ StoreToken(h, call[h].arg.pending.pw, call[h].arg.pending.pw # Snap(h).pw)
  /\ pending' = pending \ {call[h].arg.pending}

-----------------------------------------------------------------------------
\* Sessions, OAuth sign-in.

\* A refresh token that is valid as a JWT: the stored one, or an older one.
RefreshRequest(h, current) ==
  /\ row # None /\ row.refresh # None /\ (current \/ seen.tokens > 1)
  /\ Begin(h, "refresh", current)

Refresh(h) ==
  /\ At(h, "refresh")
  /\ IF call[h].arg
     THEN StoreToken(h, Snap(h).refresh.pw, Snap(h).refresh.late) /\ UNCHANGED pending
     ELSE Update(h, [row EXCEPT !.refresh = None])

LogoutRequest(h) == Authenticated /\ Begin(h, "logout", None)
Logout(h) == At(h, "logout") /\ Update(h, [row EXCEPT !.refresh = None])

\* googleCallback, githubCallback: a password account without a provider is
\* refused (ACCOUNT_EXISTS).
OAuthRequest(h) ==
  /\ row = None \/ (Addressed /\ (row.pw = None \/ row.oauth))
  /\ Begin(h, "oauth", None)

OAuthUser(h) ==
  /\ At(h, "oauth")
  /\ IF Snap(h) = None /\ row # None
     THEN call' = [call EXCEPT ![h] = Idle] /\ UNCHANGED <<row, calls, pending, seen>>
     ELSE LET u == IF row = None THEN Verified(NewUser(None)) ELSE row
          IN  Put(h, [u EXCEPT !.oauth = TRUE], [Then(h, "store") EXCEPT !.snap = u], seen)
              /\ UNCHANGED pending

OAuthToken(h) == At(h, "store") /\ StoreToken(h, Snap(h).pw, FALSE) /\ UNCHANGED pending

-----------------------------------------------------------------------------
\* Password reset, deletion, administration.

ForgotRequest(h) == Addressed /\ Begin(h, "forgot", None)
ForgotPassword(h) == At(h, "forgot") /\ Update(h, [row EXCEPT !.link = N(h)])

\* A link is looked up by its hash alone: also on a deleted account.
ResetRequest(h) == row # None /\ row.link # None /\ Begin(h, "reset", None)

\* Faulty variant: the session survives the reset.
ResetKeepsSession(h) ==
  /\ At(h, "reset")
  /\ Put(h, [row EXCEPT !.pw = N(h), !.link = None, !.failed = 0, !.locked = FALSE],
         Idle, [seen EXCEPT !.wrong = 0])
  /\ UNCHANGED pending

ResetPassword(h) ==
  /\ At(h, "reset")
  /\ Put(h, [row EXCEPT !.pw = N(h), !.link = None, !.refresh = None, !.failed = 0, !.locked = FALSE],
         Idle, [seen EXCEPT !.wrong = 0])
  /\ UNCHANGED pending

\* The right password is given: a wrong one changes nothing.
DeleteRequest(h) == Authenticated /\ row.pw # None /\ Begin(h, "delete", None)

\* Faulty variant: the second factor stays.
DeleteKeepsMfa(h) ==
  At(h, "delete") /\ Update(h, [row EXCEPT !.pw = None, !.oauth = FALSE, !.refresh = None,
                                          !.vtok = None, !.active = FALSE, !.deleted = TRUE])

DeleteAccount(h) ==
  At(h, "delete") /\ Update(h, [row EXCEPT !.pw = None, !.oauth = FALSE, !.refresh = None,
                                          !.vtok = None, !.active = FALSE, !.deleted = TRUE,
                                          !.totp = FALSE, !.secret = None, !.codes = {}])

\* AdminService.updateUser writes without a read.
AdminUpdate(active) ==
  /\ row # None /\ row.active # active /\ calls < MaxCalls
  /\ calls' = calls + 1
  /\ row' = [row EXCEPT !.active = active]
  /\ seen' = [seen EXCEPT !.revived = @ \/ (active /\ row.deleted)]
  /\ UNCHANGED <<call, pending>>

-----------------------------------------------------------------------------
\* The second factor.

SetupRequest(h) == Authenticated /\ ~row.totp /\ Begin(h, "setup", None)
MfaSetup(h) == At(h, "setup") /\ Update(h, [row EXCEPT !.secret = N(h)])

\* The code is checked against the secret read.
EnableRequest(h) == Authenticated /\ row.secret # None /\ ~row.totp /\ Begin(h, "enable", None)

MfaEnable(h) ==
  /\ At(h, "enable")
  /\ Put(h, [row EXCEPT !.totp = TRUE, !.codes = Codes(N(h))], Idle,
         [seen EXCEPT !.confirmed = Snap(h).secret])
  /\ UNCHANGED pending

DisableRequest(h) == Authenticated /\ row.pw # None /\ Begin(h, "disable", None)
MfaDisable(h) ==
  At(h, "disable") /\ Update(h, [row EXCEPT !.totp = FALSE, !.secret = None, !.codes = {}])

RegenerateRequest(h) == Authenticated /\ row.pw # None /\ row.totp /\ Begin(h, "regenerate", None)
RegenerateBackupCodes(h) == At(h, "regenerate") /\ Update(h, [row EXCEPT !.codes = Codes(N(h))])

-----------------------------------------------------------------------------
Email(h) == \/ RegisterRequest(h) \/ Register(h) \/ VerifyRequest(h) \/ VerifyEmail(h)
            \/ ResendRequest(h) \/ ResendVerification(h)

SignIn(h) ==
  \/ \E right \in BOOLEAN : LoginRequest(h, right)
  \/ WrongPassword(h) \/ RightPassword(h) \/ FinishLogin(h)
  \/ \E p \in pending : MfaRequest(h, p)
  \/ \E code \in (Id \X (1..BackupCodes)) \union {None} : VerifyCode(h, code)
  \/ UseBackupCode(h) \/ LoginMfa(h)
  \/ OAuthRequest(h) \/ OAuthUser(h) \/ OAuthToken(h)

Session(h) == \/ \E current \in BOOLEAN : RefreshRequest(h, current)
              \/ Refresh(h) \/ LogoutRequest(h) \/ Logout(h)

Manage(h) == \/ ForgotRequest(h) \/ ForgotPassword(h) \/ ResetRequest(h) \/ ResetPassword(h)
             \/ DeleteRequest(h) \/ DeleteAccount(h)

SecondFactor(h) == \/ SetupRequest(h) \/ MfaSetup(h) \/ EnableRequest(h) \/ MfaEnable(h)
                   \/ DisableRequest(h) \/ MfaDisable(h)
                   \/ RegenerateRequest(h) \/ RegenerateBackupCodes(h)

Next ==
  \/ \E h \in Handlers : Email(h) \/ SignIn(h) \/ Session(h) \/ Manage(h) \/ SecondFactor(h)
  \/ \E active \in BOOLEAN : AdminUpdate(active)
  \/ Unlock

Spec == Init /\ [][Next]_vars

-----------------------------------------------------------------------------
TypeOK ==
  /\ row \in User \union {None}
  /\ calls \in 0..MaxCalls
  /\ \A h \in Handlers : ~At(h, "idle") =>
       /\ call[h].op \in DOMAIN Basis /\ N(h) \in 1..calls
       /\ Snap(h) \in User \union {None} /\ call[h].missed \subseteq Groups
  /\ pending \subseteq [id : Id, pw : Id \union {None}]
  /\ seen.raced \subseteq Groups

\* The refresh token of the row was signed in for with the password the row
\* has now, unless the password changed between the check of the password and
\* the storing of the token (login, loginMfa, refreshToken, resetPassword).
SessionMatchesPassword ==
  row # None /\ row.refresh # None /\ ~row.refresh.late => row.refresh.pw = row.pw

\* failedLogins is the number of wrong passwords since the last right one,
\* lock or reset, unless an overlapping attempt wrote a count it had read
\* before (login reads the counter and writes it after bcrypt.compare).
FailuresCounted == row # None /\ "lock" \notin seen.raced => row.failed = seen.wrong

\* Unless setup, enable, disable, verify or regenerate overlapped: with the
\* second factor on, the row has a secret, and it is the one whose code the
\* user has shown (verify refuses every code when the secret is null), and a
\* backup code that was accepted is not in the row again.
SecondFactorSound ==
  row # None /\ "mfa" \notin seen.raced =>
    /\ row.totp => row.secret # None /\ row.secret = seen.confirmed
    /\ seen.used \intersect row.codes = {}

\* A deleted account keeps no session, link to verify or second factor,
\* unless a handler that had read it before the deletion wrote after it, or
\* an administrator activated it again (deleteAccount, updateUser).
DeletedIsErased ==
  row # None /\ row.deleted /\ ~seen.revived =>
    /\ row.refresh # None => row.refresh.late
    /\ "mfa" \notin seen.raced => ~row.totp /\ row.secret = None /\ row.codes = {}
    /\ "email" \notin seen.raced => row.vtok = None
=============================================================================
