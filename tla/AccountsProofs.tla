----------------------------- MODULE AccountsProofs -----------------------------
(***************************************************************************)
(* What TLAPS proves of Accounts, for every number of requests in flight,  *)
(* every limit of failed logins and every number of backup codes.          *)
(***************************************************************************)
EXTENDS Accounts, TLAPS

Pend == [id : Id, pw : Id \union {None}]
Code == Id \X (1..BackupCodes)
Answer == [pending : Pend, code : Code \union {None}]

Call == [op : DOMAIN Basis, n : 1..MaxCalls, snap : User \union {None},
         arg : BOOLEAN \union {None} \union Pend \union Answer, missed : SUBSET Groups]

Seen == [raced : SUBSET Groups, wrong : Nat, used : SUBSET Code, confirmed : Id \union {None},
         tokens : Nat, revived : BOOLEAN]

\* What the checks of a request have made sure of.
Checked(c) ==
  /\ c.op \in {"login", "refresh"} => c.arg \in BOOLEAN
  /\ c.op = "pending" => c.arg \in Pend
  /\ c.op \in {"code", "session"} => c.arg \in Answer
  /\ c.op = "code" => c.arg.code \in c.snap.codes
  /\ c.op \notin {"register", "oauth"} => c.snap # None
  /\ c.op = "refresh" => c.snap.refresh # None
  /\ c.op = "enable" => c.snap.secret # None
  /\ c.op = "setup" => ~c.snap.totp

Types ==
  /\ row \in User \union {None}
  /\ calls \in 0..MaxCalls
  /\ call \in [Handlers -> Call \union {Idle}]
  /\ pending \subseteq Pend
  /\ seen \in Seen
  /\ \A h \in Handlers : ~At(h, "idle") => N(h) <= calls /\ Checked(call[h])
  /\ row = None => pending = {} /\ \A h \in Handlers : ~At(h, "idle") => Snap(h) = None

\* A session that matches the password of its row.
Matches(u) == u.refresh # None /\ ~u.refresh.late => u.refresh.pw = u.pw

\* What a request has read and not missed is still so.
Current(c, u) ==
  /\ "password" \notin c.missed => c.snap.pw = u.pw
  /\ "lock" \notin c.missed /\ c.op = "login" => c.snap.failed = u.failed
  /\ "mfa" \notin c.missed /\ c.op # "session" =>
       c.snap.totp = u.totp /\ c.snap.secret = u.secret /\ c.snap.codes = u.codes

SessionInv ==
  /\ row # None => Matches(row)
  /\ \A h \in Handlers : ~At(h, "idle") /\ Snap(h) # None =>
       Matches(Snap(h)) /\ Current(call[h], row)

LockInv ==
  /\ row # None /\ "lock" \notin seen.raced => row.failed = seen.wrong
  /\ row = None => seen.wrong = 0

\* The factor of SecondFactorSound.
Factor(u, noted) ==
  /\ u.totp => u.secret # None /\ u.secret = noted.confirmed
  /\ noted.used \intersect u.codes = {}

\* Backup codes that have been used, are valid or have been read.
Known(code) ==
  \/ code \in seen.used
  \/ row # None /\ code \in row.codes
  \/ \E h \in Handlers : ~At(h, "idle") /\ Snap(h) # None /\ code \in Snap(h).codes

\* The codes a request is going to issue are new.
FactorInv ==
  /\ row # None /\ "mfa" \notin seen.raced => Factor(row, seen)
  /\ \A code \in Code : Known(code) =>
       /\ code[1] <= calls
       /\ \A h \in Handlers : At(h, "enable") \/ At(h, "regenerate") => code[1] # N(h)
  /\ \A h, k \in Handlers : ~At(h, "idle") /\ ~At(k, "idle") /\ N(h) = N(k) => h = k

Inv == Types /\ SessionInv /\ LockInv /\ FactorInv

-----------------------------------------------------------------------------
\* Requests.

LEMMA OpNames ==
  DOMAIN Basis = {"login", "clear", "store", "pending", "code", "session", "refresh", "verify",
                  "resend", "forgot", "reset", "oauth", "logout", "setup", "enable", "disable",
                  "regenerate", "delete", "register"}
BY DEF Basis

LEMMA GroupNames == Groups = {"password", "session", "email", "lock", "mfa"}
BY DEF Groups, Columns

LEMMA WritesGroups == \A op \in DOMAIN Basis \ {"pending"} : Writes[op] \subseteq Groups
<1>1. /\ Writes["login"] = {"lock"} /\ Writes["code"] = {"mfa"} /\ Writes["verify"] = {"email"}
      /\ Writes["resend"] = {"email"} /\ Writes["reset"] = {"password", "session", "lock"}
      /\ Writes["delete"] = {"password", "session", "email", "mfa"} /\ Writes["setup"] = {"mfa"}
      /\ Writes["enable"] = {"mfa"} /\ Writes["disable"] = {"mfa"} /\ Writes["regenerate"] = {"mfa"}
  BY DEF Writes
<1>2. /\ Writes["clear"] = {"session"} /\ Writes["store"] = {"session"} /\ Writes["session"] = {"session"}
      /\ Writes["refresh"] = {"session"} /\ Writes["logout"] = {"session"}
      /\ Writes["register"] = {} /\ Writes["oauth"] = {} /\ Writes["forgot"] = {}
  BY DEF Writes
<1> QED
  BY <1>1, <1>2, OpNames, GroupNames

LEMMA CallType ==
  ASSUME Types, NEW h \in Handlers, ~At(h, "idle")
  PROVE  /\ call[h] \in Call /\ Checked(call[h])
         /\ N(h) \in Id /\ N(h) \in 1..MaxCalls /\ N(h) <= calls
         /\ Snap(h) \in User \union {None}
         /\ row = None => Snap(h) = None
BY AccountsAssumption DEF Types, Call, Idle, At, N, Snap, Id

LEMMA CallIdle ==
  ASSUME Types, NEW h \in Handlers
  PROVE  At(h, "idle") <=> call[h] = Idle
BY OpNames DEF Types, Call, Idle, At

\* An update that changes columns is missed by the other requests.
LEMMA ChangedGroups ==
  ASSUME row \in User, NEW new \in User
  PROVE  /\ Changed(new) \subseteq Groups
         /\ "password" \notin Changed(new) => new.pw = row.pw /\ new.deleted = row.deleted
         /\ "lock" \notin Changed(new) => new.failed = row.failed
         /\ "mfa" \notin Changed(new) =>
              new.totp = row.totp /\ new.secret = row.secret /\ new.codes = row.codes
BY NoAccountAssumption DEF Changed, Groups, Columns

\* A request that has just read.
LEMMA BeginInv ==
  ASSUME Inv, NEW h \in Handlers, NEW op \in DOMAIN Basis, NEW arg, Begin(h, op, arg),
         arg \in BOOLEAN \union {None} \union Pend \union Answer,
         Checked([op |-> op, n |-> calls + 1, snap |-> row, arg |-> arg, missed |-> {}])
  PROVE  Inv'
<1> DEFINE new == [op |-> op, n |-> calls + 1, snap |-> row, arg |-> arg, missed |-> {}]
<1> HIDE DEF new
<1>1. /\ calls' = calls + 1 /\ calls + 1 \in 1..MaxCalls
      /\ call' = [call EXCEPT ![h] = new] /\ UNCHANGED <<row, pending, seen>>
      /\ At(h, "idle")
  BY AccountsAssumption DEF Begin, Inv, Types, new
<1>2. /\ new \in Call /\ new.op = op /\ new.n = calls + 1 /\ new.snap = row /\ new.missed = {}
      /\ Checked(new)
  BY <1>1 DEF Call, new, Inv, Types
<1>3. /\ call'[h] = new /\ \A k \in Handlers : k # h => call'[k] = call[k]
  BY <1>1 DEF Inv, Types
<1>4. Types'
  <2>1. call' \in [Handlers -> Call \union {Idle}]
    BY <1>1, <1>2 DEF Inv, Types
  <2>2. \A k \in Handlers : ~At(k, "idle")' => N(k)' <= calls' /\ Checked(call'[k])
    <3> TAKE k \in Handlers
    <3>1. CASE k = h
      BY <1>1, <1>2, <1>3, <3>1 DEF N, Inv, Types
    <3>2. CASE k # h
      BY <1>1, <1>3, <3>2, CallType DEF Inv, Types, At, N
    <3> QED
      BY <3>1, <3>2
  <2>3. row' = None => pending' = {} /\ \A k \in Handlers : ~At(k, "idle")' => Snap(k)' = None
    BY <1>1, <1>2, <1>3 DEF Inv, Types, At, Snap
  <2> QED
    BY <1>1, <2>1, <2>2, <2>3, AccountsAssumption DEF Inv, Types
<1>5. SessionInv'
  BY <1>1, <1>2, <1>3 DEF Inv, SessionInv, At, Snap, Current, Matches
<1>6. LockInv'
  BY <1>1 DEF Inv, LockInv
<1>7. FactorInv'
  <2>1. \A code : Known(code)' => Known(code)
    BY <1>1, <1>2, <1>3 DEF Known, At, Snap
  <2>2. \A k \in Handlers : k # h /\ ~At(k, "idle")' => ~At(k, "idle") /\ N(k)' = N(k) /\ N(k) < calls + 1
    BY <1>1, <1>3, CallType DEF Inv, Types, At, N
  <2>3. N(h)' = calls + 1
    BY <1>2, <1>3 DEF N
  <2>4. \A code \in Code : Known(code)' =>
          /\ code[1] <= calls'
          /\ \A k \in Handlers : At(k, "enable")' \/ At(k, "regenerate")' => code[1] # N(k)'
    <3> SUFFICES ASSUME NEW code \in Code, Known(code)'
                 PROVE  /\ code[1] <= calls'
                        /\ \A k \in Handlers : At(k, "enable")' \/ At(k, "regenerate")' => code[1] # N(k)'
      OBVIOUS
    <3>1. code[1] \in Nat /\ code[1] <= calls
      BY <2>1, AccountsAssumption DEF Inv, FactorInv, Code, Id
    <3> QED
      BY <1>1, <1>3, <2>1, <2>2, <2>3, <3>1 DEF Inv, Types, FactorInv, At, N
  <2>5. \A j, k \in Handlers : ~At(j, "idle")' /\ ~At(k, "idle")' /\ N(j)' = N(k)' => j = k
    BY <1>1, <2>2, <2>3 DEF Inv, Types, FactorInv
  <2> QED
    BY <1>1, <2>4, <2>5 DEF Inv, FactorInv
<1> QED
  BY <1>4, <1>5, <1>6, <1>7 DEF Inv

-----------------------------------------------------------------------------
\* Updates.

\* The update of a request rests on something that it missed.
Misses(h) == call[h].missed \intersect Basis[call[h].op] # {}

\* What an update has to bring with it: the row of a session that matches, a
\* counter and a second factor that are right unless the update missed
\* something, and no backup codes but known ones and those of the request.
Sound(h, new, next, noted) ==
  /\ new \in User /\ noted \in Seen /\ noted.raced = seen.raced
  /\ Matches(new)
  /\ "lock" \notin seen.raced /\ ~(Misses(h) /\ "lock" \in Writes[call[h].op]) =>
       new.failed = noted.wrong
  /\ "mfa" \notin seen.raced /\ ~(Misses(h) /\ "mfa" \in Writes[call[h].op]) => Factor(new, noted)
  /\ \A code \in noted.used \union new.codes :
       Known(code) \/ (code[1] = N(h) /\ next = Idle)
  /\ next # Idle =>
       /\ next \in Call /\ next.op \notin {"idle", "enable", "regenerate"} /\ next.n = N(h)
       /\ Checked(next) /\ next.snap # None /\ Matches(next.snap) /\ Current(next, new)
       /\ \A code \in next.snap.codes : Known(code)

LEMMA PutInv ==
  ASSUME Inv, NEW h \in Handlers, ~At(h, "idle"), ~At(h, "pending"),
         NEW new, NEW next, NEW noted, Put(h, new, next, noted),
         Sound(h, new, next, noted), pending' \subseteq Pend
  PROVE  Inv'
<1>1. /\ row' = new /\ new \in User /\ new # None /\ calls' = calls /\ noted \in Seen
  BY NoAccountAssumption DEF Put, Sound
<1>2. PICK raced : raced = seen.raced \union IF Misses(h) THEN Writes[call[h].op] ELSE {}
  OBVIOUS
<1>3. raced \subseteq Groups /\ seen.raced \subseteq raced
  BY <1>2, CallType, WritesGroups DEF Inv, Types, Seen, Call, At
<1>4. seen' = [noted EXCEPT !.raced = raced]
  BY <1>2 DEF Put, Sound, Misses
<1>5. /\ seen'.raced = raced /\ seen'.wrong = noted.wrong /\ seen'.used = noted.used
      /\ seen'.confirmed = noted.confirmed /\ seen' \in Seen
  BY <1>1, <1>3, <1>4 DEF Seen
<1>6. /\ call' \in [Handlers -> Call \union {Idle}]
      /\ call'[h] = next
      /\ \A k \in Handlers : k # h /\ At(k, "idle") => call'[k] = Idle
      /\ \A k \in Handlers : k # h /\ ~At(k, "idle") =>
           /\ call'[k] \in Call /\ call'[k].op = call[k].op /\ N(k)' = N(k) /\ Snap(k)' = Snap(k)
           /\ call'[k].arg = call[k].arg
           /\ call'[k].missed = call[k].missed \union Changed(new)
  <2>1. Changed(new) \subseteq Groups
    BY <1>1, ChangedGroups DEF Changed, Inv, Types
  <2>2. ASSUME NEW k \in Handlers, k # h, ~At(k, "idle")
        PROVE  /\ call'[k] = [call[k] EXCEPT !.missed = @ \union Changed(new)]
               /\ call'[k] \in Call /\ call'[k].op = call[k].op /\ N(k)' = N(k) /\ Snap(k)' = Snap(k)
               /\ call'[k].arg = call[k].arg
               /\ call'[k].missed = call[k].missed \union Changed(new)
    <3>1. call[k] \in Call
      BY <2>2, CallType DEF Inv
    <3>2. call'[k] = [call[k] EXCEPT !.missed = @ \union Changed(new)]
      BY <2>2 DEF Put
    <3> QED
      BY <2>1, <3>1, <3>2 DEF Call, N, Snap
  <2>3. next \in Call \union {Idle} /\ call'[h] = next
    BY DEF Put, Sound
  <2>4. \A k \in Handlers : k # h /\ At(k, "idle") => call'[k] = Idle
    BY DEF Put
  <2>5. call' = [k \in Handlers |-> call'[k]]
    BY DEF Put
  <2>6. \A k \in Handlers : call'[k] \in Call \union {Idle}
    BY <2>2, <2>3, <2>4
  <2> QED
    BY <2>2, <2>3, <2>4, <2>5, <2>6
<1>7. \A k \in Handlers : ~At(k, "idle")' => ~At(k, "idle") /\ N(k)' = N(k)
  BY <1>6 DEF At, N, Idle, Sound
<1>8. Types'
  <2>1. \A k \in Handlers : ~At(k, "idle")' => N(k)' <= calls' /\ Checked(call'[k])
    <3> SUFFICES ASSUME NEW k \in Handlers, ~At(k, "idle")'
                 PROVE  N(k)' <= calls' /\ Checked(call'[k])
      OBVIOUS
    <3>1. N(k)' <= calls' /\ ~At(k, "idle") /\ Checked(call[k])
      BY <1>1, <1>7, CallType DEF Inv
    <3>2. CASE k = h
      BY <1>6, <3>1, <3>2 DEF Sound, At, Idle
    <3>3. CASE k # h
      BY <1>6, <3>1, <3>3 DEF Checked, Snap
    <3> QED
      BY <3>1, <3>2, <3>3
  <2> QED
    BY <1>1, <1>5, <1>6, <2>1 DEF Inv, Types
<1>9. SessionInv'
  <2>1. ASSUME NEW k \in Handlers, ~At(k, "idle")', Snap(k)' # None
        PROVE  Matches(Snap(k))' /\ Current(call[k], row)'
    <3>1. ~At(k, "idle")
      BY <1>7, <2>1
    <3>2. CASE k = h
      <4>1. next # Idle /\ Snap(k)' = next.snap
        BY <1>6, <2>1, <3>2 DEF At, Idle, Snap
      <4> QED
        BY <1>1, <1>6, <3>2, <4>1 DEF Sound, Current, Matches
    <3>3. CASE k # h
      <4>1. Snap(k) # None /\ Matches(Snap(k)) /\ Current(call[k], row) /\ row \in User
        BY <1>6, <2>1, <3>1, <3>3, CallType DEF Inv, SessionInv, Types
      <4>2. Matches(Snap(k))'
        BY <1>6, <3>1, <3>3, <4>1 DEF Matches
      <4>3. Current(call[k], row)'
        BY <1>1, <1>6, <3>1, <3>3, <4>1, ChangedGroups DEF Current, Snap
      <4> QED
        BY <4>2, <4>3
    <3> QED
      BY <3>2, <3>3
  <2>2. Matches(row)'
    BY <1>1 DEF Sound, Matches
  <2> QED
    BY <2>1, <2>2 DEF SessionInv
<1>10. LockInv'
  BY <1>1, <1>2, <1>5 DEF LockInv, Sound
<1>11. FactorInv'
  <2>1. "mfa" \notin seen'.raced => Factor(row, seen)'
    BY <1>1, <1>2, <1>5 DEF Sound, Factor
  <2>2. ASSUME NEW code, Known(code)' PROVE Known(code) \/ (code[1] = N(h) /\ next = Idle)
    <3>1. CASE code \in seen'.used \/ code \in row'.codes
      BY <1>1, <1>5, <3>1 DEF Sound
    <3>2. CASE \E k \in Handlers : ~At(k, "idle")' /\ Snap(k)' # None /\ code \in Snap(k)'.codes
      <4>1. PICK k \in Handlers : ~At(k, "idle")' /\ Snap(k)' # None /\ code \in Snap(k)'.codes
        BY <3>2
      <4>2. CASE k # h
        BY <1>6, <1>7, <4>1, <4>2 DEF Known
      <4>3. CASE k = h
        <5>1. next # Idle /\ Snap(k)' = next.snap
          BY <1>6, <4>1, <4>3 DEF At, Idle, Snap
        <5> QED
          BY <4>1, <4>3, <5>1 DEF Sound
      <4> QED
        BY <4>2, <4>3
    <3> QED
      BY <2>2, <3>1, <3>2 DEF Known
  <2>3. \A k \in Handlers : At(k, "enable")' \/ At(k, "regenerate")' =>
          k # h /\ (At(k, "enable") \/ At(k, "regenerate")) /\ N(k)' = N(k)
    BY <1>6, <1>7 DEF At, Sound, Idle
  <2>4. ASSUME NEW code \in Code, Known(code)'
        PROVE  /\ code[1] <= calls'
               /\ \A k \in Handlers : At(k, "enable")' \/ At(k, "regenerate")' => code[1] # N(k)'
    <3>1. CASE Known(code)
      BY <1>1, <2>3, <3>1 DEF Inv, FactorInv
    <3>2. CASE code[1] = N(h)
      <4>1. \A k \in Handlers : ~At(k, "idle") /\ k # h => N(k) # N(h)
        BY DEF Inv, FactorInv
      <4> QED
        BY <1>1, <2>3, <3>2, <4>1, CallType DEF Inv, At
    <3> QED
      BY <2>2, <2>4, <3>1, <3>2
  <2>5. \A j, k \in Handlers : ~At(j, "idle")' /\ ~At(k, "idle")' /\ N(j)' = N(k)' => j = k
    BY <1>7 DEF Inv, FactorInv
  <2> QED
    BY <2>1, <2>4, <2>5 DEF FactorInv
<1> QED
  BY <1>8, <1>9, <1>10, <1>11 DEF Inv

\* A request that ends without an update.
LEMMA EndInv ==
  ASSUME Inv, NEW h \in Handlers, call' = [call EXCEPT ![h] = Idle],
         pending' \subseteq Pend, row = None => pending' = {}, UNCHANGED <<row, calls, seen>>
  PROVE  Inv'
<1>1. /\ call' \in [Handlers -> Call \union {Idle}] /\ call'[h] = Idle
      /\ \A k \in Handlers : k # h => call'[k] = call[k]
  BY DEF Inv, Types
<1>2. \A k \in Handlers : ~At(k, "idle")' => k # h /\ ~At(k, "idle") /\ call'[k] = call[k]
  BY <1>1 DEF At, Idle
<1>3. Types'
  BY <1>1, <1>2 DEF Inv, Types, N, Snap
<1>4. SessionInv'
  BY <1>2 DEF Inv, SessionInv, Snap, Matches, Current
<1>5. LockInv'
  BY DEF Inv, LockInv
<1>6. FactorInv'
  <2>1. \A code : Known(code)' => Known(code)
    BY <1>2 DEF Known, Snap
  <2>2. \A k \in Handlers : At(k, "enable")' \/ At(k, "regenerate")' =>
          (At(k, "enable") \/ At(k, "regenerate")) /\ N(k)' = N(k)
    BY <1>1 DEF At, N, Idle
  <2>3. \A j, k \in Handlers : ~At(j, "idle")' /\ ~At(k, "idle")' /\ N(j)' = N(k)' => j = k
    BY <1>2 DEF Inv, FactorInv, N
  <2> QED
    BY <2>1, <2>2, <2>3 DEF Inv, FactorInv, Factor
<1> QED
  BY <1>3, <1>4, <1>5, <1>6 DEF Inv

\* An update that leaves the lock and the second factor as they are.
LEMMA PlainInv ==
  ASSUME Inv, NEW h \in Handlers, ~At(h, "idle"), ~At(h, "pending"), row # None,
         NEW new \in User, NEW noted \in Seen, Put(h, new, Idle, noted), pending' \subseteq Pend,
         Matches(new), new.failed = row.failed,
         new.totp = row.totp, new.secret = row.secret, new.codes = row.codes,
         noted.raced = seen.raced, noted.wrong = seen.wrong, noted.used = seen.used,
         noted.confirmed = seen.confirmed
  PROVE  Inv'
<1>1. \A code \in noted.used \union new.codes : Known(code)
  BY DEF Known
<1>2. Sound(h, new, Idle, noted)
  BY <1>1 DEF Sound, Inv, LockInv, FactorInv, Factor
<1> QED
  BY <1>2, PutInv

\* The row and what a request has read of it.
LEMMA Reading ==
  ASSUME Inv, NEW h \in Handlers, ~At(h, "idle"), Snap(h) # None
  PROVE  /\ row \in User /\ row # None /\ Snap(h) \in User
         /\ Matches(row) /\ Matches(Snap(h)) /\ Current(call[h], row)
         /\ seen \in Seen /\ N(h) \in Id
<1>1. row \in User /\ row # None /\ Snap(h) \in User /\ N(h) \in Id /\ seen \in Seen
  BY CallType DEF Inv, Types
<1>2. Matches(row) /\ Matches(Snap(h)) /\ Current(call[h], row)
  BY <1>1 DEF Inv, SessionInv
<1> QED
  BY <1>1, <1>2

\* The token that a request stores.
LEMMA StoreInv ==
  ASSUME Inv, NEW h \in Handlers, ~At(h, "idle"), ~At(h, "pending"), Snap(h) # None,
         NEW pw \in Id \union {None}, NEW late \in BOOLEAN, StoreToken(h, pw, late),
         ~late => pw = Snap(h).pw, pending' \subseteq Pend
  PROVE  Inv'
<1>1. PICK token : token = [id |-> N(h), pw |-> pw, late |-> late \/ "password" \in call[h].missed]
  OBVIOUS
<1>2. token \in Token /\ token # None => (~token.late => token.pw = row.pw)
  BY <1>1, Reading DEF Token, Current, Snap
<1>3. token \in Token
  BY <1>1, Reading DEF Token
<1>4. [row EXCEPT !.refresh = token] \in User /\ Matches([row EXCEPT !.refresh = token])
  BY <1>2, <1>3, Reading DEF User, Matches
<1>5. [seen EXCEPT !.tokens = @ + 1] \in Seen
  BY Reading DEF Seen
<1>6. Put(h, [row EXCEPT !.refresh = token], Idle, [seen EXCEPT !.tokens = @ + 1])
  BY <1>1 DEF StoreToken
<1> QED
  BY <1>4, <1>5, <1>6, PlainInv, Reading DEF User, Seen

-----------------------------------------------------------------------------
\* Registration and the e-mail address.

LEMMA NewUserSound ==
  ASSUME NEW n \in Id \union {None}
  PROVE  /\ NewUser(n) \in User /\ Matches(NewUser(n)) /\ NewUser(n).failed = 0
         /\ NewUser(n).totp = FALSE /\ NewUser(n).codes = {}
         /\ Verified(NewUser(n)) \in User /\ Matches(Verified(NewUser(n)))
         /\ Verified(NewUser(n)).failed = 0
         /\ Verified(NewUser(n)).totp = FALSE /\ Verified(NewUser(n)).codes = {}
<1>1. NewUser(n) \in User
  BY AccountsAssumption DEF NewUser, User
<1>2. Verified(NewUser(n)) \in User
  BY <1>1 DEF Verified, User
<1>3. /\ NewUser(n).failed = 0 /\ NewUser(n).totp = FALSE /\ NewUser(n).codes = {}
      /\ NewUser(n).refresh = None
  BY DEF NewUser
<1>4. /\ Verified(NewUser(n)).failed = 0 /\ Verified(NewUser(n)).totp = FALSE
      /\ Verified(NewUser(n)).codes = {} /\ Verified(NewUser(n)).refresh = None
  BY DEF NewUser, Verified
<1> QED
  BY <1>1, <1>2, <1>3, <1>4 DEF Matches

LEMMA EmailInv ==
  ASSUME Inv, NEW h \in Handlers, Email(h)
  PROVE  Inv'
<1>1. CASE RegisterRequest(h)
  BY <1>1, BeginInv, OpNames DEF RegisterRequest, Checked
<1>2. CASE VerifyRequest(h)
  BY <1>2, BeginInv, OpNames DEF VerifyRequest, Checked
<1>3. CASE ResendRequest(h)
  BY <1>3, BeginInv, OpNames DEF ResendRequest, Checked, Addressed
<1>4. CASE Register(h) /\ row # None
  BY <1>4, EndInv DEF Register, Inv, Types
<1>5. CASE Register(h) /\ row = None
  <2>0. ~At(h, "idle") /\ ~At(h, "pending")
    BY <1>5 DEF Register, At
  <2>1. N(h) \in Id /\ Snap(h) = None
    BY <1>5, <2>0, CallType DEF Inv
  <2>2. Put(h, NewUser(N(h)), Idle, seen) /\ pending' = pending
    BY <1>5 DEF Register, Update
  <2>3. seen.wrong = 0 /\ seen \in Seen
    BY <1>5 DEF Inv, LockInv, Types
  <2>4. Sound(h, NewUser(N(h)), Idle, seen)
    BY <2>1, <2>3, NewUserSound DEF Sound, Factor, Known
  <2> QED
    BY <2>0, <2>2, <2>4, PutInv DEF Inv, Types
<1>6. CASE VerifyEmail(h)
  <2>1. ~At(h, "idle") /\ ~At(h, "pending") /\ Snap(h) # None
    BY <1>6, CallType DEF VerifyEmail, At, Inv, Checked, Snap
  <2>2. PICK new : new = IF Snap(h).verified THEN row ELSE Verified(row)
    OBVIOUS
  <2>3. /\ new \in User /\ Matches(new) /\ new.failed = row.failed
        /\ new.totp = row.totp /\ new.secret = row.secret /\ new.codes = row.codes
    BY <2>1, <2>2, Reading DEF Verified, User, Matches
  <2> QED
    BY <1>6, <2>1, <2>2, <2>3, PlainInv, Reading DEF VerifyEmail, Update, Inv, Types
<1>7. CASE ResendVerification(h)
  <2>1. ~At(h, "idle") /\ ~At(h, "pending") /\ Snap(h) # None
    BY <1>7, CallType DEF ResendVerification, At, Inv, Checked, Snap
  <2>2. PICK new : new = [row EXCEPT !.vtok = N(h)]
    OBVIOUS
  <2>3. /\ new \in User /\ Matches(new) /\ new.failed = row.failed
        /\ new.totp = row.totp /\ new.secret = row.secret /\ new.codes = row.codes
    BY <2>1, <2>2, Reading DEF User, Matches
  <2> QED
    BY <1>7, <2>1, <2>2, <2>3, PlainInv, Reading DEF ResendVerification, Update, Inv, Types
<1> QED
  BY <1>1, <1>2, <1>3, <1>4, <1>5, <1>6, <1>7 DEF Email

-----------------------------------------------------------------------------
\* Sign-in.

\* What a request that is neither a registration nor an OAuth sign-in has read.
LEMMA HasRead ==
  ASSUME Inv, NEW h \in Handlers,
         call[h].op \in DOMAIN Basis \ {"register", "oauth"}
  PROVE  ~At(h, "idle") /\ Snap(h) # None /\ call[h] \in Call /\ Checked(call[h])
<1>1. ~At(h, "idle")
  BY OpNames DEF At
<1> QED
  BY <1>1, CallType DEF Inv, Checked, Snap

LEMMA PasswordInv ==
  ASSUME Inv, NEW h \in Handlers, WrongPassword(h) \/ RightPassword(h)
  PROVE  Inv'
<1>1. At(h, "login") /\ ~At(h, "idle") /\ ~At(h, "pending") /\ Snap(h) # None
      /\ call[h] \in Call
  BY HasRead, OpNames DEF WrongPassword, RightPassword, At
<1>2. /\ row \in User /\ row # None /\ Snap(h) \in User /\ seen \in Seen
      /\ Matches(row) /\ Matches(Snap(h)) /\ Current(call[h], row)
  BY <1>1, Reading
<1>3. "lock" \notin seen.raced => row.failed = seen.wrong
  BY <1>2 DEF Inv, LockInv
<1>4. "mfa" \notin seen.raced => Factor(row, seen)
  BY <1>2 DEF Inv, FactorInv
<1>5. ~(Misses(h) /\ "lock" \in Writes[call[h].op]) => Snap(h).failed = row.failed
  BY <1>1, <1>2 DEF Misses, Basis, Writes, Current, At, Snap
<1>6. "mfa" \notin Writes[call[h].op]
  BY <1>1 DEF Writes, At
<1>7. \A code \in seen.used \union row.codes : Known(code)
  BY <1>2 DEF Known
<1>8. CASE WrongPassword(h)
  <2> DEFINE failed == Snap(h).failed + 1
             lock == failed >= MaxFailedLogins
             new == [row EXCEPT !.failed = IF lock THEN 0 ELSE failed, !.locked = @ \/ lock]
             noted == [seen EXCEPT !.wrong = IF lock THEN 0 ELSE @ + 1]
  <2>1. new \in User /\ noted \in Seen
    <3>1. (IF lock THEN 0 ELSE failed) \in 0..(MaxFailedLogins - 1) /\ failed \in Nat
      BY <1>2, AccountsAssumption DEF User
    <3>2. (row.locked \/ lock) \in BOOLEAN
      OBVIOUS
    <3>3. (IF lock THEN 0 ELSE seen.wrong + 1) \in Nat
      BY <1>2 DEF Seen
    <3> HIDE DEF lock, failed
    <3>4. new \in User
      <4>1. ASSUME NEW f \in 0..(MaxFailedLogins - 1), NEW l \in BOOLEAN
            PROVE  [row EXCEPT !.failed = f, !.locked = l] \in User
        BY <1>2 DEF User
      <4> QED
        BY <3>1, <3>2, <4>1
    <3>5. noted \in Seen
      BY <1>2, <3>3 DEF Seen
    <3> QED
      BY <3>4, <3>5
  <2>2. /\ Matches(new) /\ noted.raced = seen.raced
        /\ new.codes = row.codes /\ noted.used = seen.used
        /\ Factor(row, seen) => Factor(new, noted)
    BY <1>2 DEF Matches, User, Seen, Factor
  <2>3. new.failed = (IF lock THEN 0 ELSE failed) /\ noted.wrong = (IF lock THEN 0 ELSE seen.wrong + 1)
    BY <1>2 DEF User, Seen
  <2>4. Put(h, new, Idle, noted) /\ pending' = pending
    BY <1>8 DEF WrongPassword
  <2> HIDE DEF new, noted
  <2>5. Sound(h, new, Idle, noted)
    BY <1>3, <1>4, <1>5, <1>6, <1>7, <2>1, <2>2, <2>3 DEF Sound
  <2> QED
    BY <1>1, <2>4, <2>5, PutInv DEF Inv, Types
<1>9. CASE RightPassword(h)
  <2> DEFINE new == [row EXCEPT !.failed = 0, !.locked = FALSE]
             noted == [seen EXCEPT !.wrong = 0]
             next == Then(h, "clear")
  <2>1. new \in User /\ noted \in Seen
    <3>1. 0 \in 0..(MaxFailedLogins - 1)
      BY AccountsAssumption
    <3>2. new \in User
      BY <1>2, <3>1 DEF User
    <3>3. noted \in Seen
      BY <1>2 DEF Seen
    <3> QED
      BY <3>2, <3>3
  <2>2. /\ Matches(new) /\ noted.raced = seen.raced
        /\ new.codes = row.codes /\ noted.used = seen.used
        /\ new.failed = 0 /\ noted.wrong = 0
        /\ Factor(row, seen) => Factor(new, noted)
    BY <1>2 DEF Matches, User, Seen, Factor
  <2>3. /\ next \in Call /\ next.op = "clear" /\ next.n = N(h) /\ next.snap = Snap(h)
        /\ next.missed = call[h].missed
    BY <1>1, OpNames DEF Then, Call, N, Snap
  <2>4. Current(next, new)
    BY <1>1, <1>2, <2>3 DEF Current, User, Snap, At
  <2>5. Put(h, new, next, noted) /\ pending' = pending
    BY <1>9 DEF RightPassword
  <2> HIDE DEF new, noted, next
  <2>6. Checked(next)
    BY <1>1, <2>3 DEF Checked
  <2>7. Sound(h, new, next, noted)
    BY <1>1, <1>2, <1>4, <1>6, <1>7, <2>1, <2>2, <2>3, <2>4, <2>6 DEF Sound, Known
  <2> QED
    BY <1>1, <2>5, <2>7, PutInv DEF Inv, Types
<1> QED
  BY <1>8, <1>9

LEMMA FinishInv ==
  ASSUME Inv, NEW h \in Handlers, FinishLogin(h)
  PROVE  Inv'
<1>1. ~At(h, "idle") /\ ~At(h, "pending") /\ Snap(h) # None /\ row # None
      /\ N(h) \in Id /\ Snap(h).pw \in Id \union {None}
  <2>1. ~At(h, "idle") /\ ~At(h, "pending") /\ Snap(h) # None
    BY HasRead, OpNames DEF FinishLogin, At
  <2> QED
    BY <2>1, Reading DEF User
<1>2. CASE Snap(h).totp
  BY <1>1, <1>2, EndInv DEF FinishLogin, Inv, Types, Pend
<1>3. CASE ~Snap(h).totp
  BY <1>1, <1>3, StoreInv DEF FinishLogin, Inv, Types
<1> QED
  BY <1>2, <1>3

\* The row is read again, and the request goes on with a code.
LEMMA VerifyCodeInv ==
  ASSUME Inv, NEW h \in Handlers, NEW code \in Code \union {None}, VerifyCode(h, code)
  PROVE  Inv'
<1>1. ~At(h, "idle") /\ Snap(h) # None /\ call[h] \in Call /\ call[h].arg \in Pend
      /\ At(h, "pending")
  BY HasRead, OpNames DEF VerifyCode, At, Checked
<1>2. row \in User /\ row # None /\ Matches(row) /\ N(h) \in Id
  BY <1>1, Reading
<1>3. CASE ~(row.totp /\ row.secret # None)
  BY <1>2, <1>3, EndInv DEF VerifyCode, Inv, Types
<1>4. CASE row.totp /\ row.secret # None
  <2> DEFINE next == [op |-> IF code = None THEN "session" ELSE "code", n |-> N(h), snap |-> row,
                      arg |-> [pending |-> call[h].arg, code |-> code], missed |-> {}]
  <2>0. UNCHANGED <<row, calls, pending, seen>> /\ code \in row.codes \union {None}
    BY DEF VerifyCode
  <2>1. call' = [call EXCEPT ![h] = next]
    BY <1>4 DEF VerifyCode
  <2>2. /\ next \in Call /\ next.op \in {"session", "code"} /\ next.n = N(h) /\ next.snap = row
        /\ next.missed = {} /\ next.arg = [pending |-> call[h].arg, code |-> code]
        /\ next.op = "code" => code # None
    BY <1>1, <1>2, OpNames DEF Call, Answer, N
  <2> HIDE DEF next
  <2>3. Checked(next)
    BY <1>1, <1>2, <2>0, <2>1, <2>2 DEF Checked, Answer
  <2>4. call'[h] = next /\ \A k \in Handlers : k # h => call'[k] = call[k]
    BY <2>1 DEF Inv, Types
  <2>5. Types'
    <3>1. call' \in [Handlers -> Call \union {Idle}]
      BY <2>0, <2>1, <2>2 DEF Inv, Types
    <3>2. \A k \in Handlers : ~At(k, "idle")' => N(k)' <= calls' /\ Checked(call'[k])
      BY <1>1, <2>0, <2>1, <2>2, <2>3, <2>4, CallType DEF Inv, Types, At, N
    <3> QED
      BY <1>2, <2>0, <2>1, <3>1, <3>2 DEF Inv, Types
  <2>6. SessionInv'
    BY <1>2, <2>0, <2>1, <2>2, <2>4 DEF Inv, SessionInv, At, Snap, Matches, Current
  <2>7. LockInv'
    BY <2>0 DEF Inv, LockInv
  <2>8. FactorInv'
    <3>1. \A c : Known(c)' => Known(c)
      BY <1>2, <2>0, <2>1, <2>2, <2>4 DEF Known, At, Snap
    <3>2. \A k \in Handlers : ~At(k, "idle")' => ~At(k, "idle") /\ N(k)' = N(k)
      BY <1>1, <2>2, <2>4 DEF At, N
    <3>3. \A k \in Handlers : At(k, "enable")' \/ At(k, "regenerate")' => At(k, "enable") \/ At(k, "regenerate")
      BY <2>2, <2>4 DEF At
    <3>4. \A k \in Handlers : At(k, "enable")' \/ At(k, "regenerate")' => ~At(k, "idle")'
      BY DEF At
    <3> QED
      BY <2>0, <2>1, <3>1, <3>2, <3>3, <3>4 DEF Inv, FactorInv, Factor
  <2> QED
    BY <2>5, <2>6, <2>7, <2>8 DEF Inv
<1> QED
  BY <1>3, <1>4

LEMMA UseCodeInv ==
  ASSUME Inv, NEW h \in Handlers, UseBackupCode(h)
  PROVE  Inv'
<1>1. At(h, "code") /\ ~At(h, "idle") /\ ~At(h, "pending") /\ Snap(h) # None
      /\ call[h] \in Call /\ call[h].arg \in Answer /\ call[h].arg.code \in Snap(h).codes
  BY HasRead, OpNames DEF UseBackupCode, At, Checked, Snap
<1>2. /\ row \in User /\ row # None /\ Snap(h) \in User /\ seen \in Seen
      /\ Matches(row) /\ Matches(Snap(h)) /\ Current(call[h], row)
  BY <1>1, Reading
<1>3. "lock" \notin seen.raced => row.failed = seen.wrong
  BY <1>2 DEF Inv, LockInv
<1>4. "mfa" \notin seen.raced => Factor(row, seen)
  BY <1>2 DEF Inv, FactorInv
<1>5. ~(Misses(h) /\ "mfa" \in Writes[call[h].op]) => Snap(h).codes = row.codes
  BY <1>1, <1>2 DEF Misses, Basis, Writes, Current, At, Snap
<1>6. \A code \in seen.used \union row.codes \union Snap(h).codes : Known(code)
  BY <1>1, <1>2 DEF Known
<1> DEFINE code == call[h].arg.code
           new == [row EXCEPT !.codes = Snap(h).codes \ {code}]
           noted == [seen EXCEPT !.used = @ \union {code}]
           next == Then(h, "session")
<1>7. new \in User /\ noted \in Seen
  BY <1>1, <1>2 DEF User, Seen, Code
<1>8. /\ Matches(new) /\ noted.raced = seen.raced /\ noted.wrong = seen.wrong /\ new.failed = row.failed
      /\ new.codes = Snap(h).codes \ {code} /\ noted.used = seen.used \union {code}
      /\ new.totp = row.totp /\ new.secret = row.secret /\ noted.confirmed = seen.confirmed
      /\ new.pw = row.pw
  BY <1>2 DEF Matches, User, Seen
<1>9. /\ next \in Call /\ next.op = "session" /\ next.n = N(h) /\ next.snap = Snap(h)
      /\ next.missed = call[h].missed /\ next.arg = call[h].arg
  BY <1>1, OpNames DEF Then, Call, N, Snap
<1>10. Put(h, new, next, noted) /\ pending' = pending
  BY DEF UseBackupCode
<1> HIDE DEF new, noted, next
<1>11. Checked(next) /\ Current(next, new)
  BY <1>1, <1>2, <1>8, <1>9 DEF Checked, Current, Snap
<1>12. Sound(h, new, next, noted)
  BY <1>1, <1>2, <1>3, <1>4, <1>5, <1>6, <1>7, <1>8, <1>9, <1>11 DEF Sound, Factor
<1> QED
  BY <1>1, <1>10, <1>12, PutInv DEF Inv, Types

LEMMA LoginMfaInv ==
  ASSUME Inv, NEW h \in Handlers, LoginMfa(h)
  PROVE  Inv'
<1>1. ~At(h, "idle") /\ ~At(h, "pending") /\ Snap(h) # None /\ call[h].arg \in Answer
  BY HasRead, OpNames DEF LoginMfa, At, Checked
<1>2. call[h].arg.pending.pw \in Id \union {None}
  BY <1>1 DEF Answer, Pend
<1> QED
  BY <1>1, <1>2, StoreInv DEF LoginMfa, Inv, Types

LEMMA OAuthInv ==
  ASSUME Inv, NEW h \in Handlers, OAuthUser(h) \/ OAuthToken(h)
  PROVE  Inv'
<1>1. CASE OAuthToken(h)
  <2>1. ~At(h, "idle") /\ ~At(h, "pending") /\ Snap(h) # None
    BY <1>1, HasRead, OpNames DEF OAuthToken, At
  <2> QED
    BY <1>1, <2>1, StoreInv, Reading DEF OAuthToken, User, Inv, Types
<1>2. CASE OAuthUser(h) /\ Snap(h) = None /\ row # None
  BY <1>2, EndInv DEF OAuthUser, Inv, Types
<1>3. CASE OAuthUser(h) /\ ~(Snap(h) = None /\ row # None)
  <2>1. At(h, "oauth") /\ ~At(h, "idle") /\ ~At(h, "pending")
    BY <1>3 DEF OAuthUser, At
  <2>2. call[h] \in Call /\ Snap(h) \in User \union {None} /\ N(h) \in Id
    BY <2>1, CallType DEF Inv
  <2>3. PICK u : u = IF row = None THEN Verified(NewUser(None)) ELSE row
    OBVIOUS
  <2>4. u \in User /\ Matches(u) /\ u # None
        /\ (row # None => u = row) /\ (row = None => u.failed = 0 /\ ~u.totp /\ u.codes = {})
    BY <2>3, NewUserSound, NoAccountAssumption DEF Inv, Types, SessionInv
  <2> DEFINE new == [u EXCEPT !.oauth = TRUE]
             next == [Then(h, "store") EXCEPT !.snap = u]
  <2>5. /\ new \in User /\ Matches(new) /\ new.failed = u.failed /\ new.totp = u.totp
        /\ new.secret = u.secret /\ new.codes = u.codes /\ new.pw = u.pw
    BY <2>4 DEF User, Matches
  <2>6. /\ next \in Call /\ next.op = "store" /\ next.n = N(h) /\ next.snap = u
    BY <2>2, <2>4, OpNames DEF Then, Call, N
  <2>7. Put(h, new, next, seen) /\ pending' = pending
    BY <1>3, <2>3 DEF OAuthUser
  <2>8. seen \in Seen /\ ("mfa" \notin seen.raced => Factor(u, seen))
        /\ ("lock" \notin seen.raced => u.failed = seen.wrong)
        /\ \A code \in seen.used \union u.codes : Known(code)
    BY <2>4 DEF Inv, Types, FactorInv, LockInv, Factor, Known
  <2> HIDE DEF new, next
  <2>9. Checked(next) /\ Current(next, new)
    BY <2>4, <2>5, <2>6 DEF Checked, Current
  <2>10. Sound(h, new, next, seen)
    BY <2>4, <2>5, <2>6, <2>8, <2>9 DEF Sound, Factor
  <2> QED
    BY <2>1, <2>7, <2>10, PutInv DEF Inv, Types
<1> QED
  BY <1>1, <1>2, <1>3

LEMMA SignInInv ==
  ASSUME Inv, NEW h \in Handlers, SignIn(h)
  PROVE  Inv'
<1>1. ASSUME NEW right \in BOOLEAN, LoginRequest(h, right) PROVE Inv'
  BY <1>1, BeginInv, OpNames DEF LoginRequest, Checked, Addressed
<1>2. ASSUME NEW p \in pending, MfaRequest(h, p) PROVE Inv'
  <2>1. p \in Pend /\ row # None
    BY DEF Inv, Types
  <2> QED
    BY <1>2, <2>1, BeginInv, OpNames DEF MfaRequest, Checked
<1>3. CASE OAuthRequest(h)
  BY <1>3, BeginInv, OpNames DEF OAuthRequest, Checked
<1> QED
  BY <1>1, <1>2, <1>3, PasswordInv, FinishInv, VerifyCodeInv, UseCodeInv, LoginMfaInv, OAuthInv
     DEF SignIn, Code

-----------------------------------------------------------------------------
\* Sessions, password reset, deletion.

LEMMA SessionsInv ==
  ASSUME Inv, NEW h \in Handlers, Session(h)
  PROVE  Inv'
<1>1. ASSUME NEW current \in BOOLEAN, RefreshRequest(h, current) PROVE Inv'
  BY <1>1, BeginInv, OpNames DEF RefreshRequest, Checked
<1>2. CASE LogoutRequest(h)
  BY <1>2, BeginInv, OpNames DEF LogoutRequest, Checked, Authenticated
<1>3. CASE Refresh(h) /\ call[h].arg
  <2>1. ~At(h, "idle") /\ ~At(h, "pending") /\ Snap(h) # None /\ Snap(h).refresh # None
    BY <1>3, HasRead, OpNames DEF Refresh, At, Checked, Snap
  <2>2. Snap(h).refresh \in Token /\ Matches(Snap(h))
    BY <2>1, Reading DEF User
  <2>3. /\ Snap(h).refresh.pw \in Id \union {None} /\ Snap(h).refresh.late \in BOOLEAN
        /\ ~Snap(h).refresh.late => Snap(h).refresh.pw = Snap(h).pw
    BY <2>1, <2>2 DEF Token, Matches
  <2> QED
    BY <1>3, <2>1, <2>3, StoreInv DEF Refresh, Inv, Types
<1>4. CASE (Refresh(h) /\ ~call[h].arg) \/ Logout(h)
  <2>1. ~At(h, "idle") /\ ~At(h, "pending") /\ Snap(h) # None
    BY <1>4, HasRead, OpNames DEF Refresh, Logout, At
  <2>2. PICK new : new = [row EXCEPT !.refresh = None]
    OBVIOUS
  <2>3. /\ new \in User /\ Matches(new) /\ new.failed = row.failed
        /\ new.totp = row.totp /\ new.secret = row.secret /\ new.codes = row.codes
    BY <2>1, <2>2, Reading DEF User, Matches
  <2> QED
    BY <1>4, <2>1, <2>2, <2>3, PlainInv, Reading DEF Refresh, Logout, Update, Inv, Types
<1> QED
  BY <1>1, <1>2, <1>3, <1>4 DEF Session

LEMMA ManageInv ==
  ASSUME Inv, NEW h \in Handlers, Manage(h)
  PROVE  Inv'
<1>1. CASE ForgotRequest(h)
  BY <1>1, BeginInv, OpNames DEF ForgotRequest, Checked, Addressed
<1>2. CASE ResetRequest(h)
  BY <1>2, BeginInv, OpNames DEF ResetRequest, Checked
<1>3. CASE DeleteRequest(h)
  BY <1>3, BeginInv, OpNames DEF DeleteRequest, Checked, Authenticated
<1>4. CASE ForgotPassword(h)
  <2>1. ~At(h, "idle") /\ ~At(h, "pending") /\ Snap(h) # None
    BY <1>4, HasRead, OpNames DEF ForgotPassword, At
  <2>2. PICK new : new = [row EXCEPT !.link = N(h)]
    OBVIOUS
  <2>3. /\ new \in User /\ Matches(new) /\ new.failed = row.failed
        /\ new.totp = row.totp /\ new.secret = row.secret /\ new.codes = row.codes
    BY <2>1, <2>2, Reading DEF User, Matches
  <2> QED
    BY <1>4, <2>1, <2>2, <2>3, PlainInv, Reading DEF ForgotPassword, Update, Inv, Types
<1>5. CASE ResetPassword(h)
  <2>1. ~At(h, "idle") /\ ~At(h, "pending") /\ Snap(h) # None /\ At(h, "reset")
    BY <1>5, HasRead, OpNames DEF ResetPassword, At
  <2>2. row \in User /\ row # None /\ seen \in Seen /\ N(h) \in Id
    BY <2>1, Reading
  <2> DEFINE new == [row EXCEPT !.pw = N(h), !.link = None, !.refresh = None, !.failed = 0, !.locked = FALSE]
             noted == [seen EXCEPT !.wrong = 0]
  <2>3. new \in User /\ noted \in Seen
    <3>1. 0 \in 0..(MaxFailedLogins - 1)
      BY AccountsAssumption
    <3>2. new \in User
      BY <2>2, <3>1 DEF User
    <3>3. noted \in Seen
      BY <2>2 DEF Seen
    <3> QED
      BY <3>2, <3>3
  <2>4. /\ Matches(new) /\ new.failed = 0 /\ noted.wrong = 0 /\ noted.raced = seen.raced
        /\ new.totp = row.totp /\ new.secret = row.secret /\ new.codes = row.codes
        /\ noted.used = seen.used /\ noted.confirmed = seen.confirmed
    BY <2>2 DEF User, Seen, Matches
  <2>5. Put(h, new, Idle, noted) /\ pending' = pending
    BY <1>5 DEF ResetPassword
  <2> HIDE DEF new, noted
  <2>6. Sound(h, new, Idle, noted)
    BY <2>2, <2>3, <2>4 DEF Sound, Inv, FactorInv, Factor, Known
  <2> QED
    BY <2>1, <2>5, <2>6, PutInv DEF Inv, Types
<1>6. CASE DeleteAccount(h)
  <2>1. ~At(h, "idle") /\ ~At(h, "pending") /\ Snap(h) # None
    BY <1>6, HasRead, OpNames DEF DeleteAccount, At
  <2>2. row \in User /\ row # None /\ seen \in Seen
    BY <2>1, Reading
  <2> DEFINE new == [row EXCEPT !.pw = None, !.oauth = FALSE, !.refresh = None,
                                !.vtok = None, !.active = FALSE, !.deleted = TRUE,
                                !.totp = FALSE, !.secret = None, !.codes = {}]
  <2>3. new \in User
    BY <2>2 DEF User
  <2>4. Matches(new) /\ new.failed = row.failed /\ ~new.totp /\ new.codes = {}
    BY <2>2 DEF User, Matches
  <2>5. Put(h, new, Idle, seen) /\ pending' = pending
    BY <1>6 DEF DeleteAccount, Update
  <2> HIDE DEF new
  <2>6. Sound(h, new, Idle, seen)
    BY <2>2, <2>3, <2>4 DEF Sound, Inv, LockInv, Factor, Known
  <2> QED
    BY <2>1, <2>5, <2>6, PutInv DEF Inv, Types
<1> QED
  BY <1>1, <1>2, <1>3, <1>4, <1>5, <1>6 DEF Manage

-----------------------------------------------------------------------------
\* The second factor.

\* An update of the second factor: right, or made on something it missed.
LEMMA FactorUpdateInv ==
  ASSUME Inv, NEW h \in Handlers, ~At(h, "idle"), ~At(h, "pending"), Snap(h) # None,
         NEW new \in User, new.failed = row.failed, Matches(new),
         NEW noted \in Seen, noted.raced = seen.raced, noted.wrong = seen.wrong,
         noted.used = seen.used, Put(h, new, Idle, noted), pending' = pending,
         \A code \in new.codes : Known(code) \/ code[1] = N(h),
         "mfa" \notin seen.raced /\ ~(Misses(h) /\ "mfa" \in Writes[call[h].op]) => Factor(new, noted)
  PROVE  Inv'
<1>1. row \in User /\ row # None
  BY Reading
<1>2. Sound(h, new, Idle, noted)
  BY <1>1 DEF Sound, Inv, LockInv, Known
<1> QED
  BY <1>2, PutInv DEF Inv, Types

LEMMA SecondFactorInv ==
  ASSUME Inv, NEW h \in Handlers, SecondFactor(h)
  PROVE  Inv'
<1>1. CASE SetupRequest(h)
  BY <1>1, BeginInv, OpNames DEF SetupRequest, Checked, Authenticated
<1>2. CASE EnableRequest(h)
  BY <1>2, BeginInv, OpNames DEF EnableRequest, Checked, Authenticated
<1>3. CASE DisableRequest(h)
  BY <1>3, BeginInv, OpNames DEF DisableRequest, Checked, Authenticated
<1>4. CASE RegenerateRequest(h)
  BY <1>4, BeginInv, OpNames DEF RegenerateRequest, Checked, Authenticated
<1>5. ASSUME call[h].op \in {"setup", "enable", "disable", "regenerate"}
      PROVE  /\ ~At(h, "idle") /\ ~At(h, "pending") /\ Snap(h) # None /\ Checked(call[h])
             /\ row \in User /\ row # None /\ seen \in Seen /\ Snap(h) \in User /\ N(h) \in Id
             /\ Matches(row)
  <2>1. ~At(h, "idle") /\ ~At(h, "pending") /\ Snap(h) # None /\ Checked(call[h])
    BY <1>5, HasRead, OpNames DEF At
  <2> QED
    BY <2>1, Reading
<1>6. ASSUME call[h].op \in {"setup", "enable", "disable", "regenerate"},
             ~(Misses(h) /\ "mfa" \in Writes[call[h].op])
      PROVE  Snap(h).totp = row.totp /\ Snap(h).secret = row.secret /\ Snap(h).codes = row.codes
  <2>1. "mfa" \in Writes[call[h].op] /\ "mfa" \in Basis[call[h].op] /\ call[h].op # "session"
    BY <1>6 DEF Writes, Basis
  <2>2. Current(call[h], row)
    BY <1>5, <1>6, Reading
  <2> QED
    BY <1>6, <2>1, <2>2 DEF Misses, Current, Snap
<1>7. "mfa" \notin seen.raced /\ row # None => Factor(row, seen)
  BY DEF Inv, FactorInv
<1>8. \A n \in Id : Codes(n) \in SUBSET Code /\ \A code \in Codes(n) : code[1] = n
  BY DEF Codes, Code, Id
<1>9. ASSUME At(h, "enable") \/ At(h, "regenerate") PROVE seen.used \intersect Codes(N(h)) = {}
  <2>1. \A code \in seen.used : code \in Code /\ Known(code)
    BY DEF Known, Inv, Types, Seen
  <2>2. \A code \in seen.used : code[1] # N(h)
    BY <1>9, <2>1 DEF Inv, FactorInv
  <2>3. N(h) \in Id
    BY <1>5, <1>9 DEF At
  <2> QED
    BY <1>8, <2>2, <2>3
<1>10. CASE MfaSetup(h)
  <2>1. PICK new : new = [row EXCEPT !.secret = N(h)]
    OBVIOUS
  <2>2. call[h].op = "setup" /\ Put(h, new, Idle, seen) /\ pending' = pending
    BY <1>10, <2>1 DEF MfaSetup, At, Update
  <2>3. /\ new \in User /\ new.failed = row.failed /\ Matches(new)
        /\ new.totp = row.totp /\ new.codes = row.codes
    BY <1>5, <2>1, <2>2 DEF User, Matches
  <2>4. ~Snap(h).totp
    BY <1>5, <2>2 DEF Checked, Snap
  <2>5. "mfa" \notin seen.raced /\ ~(Misses(h) /\ "mfa" \in Writes[call[h].op]) => Factor(new, seen)
    BY <1>5, <1>6, <1>7, <2>2, <2>3, <2>4 DEF Factor
  <2>6. \A code \in new.codes : Known(code)
    BY <1>5, <2>2, <2>3 DEF Known
  <2> QED
    BY <1>5, <2>2, <2>3, <2>5, <2>6, FactorUpdateInv
<1>11. CASE MfaEnable(h)
  <2>1. PICK new : new = [row EXCEPT !.totp = TRUE, !.codes = Codes(N(h))]
    OBVIOUS
  <2>2. PICK noted : noted = [seen EXCEPT !.confirmed = Snap(h).secret]
    OBVIOUS
  <2>3. At(h, "enable") /\ call[h].op = "enable" /\ Put(h, new, Idle, noted) /\ pending' = pending
    BY <1>11, <2>1, <2>2 DEF MfaEnable, At
  <2>4. /\ new \in User /\ new.failed = row.failed /\ Matches(new)
        /\ new.secret = row.secret /\ new.codes = Codes(N(h))
    <3>1. row \in User /\ Matches(row)
      BY <1>5, <2>3
    <3>2. PICK codes \in SUBSET (Id \X (1..BackupCodes)) : codes = Codes(N(h))
      BY <1>5, <1>8, <2>3 DEF Code
    <3>3. new = [row EXCEPT !.totp = TRUE, !.codes = codes]
      BY <2>1, <3>2
    <3>4. new \in User
      BY <3>1, <3>3, TRUE \in BOOLEAN DEF User
    <3>5. /\ new.failed = row.failed /\ new.secret = row.secret /\ new.codes = codes
          /\ new.pw = row.pw /\ new.refresh = row.refresh
      BY <3>1, <3>3 DEF User
    <3> QED
      BY <3>1, <3>2, <3>4, <3>5 DEF Matches
  <2>5. /\ noted \in Seen /\ noted.raced = seen.raced /\ noted.wrong = seen.wrong
        /\ noted.used = seen.used /\ noted.confirmed = Snap(h).secret
    BY <1>5, <2>2, <2>3 DEF Seen, User
  <2>6. Snap(h).secret # None
    BY <1>5, <2>3 DEF Checked, Snap
  <2>7. "mfa" \notin seen.raced /\ ~(Misses(h) /\ "mfa" \in Writes[call[h].op]) => Factor(new, noted)
    BY <1>6, <1>9, <2>3, <2>4, <2>5, <2>6 DEF Factor
  <2> QED
    BY <1>5, <1>8, <2>3, <2>4, <2>5, <2>7, FactorUpdateInv
<1>12. CASE MfaDisable(h)
  <2>1. PICK new : new = [row EXCEPT !.totp = FALSE, !.secret = None, !.codes = {}]
    OBVIOUS
  <2>2. call[h].op = "disable" /\ Put(h, new, Idle, seen) /\ pending' = pending
    BY <1>12, <2>1 DEF MfaDisable, At, Update
  <2>3. /\ new \in User /\ new.failed = row.failed /\ Matches(new) /\ ~new.totp /\ new.codes = {}
    <3>1. row \in User /\ Matches(row)
      BY <1>5, <2>2
    <3>2. new \in User
      BY <2>1, <3>1, FALSE \in BOOLEAN DEF User
    <3>3. /\ new.failed = row.failed /\ ~new.totp /\ new.codes = {}
          /\ new.pw = row.pw /\ new.refresh = row.refresh
      BY <2>1, <3>1 DEF User
    <3> QED
      BY <3>1, <3>2, <3>3 DEF Matches
  <2>4. Factor(new, seen)
    BY <2>3 DEF Factor
  <2> QED
    BY <1>5, <2>2, <2>3, <2>4, FactorUpdateInv
<1>13. CASE RegenerateBackupCodes(h)
  <2>1. PICK new : new = [row EXCEPT !.codes = Codes(N(h))]
    OBVIOUS
  <2>2. At(h, "regenerate") /\ call[h].op = "regenerate" /\ Put(h, new, Idle, seen) /\ pending' = pending
    BY <1>13, <2>1 DEF RegenerateBackupCodes, At, Update
  <2>3. /\ new \in User /\ new.failed = row.failed /\ Matches(new)
        /\ new.totp = row.totp /\ new.secret = row.secret /\ new.codes = Codes(N(h))
    BY <1>5, <1>8, <2>1, <2>2 DEF User, Matches, Code
  <2>4. "mfa" \notin seen.raced => Factor(new, seen)
    BY <1>5, <1>7, <1>9, <2>2, <2>3 DEF Factor
  <2> QED
    BY <1>5, <1>8, <2>2, <2>3, <2>4, FactorUpdateInv
<1> QED
  BY <1>1, <1>2, <1>3, <1>4, <1>10, <1>11, <1>12, <1>13 DEF SecondFactor

-----------------------------------------------------------------------------
\* Steps without a request, and the specification.

\* The account is locked, unlocked, or changed by an administrator.
LEMMA FlagsInv ==
  ASSUME Inv, row # None, NEW active \in BOOLEAN, NEW locked \in BOOLEAN, NEW revived \in BOOLEAN,
         row' = [row EXCEPT !.active = active, !.locked = locked],
         seen' = [seen EXCEPT !.revived = revived],
         calls' \in {calls, calls + 1}, calls' <= MaxCalls, UNCHANGED <<call, pending>>
  PROVE  Inv'
<1>1. row \in User /\ seen \in Seen /\ Matches(row)
  BY DEF Inv, Types, SessionInv
<1>2. /\ row' \in User /\ row' # None /\ row'.pw = row.pw /\ row'.refresh = row.refresh
      /\ row'.failed = row.failed /\ row'.totp = row.totp /\ row'.secret = row.secret
      /\ row'.codes = row.codes
  <2>1. PICK new : new = [row EXCEPT !.active = active, !.locked = locked]
    OBVIOUS
  <2>2. new \in User
    BY <1>1, <2>1 DEF User
  <2>3. /\ new.pw = row.pw /\ new.refresh = row.refresh /\ new.failed = row.failed
        /\ new.totp = row.totp /\ new.secret = row.secret /\ new.codes = row.codes
    BY <1>1, <2>1 DEF User
  <2>4. row' = new
    BY <2>1
  <2> QED
    BY <2>2, <2>3, <2>4, NoAccountAssumption
<1>3. /\ seen' \in Seen /\ seen'.raced = seen.raced /\ seen'.wrong = seen.wrong
      /\ seen'.used = seen.used /\ seen'.confirmed = seen.confirmed
  BY <1>1 DEF Seen
<1>4. calls' \in 0..MaxCalls /\ calls <= calls'
  BY AccountsAssumption DEF Inv, Types
<1>5. \A h \in Handlers : ~At(h, "idle") => N(h) <= calls'
  BY <1>4, CallType, AccountsAssumption DEF Inv, Types
<1>6. Types'
  BY <1>2, <1>3, <1>4, <1>5 DEF Inv, Types, At, N
<1>7. SessionInv'
  BY <1>1, <1>2 DEF Inv, SessionInv, At, Snap, Matches, Current
<1>8. LockInv'
  BY <1>2, <1>3, <1>1, NoAccountAssumption DEF Inv, LockInv
<1>9. FactorInv'
  <2>1. \A code : Known(code)' => Known(code)
    BY <1>1, <1>2, <1>3, NoAccountAssumption DEF Known, At, Snap
  <2>2. \A code \in Code : code[1] \in Nat
    BY AccountsAssumption DEF Code, Id
  <2>3. \A code \in Code : Known(code)' => code[1] <= calls'
    BY <1>4, <2>1, <2>2, AccountsAssumption DEF Inv, Types, FactorInv
  <2> QED
    BY <1>1, <1>2, <1>3, <2>1, <2>3, NoAccountAssumption DEF Inv, FactorInv, Factor, At, N
<1> QED
  BY <1>6, <1>7, <1>8, <1>9 DEF Inv

LEMMA AdminInv ==
  ASSUME Inv, (\E active \in BOOLEAN : AdminUpdate(active)) \/ Unlock
  PROVE  Inv'
<1>1. row \in User \union {None} /\ seen \in Seen /\ calls \in 0..MaxCalls
  BY DEF Inv, Types
<1>2. ASSUME NEW active \in BOOLEAN, AdminUpdate(active) PROVE Inv'
  <2>1. row \in User /\ row # None /\ row.locked \in BOOLEAN
    BY <1>1, <1>2 DEF AdminUpdate, User
  <2>2. PICK revived \in BOOLEAN : revived = (seen.revived \/ (active /\ row.deleted))
    OBVIOUS
  <2>3. row' = [row EXCEPT !.active = active, !.locked = row.locked]
    BY <1>2, <2>1 DEF AdminUpdate, User
  <2>4. seen' = [seen EXCEPT !.revived = revived]
    BY <1>2, <2>2 DEF AdminUpdate
  <2>5. calls' = calls + 1 /\ calls' <= MaxCalls /\ UNCHANGED <<call, pending>>
    BY <1>1, <1>2, AccountsAssumption DEF AdminUpdate
  <2> QED
    BY <2>1, <2>3, <2>4, <2>5, FlagsInv
<1>3. CASE Unlock
  <2>1. row \in User /\ row # None /\ row.active \in BOOLEAN /\ seen.revived \in BOOLEAN
    BY <1>1, <1>3 DEF Unlock, User, Seen
  <2>2. row' = [row EXCEPT !.active = row.active, !.locked = FALSE]
    BY <1>3, <2>1 DEF Unlock, User
  <2>3. seen' = [seen EXCEPT !.revived = seen.revived]
    BY <1>1, <1>3 DEF Unlock, Seen
  <2>4. calls' = calls /\ calls' <= MaxCalls /\ UNCHANGED <<call, pending>>
    BY <1>1, <1>3, AccountsAssumption DEF Unlock
  <2> QED
    BY <2>1, <2>2, <2>3, <2>4, FlagsInv
<1> QED
  BY <1>2, <1>3

LEMMA InitInv == Init => Inv
<1> SUFFICES ASSUME Init PROVE Inv
  OBVIOUS
<1>1. 0 \in Id /\ Codes(0) \in SUBSET (Id \X (1..BackupCodes)) /\ \A code \in Codes(0) : code[1] = 0
  BY AccountsAssumption DEF Id, Codes
<1>2. PICK u : u = Verified(NewUser(0))
  OBVIOUS
<1>3. u \in User /\ Matches(u) /\ u.failed = 0 /\ u.totp = FALSE /\ u.codes = {} /\ u # None
  BY <1>1, <1>2, NewUserSound, NoAccountAssumption
<1>4. PICK v : v = [u EXCEPT !.totp = TRUE, !.secret = 0, !.codes = Codes(0)]
  OBVIOUS
<1>5. /\ v \in User /\ Matches(v) /\ v.failed = 0 /\ v.totp = TRUE /\ v.secret = 0
      /\ v.codes = Codes(0) /\ v # None
  <2>1. PICK codes \in SUBSET (Id \X (1..BackupCodes)) : codes = Codes(0)
    BY <1>1
  <2>2. v = [u EXCEPT !.totp = TRUE, !.secret = 0, !.codes = codes]
    BY <1>4, <2>1
  <2>3. v \in User
    BY <1>1, <1>3, <2>2, TRUE \in BOOLEAN DEF User
  <2>4. /\ v.failed = u.failed /\ v.totp = TRUE /\ v.secret = 0 /\ v.codes = codes
        /\ v.pw = u.pw /\ v.refresh = u.refresh
    BY <1>3, <2>2 DEF User
  <2> QED
    BY <1>3, <2>1, <2>3, <2>4, NoAccountAssumption DEF Matches
<1>6. row \in {None, u, v} /\ calls = 0 /\ pending = {} /\ call = [h \in Handlers |-> Idle]
  BY <1>2, <1>4 DEF Init
<1>7. \A h \in Handlers : At(h, "idle")
  BY <1>6 DEF At, Idle
<1>8. /\ seen \in Seen /\ seen.wrong = 0 /\ seen.used = {}
      /\ row = v => seen.confirmed = 0
  <2>1. seen.wrong = 0 /\ seen.used = {} /\ (row = v => seen.confirmed = 0)
    BY <1>5 DEF Init
  <2> QED
    BY <1>1, <2>1 DEF Init, Seen
<1>9. Types
  BY <1>3, <1>5, <1>6, <1>7, <1>8, AccountsAssumption DEF Types
<1>10. SessionInv
  BY <1>3, <1>5, <1>6, <1>7 DEF SessionInv
<1>11. LockInv
  BY <1>3, <1>5, <1>6, <1>8 DEF LockInv
<1>12. FactorInv
  <2>1. row # None => Factor(row, seen)
    BY <1>3, <1>5, <1>6, <1>8, AccountsAssumption DEF Factor
  <2>2. \A code \in Code : Known(code) => code[1] <= calls
    BY <1>1, <1>3, <1>5, <1>6, <1>7, <1>8 DEF Known
  <2> QED
    BY <1>7, <2>1, <2>2 DEF FactorInv, At
<1> QED
  BY <1>9, <1>10, <1>11, <1>12 DEF Inv

LEMMA NextInv == Inv /\ [Next]_vars => Inv'
<1> SUFFICES ASSUME Inv, [Next]_vars PROVE Inv'
  OBVIOUS
<1>1. CASE UNCHANGED vars
  BY <1>1 DEF vars, Inv, Types, SessionInv, LockInv, FactorInv, Known, Factor, At, N, Snap,
              Matches, Current
<1> QED
  BY <1>1, EmailInv, SignInInv, SessionsInv, ManageInv, SecondFactorInv, AdminInv DEF Next

LEMMA AccountsInductive == Spec => []Inv
  BY InitInv, NextInv, PTL DEF Spec

\* The type invariant of the account, its requests and its pending sign-ins.
THEOREM AccountsTypeCorrect == Spec => []TypeOK
<1>1. Inv => TypeOK
  <2> SUFFICES ASSUME Inv PROVE TypeOK
    OBVIOUS
  <2>1. \A h \in Handlers : ~At(h, "idle") =>
          /\ call[h].op \in DOMAIN Basis /\ N(h) \in 1..calls
          /\ Snap(h) \in User \union {None} /\ call[h].missed \subseteq Groups
    BY CallType, AccountsAssumption DEF Inv, Types, Call, N, Snap
  <2> QED
    BY <2>1 DEF TypeOK, Inv, Types, Pend, Seen
<1> QED
  BY <1>1, AccountsInductive, PTL

\* The stored session was signed in for with the account's password, unless
\* the password changed while the sign-in ran.
THEOREM SessionsMatchPassword == Spec => []SessionMatchesPassword
<1>1. Inv => SessionMatchesPassword
  BY DEF Inv, SessionInv, Matches, SessionMatchesPassword
<1> QED
  BY <1>1, AccountsInductive, PTL

\* The counter of failed logins counts them, unless attempts overlapped.
THEOREM FailedLoginsAreCounted == Spec => []FailuresCounted
<1>1. Inv => FailuresCounted
  BY DEF Inv, LockInv, FailuresCounted
<1> QED
  BY <1>1, AccountsInductive, PTL

\* The second factor has the confirmed secret and no used backup code, unless
\* updates of it overlapped.
THEOREM SecondFactorIsSound == Spec => []SecondFactorSound
<1>1. Inv => SecondFactorSound
  BY DEF Inv, FactorInv, Factor, SecondFactorSound
<1> QED
  BY <1>1, AccountsInductive, PTL

-----------------------------------------------------------------------------
\* Deleted accounts.

\* A deleted row, as the deletion left it or as a late request wrote it.
Erased(u, raced) ==
  /\ u.refresh # None => u.refresh.late
  /\ "mfa" \notin raced => ~u.totp /\ u.secret = None /\ u.codes = {}
  /\ "email" \notin raced => u.vtok = None

\* A request that has not missed a deletion has read the account as deleted,
\* and then it is none that needs the address or an active account.
Told(c, u, revived) ==
  /\ c.op \in {"login", "clear", "resend", "forgot"} => ~c.snap.deleted
  /\ c.op = "oauth" /\ c.snap # None => ~c.snap.deleted
  /\ c.op = "store" /\ c.snap.deleted => "password" \in c.missed
  /\ c.op \in {"logout", "setup", "enable", "disable", "regenerate", "delete"} => c.snap.active
  /\ c.op \in {"login", "clear"} => c.snap.pw # None
  /\ c.op \in {"code", "session"} /\ c.snap.deleted => c.arg.pending.pw # c.snap.pw
  /\ ~revived /\ c.snap # None /\ c.snap.deleted =>
       ~c.snap.active /\ (c.op = "refresh" => c.snap.refresh.late)
  /\ c.snap # None /\ "password" \notin c.missed => (c.snap.deleted <=> u.deleted)

\* A password that a sign-in has been checked with and may still use.
InUse(pw) ==
  \/ \E p \in pending : pw = p.pw
  \/ \E h \in Handlers :
       \/ (At(h, "login") \/ At(h, "clear")) /\ pw = Snap(h).pw
       \/ At(h, "pending") /\ pw = call[h].arg.pw
       \/ (At(h, "code") \/ At(h, "session")) /\ pw = call[h].arg.pending.pw

\* Passwords are set once: the one that a reset gives to a deleted account is
\* none that a sign-in has been checked with.
PasswordsInv ==
  /\ \A pw \in Id \union {None} : InUse(pw) => pw # None /\ pw <= calls
  /\ row # None /\ row.pw # None => row.pw <= calls
  /\ \A h \in Handlers : ~At(h, "idle") => ~InUse(N(h)) /\ (row # None => row.pw # N(h))
  /\ row # None /\ row.deleted => ~InUse(row.pw)

ErasureInv ==
  /\ \A h \in Handlers : ~At(h, "idle") => Told(call[h], row, seen.revived)
  /\ PasswordsInv
  /\ row # None /\ row.deleted /\ ~seen.revived => ~row.active /\ Erased(row, seen.raced)
LEMMA PasswordInBasis == \A op \in DOMAIN Basis \ {"register"} : "password" \in Basis[op]
<1>1. /\ "password" \in Basis["login"] /\ "password" \in Basis["clear"] /\ "password" \in Basis["store"]
      /\ "password" \in Basis["pending"] /\ "password" \in Basis["code"] /\ "password" \in Basis["session"]
      /\ "password" \in Basis["refresh"] /\ "password" \in Basis["verify"] /\ "password" \in Basis["resend"]
  BY DEF Basis
<1>2. /\ "password" \in Basis["forgot"] /\ "password" \in Basis["reset"] /\ "password" \in Basis["oauth"]
      /\ "password" \in Basis["logout"] /\ "password" \in Basis["setup"] /\ "password" \in Basis["enable"]
      /\ "password" \in Basis["disable"] /\ "password" \in Basis["regenerate"] /\ "password" \in Basis["delete"]
  BY DEF Basis
<1> QED
  BY <1>1, <1>2, OpNames

LEMMA InUseIsPassword ==
  ASSUME Types, NEW pw, InUse(pw)
  PROVE  pw \in Id \union {None}
<1>1. CASE \E p \in pending : pw = p.pw
  BY <1>1 DEF Types, Pend
<1>2. CASE \E h \in Handlers :
       \/ (At(h, "login") \/ At(h, "clear")) /\ pw = Snap(h).pw
       \/ At(h, "pending") /\ pw = call[h].arg.pw
       \/ (At(h, "code") \/ At(h, "session")) /\ pw = call[h].arg.pending.pw
  <2>1. PICK h \in Handlers :
          \/ (At(h, "login") \/ At(h, "clear")) /\ pw = Snap(h).pw
          \/ At(h, "pending") /\ pw = call[h].arg.pw
          \/ (At(h, "code") \/ At(h, "session")) /\ pw = call[h].arg.pending.pw
    BY <1>2
  <2>2. ~At(h, "idle")
    BY <2>1 DEF At
  <2>3. Checked(call[h]) /\ Snap(h) \in User \union {None}
    BY <2>2, CallType
  <2>4. CASE At(h, "login") \/ At(h, "clear")
    BY <2>1, <2>3, <2>4 DEF At, Checked, Snap, User
  <2>5. CASE At(h, "pending")
    BY <2>1, <2>3, <2>5 DEF At, Checked, Pend
  <2>6. CASE At(h, "code") \/ At(h, "session")
    BY <2>1, <2>3, <2>6 DEF At, Checked, Answer, Pend
  <2> QED
    BY <2>1, <2>4, <2>5, <2>6
<1> QED
  BY <1>1, <1>2 DEF InUse

LEMMA BeginErasure ==
  ASSUME Inv, ErasureInv, NEW h \in Handlers, NEW op \in DOMAIN Basis \ {"code", "session", "clear"},
         NEW arg, Begin(h, op, arg), op = "pending" => arg \in pending, op = "login" => row # None,
         Told([op |-> op, n |-> calls + 1, snap |-> row, arg |-> arg, missed |-> {}], row, seen.revived)
  PROVE  ErasureInv'
<1>1. PICK new : new = [op |-> op, n |-> calls + 1, snap |-> row, arg |-> arg, missed |-> {}]
  OBVIOUS
<1>2. /\ new.op = op /\ new.n = calls + 1 /\ new.snap = row /\ new.arg = arg
      /\ Told(new, row, seen.revived)
  BY <1>1
<1>3. /\ calls' = calls + 1 /\ calls \in Nat /\ calls + 1 \in Id /\ At(h, "idle")
      /\ UNCHANGED <<row, pending, seen>>
      /\ call'[h] = new /\ \A k \in Handlers : k # h => call'[k] = call[k]
  BY <1>1, AccountsAssumption DEF Begin, Inv, Types, Id
<1>4. /\ \A pw \in Id \union {None} : InUse(pw) => pw # None /\ pw <= calls
      /\ row # None /\ row.pw # None => row.pw <= calls
      /\ \A k \in Handlers : ~At(k, "idle") => ~InUse(N(k)) /\ (row # None => row.pw # N(k))
      /\ row # None /\ row.deleted => ~InUse(row.pw)
  BY DEF ErasureInv, PasswordsInv
<1>5. \A k \in Handlers : ~At(k, "idle")' => Told(call[k], row, seen.revived)'
  <2> SUFFICES ASSUME NEW k \in Handlers, ~At(k, "idle")' PROVE Told(call'[k], row, seen.revived)
    BY <1>3 DEF Told
  <2>1. CASE k = h
    BY <1>2, <1>3, <2>1
  <2>2. CASE k # h
    BY <1>3, <2>2 DEF ErasureInv, At
  <2> QED
    BY <2>1, <2>2
<1>6. op = "login" => row # None /\ ~row.deleted /\ row.pw # None
  BY <1>2 DEF Told
<1>7. ASSUME NEW pw, InUse(pw)' PROVE InUse(pw) \/ (op = "login" /\ pw = row.pw)
  <2>1. CASE \E p \in pending : pw = p.pw
    BY <2>1 DEF InUse
  <2>2. CASE \E k \in Handlers :
         \/ (At(k, "login")' \/ At(k, "clear")') /\ pw = Snap(k)'.pw
         \/ At(k, "pending")' /\ pw = call'[k].arg.pw
         \/ (At(k, "code")' \/ At(k, "session")') /\ pw = call'[k].arg.pending.pw
    <3>1. PICK k \in Handlers :
            \/ (At(k, "login")' \/ At(k, "clear")') /\ pw = Snap(k)'.pw
            \/ At(k, "pending")' /\ pw = call'[k].arg.pw
            \/ (At(k, "code")' \/ At(k, "session")') /\ pw = call'[k].arg.pending.pw
      BY <2>2
    <3>2. CASE k = h
      BY <1>2, <1>3, <3>1, <3>2 DEF At, Snap, InUse
    <3>3. CASE k # h
      BY <1>3, <3>1, <3>3 DEF At, Snap, InUse
    <3> QED
      BY <3>2, <3>3
  <2> QED
    BY <1>3, <1>7, <2>1, <2>2 DEF InUse
<1>8. PasswordsInv'
  <2>1. ASSUME NEW pw \in Id \union {None}, InUse(pw)' PROVE pw # None /\ pw <= calls
    BY <1>4, <1>6, <1>7, <2>1
  <2>2. row # None /\ row.pw # None => row.pw \in Nat
    BY AccountsAssumption DEF Inv, Types, User, Id
  <2>3. \A pw \in Id \union {None} : InUse(pw)' => pw # None /\ pw <= calls'
    BY <1>3, <2>1, AccountsAssumption DEF Id
  <2>4. row # None /\ row.pw # None => row.pw <= calls'
    BY <1>3, <1>4, <2>2
  <2>5. ASSUME NEW k \in Handlers, ~At(k, "idle")'
        PROVE  ~InUse(N(k))' /\ (row # None => row.pw # N(k)')
    <3>1. CASE k = h
      <4>1. N(k)' = calls + 1
        BY <1>2, <1>3, <3>1 DEF N
      <4>2. PICK n \in Id : n = calls + 1
        BY <1>3
      <4>3. ~InUse(n)'
        BY <1>3, <2>1, <4>2
      <4>4. row # None => row.pw # n
        BY <1>3, <1>4, <2>2, <4>2, AccountsAssumption DEF Id
      <4> QED
        BY <4>1, <4>2, <4>3, <4>4 DEF InUse
    <3>2. CASE k # h
      <4>1. N(k)' = N(k) /\ ~At(k, "idle")
        BY <1>3, <2>5, <3>2 DEF N, At
      <4>2. PICK n : n = N(k)
        OBVIOUS
      <4>3. ~InUse(n)'
        BY <1>4, <1>6, <1>7, <4>1, <4>2
      <4> QED
        BY <1>4, <4>1, <4>2, <4>3 DEF InUse
    <3> QED
      BY <3>1, <3>2
  <2>6. ASSUME row # None, row.deleted PROVE ~InUse(row.pw)'
    <3>1. PICK pw : pw = row.pw
      OBVIOUS
    <3>2. ~InUse(pw)'
      BY <1>4, <1>6, <1>7, <2>6, <3>1
    <3> QED
      BY <1>3, <3>1, <3>2 DEF InUse
  <2> QED
    BY <1>3, <2>3, <2>4, <2>5, <2>6 DEF PasswordsInv
<1> QED
  BY <1>3, <1>5, <1>8 DEF ErasureInv, Erased

\* A request that ends without an update, or leaves a sign-in to its code.
LEMMA EndErasure ==
  ASSUME Inv, ErasureInv, NEW h \in Handlers, ~At(h, "idle"), call' = [call EXCEPT ![h] = Idle],
         \A p \in pending' : p \in pending \/ InUse(p.pw), UNCHANGED <<row, calls, seen>>
  PROVE  ErasureInv'
<1>1. call'[h] = Idle /\ \A k \in Handlers : k # h => call'[k] = call[k]
  BY DEF Inv, Types
<1>2. \A k \in Handlers : ~At(k, "idle")' => k # h /\ ~At(k, "idle") /\ call'[k] = call[k] /\ N(k)' = N(k)
  BY <1>1 DEF At, Idle, N
<1>3. ASSUME NEW pw, InUse(pw)' PROVE InUse(pw)
  <2>1. CASE \E p \in pending' : pw = p.pw
    BY <2>1 DEF InUse
  <2>2. CASE \E k \in Handlers :
         \/ (At(k, "login")' \/ At(k, "clear")') /\ pw = Snap(k)'.pw
         \/ At(k, "pending")' /\ pw = call'[k].arg.pw
         \/ (At(k, "code")' \/ At(k, "session")') /\ pw = call'[k].arg.pending.pw
    <3>1. PICK k \in Handlers :
            \/ (At(k, "login")' \/ At(k, "clear")') /\ pw = Snap(k)'.pw
            \/ At(k, "pending")' /\ pw = call'[k].arg.pw
            \/ (At(k, "code")' \/ At(k, "session")') /\ pw = call'[k].arg.pending.pw
      BY <2>2
    <3>2. call'[k] = call[k]
      BY <1>1, <3>1 DEF At, Idle
    <3> QED
      BY <3>1, <3>2 DEF At, Snap, InUse
  <2> QED
    BY <1>3, <2>1, <2>2 DEF InUse
<1>4. \A k \in Handlers : ~At(k, "idle")' => Told(call[k], row, seen.revived)'
  BY <1>2 DEF ErasureInv, Told
<1>5. PasswordsInv'
  <2>1. \A pw : ~InUse(pw) => ~InUse(pw)'
    BY <1>3
  <2>2. ASSUME NEW k \in Handlers, ~At(k, "idle")'
        PROVE  ~InUse(N(k))' /\ (row' # None => row'.pw # N(k)')
    <3>1. PICK n : n = N(k)
      OBVIOUS
    <3>2. ~InUse(n)'
      BY <1>2, <2>1, <2>2, <3>1 DEF ErasureInv, PasswordsInv
    <3> QED
      BY <1>2, <2>2, <3>1, <3>2 DEF ErasureInv, PasswordsInv, InUse
  <2>3. ASSUME row # None, row.deleted PROVE ~InUse(row.pw)'
    <3>1. PICK pw : pw = row.pw
      OBVIOUS
    <3>2. ~InUse(pw)'
      BY <2>1, <2>3, <3>1 DEF ErasureInv, PasswordsInv
    <3> QED
      BY <3>1, <3>2 DEF InUse
  <2> QED
    BY <1>3, <2>2, <2>3 DEF ErasureInv, PasswordsInv
<1> QED
  BY <1>4, <1>5 DEF ErasureInv, Erased

\* The request ends with the update, or goes on with what it has read.
GoesOn(h, new, next) ==
  \/ next = Idle
  \/ /\ next.n = N(h) /\ Told(next, new, seen.revived)
     /\ \/ next.op = "clear" /\ At(h, "login") /\ next.snap = Snap(h)
        \/ next.op = "session" /\ At(h, "code") /\ next.arg = call[h].arg
        \/ next.op = "store"

LEMMA EndsHere == \A h \in Handlers : \A new : GoesOn(h, new, Idle)
BY DEF GoesOn

\* What an update leaves of the invariant, when it sets a password only to
\* nothing or to its own number and a row it deletes is erased.
LEMMA PutErasure ==
  ASSUME Inv, ErasureInv, NEW h \in Handlers, ~At(h, "idle"), ~At(h, "pending"),
         NEW new \in User, NEW next, NEW noted, Put(h, new, next, noted),
         pending' \subseteq pending, seen'.revived = seen.revived,
         \/ new.pw = None
         \/ row # None /\ new.pw = row.pw
         \/ new.pw = N(h) /\ next = Idle,
         new.deleted => new.pw = None \/ (row # None /\ row.deleted),
         new.deleted /\ ~seen.revived => ~new.active /\ Erased(new, seen'.raced),
         GoesOn(h, new, next)
  PROVE  ErasureInv'
<1>1. row' = new /\ new # None /\ calls' = calls /\ calls \in Nat
  BY NoAccountAssumption, AccountsAssumption DEF Put, Inv, Types
<1>2. /\ \A pw \in Id \union {None} : InUse(pw) => pw # None /\ pw <= calls
      /\ row # None /\ row.pw # None => row.pw <= calls
      /\ \A k \in Handlers : ~At(k, "idle") => ~InUse(N(k)) /\ (row # None => row.pw # N(k))
      /\ row # None /\ row.deleted => ~InUse(row.pw)
  BY DEF ErasureInv, PasswordsInv
<1>3. ~InUse(None) /\ N(h) # None /\ N(h) <= calls /\ N(h) \in Nat
  BY <1>2, CallType, AccountsAssumption DEF Inv, Id
<1>4. call'[h] = next
  BY DEF Put
<1>5. \A k \in Handlers : k # h /\ At(k, "idle") => call'[k] = Idle
  BY DEF Put
<1>6. ASSUME NEW k \in Handlers, k # h, ~At(k, "idle")
      PROVE  /\ call'[k].op = call[k].op /\ N(k)' = N(k) /\ call'[k].snap = call[k].snap
             /\ call'[k].arg = call[k].arg
             /\ call'[k].missed = call[k].missed \union Changed(new)
  <2>1. call[k] \in Call
    BY <1>6, CallType DEF Inv
  <2>2. call'[k] = [call[k] EXCEPT !.missed = @ \union Changed(new)]
    BY <1>6 DEF Put
  <2> QED
    BY <2>1, <2>2 DEF Call, N
<1>7. \A k \in Handlers : k # h /\ ~At(k, "idle")' => ~At(k, "idle")
  BY <1>5 DEF At, Idle
<1>8. ASSUME NEW pw, InUse(pw)' PROVE InUse(pw)
  <2>1. CASE \E p \in pending' : pw = p.pw
    BY <2>1 DEF InUse
  <2>2. CASE \E k \in Handlers :
         \/ (At(k, "login")' \/ At(k, "clear")') /\ pw = Snap(k)'.pw
         \/ At(k, "pending")' /\ pw = call'[k].arg.pw
         \/ (At(k, "code")' \/ At(k, "session")') /\ pw = call'[k].arg.pending.pw
    <3>1. PICK k \in Handlers :
            \/ (At(k, "login")' \/ At(k, "clear")') /\ pw = Snap(k)'.pw
            \/ At(k, "pending")' /\ pw = call'[k].arg.pw
            \/ (At(k, "code")' \/ At(k, "session")') /\ pw = call'[k].arg.pending.pw
      BY <2>2
    <3>2. CASE k = h
      BY <1>4, <3>1, <3>2 DEF At, Snap, InUse, Idle, GoesOn
    <3>3. CASE k # h
      <4>1. ~At(k, "idle")
        BY <1>7, <3>1, <3>3 DEF At
      <4> QED
        BY <1>6, <3>1, <3>3, <4>1 DEF At, Snap, InUse
    <3> QED
      BY <3>2, <3>3
  <2> QED
    BY <1>8, <2>1, <2>2 DEF InUse
<1>9. ASSUME NEW k \in Handlers, ~At(k, "idle")' PROVE Told(call[k], row, seen.revived)'
  <2>1. CASE k = h
    BY <1>1, <1>4, <1>9, <2>1 DEF Told, At, Idle, GoesOn
  <2>2. CASE k # h
    <3>1. ~At(k, "idle") /\ Told(call[k], row, seen.revived)
      BY <1>7, <1>9, <2>2 DEF ErasureInv
    <3>2. Snap(k) # None /\ "password" \notin Changed(new) => new.deleted = row.deleted
      <4>1. Snap(k) # None => row \in User
        BY <3>1, CallType DEF Inv, Types
      <4> QED
        BY <4>1, ChangedGroups
    <3>3. call'[k].snap # None /\ "password" \notin call'[k].missed => (call'[k].snap.deleted <=> new.deleted)
      BY <1>6, <2>2, <3>1, <3>2 DEF Told, Snap
    <3> QED
      BY <1>1, <1>6, <2>2, <3>1, <3>3 DEF Told
  <2> QED
    BY <2>1, <2>2
<1>10. PasswordsInv'
  <2>1. \A pw : ~InUse(pw) => ~InUse(pw)'
    BY <1>8
  <2>2. ASSUME NEW k \in Handlers, ~At(k, "idle")'
        PROVE  ~InUse(N(k))' /\ new.pw # N(k)'
    <3>1. N(k)' = N(k) /\ ~At(k, "idle") /\ (new.pw = N(h) => k # h \/ (row # None /\ new.pw = row.pw))
      <4>1. CASE k = h
        BY <1>3, <1>4, <2>2, <4>1 DEF N, At, Idle, GoesOn
      <4>2. CASE k # h
        BY <1>6, <1>7, <2>2, <4>2
      <4> QED
        BY <4>1, <4>2
    <3>2. PICK n : n = N(k)
      OBVIOUS
    <3>3. ~InUse(n)' /\ n # None
      BY <1>2, <2>1, <3>1, <3>2, CallType, AccountsAssumption DEF Inv, Id
    <3>4. k # h => n # N(h)
      BY <3>1, <3>2 DEF Inv, FactorInv
    <3>5. row # None => row.pw # n
      BY <1>2, <3>1, <3>2
    <3> QED
      BY <3>1, <3>2, <3>3, <3>4, <3>5 DEF InUse
  <2>3. ASSUME new.deleted PROVE ~InUse(new.pw)'
    <3>1. PICK pw : pw = new.pw
      OBVIOUS
    <3>2. ~InUse(pw)'
      BY <1>2, <1>3, <2>1, <2>3, <3>1
    <3> QED
      BY <3>1, <3>2 DEF InUse
  <2>4. new.pw # None => new.pw <= calls
    BY <1>2, <1>3
  <2> QED
    BY <1>1, <1>2, <1>8, <2>2, <2>3, <2>4 DEF PasswordsInv
<1> QED
  BY <1>1, <1>9, <1>10 DEF ErasureInv, Erased

\* What the history notes of an update.
LEMMA RacedGroups ==
  ASSUME Inv, NEW h \in Handlers, ~At(h, "idle"), NEW new, NEW next, NEW noted \in Seen, Put(h, new, next, noted),
         noted.raced = seen.raced, noted.revived = seen.revived
  PROVE  /\ seen'.revived = seen.revived /\ seen.raced \subseteq seen'.raced
         /\ Misses(h) => Writes[call[h].op] \subseteq seen'.raced
<1>1. PICK raced : raced = seen.raced \union IF Misses(h) THEN Writes[call[h].op] ELSE {}
  OBVIOUS
<1>2. seen' = [noted EXCEPT !.raced = raced]
  BY <1>1 DEF Put, Misses
<1>3. seen'.raced = raced /\ seen'.revived = noted.revived
  BY <1>2 DEF Seen
<1> QED
  BY <1>1, <1>3

\* A late request knows what it missed.
LEMMA LateRequest ==
  ASSUME Inv, ErasureInv, NEW h \in Handlers, ~At(h, "idle"), ~At(h, "register"), Snap(h) # None, row.deleted,
         ~seen.revived
  PROVE  /\ ~row.active /\ Erased(row, seen.raced) /\ Told(call[h], row, seen.revived)
         /\ "password" \notin call[h].missed => Snap(h).deleted /\ ~Snap(h).active
         /\ "password" \in call[h].missed => Misses(h)
<1>1. row # None /\ Told(call[h], row, seen.revived) /\ call[h] \in Call
  BY Reading, CallType DEF ErasureInv, Inv
<1>2. ~row.active /\ Erased(row, seen.raced)
  BY <1>1 DEF ErasureInv
<1>3. "password" \in Basis[call[h].op]
  BY <1>1, PasswordInBasis DEF Call, At
<1> QED
  BY <1>1, <1>2, <1>3 DEF Told, Misses, Snap

\* An update of no column of Erased, or one that only drops what it holds.
Keeps(h, new) ==
  /\ new.deleted = row.deleted /\ new.active = row.active
  /\ new.refresh \in {row.refresh, None} /\ new.vtok \in {row.vtok, None}
  /\ new.totp = row.totp /\ new.secret = row.secret
  /\ new.codes \subseteq row.codes \/ (Misses(h) /\ At(h, "code"))

LEMMA KeepErasure ==
  ASSUME Inv, ErasureInv, NEW h \in Handlers, ~At(h, "idle"), ~At(h, "pending"), ~At(h, "register"), Snap(h) # None,
         NEW new \in User, NEW next, NEW noted \in Seen, Put(h, new, next, noted),
         noted.raced = seen.raced, noted.revived = seen.revived, pending' \subseteq pending,
         new.pw = row.pw \/ (new.pw = N(h) /\ next = Idle),
         Keeps(h, new), GoesOn(h, new, next)
  PROVE  ErasureInv'
<1>1. row \in User /\ row # None
  BY Reading
<1>2. seen'.revived = seen.revived /\ seen.raced \subseteq seen'.raced
      /\ (Misses(h) => Writes[call[h].op] \subseteq seen'.raced)
  BY RacedGroups
<1>3. At(h, "code") => "mfa" \in Writes[call[h].op]
  BY DEF At, Writes
<1>4. ASSUME new.deleted, ~seen.revived PROVE ~new.active /\ Erased(new, seen'.raced)
  <2>1. ~row.active /\ Erased(row, seen.raced)
    BY <1>4, LateRequest DEF Keeps
  <2> QED
    BY <1>2, <1>3, <2>1 DEF Erased, Keeps
<1>5. new.deleted => row.deleted
  BY DEF Keeps
<1> QED
  BY <1>1, <1>2, <1>4, <1>5, PutErasure

\* The token that a request stores in a deleted row is late.
LEMMA StoreErasure ==
  ASSUME Inv, ErasureInv, NEW h \in Handlers, ~At(h, "idle"), ~At(h, "pending"), ~At(h, "register"),
         Snap(h) # None, NEW pw \in Id \union {None}, NEW late \in BOOLEAN, StoreToken(h, pw, late),
         row.deleted /\ ~seen.revived => late \/ "password" \in call[h].missed, pending' \subseteq pending
  PROVE  ErasureInv'
<1>1. PICK token : token = [id |-> N(h), pw |-> pw, late |-> late \/ "password" \in call[h].missed]
  OBVIOUS
<1>2. row \in User /\ row # None /\ seen \in Seen /\ N(h) \in Id
  BY Reading
<1>3. token \in Token /\ token.late = (late \/ "password" \in call[h].missed)
  BY <1>1, <1>2 DEF Token
<1>4. PICK new : new = [row EXCEPT !.refresh = token]
  OBVIOUS
<1>5. /\ new \in User /\ new.pw = row.pw /\ new.deleted = row.deleted /\ new.active = row.active
      /\ new.refresh = token /\ new.vtok = row.vtok
      /\ new.totp = row.totp /\ new.secret = row.secret /\ new.codes = row.codes
  BY <1>2, <1>3, <1>4 DEF User
<1>6. PICK noted : noted = [seen EXCEPT !.tokens = @ + 1]
  OBVIOUS
<1>7. noted \in Seen /\ noted.raced = seen.raced /\ noted.revived = seen.revived
  BY <1>2, <1>6 DEF Seen
<1>8. Put(h, new, Idle, noted)
  BY <1>1, <1>4, <1>6 DEF StoreToken
<1>9. seen'.revived = seen.revived /\ seen.raced \subseteq seen'.raced
  BY <1>7, <1>8, RacedGroups
<1>10. ASSUME new.deleted, ~seen.revived PROVE ~new.active /\ Erased(new, seen'.raced)
  <2>1. ~row.active /\ Erased(row, seen.raced)
    BY <1>5, <1>10, LateRequest
  <2> QED
    BY <1>3, <1>5, <1>9, <1>10, <2>1 DEF Erased
<1> QED
  BY <1>2, <1>5, <1>8, <1>9, <1>10, EndsHere, PutErasure

LEMMA EmailErasure ==
  ASSUME Inv, ErasureInv, NEW h \in Handlers, Email(h)
  PROVE  ErasureInv'
<1>0. row # None /\ row.deleted /\ ~seen.revived => ~row.active
  BY DEF ErasureInv
<1>1. CASE RegisterRequest(h)
  BY <1>1, BeginErasure, OpNames DEF RegisterRequest, Told
<1>2. CASE VerifyRequest(h)
  BY <1>0, <1>2, BeginErasure, OpNames DEF VerifyRequest, Told
<1>3. CASE ResendRequest(h)
  BY <1>0, <1>3, BeginErasure, OpNames DEF ResendRequest, Told, Addressed
<1>4. CASE Register(h) /\ row # None
  BY <1>4, EndErasure DEF Register, At
<1>5. CASE Register(h) /\ row = None
  <2>0. ~At(h, "idle") /\ ~At(h, "pending")
    BY <1>5 DEF Register, At
  <2>1. PICK new : new = NewUser(N(h))
    OBVIOUS
  <2>2. N(h) \in Id /\ seen \in Seen
    BY <2>0, CallType DEF Inv, Types
  <2>3. new \in User /\ new.pw = N(h) /\ new.deleted = FALSE
    BY <2>1, <2>2, NewUserSound DEF NewUser
  <2>4. Put(h, new, Idle, seen) /\ pending' = pending
    BY <1>5, <2>1 DEF Register, Update
  <2>5. seen'.revived = seen.revived
    BY <2>0, <2>2, <2>4, RacedGroups
  <2> QED
    BY <2>0, <2>3, <2>4, <2>5, EndsHere, PutErasure
<1>6. CASE VerifyEmail(h)
  <2>1. ~At(h, "idle") /\ ~At(h, "pending") /\ ~At(h, "register") /\ Snap(h) # None
    BY <1>6, CallType DEF VerifyEmail, At, Inv, Checked, Snap
  <2>2. PICK new : new = IF Snap(h).verified THEN row ELSE Verified(row)
    OBVIOUS
  <2>3. row \in User /\ seen \in Seen
    BY <2>1, Reading
  <2>4. /\ new \in User /\ new.pw = row.pw /\ new.deleted = row.deleted /\ new.active = row.active
        /\ new.refresh = row.refresh /\ (new.vtok = row.vtok \/ new.vtok = None)
        /\ new.totp = row.totp /\ new.secret = row.secret /\ new.codes = row.codes
    BY <2>2, <2>3 DEF Verified, User
  <2>5. Put(h, new, Idle, seen) /\ pending' = pending
    BY <1>6, <2>2 DEF VerifyEmail, Update
  <2>6. Keeps(h, new) /\ GoesOn(h, new, Idle)
    BY <2>4, EndsHere DEF Keeps
  <2> QED
    BY <2>1, <2>3, <2>4, <2>5, <2>6, KeepErasure
<1>7. CASE ResendVerification(h)
  <2>1. ~At(h, "idle") /\ ~At(h, "pending") /\ ~At(h, "register") /\ Snap(h) # None /\ call[h].op = "resend"
    BY <1>7, CallType DEF ResendVerification, At, Inv, Checked, Snap
  <2>2. PICK new : new = [row EXCEPT !.vtok = N(h)]
    OBVIOUS
  <2>3. row \in User /\ row # None /\ seen \in Seen /\ N(h) \in Id
    BY <2>1, Reading
  <2>4. /\ new \in User /\ new.pw = row.pw /\ new.deleted = row.deleted /\ new.active = row.active
        /\ new.refresh = row.refresh
        /\ new.totp = row.totp /\ new.secret = row.secret /\ new.codes = row.codes
    BY <2>2, <2>3 DEF User
  <2>5. Put(h, new, Idle, seen) /\ pending' = pending
    BY <1>7, <2>2 DEF ResendVerification, Update
  <2>6. /\ seen'.revived = seen.revived /\ seen.raced \subseteq seen'.raced
        /\ Misses(h) => Writes[call[h].op] \subseteq seen'.raced
    BY <2>1, <2>3, <2>5, RacedGroups
  <2>7. ASSUME new.deleted, ~seen.revived PROVE ~new.active /\ Erased(new, seen'.raced)
    <3>1. ~row.active /\ Erased(row, seen.raced) /\ Misses(h)
      BY <2>1, <2>4, <2>7, LateRequest DEF Told, Snap
    <3>2. "email" \in Writes["resend"]
      BY DEF Writes
    <3> QED
      BY <2>1, <2>4, <2>6, <3>1, <3>2 DEF Erased
  <2> QED
    BY <2>1, <2>3, <2>4, <2>5, <2>6, <2>7, EndsHere, PutErasure
<1> QED
  BY <1>1, <1>2, <1>3, <1>4, <1>5, <1>6, <1>7 DEF Email

LEMMA PasswordErasure ==
  ASSUME Inv, ErasureInv, NEW h \in Handlers, WrongPassword(h) \/ RightPassword(h)
  PROVE  ErasureInv'
<1>1. At(h, "login") /\ ~At(h, "idle") /\ ~At(h, "pending") /\ ~At(h, "register") /\ Snap(h) # None
      /\ call[h] \in Call
  BY HasRead, OpNames DEF WrongPassword, RightPassword, At
<1>2. row \in User /\ row # None /\ Snap(h) \in User /\ seen \in Seen
  BY <1>1, Reading
<1>3. ASSUME NEW failed \in 0..(MaxFailedLogins - 1), NEW locked \in BOOLEAN, NEW new,
             new = [row EXCEPT !.failed = failed, !.locked = locked]
      PROVE  new \in User /\ new.pw = row.pw /\ Keeps(h, new)
  <2>1. /\ new \in User /\ new.pw = row.pw /\ new.deleted = row.deleted /\ new.active = row.active
        /\ new.refresh = row.refresh /\ new.vtok = row.vtok
        /\ new.totp = row.totp /\ new.secret = row.secret /\ new.codes = row.codes
    BY <1>2, <1>3 DEF User
  <2> QED
    BY <2>1 DEF Keeps
<1>4. ASSUME NEW wrong \in Nat, NEW noted, noted = [seen EXCEPT !.wrong = wrong]
      PROVE  noted \in Seen /\ noted.raced = seen.raced /\ noted.revived = seen.revived
  BY <1>2, <1>4 DEF Seen
<1>5. CASE WrongPassword(h)
  <2> DEFINE sum == Snap(h).failed + 1
             lock == sum >= MaxFailedLogins
             failed == IF lock THEN 0 ELSE sum
             locked == row.locked \/ lock
             wrong == IF lock THEN 0 ELSE seen.wrong + 1
             new == [row EXCEPT !.failed = failed, !.locked = locked]
             noted == [seen EXCEPT !.wrong = wrong]
  <2>1. failed \in 0..(MaxFailedLogins - 1) /\ locked \in BOOLEAN /\ wrong \in Nat
    <3>1. sum \in Nat /\ seen.wrong \in Nat
      BY <1>2 DEF User, Seen
    <3>2. failed \in 0..(MaxFailedLogins - 1)
      BY <3>1, AccountsAssumption
    <3>3. locked \in BOOLEAN
      OBVIOUS
    <3>4. wrong \in Nat
      BY <3>1
    <3> QED
      BY <3>2, <3>3, <3>4
  <2>2. Put(h, new, Idle, noted) /\ pending' = pending
    BY <1>5 DEF WrongPassword
  <2> HIDE DEF failed, locked, wrong
  <2>3. new \in User /\ new.pw = row.pw /\ Keeps(h, new)
    <3>1. PICK u : u = new
      OBVIOUS
    <3>2. u \in User /\ u.pw = row.pw /\ Keeps(h, u)
      BY <1>3, <2>1, <3>1
    <3> QED
      BY <3>1, <3>2, Zenon
  <2>4. noted \in Seen /\ noted.raced = seen.raced /\ noted.revived = seen.revived
    BY <1>4, <2>1
  <2> HIDE DEF new, noted
  <2> QED
    BY <1>1, <1>2, <2>2, <2>3, <2>4, EndsHere, KeepErasure
<1>6. CASE RightPassword(h)
  <2>1. PICK new : new = [row EXCEPT !.failed = 0, !.locked = FALSE]
    OBVIOUS
  <2>2. PICK noted : noted = [seen EXCEPT !.wrong = 0]
    OBVIOUS
  <2>3. PICK next : next = Then(h, "clear")
    OBVIOUS
  <2>4. Put(h, new, next, noted) /\ pending' = pending
    BY <1>6, <2>1, <2>2, <2>3, Zenon DEF RightPassword
  <2>5. new \in User /\ new.pw = row.pw /\ Keeps(h, new)
    <3>1. PICK none \in 0..(MaxFailedLogins - 1) : none = 0
      BY AccountsAssumption
    <3>2. PICK no \in BOOLEAN : no = FALSE
      OBVIOUS
    <3>3. new = [row EXCEPT !.failed = none, !.locked = no]
      BY <2>1, <3>1, <3>2
    <3> QED
      BY <1>3, <3>3
  <2>6. /\ next.op = "clear" /\ next.n = N(h) /\ next.snap = Snap(h) /\ next.missed = call[h].missed
    BY <1>1, <2>3 DEF Then, Call, N, Snap
  <2>7. Told(call[h], row, seen.revived)
    BY <1>1 DEF ErasureInv
  <2>8. GoesOn(h, new, next)
    <3>1. Told(next, new, seen.revived)
      BY <1>1, <2>5, <2>6, <2>7 DEF Told, At, Snap, Keeps
    <3> QED
      BY <1>1, <2>6, <3>1 DEF GoesOn
  <2>9. noted \in Seen /\ noted.raced = seen.raced /\ noted.revived = seen.revived
    BY <1>4, <2>2
  <2> QED
    BY <1>1, <1>2, <2>4, <2>5, <2>8, <2>9, KeepErasure
<1> QED
  BY <1>5, <1>6

LEMMA FinishErasure ==
  ASSUME Inv, ErasureInv, NEW h \in Handlers, FinishLogin(h)
  PROVE  ErasureInv'
<1>1. At(h, "clear") /\ ~At(h, "idle") /\ ~At(h, "pending") /\ ~At(h, "register") /\ Snap(h) # None
  BY HasRead, OpNames DEF FinishLogin, At
<1>2. row \in User /\ Snap(h) \in User /\ Snap(h).pw \in Id \union {None}
  BY <1>1, Reading DEF User
<1>3. CASE Snap(h).totp
  <2>1. PICK p : p = [id |-> N(h), pw |-> Snap(h).pw]
    OBVIOUS
  <2>2. p.pw = Snap(h).pw
    BY <2>1
  <2>3. InUse(p.pw)
    BY <1>1, <2>2 DEF InUse
  <2>4. pending' = pending \union {p} /\ call' = [call EXCEPT ![h] = Idle] /\ UNCHANGED <<row, calls, seen>>
    BY <1>3, <2>1 DEF FinishLogin
  <2> QED
    BY <1>1, <2>3, <2>4, EndErasure
<1>4. CASE ~Snap(h).totp
  <2>1. StoreToken(h, Snap(h).pw, FALSE) /\ pending' = pending
    BY <1>4 DEF FinishLogin
  <2>2. row.deleted /\ ~seen.revived => "password" \in call[h].missed
    BY <1>1, LateRequest DEF Told, At, Snap
  <2> QED
    BY <1>1, <1>2, <2>1, <2>2, StoreErasure
<1> QED
  BY <1>3, <1>4

\* The row is read again: a sign-in to an account deleted since does not have
\* the password that account has.
LEMMA VerifyCodeErasure ==
  ASSUME Inv, ErasureInv, NEW h \in Handlers, NEW code \in Code \union {None}, VerifyCode(h, code)
  PROVE  ErasureInv'
<1>1. ~At(h, "idle") /\ Snap(h) # None /\ call[h].arg \in Pend /\ At(h, "pending")
  BY HasRead, OpNames DEF VerifyCode, At, Checked
<1>2. row \in User /\ row # None /\ N(h) \in Id
  BY <1>1, Reading
<1>3. CASE ~(row.totp /\ row.secret # None)
  BY <1>1, <1>3, EndErasure DEF VerifyCode
<1>4. CASE row.totp /\ row.secret # None
  <2>1. PICK new : new = [op |-> IF code = None THEN "session" ELSE "code", n |-> N(h), snap |-> row,
                          arg |-> [pending |-> call[h].arg, code |-> code], missed |-> {}]
    OBVIOUS
  <2>2. /\ new.op \in {"session", "code"} /\ new.n = N(h) /\ new.snap = row /\ new.missed = {}
        /\ new.arg.pending = call[h].arg
    BY <2>1
  <2>3. call' = [call EXCEPT ![h] = new] /\ UNCHANGED <<row, calls, pending, seen>>
    BY <1>4, <2>1 DEF VerifyCode
  <2>4. call'[h] = new /\ \A k \in Handlers : k # h => call'[k] = call[k]
    BY <2>3 DEF Inv, Types
  <2>5. InUse(call[h].arg.pw)
    BY <1>1 DEF InUse
  <2>6. Told(new, row, seen.revived)
    <3>1. row.deleted => call[h].arg.pw # row.pw
      BY <1>2, <2>5 DEF ErasureInv, PasswordsInv
    <3>2. row.deleted /\ ~seen.revived => ~row.active
      BY <1>2 DEF ErasureInv
    <3> QED
      BY <2>2, <3>1, <3>2 DEF Told
  <2>7. \A k \in Handlers : ~At(k, "idle")' => ~At(k, "idle") /\ N(k)' = N(k) /\ Told(call[k], row, seen.revived)'
    <3> SUFFICES ASSUME NEW k \in Handlers, ~At(k, "idle")'
                 PROVE  ~At(k, "idle") /\ N(k)' = N(k) /\ Told(call'[k], row, seen.revived)
      BY <2>3 DEF Told
    <3>1. CASE k = h
      BY <1>1, <2>2, <2>4, <2>6, <3>1 DEF N
    <3>2. CASE k # h
      BY <2>4, <3>2 DEF N, At, ErasureInv
    <3> QED
      BY <3>1, <3>2
  <2>8. ASSUME NEW pw, InUse(pw)' PROVE InUse(pw)
    <3>1. CASE \E p \in pending' : pw = p.pw
      BY <2>3, <3>1 DEF InUse
    <3>2. CASE \E k \in Handlers :
           \/ (At(k, "login")' \/ At(k, "clear")') /\ pw = Snap(k)'.pw
           \/ At(k, "pending")' /\ pw = call'[k].arg.pw
           \/ (At(k, "code")' \/ At(k, "session")') /\ pw = call'[k].arg.pending.pw
      <4>1. PICK k \in Handlers :
              \/ (At(k, "login")' \/ At(k, "clear")') /\ pw = Snap(k)'.pw
              \/ At(k, "pending")' /\ pw = call'[k].arg.pw
              \/ (At(k, "code")' \/ At(k, "session")') /\ pw = call'[k].arg.pending.pw
        BY <3>2
      <4>2. CASE k = h
        BY <2>2, <2>4, <2>5, <4>1, <4>2 DEF At
      <4>3. CASE k # h
        BY <2>4, <4>1, <4>3 DEF At, Snap, InUse
      <4> QED
        BY <4>2, <4>3
    <3> QED
      BY <2>8, <3>1, <3>2 DEF InUse
  <2>9. \A pw : ~InUse(pw) => ~InUse(pw)'
    BY <2>8
  <2>10. ASSUME NEW k \in Handlers, ~At(k, "idle")'
         PROVE  ~InUse(N(k))' /\ row.pw # N(k)'
    <3>1. PICK n : n = N(k)
      OBVIOUS
    <3>2. ~InUse(n)' /\ row.pw # n /\ N(k)' = n
      BY <1>2, <2>7, <2>9, <2>10, <3>1 DEF ErasureInv, PasswordsInv
    <3> QED
      BY <3>2 DEF InUse
  <2>11. ASSUME row.deleted PROVE ~InUse(row.pw)'
    <3>1. PICK pw : pw = row.pw
      OBVIOUS
    <3>2. ~InUse(pw)'
      BY <1>2, <2>9, <2>11, <3>1 DEF ErasureInv, PasswordsInv
    <3> QED
      BY <2>3, <3>1, <3>2 DEF InUse
  <2>12. PasswordsInv'
    BY <2>3, <2>8, <2>10, <2>11 DEF ErasureInv, PasswordsInv
  <2> QED
    BY <2>3, <2>7, <2>12 DEF ErasureInv, Erased
<1> QED
  BY <1>3, <1>4

LEMMA UseCodeErasure ==
  ASSUME Inv, ErasureInv, NEW h \in Handlers, UseBackupCode(h)
  PROVE  ErasureInv'
<1>1. At(h, "code") /\ ~At(h, "idle") /\ ~At(h, "pending") /\ ~At(h, "register") /\ Snap(h) # None
      /\ call[h] \in Call /\ call[h].arg \in Answer /\ call[h].arg.code \in Snap(h).codes
  BY HasRead, OpNames DEF UseBackupCode, At, Checked, Snap
<1>2. /\ row \in User /\ row # None /\ Snap(h) \in User /\ seen \in Seen /\ Current(call[h], row)
  BY <1>1, Reading
<1>3. PICK code : code = call[h].arg.code
  OBVIOUS
<1>4. PICK new : new = [row EXCEPT !.codes = Snap(h).codes \ {code}]
  OBVIOUS
<1>5. PICK noted : noted = [seen EXCEPT !.used = @ \union {code}]
  OBVIOUS
<1>6. PICK next : next = Then(h, "session")
  OBVIOUS
<1>7. Put(h, new, next, noted) /\ pending' = pending
  BY <1>3, <1>4, <1>5, <1>6, Zenon DEF UseBackupCode
<1>8. /\ new \in User /\ new.pw = row.pw /\ new.deleted = row.deleted /\ new.active = row.active
      /\ new.refresh = row.refresh /\ new.vtok = row.vtok
      /\ new.totp = row.totp /\ new.secret = row.secret /\ new.codes = Snap(h).codes \ {code}
  BY <1>2, <1>4 DEF User
<1>9. noted \in Seen /\ noted.raced = seen.raced /\ noted.revived = seen.revived
  BY <1>1, <1>2, <1>3, <1>5 DEF Seen, User, Code, Answer
<1>10. Misses(h) \/ Snap(h).codes = row.codes
  BY <1>1, <1>2 DEF Misses, Basis, Current, At, Snap
<1>11. Keeps(h, new)
  BY <1>1, <1>8, <1>10 DEF Keeps
<1>12. /\ next.op = "session" /\ next.n = N(h) /\ next.snap = Snap(h) /\ next.missed = call[h].missed
       /\ next.arg = call[h].arg
  BY <1>1, <1>6 DEF Then, Call, N, Snap
<1>13. Told(call[h], row, seen.revived)
  BY <1>1 DEF ErasureInv
<1>14. GoesOn(h, new, next)
  <2>1. Told(next, new, seen.revived)
    BY <1>1, <1>8, <1>12, <1>13 DEF Told, At, Snap
  <2> QED
    BY <1>1, <1>12, <2>1 DEF GoesOn
<1> QED
  BY <1>1, <1>2, <1>7, <1>8, <1>9, <1>11, <1>14, KeepErasure

LEMMA LoginMfaErasure ==
  ASSUME Inv, ErasureInv, NEW h \in Handlers, LoginMfa(h)
  PROVE  ErasureInv'
<1>1. /\ At(h, "session") /\ ~At(h, "idle") /\ ~At(h, "pending") /\ ~At(h, "register") /\ Snap(h) # None
      /\ call[h].arg \in Answer
  BY HasRead, OpNames DEF LoginMfa, At, Checked
<1>2. call[h].arg.pending.pw \in Id \union {None}
  BY <1>1 DEF Answer, Pend
<1>3. row.deleted /\ ~seen.revived =>
        call[h].arg.pending.pw # Snap(h).pw \/ "password" \in call[h].missed
  BY <1>1, LateRequest DEF Told, At, Snap
<1>4. PICK late \in BOOLEAN : late = (call[h].arg.pending.pw # Snap(h).pw)
  OBVIOUS
<1>5. StoreToken(h, call[h].arg.pending.pw, late) /\ pending' \subseteq pending
  BY <1>4 DEF LoginMfa
<1> QED
  BY <1>1, <1>2, <1>3, <1>4, <1>5, StoreErasure

LEMMA OAuthErasure ==
  ASSUME Inv, ErasureInv, NEW h \in Handlers, OAuthUser(h) \/ OAuthToken(h)
  PROVE  ErasureInv'
<1>1. CASE OAuthToken(h)
  <2>1. /\ At(h, "store") /\ ~At(h, "idle") /\ ~At(h, "pending") /\ ~At(h, "register") /\ Snap(h) # None
    BY <1>1, HasRead, OpNames DEF OAuthToken, At
  <2>2. Snap(h).pw \in Id \union {None} /\ row # None
    BY <2>1, Reading DEF User
  <2>3. row.deleted => "password" \in call[h].missed
    BY <2>1, <2>2 DEF ErasureInv, Told, At, Snap
  <2>4. StoreToken(h, Snap(h).pw, FALSE) /\ pending' = pending
    BY <1>1 DEF OAuthToken
  <2> QED
    BY <2>1, <2>2, <2>3, <2>4, StoreErasure
<1>2. CASE OAuthUser(h) /\ Snap(h) = None /\ row # None
  BY <1>2, EndErasure DEF OAuthUser, At
<1>3. CASE OAuthUser(h) /\ ~(Snap(h) = None /\ row # None)
  <2>1. At(h, "oauth") /\ ~At(h, "idle") /\ ~At(h, "pending")
    BY <1>3 DEF OAuthUser, At
  <2>2. call[h] \in Call /\ seen \in Seen
    BY <2>1, CallType DEF Inv, Types
  <2>3. PICK u : u = IF row = None THEN Verified(NewUser(None)) ELSE row
    OBVIOUS
  <2>4. /\ u \in User
        /\ row # None => u = row
        /\ row = None => ~u.deleted /\ u.pw = None
    BY <2>3, NewUserSound DEF Inv, Types, NewUser, Verified
  <2>5. PICK new : new = [u EXCEPT !.oauth = TRUE]
    OBVIOUS
  <2>6. /\ new \in User /\ new.pw = u.pw /\ new.deleted = u.deleted /\ new.active = u.active
        /\ new.refresh = u.refresh /\ new.vtok = u.vtok
        /\ new.totp = u.totp /\ new.secret = u.secret /\ new.codes = u.codes
    BY <2>4, <2>5 DEF User
  <2>7. PICK next : next = [Then(h, "store") EXCEPT !.snap = u]
    OBVIOUS
  <2>8. next.op = "store" /\ next.n = N(h) /\ next.snap = u /\ next.missed = call[h].missed
    BY <2>2, <2>7 DEF Then, Call, N
  <2>9. Put(h, new, next, seen) /\ pending' = pending
    BY <1>3, <2>3, <2>5, <2>7 DEF OAuthUser
  <2>10. seen'.revived = seen.revived /\ seen.raced \subseteq seen'.raced
    BY <2>1, <2>2, <2>9, RacedGroups
  <2>11. u.deleted => "password" \in call[h].missed
    BY <1>3, <2>1, <2>4 DEF ErasureInv, Told, At, Snap
  <2>12. u.deleted /\ ~seen.revived => ~u.active /\ Erased(u, seen.raced)
    BY <2>4 DEF ErasureInv
  <2>13. GoesOn(h, new, next)
    BY <2>4, <2>6, <2>8, <2>11, <2>12 DEF Told, GoesOn
  <2>14. new.deleted /\ ~seen.revived => ~new.active /\ Erased(new, seen'.raced)
    BY <2>6, <2>10, <2>12 DEF Erased
  <2> QED
    BY <2>1, <2>4, <2>6, <2>9, <2>10, <2>13, <2>14, PutErasure
<1> QED
  BY <1>1, <1>2, <1>3

LEMMA SignInErasure ==
  ASSUME Inv, ErasureInv, NEW h \in Handlers, SignIn(h)
  PROVE  ErasureInv'
<1>0. row # None /\ row.deleted /\ ~seen.revived => ~row.active
  BY DEF ErasureInv
<1>1. ASSUME NEW right \in BOOLEAN, LoginRequest(h, right) PROVE ErasureInv'
  BY <1>0, <1>1, BeginErasure, OpNames DEF LoginRequest, Told, Addressed
<1>2. ASSUME NEW p \in pending, MfaRequest(h, p) PROVE ErasureInv'
  BY <1>0, <1>2, BeginErasure, OpNames DEF MfaRequest, Told
<1>3. CASE OAuthRequest(h)
  BY <1>0, <1>3, BeginErasure, OpNames DEF OAuthRequest, Told, Addressed
<1> QED
  BY <1>1, <1>2, <1>3, PasswordErasure, FinishErasure, VerifyCodeErasure, UseCodeErasure, LoginMfaErasure, OAuthErasure
     DEF SignIn, Code

LEMMA SessionErasure ==
  ASSUME Inv, ErasureInv, NEW h \in Handlers, Session(h)
  PROVE  ErasureInv'
<1>0. row # None /\ row.deleted /\ ~seen.revived => ~row.active /\ Erased(row, seen.raced)
  BY DEF ErasureInv
<1>1. ASSUME NEW current \in BOOLEAN, RefreshRequest(h, current) PROVE ErasureInv'
  BY <1>0, <1>1, BeginErasure, OpNames DEF RefreshRequest, Told, Erased
<1>2. CASE LogoutRequest(h)
  BY <1>0, <1>2, BeginErasure, OpNames DEF LogoutRequest, Told, Authenticated
<1>3. CASE Refresh(h) /\ call[h].arg
  <2>1. /\ At(h, "refresh") /\ ~At(h, "idle") /\ ~At(h, "pending") /\ ~At(h, "register")
        /\ Snap(h) # None /\ Snap(h).refresh # None
    BY <1>3, HasRead, OpNames DEF Refresh, At, Checked, Snap
  <2>2. Snap(h).refresh \in Token
    BY <2>1, Reading DEF User
  <2>3. Snap(h).refresh.pw \in Id \union {None} /\ Snap(h).refresh.late \in BOOLEAN
    BY <2>2 DEF Token
  <2>4. row.deleted /\ ~seen.revived => Snap(h).refresh.late \/ "password" \in call[h].missed
    BY <2>1, LateRequest DEF Told, At, Snap
  <2>5. StoreToken(h, Snap(h).refresh.pw, Snap(h).refresh.late) /\ pending' = pending
    BY <1>3 DEF Refresh
  <2> QED
    BY <2>1, <2>3, <2>4, <2>5, StoreErasure
<1>4. CASE (Refresh(h) /\ ~call[h].arg) \/ Logout(h)
  <2>1. ~At(h, "idle") /\ ~At(h, "pending") /\ ~At(h, "register") /\ Snap(h) # None
    BY <1>4, HasRead, OpNames DEF Refresh, Logout, At
  <2>2. PICK new : new = [row EXCEPT !.refresh = None]
    OBVIOUS
  <2>3. row \in User /\ seen \in Seen
    BY <2>1, Reading
  <2>4. /\ new \in User /\ new.pw = row.pw /\ new.deleted = row.deleted /\ new.active = row.active
        /\ new.refresh = None /\ new.vtok = row.vtok
        /\ new.totp = row.totp /\ new.secret = row.secret /\ new.codes = row.codes
    BY <2>2, <2>3 DEF User
  <2>5. Put(h, new, Idle, seen) /\ pending' = pending
    BY <1>4, <2>2 DEF Refresh, Logout, Update
  <2>6. Keeps(h, new)
    BY <2>4 DEF Keeps
  <2> QED
    BY <2>1, <2>3, <2>4, <2>5, <2>6, EndsHere, KeepErasure
<1> QED
  BY <1>1, <1>2, <1>3, <1>4 DEF Session

LEMMA ManageErasure ==
  ASSUME Inv, ErasureInv, NEW h \in Handlers, Manage(h)
  PROVE  ErasureInv'
<1>0. row # None /\ row.deleted /\ ~seen.revived => ~row.active
  BY DEF ErasureInv
<1>1. CASE ForgotRequest(h)
  BY <1>0, <1>1, BeginErasure, OpNames DEF ForgotRequest, Told, Addressed
<1>2. CASE ResetRequest(h)
  BY <1>0, <1>2, BeginErasure, OpNames DEF ResetRequest, Told
<1>3. CASE DeleteRequest(h)
  BY <1>0, <1>3, BeginErasure, OpNames DEF DeleteRequest, Told, Authenticated
<1>4. CASE ForgotPassword(h)
  <2>1. ~At(h, "idle") /\ ~At(h, "pending") /\ ~At(h, "register") /\ Snap(h) # None
    BY <1>4, HasRead, OpNames DEF ForgotPassword, At
  <2>2. PICK new : new = [row EXCEPT !.link = N(h)]
    OBVIOUS
  <2>3. row \in User /\ seen \in Seen /\ N(h) \in Id
    BY <2>1, Reading
  <2>4. /\ new \in User /\ new.pw = row.pw /\ new.deleted = row.deleted /\ new.active = row.active
        /\ new.refresh = row.refresh /\ new.vtok = row.vtok
        /\ new.totp = row.totp /\ new.secret = row.secret /\ new.codes = row.codes
    BY <2>2, <2>3 DEF User
  <2>5. Put(h, new, Idle, seen) /\ pending' = pending
    BY <1>4, <2>2 DEF ForgotPassword, Update
  <2>6. Keeps(h, new)
    BY <2>4 DEF Keeps
  <2> QED
    BY <2>1, <2>3, <2>4, <2>5, <2>6, EndsHere, KeepErasure
<1>5. CASE ResetPassword(h)
  <2>1. ~At(h, "idle") /\ ~At(h, "pending") /\ ~At(h, "register") /\ Snap(h) # None
    BY <1>5, HasRead, OpNames DEF ResetPassword, At
  <2>2. row \in User /\ seen \in Seen /\ N(h) \in Id
    BY <2>1, Reading
  <2>3. PICK none \in 0..(MaxFailedLogins - 1) : none = 0
    BY AccountsAssumption
  <2>4. PICK new : new = [row EXCEPT !.pw = N(h), !.link = None, !.refresh = None, !.failed = none, !.locked = FALSE]
    OBVIOUS
  <2>5. /\ new \in User /\ new.pw = N(h) /\ new.deleted = row.deleted /\ new.active = row.active
        /\ new.refresh = None /\ new.vtok = row.vtok
        /\ new.totp = row.totp /\ new.secret = row.secret /\ new.codes = row.codes
    BY <2>2, <2>4 DEF User
  <2>6. PICK noted : noted = [seen EXCEPT !.wrong = 0]
    OBVIOUS
  <2>7. noted \in Seen /\ noted.raced = seen.raced /\ noted.revived = seen.revived
    BY <2>2, <2>6 DEF Seen
  <2>8. Put(h, new, Idle, noted) /\ pending' = pending
    BY <1>5, <2>3, <2>4, <2>6 DEF ResetPassword
  <2>9. Keeps(h, new)
    BY <2>5 DEF Keeps
  <2> QED
    BY <2>1, <2>2, <2>5, <2>7, <2>8, <2>9, EndsHere, KeepErasure
<1>6. CASE DeleteAccount(h)
  <2>1. ~At(h, "idle") /\ ~At(h, "pending")
    BY <1>6 DEF DeleteAccount, At
  <2>2. ~At(h, "register") /\ Snap(h) # None
    BY <1>6, HasRead, OpNames DEF DeleteAccount, At
  <2>3. row \in User /\ row # None /\ seen \in Seen
    BY <2>1, <2>2, Reading
  <2>4. PICK new : new = [row EXCEPT !.pw = None, !.oauth = FALSE, !.refresh = None,
                                     !.vtok = None, !.active = FALSE, !.deleted = TRUE,
                                     !.totp = FALSE, !.secret = None, !.codes = {}]
    OBVIOUS
  <2>5. /\ new \in User /\ new.pw = None /\ new.refresh = None /\ new.vtok = None
        /\ ~new.active /\ ~new.totp /\ new.secret = None /\ new.codes = {}
    BY <2>3, <2>4 DEF User
  <2>6. Put(h, new, Idle, seen) /\ pending' = pending
    BY <1>6, <2>4 DEF DeleteAccount, Update
  <2>7. seen'.revived = seen.revived
    BY <2>1, <2>3, <2>6, RacedGroups
  <2>8. Erased(new, seen'.raced)
    BY <2>5 DEF Erased
  <2> QED
    BY <2>1, <2>5, <2>6, <2>7, <2>8, EndsHere, PutErasure
<1> QED
  BY <1>1, <1>2, <1>3, <1>4, <1>5, <1>6 DEF Manage

\* An update of the second factor: off, or made on something it missed.
LEMMA FactorErasure ==
  ASSUME Inv, ErasureInv, NEW h \in Handlers, ~At(h, "idle"), ~At(h, "pending"), Snap(h) # None,
         call[h].op \in {"setup", "enable", "disable", "regenerate"},
         NEW new \in User, NEW noted \in Seen, Put(h, new, Idle, noted), pending' = pending,
         noted.raced = seen.raced, noted.revived = seen.revived,
         new.pw = row.pw, new.deleted = row.deleted, new.active = row.active,
         new.refresh = row.refresh, new.vtok = row.vtok,
         call[h].op = "disable" => ~new.totp /\ new.secret = None /\ new.codes = {}
  PROVE  ErasureInv'
<1>1. row \in User /\ row # None /\ ~At(h, "register")
  BY Reading DEF At
<1>2. /\ seen'.revived = seen.revived /\ seen.raced \subseteq seen'.raced
      /\ Misses(h) => Writes[call[h].op] \subseteq seen'.raced
  BY RacedGroups
<1>3. "mfa" \in Writes[call[h].op]
  BY DEF Writes
<1>4. ASSUME new.deleted, ~seen.revived PROVE ~new.active /\ Erased(new, seen'.raced)
  <2>1. ~row.active /\ Erased(row, seen.raced) /\ Misses(h)
    BY <1>1, <1>4, LateRequest DEF Told, Snap
  <2> QED
    BY <1>2, <1>3, <2>1 DEF Erased
<1> QED
  BY <1>1, <1>2, <1>4, EndsHere, PutErasure

LEMMA SecondFactorErasure ==
  ASSUME Inv, ErasureInv, NEW h \in Handlers, SecondFactor(h)
  PROVE  ErasureInv'
<1>0. row # None /\ row.deleted /\ ~seen.revived => ~row.active
  BY DEF ErasureInv
<1>1. CASE SetupRequest(h)
  BY <1>0, <1>1, BeginErasure, OpNames DEF SetupRequest, Told, Authenticated
<1>2. CASE EnableRequest(h)
  BY <1>0, <1>2, BeginErasure, OpNames DEF EnableRequest, Told, Authenticated
<1>3. CASE DisableRequest(h)
  BY <1>0, <1>3, BeginErasure, OpNames DEF DisableRequest, Told, Authenticated
<1>4. CASE RegenerateRequest(h)
  BY <1>0, <1>4, BeginErasure, OpNames DEF RegenerateRequest, Told, Authenticated
<1>5. ASSUME call[h].op \in {"setup", "enable", "disable", "regenerate"}
      PROVE  /\ ~At(h, "idle") /\ ~At(h, "pending") /\ Snap(h) # None
             /\ row \in User /\ seen \in Seen /\ Snap(h) \in User /\ N(h) \in Id
             /\ Codes(N(h)) \in SUBSET (Id \X (1..BackupCodes))
  <2>1. ~At(h, "idle") /\ ~At(h, "pending") /\ Snap(h) # None
    BY <1>5, HasRead, OpNames DEF At
  <2>2. row \in User /\ seen \in Seen /\ Snap(h) \in User /\ N(h) \in Id
    BY <2>1, Reading
  <2> QED
    BY <2>1, <2>2 DEF Codes
<1>6. CASE MfaSetup(h)
  <2>1. PICK new : new = [row EXCEPT !.secret = N(h)]
    OBVIOUS
  <2>2. call[h].op = "setup" /\ Put(h, new, Idle, seen) /\ pending' = pending
    BY <1>6, <2>1 DEF MfaSetup, At, Update
  <2>3. /\ new \in User /\ new.pw = row.pw /\ new.deleted = row.deleted /\ new.active = row.active
        /\ new.refresh = row.refresh /\ new.vtok = row.vtok
    BY <1>5, <2>1, <2>2 DEF User
  <2> QED
    BY <1>5, <2>2, <2>3, FactorErasure
<1>7. CASE MfaEnable(h)
  <2>1. PICK yes \in BOOLEAN : yes = TRUE
    OBVIOUS
  <2>2. PICK codes : codes = Codes(N(h))
    OBVIOUS
  <2>3. PICK new : new = [row EXCEPT !.totp = yes, !.codes = codes]
    OBVIOUS
  <2>4. PICK secret : secret = Snap(h).secret
    OBVIOUS
  <2>5. PICK noted : noted = [seen EXCEPT !.confirmed = secret]
    OBVIOUS
  <2>6. call[h].op = "enable" /\ Put(h, new, Idle, noted) /\ pending' = pending
    BY <1>7, <2>1, <2>2, <2>3, <2>4, <2>5, Zenon DEF MfaEnable, At
  <2>7. /\ new \in User /\ new.pw = row.pw /\ new.deleted = row.deleted /\ new.active = row.active
        /\ new.refresh = row.refresh /\ new.vtok = row.vtok
    BY <1>5, <2>2, <2>3, <2>6 DEF User
  <2>8. noted \in Seen /\ noted.raced = seen.raced /\ noted.revived = seen.revived
    BY <1>5, <2>4, <2>5, <2>6 DEF Seen, User
  <2> QED
    BY <1>5, <2>6, <2>7, <2>8, FactorErasure
<1>8. CASE MfaDisable(h)
  <2>1. PICK no \in BOOLEAN : no = FALSE
    OBVIOUS
  <2>2. PICK codes \in SUBSET (Id \X (1..BackupCodes)) : codes = {}
    OBVIOUS
  <2>3. PICK secret \in Id \union {None} : secret = None
    OBVIOUS
  <2>4. PICK new : new = [row EXCEPT !.totp = no, !.secret = secret, !.codes = codes]
    OBVIOUS
  <2>5. call[h].op = "disable" /\ Put(h, new, Idle, seen) /\ pending' = pending
    BY <1>8, <2>1, <2>2, <2>3, <2>4, Zenon DEF MfaDisable, At, Update
  <2>6. /\ new \in User /\ new.pw = row.pw /\ new.deleted = row.deleted /\ new.active = row.active
        /\ new.refresh = row.refresh /\ new.vtok = row.vtok
        /\ new.totp = no /\ new.secret = secret /\ new.codes = codes
    BY <1>5, <2>4, <2>5 DEF User
  <2>7. ~new.totp /\ new.secret = None /\ new.codes = {}
    BY <2>1, <2>2, <2>3, <2>6, Zenon
  <2> QED
    BY <1>5, <2>5, <2>6, <2>7, FactorErasure
<1>9. CASE RegenerateBackupCodes(h)
  <2>1. PICK codes : codes = Codes(N(h))
    OBVIOUS
  <2>2. PICK new : new = [row EXCEPT !.codes = codes]
    OBVIOUS
  <2>3. call[h].op = "regenerate" /\ Put(h, new, Idle, seen) /\ pending' = pending
    BY <1>9, <2>1, <2>2, Zenon DEF RegenerateBackupCodes, At, Update
  <2>4. /\ new \in User /\ new.pw = row.pw /\ new.deleted = row.deleted /\ new.active = row.active
        /\ new.refresh = row.refresh /\ new.vtok = row.vtok
    BY <1>5, <2>1, <2>2, <2>3 DEF User
  <2> QED
    BY <1>5, <2>3, <2>4, FactorErasure
<1> QED
  BY <1>1, <1>2, <1>3, <1>4, <1>6, <1>7, <1>8, <1>9 DEF SecondFactor

\* The administrator and the clock.
LEMMA FlagsErasure ==
  ASSUME Inv, ErasureInv, row # None, NEW active \in BOOLEAN, NEW locked \in BOOLEAN, NEW revived \in BOOLEAN,
         row' = [row EXCEPT !.active = active, !.locked = locked],
         seen' = [seen EXCEPT !.revived = revived],
         seen.revived => revived, row.deleted /\ ~revived => ~active,
         calls' \in {calls, calls + 1}, UNCHANGED <<call, pending>>
  PROVE  ErasureInv'
<1>1. row \in User /\ seen \in Seen /\ calls \in Nat
  BY AccountsAssumption DEF Inv, Types
<1>2. PICK new : new = [row EXCEPT !.active = active, !.locked = locked]
  OBVIOUS
<1>3. /\ row' = new /\ new.active = active /\ new.pw = row.pw /\ new.deleted = row.deleted
      /\ new.refresh = row.refresh /\ new.vtok = row.vtok
      /\ new.totp = row.totp /\ new.secret = row.secret /\ new.codes = row.codes
  BY <1>1, <1>2 DEF User
<1>4. seen'.revived = revived /\ seen'.raced = seen.raced
  BY <1>1 DEF Seen
<1>5. \A h \in Handlers : ~At(h, "idle")' => Told(call[h], row, seen.revived)'
  BY <1>3, <1>4 DEF ErasureInv, Told, At
<1>6. \A pw : InUse(pw)' <=> InUse(pw)
  BY DEF InUse, At, Snap
<1>7. PasswordsInv'
  <2>1. \A pw \in Id \union {None} : InUse(pw)' => pw # None /\ pw <= calls'
    BY <1>1, <1>6, AccountsAssumption DEF ErasureInv, PasswordsInv, Id
  <2>2. new.pw # None => new.pw <= calls'
    BY <1>1, <1>3, AccountsAssumption DEF ErasureInv, PasswordsInv, User, Id
  <2>3. \A h \in Handlers : ~At(h, "idle")' => ~InUse(N(h))' /\ new.pw # N(h)'
    <3>1. \A h \in Handlers : ~At(h, "idle") => ~InUse(N(h)) /\ row.pw # N(h)
      BY DEF ErasureInv, PasswordsInv
    <3> QED
      BY <1>3, <3>1 DEF InUse, At, Snap, N
  <2>4. new.deleted => ~InUse(new.pw)'
    <3>1. PICK pw : pw = row.pw
      OBVIOUS
    <3>2. new.deleted => ~InUse(pw)'
      BY <1>3, <1>6, <3>1 DEF ErasureInv, PasswordsInv
    <3> QED
      BY <1>3, <3>1, <3>2 DEF InUse
  <2> QED
    BY <1>3, <2>1, <2>2, <2>3, <2>4 DEF PasswordsInv
<1>8. new.deleted /\ ~revived => ~new.active /\ Erased(new, seen'.raced)
  BY <1>3, <1>4 DEF ErasureInv, Erased
<1> QED
  BY <1>3, <1>4, <1>5, <1>7, <1>8 DEF ErasureInv

LEMMA AdminErasure ==
  ASSUME Inv, ErasureInv, (\E active \in BOOLEAN : AdminUpdate(active)) \/ Unlock
  PROVE  ErasureInv'
<1>1. row \in User \union {None} /\ seen \in Seen
  BY DEF Inv, Types
<1>2. ASSUME NEW active \in BOOLEAN, AdminUpdate(active) PROVE ErasureInv'
  <2>1. row \in User /\ row # None /\ row.locked \in BOOLEAN
    BY <1>1, <1>2 DEF AdminUpdate, User
  <2>2. PICK revived \in BOOLEAN : revived = (seen.revived \/ (active /\ row.deleted))
    OBVIOUS
  <2>3. row' = [row EXCEPT !.active = active, !.locked = row.locked]
    BY <1>2, <2>1 DEF AdminUpdate, User
  <2>4. seen' = [seen EXCEPT !.revived = revived]
    BY <1>2, <2>2 DEF AdminUpdate
  <2>5. (seen.revived => revived) /\ (row.deleted /\ ~revived => ~active)
    BY <2>2
  <2>6. calls' \in {calls, calls + 1} /\ UNCHANGED <<call, pending>>
    BY <1>2 DEF AdminUpdate
  <2> QED
    BY <2>1, <2>3, <2>4, <2>5, <2>6, FlagsErasure
<1>3. CASE Unlock
  <2>1. row \in User /\ row # None /\ row.active \in BOOLEAN /\ seen.revived \in BOOLEAN
    BY <1>1, <1>3 DEF Unlock, User, Seen
  <2>2. row' = [row EXCEPT !.active = row.active, !.locked = FALSE]
    BY <1>3, <2>1 DEF Unlock, User
  <2>3. seen' = [seen EXCEPT !.revived = seen.revived]
    BY <1>1, <1>3 DEF Unlock, Seen
  <2>4. row.deleted /\ ~seen.revived => ~row.active
    BY <2>1 DEF ErasureInv
  <2>5. calls' \in {calls, calls + 1} /\ UNCHANGED <<call, pending>>
    BY <1>3 DEF Unlock
  <2> QED
    BY <2>1, <2>2, <2>3, <2>4, <2>5, FlagsErasure
<1> QED
  BY <1>2, <1>3

LEMMA InitErasure == Init => ErasureInv
<1> SUFFICES ASSUME Init PROVE ErasureInv
  OBVIOUS
<1>1. calls = 0 /\ pending = {} /\ \A h \in Handlers : At(h, "idle")
  BY DEF Init, At, Idle
<1>2. \A pw : ~InUse(pw)
  BY <1>1 DEF InUse, At
<1>3. row # None => row.pw = 0 /\ ~row.deleted
  BY DEF Init, Verified, NewUser
<1>4. PasswordsInv
  BY <1>1, <1>2, <1>3 DEF PasswordsInv
<1> QED
  BY <1>1, <1>3, <1>4 DEF ErasureInv

LEMMA NextErasure == Inv /\ ErasureInv /\ [Next]_vars => ErasureInv'
<1> SUFFICES ASSUME Inv, ErasureInv, [Next]_vars PROVE ErasureInv'
  OBVIOUS
<1>1. CASE UNCHANGED vars
  <2>1. UNCHANGED <<row, call, calls, pending, seen>>
    BY <1>1 DEF vars
  <2>2. PasswordsInv'
    BY <2>1 DEF ErasureInv, PasswordsInv, InUse, At, N, Snap
  <2> QED
    BY <2>1, <2>2 DEF ErasureInv, Told, Erased, At
<1> QED
  BY <1>1, EmailErasure, SignInErasure, SessionErasure, ManageErasure, SecondFactorErasure, AdminErasure DEF Next

\* A deleted account keeps no session, link to verify or second factor, but
\* what a request that had read it before the deletion wrote after it, unless
\* an administrator activates it again (deleteAccount, updateUser).
THEOREM DeletedAccountsAreErased == Spec => []DeletedIsErased
<1>1. ErasureInv => DeletedIsErased
  BY DEF ErasureInv, Erased, DeletedIsErased
<1>2. Init => ErasureInv
  BY InitErasure
<1> QED
  BY <1>1, <1>2, NextErasure, AccountsInductive, PTL DEF Spec

=============================================================================
