----------------------------- MODULE SessionProofs -----------------------------
(***************************************************************************)
(* What TLAPS proves of Session, for every number of tabs, of user actions *)
(* and of seconds.                                                         *)
(***************************************************************************)
EXTENDS Session, TLAPS

Token == Nat \union {None}
Tab == [open : BOOLEAN, user : BOOLEAN, auth : BOOLEAN, token : BOOLEAN, loading : BOOLEAN,
        leaving : BOOLEAN, timer : Token, layout : BOOLEAN, socket : BOOLEAN]
Request == [tab : Tabs \union {None}, kind : {"load", "timer", "call", "login", "logout"}, token : Token,
            phase : {"sent", "read", "answered"}, snap : Token, ok : BOOLEAN, result : Token]

Types ==
  /\ stored \in Token /\ cookie \in Token /\ code \in Token /\ now \in Nat
  /\ disk \in [user : BOOLEAN, auth : BOOLEAN]
  /\ tab \in [Tabs -> Tab]
  /\ net \subseteq Request
  /\ seen \in [race : BOOLEAN, revoked : BOOLEAN]

SocketInv == \A t \in Tabs : tab[t].socket => tab[t].auth /\ tab[t].token /\ tab[t].layout

\* A request that overlaps with no other left with the stored token, and its
\* answer carries the one that replaced it.
Fresh(m) ==
  CASE m.phase = "sent"     -> m.token = cookie /\ cookie = stored /\ ~m.ok /\ m.result = None
    [] m.phase = "read"     -> m.token = cookie /\ cookie = stored /\ ~m.ok /\ m.snap = stored
    [] m.phase = "answered" -> stored = IF m.ok THEN m.result ELSE cookie

\* A page that refreshes as it loads has a user to refresh for.
LoadHasUser(m) == m.kind = "load" /\ m.tab # None => tab[m.tab].user

\* One request or one code at a time.
Serial ==
  /\ ~seen.revoked
  /\ \A m, n \in net : m = n
  /\ \A m \in net : Fresh(m) /\ LoadHasUser(m)
  /\ code # None => net = {} /\ stored = code
  /\ net = {} /\ code = None => cookie = stored
  /\ disk.auth = disk.user
  /\ \A t \in Tabs : tab[t].auth = tab[t].user

SessionInv == Types /\ SocketInv /\ (~seen.race => Serial)


\* The store of a page that has just mounted.
LEMMA BlankTab ==
  ASSUME NEW d, d.user \in BOOLEAN, d.auth \in BOOLEAN
  PROVE  /\ Blank(d) \in Tab /\ ~Blank(d).socket
         /\ Blank(d).user = d.user /\ Blank(d).auth = d.auth
<1>1. None \in Token /\ TRUE \in BOOLEAN /\ FALSE \in BOOLEAN
  BY DEF Token
<1>2. Blank(d) \in Tab
  BY <1>1, Zenon DEF Blank, Tab
<1> QED
  BY <1>2 DEF Blank

LEMMA SessionInitInv == Init => SessionInv
<1> SUFFICES ASSUME Init PROVE SessionInv
  OBVIOUS
<1>1. stored \in Token /\ cookie = stored /\ code = None /\ None \in Token
  BY SMT DEF Init, Token
<1>2. Types
  <2>1. PICK b \in BOOLEAN : b = FALSE
    OBVIOUS
  <2>2. PICK d : d = [user |-> b, auth |-> b]
    OBVIOUS
  <2>3. ASSUME NEW t \in Tabs
        PROVE  [Blank(d) EXCEPT !.open = b] \in Tab
    <3>1. Blank(d) \in Tab
      BY <2>1, <2>2, BlankTab
    <3> QED
      BY <2>1, <3>1, SMT DEF Tab
  <2>4. tab \in [Tabs -> Tab]
    <3>1. tab = [t \in Tabs |-> [Blank(d) EXCEPT !.open = b]]
      BY <2>1, <2>2, Zenon DEF Init
    <3> QED
      BY <2>3, <3>1
  <2>5. disk \in [user : BOOLEAN, auth : BOOLEAN]
    <3>1. PICK signedIn \in BOOLEAN : disk = [user |-> signedIn, auth |-> signedIn]
      BY DEF Init
    <3> QED
      BY <3>1, SMT
  <2>6. seen \in [race : BOOLEAN, revoked : BOOLEAN]
    BY TRUE \in BOOLEAN, FALSE \in BOOLEAN, Zenon DEF Init
  <2>7. net = {} /\ now \in Nat
    BY SMT DEF Init
  <2> QED
    BY <1>1, <2>4, <2>5, <2>6, <2>7 DEF Types
<1>3. \A t \in Tabs : ~tab[t].socket /\ tab[t].auth = FALSE /\ tab[t].user = FALSE
  BY SMT DEF Init, Blank
<1>4. net = {} /\ ~seen.revoked /\ disk.auth = disk.user
  BY SMT DEF Init
<1> QED
  BY <1>1, <1>2, <1>3, <1>4 DEF SessionInv, SocketInv, Serial

-----------------------------------------------------------------------------
\* The store of a tab.

\* set() leaves the socket to Layout, which closes it at the sign-out.
LEMMA SettleKeeps ==
  ASSUME Types, SocketInv, NEW t \in Tabs, NEW new \in Tab, Settle(t, new),
         new.layout = tab[t].layout, new.socket = tab[t].socket,
         new.auth /\ tab[t].token => new.token
  PROVE  /\ tab' \in [Tabs -> Tab] /\ SocketInv'
         /\ disk' = [user |-> new.user, auth |-> new.auth] /\ disk' \in [user : BOOLEAN, auth : BOOLEAN]
         /\ tab'[t].user = new.user /\ tab'[t].auth = new.auth
         /\ \A u \in Tabs \ {t} : tab'[u] = tab[u]
<1>1. tab[t] \in Tab
  BY DEF Types
<1> DEFINE opened == [new EXCEPT !.socket = new.auth /\ new.token]
<1>2. PICK next : /\ tab' = [tab EXCEPT ![t] = next]
                  /\ next = IF new.layout /\ new.auth # tab[t].auth THEN opened ELSE new
  BY DEF Settle, Types
<1>3. /\ opened \in Tab /\ opened.user = new.user /\ opened.auth = new.auth
      /\ opened.socket = (new.auth /\ new.token) /\ opened.token = new.token /\ opened.layout = new.layout
  BY SMT DEF Tab
<1>4. next \in Tab /\ next.user = new.user /\ next.auth = new.auth
  BY <1>2, <1>3
<1>5. tab[t].socket => tab[t].auth /\ tab[t].token /\ tab[t].layout
  BY DEF SocketInv
<1>6. next.socket => next.auth /\ next.token /\ next.layout
  <2>1. CASE new.layout /\ new.auth # tab[t].auth
    BY <1>2, <1>3, <2>1
  <2>2. CASE ~(new.layout /\ new.auth # tab[t].auth)
    BY <1>1, <1>2, <1>5, <2>2 DEF Tab
  <2> QED
    BY <2>1, <2>2
<1> HIDE DEF opened
<1>7. /\ tab' \in [Tabs -> Tab] /\ tab'[t] = next
      /\ \A u \in Tabs \ {t} : tab'[u] = tab[u]
  BY <1>2, <1>4 DEF Types
<1>8. SocketInv'
  BY <1>6, <1>7 DEF SocketInv
<1>9. disk' = [user |-> new.user, auth |-> new.auth] /\ disk' \in [user : BOOLEAN, auth : BOOLEAN]
  BY DEF Settle, Tab
<1> QED
  BY <1>4, <1>7, <1>8, <1>9

\* What the code that waits for an answer may leave in the store.
Settled(t, new) ==
  /\ new \in Tab /\ new.layout = tab[t].layout /\ new.socket = tab[t].socket
  /\ new.auth /\ tab[t].token => new.token

LEMMA SignedOutSettled ==
  ASSUME Types, NEW t \in Tabs
  PROVE  /\ Settled(t, SignedOut(tab[t]))
         /\ Settled(t, [SignedOut(tab[t]) EXCEPT !.loading = FALSE])
         /\ Settled(t, [SignedOut(tab[t]) EXCEPT !.leaving = TRUE])
         /\ SignedOut(tab[t]).user = FALSE /\ SignedOut(tab[t]).auth = FALSE
         /\ [SignedOut(tab[t]) EXCEPT !.loading = FALSE].user = FALSE
         /\ [SignedOut(tab[t]) EXCEPT !.loading = FALSE].auth = FALSE
         /\ [SignedOut(tab[t]) EXCEPT !.leaving = TRUE].user = FALSE
         /\ [SignedOut(tab[t]) EXCEPT !.leaving = TRUE].auth = FALSE
<1>1. tab[t] \in Tab /\ TRUE \in BOOLEAN /\ FALSE \in BOOLEAN
  BY DEF Types
<1>2. PICK x : x = SignedOut(tab[t])
  OBVIOUS
<1>3. /\ x \in Tab /\ x.layout = tab[t].layout /\ x.socket = tab[t].socket
      /\ x.user = FALSE /\ x.auth = FALSE
  <2>1. x \in Tab
    BY <1>1, <1>2, Zenon DEF SignedOut, Tab
  <2> QED
    BY <1>1, <1>2, <2>1, SMT DEF SignedOut, Tab
<1>4. PICK y : y = [x EXCEPT !.loading = FALSE]
  OBVIOUS
<1>5. PICK z : z = [x EXCEPT !.leaving = TRUE]
  OBVIOUS
<1>6. /\ y \in Tab /\ y.layout = x.layout /\ y.socket = x.socket
      /\ y.user = x.user /\ y.auth = x.auth
  <2>1. y \in Tab
    BY <1>1, <1>3, <1>4, Zenon DEF Tab
  <2> QED
    BY <1>3, <1>4, <2>1, SMT DEF Tab
<1>7. /\ z \in Tab /\ z.layout = x.layout /\ z.socket = x.socket
      /\ z.user = x.user /\ z.auth = x.auth
  <2>1. z \in Tab
    BY <1>1, <1>3, <1>5, Zenon DEF Tab
  <2> QED
    BY <1>3, <1>5, <2>1, SMT DEF Tab
<1> QED
  BY <1>2, <1>3, <1>4, <1>5, <1>6, <1>7 DEF Settled

\* A user and its authentication go together through every answer.
LEMMA HandleKeeps ==
  ASSUME Types, SocketInv, NEW m \in net, NEW ok \in BOOLEAN, Handle(m, ok)
  PROVE  /\ tab' \in [Tabs -> Tab] /\ SocketInv' /\ disk' \in [user : BOOLEAN, auth : BOOLEAN]
         /\ LoadHasUser(m) /\ disk.auth = disk.user /\ (\A t \in Tabs : tab[t].auth = tab[t].user) =>
              disk'.auth = disk'.user /\ \A t \in Tabs : tab'[t].auth = tab'[t].user
<1>1. CASE UNCHANGED <<tab, disk>>
  BY <1>1 DEF Types, SocketInv
<1>2. ASSUME m.tab # None,
             NEW new, Settle(m.tab, new), Settled(m.tab, new),
             LoadHasUser(m) /\ tab[m.tab].auth = tab[m.tab].user => new.auth = new.user
      PROVE  /\ tab' \in [Tabs -> Tab] /\ SocketInv' /\ disk' \in [user : BOOLEAN, auth : BOOLEAN]
             /\ LoadHasUser(m) /\ disk.auth = disk.user /\ (\A t \in Tabs : tab[t].auth = tab[t].user) =>
                  disk'.auth = disk'.user /\ \A t \in Tabs : tab'[t].auth = tab'[t].user
  <2>1. m.tab \in Tabs
    BY <1>2 DEF Types, Request
  <2>2. /\ tab' \in [Tabs -> Tab] /\ SocketInv'
        /\ disk' = [user |-> new.user, auth |-> new.auth] /\ disk' \in [user : BOOLEAN, auth : BOOLEAN]
        /\ tab'[m.tab].user = new.user /\ tab'[m.tab].auth = new.auth
        /\ \A u \in Tabs \ {m.tab} : tab'[u] = tab[u]
    BY <1>2, <2>1, SettleKeeps DEF Settled
  <2> QED
    BY <1>2, <2>1, <2>2
<1>3. CASE m.tab # None /\ ~ok /\ ~UNCHANGED <<tab, disk>>
  <2>1. m.tab \in Tabs
    BY <1>3 DEF Types, Request
  <2>2. \/ Settle(m.tab, SignedOut(tab[m.tab]))
        \/ Settle(m.tab, [SignedOut(tab[m.tab]) EXCEPT !.loading = FALSE])
        \/ Settle(m.tab, [SignedOut(tab[m.tab]) EXCEPT !.leaving = TRUE])
    BY <1>3, Zenon DEF Handle, Failed
  <2> QED
    BY <1>2, <1>3, <2>1, <2>2, SignedOutSettled
<1>4. CASE m.tab # None /\ ok
  <2>1. m.tab \in Tabs /\ m.kind \in {"load", "timer", "call", "login", "logout"}
    BY <1>4 DEF Types, Request
  <2>2. PICK old : old = tab[m.tab]
    OBVIOUS
  <2>3. old \in Tab /\ now \in Token /\ TRUE \in BOOLEAN /\ FALSE \in BOOLEAN
    BY <2>1, <2>2 DEF Types, Token
  <2>4. PICK x : x = [old EXCEPT !.token = TRUE, !.timer = now]
    OBVIOUS
  <2>5. /\ x \in Tab /\ x.layout = old.layout /\ x.socket = old.socket /\ x.token = TRUE
        /\ x.user = old.user /\ x.auth = old.auth
    <3>1. x \in Tab
      BY <2>3, <2>4, Zenon DEF Tab
    <3> QED
      BY <2>3, <2>4, <3>1, SMT DEF Tab
  <2>6. PICK y : y = [x EXCEPT !.auth = TRUE, !.loading = FALSE]
    OBVIOUS
  <2>7. PICK z : z = [x EXCEPT !.auth = TRUE, !.user = TRUE]
    OBVIOUS
  <2>8. /\ y \in Tab /\ y.layout = x.layout /\ y.socket = x.socket /\ y.token = TRUE
        /\ y.user = x.user /\ y.auth = TRUE
    <3>1. y \in Tab
      BY <2>3, <2>5, <2>6, Zenon DEF Tab
    <3> QED
      BY <2>5, <2>6, <3>1, SMT DEF Tab
  <2>9. /\ z \in Tab /\ z.layout = x.layout /\ z.socket = x.socket /\ z.token = TRUE
        /\ z.user = TRUE /\ z.auth = TRUE
    <3>1. z \in Tab
      BY <2>3, <2>5, <2>7, Zenon DEF Tab
    <3> QED
      BY <2>5, <2>7, <3>1, SMT DEF Tab
  <2>10. /\ m.kind = "load" => Settle(m.tab, y)
         /\ m.kind = "login" => Settle(m.tab, z)
         /\ m.kind = "logout" => Settle(m.tab, SignedOut(tab[m.tab]))
         /\ m.kind \in {"timer", "call"} => Settle(m.tab, x)
    BY <1>4, <2>1, <2>2, <2>4, <2>6, <2>7 DEF Handle, Succeeded
  <2>11. CASE m.kind = "load"
    BY <1>2, <1>4, <2>1, <2>2, <2>5, <2>8, <2>10, <2>11 DEF Settled, LoadHasUser
  <2>12. CASE m.kind = "login"
    BY <1>2, <1>4, <2>2, <2>5, <2>9, <2>10, <2>12 DEF Settled
  <2>13. CASE m.kind = "logout"
    BY <1>2, <1>4, <2>1, <2>10, <2>13, SignedOutSettled
  <2>14. CASE m.kind \in {"timer", "call"}
    BY <1>2, <1>4, <2>2, <2>5, <2>10, <2>14 DEF Settled
  <2> QED
    BY <2>1, <2>11, <2>12, <2>13, <2>14
<1> QED
  BY <1>1, <1>3, <1>4, Zenon DEF Handle

-----------------------------------------------------------------------------
\* Requests.

\* What the history of overlaps may become.
LEMMA RaceKeeps ==
  ASSUME Types, NEW b \in BOOLEAN, seen' = [seen EXCEPT !.race = @ \/ b]
  PROVE  /\ seen' \in [race : BOOLEAN, revoked : BOOLEAN]
         /\ ~seen'.race => ~seen.race /\ ~b
         /\ seen'.revoked = seen.revoked
<1>1. seen \in [race : BOOLEAN, revoked : BOOLEAN]
  BY DEF Types
<1>2. PICK r \in BOOLEAN : r = (seen.race \/ b)
  OBVIOUS
<1>3. seen' = [seen EXCEPT !.race = r]
  BY <1>2
<1> QED
  BY <1>1, <1>2, <1>3, SMT

LEMMA MessageIsRequest ==
  ASSUME Types, NEW t \in Tabs, NEW kind \in {"load", "timer", "call", "login", "logout"}
  PROVE  /\ Message(t, kind) \in Request
         /\ Message(t, kind).tab = t /\ Message(t, kind).kind = kind
         /\ cookie = stored => Fresh(Message(t, kind))
<1>1. PICK no \in BOOLEAN : no = FALSE
  OBVIOUS
<1>2. PICK m : m = Message(t, kind)
  OBVIOUS
<1>3. m = [tab |-> t, kind |-> kind, token |-> cookie, phase |-> "sent", snap |-> None,
           ok |-> no, result |-> None]
  BY <1>1, <1>2 DEF Message
<1>4. None \in Token /\ cookie \in Token /\ t \in Tabs \union {None}
      /\ "sent" \in {"sent", "read", "answered"}
  BY DEF Types, Token
<1>5. m \in Request
  BY <1>1, <1>3, <1>4, Zenon DEF Request
<1>6. m.tab = t /\ m.kind = kind /\ m.phase = "sent" /\ m.token = cookie /\ ~m.ok /\ m.result = None
  BY <1>1, <1>3
<1>7. cookie = stored => Fresh(m)
  BY <1>6 DEF Fresh
<1> QED
  BY <1>2, <1>5, <1>6, <1>7

\* A request leaves a page that stays.
LEMMA AwaitInv ==
  ASSUME SessionInv, NEW t \in Tabs, NEW kind \in {"timer", "call", "login", "logout"}, Await(t, kind),
         tab' \in [Tabs -> Tab], SocketInv',
         \A u \in Tabs : tab'[u].auth = tab[u].auth /\ tab'[u].user = tab[u].user
  PROVE  SessionInv'
<1>1. /\ net' = net \union {Message(t, kind)}
      /\ seen' = [seen EXCEPT !.race = @ \/ Overlapping]
      /\ UNCHANGED <<stored, cookie, code, disk, now>>
  BY DEF Await, Send
<1>2. Types
  BY DEF SessionInv
<1>3. PICK b \in BOOLEAN : b = Overlapping
  BY DEF Overlapping
<1>4. seen' = [seen EXCEPT !.race = @ \/ b]
  BY <1>1, <1>3
<1>5. /\ seen' \in [race : BOOLEAN, revoked : BOOLEAN]
      /\ ~seen'.race => ~seen.race /\ ~b
      /\ seen'.revoked = seen.revoked
  BY <1>2, <1>4, RaceKeeps
<1>6. PICK m : m = Message(t, kind)
  OBVIOUS
<1>7. m \in Request /\ m.tab = t /\ m.kind = kind /\ (cookie = stored => Fresh(m))
  BY <1>2, <1>6, MessageIsRequest
<1>8. Types'
  BY <1>1, <1>2, <1>5, <1>6, <1>7 DEF Types
<1>9. ASSUME ~seen'.race PROVE Serial'
  <2>1. Serial /\ net = {} /\ code = None
    BY <1>3, <1>5, <1>9 DEF SessionInv, Overlapping
  <2>2. Fresh(m)' /\ LoadHasUser(m)'
    BY <1>1, <1>7, <2>1 DEF Serial, Fresh, LoadHasUser
  <2>3. net' = {m}
    BY <1>1, <1>6, <2>1
  <2> QED
    BY <1>1, <1>5, <2>1, <2>2, <2>3 DEF Serial
<1> QED
  BY <1>8, <1>9 DEF SessionInv

\* The page goes, and what it had under way is nobody's.
Left(t) == {IF m.tab = t THEN [m EXCEPT !.tab = None] ELSE m : m \in net}

LEMMA LeftRequests ==
  ASSUME Types, NEW t \in Tabs, NEW k \in Left(t)
  PROVE  /\ k \in Request /\ k.tab # t
         /\ \E m \in net : /\ k = IF m.tab = t THEN [m EXCEPT !.tab = None] ELSE m
                           /\ Fresh(m) => Fresh(k)
                           /\ LoadHasUser(m) => LoadHasUser(k)
<1>1. PICK m \in net : k = IF m.tab = t THEN [m EXCEPT !.tab = None] ELSE m
  BY DEF Left
<1>2. m \in Request /\ t # None
  BY SessionAssumption DEF Types
<1>3. CASE m.tab = t
  <2>1. k = [m EXCEPT !.tab = None]
    BY <1>1, <1>3
  <2>2. k \in Request /\ k.tab = None /\ k.kind = m.kind
    BY <1>2, <2>1, SMT DEF Request
  <2>3. k.phase = m.phase /\ k.token = m.token /\ k.ok = m.ok /\ k.snap = m.snap /\ k.result = m.result
    BY <1>2, <2>1, SMT DEF Request
  <2>4. Fresh(m) => Fresh(k)
    BY <2>3, Zenon DEF Fresh
  <2> QED
    BY <1>1, <1>2, <2>2, <2>4 DEF LoadHasUser
<1>4. CASE m.tab # t
  BY <1>1, <1>2, <1>4
<1> QED
  BY <1>3, <1>4

LEMMA MountInv ==
  ASSUME SessionInv, NEW t \in Tabs, Mount(t)
  PROVE  SessionInv'
<1>1. /\ tab' = [tab EXCEPT ![t] = [Blank(disk) EXCEPT !.loading = disk.user]]
      /\ net' = Left(t) \union (IF disk.user THEN {Message(t, "load")} ELSE {})
      /\ seen' = [seen EXCEPT !.race = @ \/ (disk.user /\ Overlapping)]
      /\ UNCHANGED <<stored, cookie, code, disk, now>>
  BY DEF Mount, Left
<1>2. Types /\ disk.user \in BOOLEAN /\ disk.auth \in BOOLEAN
  BY DEF SessionInv, Types
<1>3. PICK x : x = Blank(disk)
  OBVIOUS
<1>4. x \in Tab /\ ~x.socket /\ x.user = disk.user /\ x.auth = disk.auth
  BY <1>2, <1>3, BlankTab
<1>5. PICK y : y = [x EXCEPT !.loading = disk.user]
  OBVIOUS
<1>6. y \in Tab /\ ~y.socket /\ y.user = disk.user /\ y.auth = disk.auth
  BY <1>2, <1>4, <1>5, SMT DEF Tab
<1>7. /\ tab' \in [Tabs -> Tab] /\ tab'[t] = y
      /\ \A u \in Tabs \ {t} : tab'[u] = tab[u]
  BY <1>1, <1>2, <1>3, <1>5, <1>6 DEF Types
<1>8. PICK b \in BOOLEAN : b = (disk.user /\ Overlapping)
  OBVIOUS
<1>9. /\ seen' \in [race : BOOLEAN, revoked : BOOLEAN]
      /\ ~seen'.race => ~seen.race /\ ~b
      /\ seen'.revoked = seen.revoked
  <2>1. seen' = [seen EXCEPT !.race = @ \/ b]
    BY <1>1, <1>8
  <2> QED
    BY <1>2, <2>1, RaceKeeps
<1>10. PICK m : m = Message(t, "load")
  OBVIOUS
<1>11. m \in Request /\ m.tab = t /\ m.kind = "load" /\ (cookie = stored => Fresh(m))
  BY <1>2, <1>10, MessageIsRequest
<1>12. net' \subseteq Request
  BY <1>1, <1>2, <1>10, <1>11, LeftRequests
<1>13. Types'
  BY <1>1, <1>2, <1>7, <1>9, <1>12 DEF Types
<1>14. SocketInv'
  BY <1>6, <1>7 DEF SessionInv, SocketInv
<1>15. ASSUME ~seen'.race PROVE Serial'
  <2>1. Serial
    BY <1>9, <1>15 DEF SessionInv
  <2>2. \A u \in Tabs : tab'[u].auth = tab'[u].user
    BY <1>6, <1>7, <2>1 DEF Serial
  <2>3. \A k \in Left(t) : Fresh(k)' /\ LoadHasUser(k)'
    <3> SUFFICES ASSUME NEW k \in Left(t) PROVE Fresh(k)' /\ LoadHasUser(k)'
      OBVIOUS
    <3>1. Fresh(k) /\ LoadHasUser(k) /\ k.tab # t /\ k \in Request
      BY <1>2, <2>1, LeftRequests DEF Serial
    <3>2. k.tab # None => tab'[k.tab] = tab[k.tab]
      BY <1>7, <3>1 DEF Request
    <3>3. Fresh(k)'
      BY <1>1, <3>1, Zenon DEF Fresh
    <3> QED
      BY <3>1, <3>2, <3>3 DEF LoadHasUser
  <2>4. CASE disk.user
    <3>1. net = {} /\ code = None
      BY <1>8, <1>9, <1>15, <2>4 DEF Overlapping
    <3>2. Left(t) = {}
      BY <3>1 DEF Left
    <3>3. net' = {m}
      BY <1>1, <1>10, <2>4, <3>2
    <3>4. Fresh(m)' /\ LoadHasUser(m)'
      BY <1>1, <1>6, <1>7, <1>11, <2>1, <2>4, <3>1 DEF Serial, Fresh, LoadHasUser
    <3> QED
      BY <1>1, <1>9, <2>1, <2>2, <3>1, <3>3, <3>4 DEF Serial
  <2>5. CASE ~disk.user
    <3>1. net' = Left(t)
      BY <1>1, <2>5
    <3>2. \A k, l \in net' : k = l
      BY <2>1, <3>1 DEF Serial, Left
    <3>3. net' = {} <=> net = {}
      BY <3>1 DEF Left
    <3> QED
      BY <1>1, <1>9, <2>1, <2>2, <2>3, <3>1, <3>2, <3>3 DEF Serial
  <2> QED
    BY <1>2, <2>4, <2>5
<1> QED
  BY <1>13, <1>14, <1>15 DEF SessionInv

LEMMA NavigateInv ==
  ASSUME SessionInv, NEW t \in Tabs, Navigate(t)
  PROVE  SessionInv'
<1>1. Types /\ SocketInv /\ tab[t] \in Tab
  BY DEF SessionInv, Types
<1>2. PICK layout \in BOOLEAN : layout = ~tab[t].layout
  OBVIOUS
<1>3. PICK socket \in BOOLEAN : socket = (layout /\ tab[t].auth /\ tab[t].token)
  OBVIOUS
<1>4. PICK new : /\ tab' = [tab EXCEPT ![t] = new]
                 /\ new = [tab[t] EXCEPT !.layout = ~tab[t].layout,
                            !.socket = ~tab[t].layout /\ tab[t].auth /\ tab[t].token]
  <2>1. PICK new : new = [tab[t] EXCEPT !.layout = ~tab[t].layout,
                          !.socket = ~tab[t].layout /\ tab[t].auth /\ tab[t].token]
    OBVIOUS
  <2>2. tab' = [tab EXCEPT ![t] = [tab[t] EXCEPT !.layout = ~tab[t].layout,
                                   !.socket = ~tab[t].layout /\ tab[t].auth /\ tab[t].token]]
    BY Zenon DEF Navigate
  <2> QED
    BY <2>1, <2>2, Zenon
<1>5. /\ new \in Tab /\ new.user = tab[t].user /\ new.auth = tab[t].auth /\ new.token = tab[t].token
      /\ new.layout = layout /\ new.socket = socket
  <2>1. new = [tab[t] EXCEPT !.layout = layout, !.socket = socket]
    BY <1>2, <1>3, <1>4
  <2>2. new \in Tab
    BY <1>1, <1>2, <1>3, <2>1, Zenon DEF Tab
  <2> QED
    BY <1>1, <2>1, <2>2, SMT DEF Tab
<1>7. /\ tab' \in [Tabs -> Tab] /\ tab'[t] = new
      /\ \A u \in Tabs \ {t} : tab'[u] = tab[u]
  BY <1>1, <1>4, <1>5 DEF Types
<1>8. UNCHANGED <<stored, cookie, code, disk, net, now, seen>>
  BY DEF Navigate
<1>9. Types'
  BY <1>1, <1>7, <1>8 DEF Types
<1>10. SocketInv'
  BY <1>1, <1>3, <1>5, <1>7 DEF SocketInv
<1>11. ASSUME Serial PROVE Serial'
  <2>1. \A u \in Tabs : tab'[u].auth = tab'[u].user /\ tab'[u].user = tab[u].user
    BY <1>5, <1>7, <1>11 DEF Serial
  <2>2. ASSUME NEW m \in net PROVE Fresh(m)' /\ LoadHasUser(m)'
    <3>1. Fresh(m)'
      BY <1>8, <1>11, Zenon DEF Serial, Fresh
    <3>2. LoadHasUser(m)'
      BY <1>1, <1>11, <2>1 DEF Serial, LoadHasUser, Types, Request
    <3> QED
      BY <3>1, <3>2
  <2> QED
    BY <1>8, <1>11, <2>1, <2>2 DEF Serial
<1> QED
  BY <1>8, <1>9, <1>10, <1>11 DEF SessionInv

LEMMA TimerFiresInv ==
  ASSUME SessionInv, NEW t \in Tabs, TimerFires(t)
  PROVE  SessionInv'
<1>1. Types /\ SocketInv /\ tab[t] \in Tab /\ None \in Token
  BY DEF SessionInv, Types, Token
<1>2. PICK new : new = [tab[t] EXCEPT !.timer = None]
  OBVIOUS
<1>3. /\ new \in Tab /\ new.user = tab[t].user /\ new.auth = tab[t].auth /\ new.token = tab[t].token
      /\ new.layout = tab[t].layout /\ new.socket = tab[t].socket
  BY <1>1, <1>2, SMT DEF Tab
<1>4. tab' = [tab EXCEPT ![t] = new]
  BY <1>1, <1>2 DEF TimerFires, Types
<1>5. /\ tab' \in [Tabs -> Tab] /\ tab'[t] = new
      /\ \A u \in Tabs \ {t} : tab'[u] = tab[u]
  BY <1>1, <1>3, <1>4 DEF Types
<1>6. SocketInv'
  BY <1>1, <1>3, <1>5 DEF SocketInv
<1> QED
  BY <1>3, <1>5, <1>6, AwaitInv DEF TimerFires

\* The steps of a page.
LEMMA PageInv ==
  ASSUME SessionInv, NEW t \in Tabs,
         Load(t) \/ Redirect(t) \/ Unauthorized(t) \/ SubmitLogin(t) \/ SubmitLogout(t)
  PROVE  SessionInv'
<1>1. Mount(t) => SessionInv'
  BY MountInv
<1>2. ASSUME NEW kind \in {"timer", "call", "login", "logout"}, Await(t, kind), UNCHANGED tab
      PROVE  SessionInv'
  BY <1>2, AwaitInv DEF SessionInv, Types, SocketInv
<1> QED
  BY <1>1, <1>2 DEF Load, Redirect, Unauthorized, SubmitLogin, SubmitLogout

-----------------------------------------------------------------------------
\* The server.

\* A step of the server moves one request on.
LEMMA AdvanceInv ==
  ASSUME SessionInv, NEW m \in net, NEW new \in Request, new.tab = m.tab, new.kind = m.kind,
         Advance(m, new), ServerUnchanged, stored' \in Token,
         seen' \in [race : BOOLEAN, revoked : BOOLEAN], seen'.race = seen.race,
         Serial => ~seen'.revoked /\ Fresh(new)'
  PROVE  SessionInv'
<1>1. Types /\ SocketInv /\ UNCHANGED <<cookie, code, disk, tab, now>> /\ net' = (net \ {m}) \union {new}
  BY DEF SessionInv, ServerUnchanged, Advance
<1>2. Types' /\ SocketInv'
  BY <1>1 DEF Types, SocketInv
<1>3. ASSUME Serial PROVE Serial'
  <2>1. net' = {new} /\ code = None
    BY <1>1, <1>3 DEF Serial
  <2>2. LoadHasUser(new)'
    BY <1>1, <1>3 DEF Serial, LoadHasUser
  <2> QED
    BY <1>1, <1>3, <2>1, <2>2 DEF Serial
<1> QED
  BY <1>2, <1>3 DEF SessionInv

LEMMA ReadTokenInv ==
  ASSUME SessionInv, NEW m \in net, ReadToken(m)
  PROVE  SessionInv'
<1>1. Types /\ m \in Request /\ stored \in Token
  BY DEF SessionInv, Types
<1>2. PICK new : /\ Advance(m, new)
                 /\ new = IF m.token = None THEN [m EXCEPT !.phase = "answered"]
                          ELSE [m EXCEPT !.phase = "read", !.snap = stored]
  BY DEF ReadToken
<1>3. m.phase = "sent" /\ ServerUnchanged /\ UNCHANGED <<stored, seen, cookie>>
  BY DEF ReadToken, ServerUnchanged
<1>4. CASE m.token = None
  <2>1. new \in Request /\ new.tab = m.tab /\ new.kind = m.kind
    BY <1>1, <1>2, <1>4, SMT DEF Request
  <2>2. new.phase = "answered" /\ new.ok = m.ok /\ new.result = m.result
    BY <1>1, <1>2, <1>4, SMT DEF Request
  <2>3. Serial => Fresh(new)'
    BY <1>3, <2>2 DEF Serial, Fresh
  <2> QED
    BY <1>1, <1>2, <1>3, <2>1, <2>3, AdvanceInv DEF Serial, Types
<1>5. CASE m.token # None
  <2>1. new \in Request /\ new.tab = m.tab /\ new.kind = m.kind
    <3>1. new = [m EXCEPT !.phase = "read", !.snap = stored] /\ "read" \in {"sent", "read", "answered"}
      BY <1>2, <1>5
    <3>2. new \in Request
      BY <1>1, <3>1, Zenon DEF Request
    <3> QED
      BY <1>1, <3>1, <3>2, SMT DEF Request
  <2>2. new.phase = "read" /\ new.ok = m.ok /\ new.token = m.token /\ new.snap = stored
    BY <1>1, <1>2, <1>5, SMT DEF Request
  <2>3. Serial => Fresh(new)'
    BY <1>3, <2>2 DEF Serial, Fresh
  <2> QED
    BY <1>1, <1>2, <1>3, <2>1, <2>3, AdvanceInv DEF Serial, Types
<1> QED
  BY <1>4, <1>5

\* An answer with a token, or the one of a sign-out.
Answer(m, token) == [m EXCEPT !.phase = "answered", !.ok = TRUE, !.result = token]

LEMMA AnswerIsRequest ==
  ASSUME NEW m \in Request, NEW token \in Token, NEW new, new = Answer(m, token)
  PROVE  new \in Request /\ new.tab = m.tab /\ new.kind = m.kind
<1>1. TRUE \in BOOLEAN /\ "answered" \in {"sent", "read", "answered"}
  OBVIOUS
<1>2. new \in Request
  BY <1>1, Zenon DEF Answer, Request
<1> QED
  BY <1>2, SMT DEF Answer, Request

LEMMA RotateTokenInv ==
  ASSUME SessionInv, NEW m \in net, RotateToken(m)
  PROVE  SessionInv'
<1>1. Types /\ m \in Request /\ now \in Token /\ None \in Token
  BY DEF SessionInv, Types, Token
<1>2. m.phase = "read" /\ ServerUnchanged /\ UNCHANGED cookie
  BY DEF RotateToken, ServerUnchanged
<1>3. CASE m.snap = m.token
  <2>1. PICK new : new = Answer(m, now)
    OBVIOUS
  <2>2. stored' = now /\ Advance(m, new) /\ UNCHANGED seen
    BY <1>3, <2>1 DEF RotateToken, Answer
  <2>3. /\ new \in Request /\ new.tab = m.tab /\ new.kind = m.kind
        /\ new.phase = "answered" /\ new.ok /\ new.result = now
    <3>1. m \in Request /\ now \in Token
      BY <1>1
    <3>2. new \in Request /\ new.tab = m.tab /\ new.kind = m.kind
      BY <2>1, <3>1, AnswerIsRequest
    <3>3. new.phase = "answered" /\ new.ok /\ new.result = now
      BY <2>1, <3>1, SMT DEF Answer, Request
    <3> QED
      BY <3>2, <3>3
  <2>4. Fresh(new)'
    BY <2>2, <2>3 DEF Fresh
  <2> QED
    BY <1>1, <1>2, <2>2, <2>3, <2>4, AdvanceInv DEF Serial, Types
<1>4. CASE m.snap # m.token
  <2>1. PICK new : new = [m EXCEPT !.phase = "answered"]
    OBVIOUS
  <2>2. PICK revoked \in BOOLEAN : revoked = (seen.revoked \/ stored # None)
    BY DEF Types
  <2>3. stored' = None /\ Advance(m, new) /\ seen' = [seen EXCEPT !.revoked = revoked]
    BY <1>4, <2>1, <2>2 DEF RotateToken
  <2>4. new \in Request /\ new.tab = m.tab /\ new.kind = m.kind
    BY <1>1, <2>1, SMT DEF Request
  <2>5. seen' \in [race : BOOLEAN, revoked : BOOLEAN] /\ seen'.race = seen.race
    BY <1>1, <2>3, SMT DEF Types
  <2>6. ~Serial
    BY <1>2, <1>4 DEF Serial, Fresh
  <2> QED
    BY <1>1, <1>2, <2>3, <2>4, <2>5, <2>6, AdvanceInv
<1> QED
  BY <1>3, <1>4

LEMMA AcceptInv ==
  ASSUME SessionInv, NEW m \in net, AcceptLogin(m) \/ AcceptLogout(m)
  PROVE  SessionInv'
<1>1. Types /\ m \in Request /\ now \in Token /\ None \in Token
  BY DEF SessionInv, Types, Token
<1>2. m.phase = "sent" /\ ServerUnchanged /\ UNCHANGED <<cookie, seen>>
  BY DEF AcceptLogin, AcceptLogout, ServerUnchanged
<1>3. CASE AcceptLogin(m)
  <2>1. PICK new : new = Answer(m, now)
    OBVIOUS
  <2>2. stored' = now /\ Advance(m, new)
    BY <1>3, <2>1 DEF AcceptLogin, Answer
  <2>3. /\ new \in Request /\ new.tab = m.tab /\ new.kind = m.kind
        /\ new.phase = "answered" /\ new.ok /\ new.result = now
    <3>1. m \in Request /\ now \in Token
      BY <1>1
    <3>2. new \in Request /\ new.tab = m.tab /\ new.kind = m.kind
      BY <2>1, <3>1, AnswerIsRequest
    <3>3. new.phase = "answered" /\ new.ok /\ new.result = now
      BY <2>1, <3>1, SMT DEF Answer, Request
    <3> QED
      BY <3>2, <3>3
  <2>4. Fresh(new)'
    BY <2>2, <2>3 DEF Fresh
  <2> QED
    BY <1>1, <1>2, <2>2, <2>3, <2>4, AdvanceInv DEF Serial, Types
<1>4. CASE AcceptLogout(m)
  <2>1. PICK new : new = [m EXCEPT !.phase = "answered", !.ok = TRUE]
    OBVIOUS
  <2>2. TRUE \in BOOLEAN /\ "answered" \in {"sent", "read", "answered"}
    OBVIOUS
  <2>3. stored' = None /\ Advance(m, new)
    BY <1>4, <2>1 DEF AcceptLogout
  <2>4. /\ new \in Request /\ new.tab = m.tab /\ new.kind = m.kind
        /\ new.phase = "answered" /\ new.ok /\ new.result = m.result
    <3>1. new \in Request
      BY <1>1, <2>1, <2>2, Zenon DEF Request
    <3> QED
      BY <1>1, <2>1, <3>1, SMT DEF Request
  <2>5. Serial => Fresh(new)'
    BY <1>2, <2>3, <2>4 DEF Serial, Fresh
  <2> QED
    BY <1>1, <1>2, <2>3, <2>4, <2>5, AdvanceInv DEF Serial, Types
<1> QED
  BY <1>3, <1>4

LEMMA CodeInv ==
  ASSUME SessionInv, OAuthCallback \/ ExpireCode \/ Elsewhere
  PROVE  SessionInv'
<1>1. Types /\ SocketInv /\ now \in Token /\ None \in Token /\ now # None
  BY SessionAssumption DEF SessionInv, Types, Token
<1>2. CASE OAuthCallback
  <2>1. /\ code = None /\ stored' = now /\ code' = now /\ seen' = [seen EXCEPT !.race = @ \/ Overlapping]
        /\ UNCHANGED <<cookie, disk, tab, net, now>>
    BY <1>2 DEF OAuthCallback
  <2>2. PICK b \in BOOLEAN : b = Overlapping
    BY DEF Overlapping
  <2>3. /\ seen' \in [race : BOOLEAN, revoked : BOOLEAN]
        /\ ~seen'.race => ~seen.race /\ ~b
        /\ seen'.revoked = seen.revoked
    <3>1. seen' = [seen EXCEPT !.race = @ \/ b]
      BY <2>1, <2>2
    <3> QED
      BY <1>1, <3>1, RaceKeeps
  <2>4. Types' /\ SocketInv'
    BY <1>1, <2>1, <2>3 DEF Types, SocketInv
  <2>5. ASSUME ~seen'.race PROVE Serial'
    <3>1. Serial /\ net = {}
      BY <2>2, <2>3, <2>5 DEF SessionInv, Overlapping
    <3> QED
      BY <1>1, <2>1, <2>3, <3>1 DEF Serial
  <2> QED
    BY <2>4, <2>5 DEF SessionInv
<1>3. CASE ExpireCode \/ Elsewhere
  <2>1. /\ stored' \in Token /\ code' \in Token /\ seen' = [seen EXCEPT !.race = TRUE]
        /\ UNCHANGED <<cookie, disk, tab, net, now>>
    BY <1>1, <1>3 DEF ExpireCode, Elsewhere, Types
  <2>2. PICK yes \in BOOLEAN : yes = TRUE
    OBVIOUS
  <2>3. seen' = [seen EXCEPT !.race = yes]
    BY <2>1, <2>2
  <2>4. seen' \in [race : BOOLEAN, revoked : BOOLEAN] /\ seen'.race
    <3>1. seen \in [race : BOOLEAN, revoked : BOOLEAN]
      BY <1>1 DEF Types
    <3>2. seen' \in [race : BOOLEAN, revoked : BOOLEAN] /\ seen'.race = yes
      BY <2>3, <3>1, SMT
    <3> QED
      BY <2>2, <3>2
  <2> QED
    BY <1>1, <2>1, <2>4 DEF SessionInv, Types, SocketInv
<1> QED
  BY <1>2, <1>3

LEMMA ExchangeCodeInv ==
  ASSUME SessionInv, NEW t \in Tabs, ExchangeCode(t)
  PROVE  SessionInv'
<1>1. Types /\ SocketInv /\ None \in Token
  BY DEF SessionInv, Types, Token
<1>2. PICK m : m = Message(t, "login")
  OBVIOUS
<1>3. m \in Request /\ m.tab = t /\ m.kind = "login"
  BY <1>1, <1>2, MessageIsRequest
<1>4. PICK new : new = Answer(m, code)
  OBVIOUS
<1>5. /\ code # None /\ code' = None /\ net' = net \union {new}
      /\ UNCHANGED <<stored, cookie, disk, tab, now, seen>>
  BY <1>2, <1>4 DEF ExchangeCode, Answer
<1>6. code \in Token
  BY <1>1 DEF Types
<1>7. new \in Request /\ new.tab = m.tab /\ new.kind = m.kind
  BY <1>3, <1>4, <1>6, AnswerIsRequest
<1>8. new.phase = "answered" /\ new.ok /\ new.result = code
  BY <1>3, <1>4, <1>6, SMT DEF Answer, Request
<1>9. Types' /\ SocketInv'
  BY <1>1, <1>5, <1>7 DEF Types, SocketInv
<1>10. ASSUME Serial PROVE Serial'
  <2>1. net' = {new} /\ stored = code
    BY <1>5, <1>10 DEF Serial
  <2>2. Fresh(new)' /\ LoadHasUser(new)'
    BY <1>3, <1>5, <1>7, <1>8, <2>1 DEF Fresh, LoadHasUser
  <2> QED
    BY <1>5, <1>10, <2>1, <2>2 DEF Serial
<1> QED
  BY <1>5, <1>9, <1>10 DEF SessionInv

-----------------------------------------------------------------------------
\* The answer.

LEMMA DeliverInv ==
  ASSUME SessionInv, NEW m \in net, Deliver(m)
  PROVE  SessionInv'
<1>1. Types /\ SocketInv /\ m \in Request /\ m.ok \in BOOLEAN /\ m.result \in Token
  BY DEF SessionInv, Types, Request
<1>2. /\ m.phase = "answered" /\ cookie' = (IF m.ok THEN m.result ELSE cookie)
      /\ Handle(m, m.ok) /\ net' = net \ {m} /\ UNCHANGED <<stored, code, now, seen>>
  BY DEF Deliver
<1>3. /\ tab' \in [Tabs -> Tab] /\ SocketInv' /\ disk' \in [user : BOOLEAN, auth : BOOLEAN]
      /\ LoadHasUser(m) /\ disk.auth = disk.user /\ (\A t \in Tabs : tab[t].auth = tab[t].user) =>
           disk'.auth = disk'.user /\ \A t \in Tabs : tab'[t].auth = tab'[t].user
  BY <1>1, <1>2, HandleKeeps
<1>4. Types'
  BY <1>1, <1>2, <1>3 DEF Types
<1>5. ASSUME Serial PROVE Serial'
  <2>1. net' = {} /\ code = None /\ Fresh(m) /\ LoadHasUser(m)
    BY <1>2, <1>5 DEF Serial
  <2>2. cookie' = stored'
    BY <1>2, <2>1 DEF Fresh
  <2> QED
    BY <1>2, <1>3, <1>5, <2>1, <2>2 DEF Serial
<1> QED
  BY <1>2, <1>3, <1>4, <1>5 DEF SessionInv

LEMMA LoseInv ==
  ASSUME SessionInv, NEW m \in net, Lose(m)
  PROVE  SessionInv'
<1>1. Types /\ SocketInv /\ m \in Request /\ m.ok \in BOOLEAN /\ FALSE \in BOOLEAN
  BY DEF SessionInv, Types, Request
<1>2. /\ m.phase # "read" /\ Handle(m, FALSE) /\ net' = net \ {m}
      /\ seen' = [seen EXCEPT !.race = @ \/ m.ok]
      /\ UNCHANGED <<stored, cookie, code, now>>
  BY DEF Lose
<1>3. /\ tab' \in [Tabs -> Tab] /\ SocketInv' /\ disk' \in [user : BOOLEAN, auth : BOOLEAN]
      /\ LoadHasUser(m) /\ disk.auth = disk.user /\ (\A t \in Tabs : tab[t].auth = tab[t].user) =>
           disk'.auth = disk'.user /\ \A t \in Tabs : tab'[t].auth = tab'[t].user
  BY <1>1, <1>2, HandleKeeps
<1>4. /\ seen' \in [race : BOOLEAN, revoked : BOOLEAN]
      /\ ~seen'.race => ~seen.race /\ ~m.ok
      /\ seen'.revoked = seen.revoked
  BY <1>1, <1>2, RaceKeeps
<1>5. Types'
  BY <1>1, <1>2, <1>3, <1>4 DEF Types
<1>6. ASSUME ~seen'.race PROVE Serial'
  <2>1. Serial /\ ~m.ok
    BY <1>4, <1>6 DEF SessionInv
  <2>2. net' = {} /\ code = None /\ Fresh(m) /\ LoadHasUser(m)
    BY <1>2, <2>1 DEF Serial
  <2>3. cookie = stored
    BY <1>1, <1>2, <2>1, <2>2 DEF Fresh, Request
  <2> QED
    BY <1>2, <1>3, <1>4, <2>1, <2>2, <2>3 DEF Serial
<1> QED
  BY <1>3, <1>5, <1>6 DEF SessionInv

-----------------------------------------------------------------------------
LEMMA SessionStep ==
  SessionInv /\ [Next]_vars => SessionInv'
<1> SUFFICES ASSUME SessionInv, [Next]_vars PROVE SessionInv'
  OBVIOUS
<1>1. ASSUME NEW t \in Tabs,
             \/ Load(t) \/ Redirect(t) \/ Navigate(t) \/ Unauthorized(t) \/ TimerFires(t)
             \/ SubmitLogin(t) \/ SubmitLogout(t) \/ ExchangeCode(t)
      PROVE  SessionInv'
  BY <1>1, PageInv, NavigateInv, TimerFiresInv, ExchangeCodeInv
<1>2. ASSUME NEW m \in net, Serve(m) \/ Deliver(m) \/ Lose(m)
      PROVE  SessionInv'
  BY <1>2, ReadTokenInv, RotateTokenInv, AcceptInv, DeliverInv, LoseInv DEF Serve
<1>3. CASE OAuthCallback \/ ExpireCode \/ Elsewhere
  BY <1>3, CodeInv
<1>4. CASE Tick
  <2>1. now' \in Nat /\ UNCHANGED <<stored, cookie, code, disk, tab, net, seen>>
    BY <1>4 DEF Tick, SessionInv, Types
  <2>2. Types' /\ SocketInv'
    BY <2>1 DEF SessionInv, Types, SocketInv
  <2>3. Serial => Serial'
    <3>1. \A m \in net : (Fresh(m) => Fresh(m)') /\ (LoadHasUser(m) => LoadHasUser(m)')
      BY <2>1, Zenon DEF Fresh, LoadHasUser
    <3> QED
      BY <2>1, <3>1 DEF Serial
  <2> QED
    BY <2>1, <2>2, <2>3 DEF SessionInv
<1>5. CASE UNCHANGED vars
  <2>1. UNCHANGED <<stored, cookie, code, disk, tab, net, now, seen>>
    BY <1>5 DEF vars
  <2>2. Types' /\ SocketInv'
    BY <2>1 DEF SessionInv, Types, SocketInv
  <2>3. Serial => Serial'
    <3>1. \A m \in net : (Fresh(m) => Fresh(m)') /\ (LoadHasUser(m) => LoadHasUser(m)')
      BY <2>1, Zenon DEF Fresh, LoadHasUser
    <3> QED
      BY <2>1, <3>1 DEF Serial
  <2> QED
    BY <2>1, <2>2, <2>3 DEF SessionInv
<1> QED
  BY <1>1, <1>2, <1>3, <1>4, <1>5 DEF Next

LEMMA SessionInvariant == Spec => []SessionInv
<1>1. Init => SessionInv
  BY SessionInitInv
<1>2. SessionInv /\ [Next]_vars => SessionInv'
  BY SessionStep
<1> QED
  BY <1>1, <1>2, PTL DEF Spec

\* While requests do not overlap, the session goes on: the cookie is the
\* stored token whenever nothing is under way, and no token is refused as
\* reused (auth.service refreshToken, auth.controller).
THEOREM SessionsContinue == Spec => []SessionContinues
<1>1. SessionInv => SessionContinues
  BY DEF SessionInv, Serial, SessionContinues
<1> QED
  BY <1>1, SessionInvariant, PTL

\* Whatever overlaps or is lost, a socket is open only under an
\* authenticated tab that shows the layout; and until there is a race a tab is
\* authenticated exactly when it has a user (authStore, Layout).
THEOREM TabsAreConsistent == Spec => []TabConsistent
<1>1. SessionInv => TabConsistent
  BY DEF SessionInv, SocketInv, Serial, TabConsistent
<1> QED
  BY <1>1, SessionInvariant, PTL
=============================================================================
