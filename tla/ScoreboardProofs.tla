---------------------------- MODULE ScoreboardProofs ----------------------------
(***************************************************************************)
(* What TLAPS proves of the leaderboard and of the evaluation that feeds   *)
(* it.  The theorems about Leaderboard hold for every set of users, files  *)
(* and requests, every metric, every order in which scores land and every  *)
(* outcome of the files; those about Evaluation for every competition and  *)
(* every file, of any number of rows.                                      *)
(*                                                                         *)
(* A scorer is a fold over rows.  The library's induction theorems cannot  *)
(* be applied here, so induction is drawn from the ordering of finite      *)
(* sets by strict inclusion, which is well founded: SetInduction.  With it *)
(* a fold is the last of the values it runs through (FoldTotals), and what *)
(* holds of a scorer after k rows is shown row by row.                     *)
(***************************************************************************)
EXTENDS Scoreboard, WellFoundedInduction, FiniteSetTheorems, FunctionTheorems,
        SequenceTheorems, TLAPS

BoardTypes ==
  /\ comp \in Competitions
  /\ scored \in [Users -> SUBSET Score]
  /\ entry \in [Users -> Score \union {NoEntry}]

BoardInv == BoardTypes /\ EntryIsBest

\* The entry of a user is as good as a score.
Reached(u, score) == entry[u] # NoEntry /\ ~Better(score, entry[u].pub)

\* A page whose scores the entries have reached.
Behind(page) ==
  \A i \in DOMAIN page :
    page[i].user \in Users /\ page[i].score \in Int /\ Reached(page[i].user, page[i].score)

\* CachedNeverAhead, with the pages that are about to be stored.
PageInv ==
  /\ DOMAIN reader = Readers
  /\ cache # NoPage => Behind(cache)
  /\ \A r \in Readers : reader[r].pc = "read" => Behind(reader[r].page)

-----------------------------------------------------------------------------
\* compareBest

LEMMA OutcomeType ==
  ASSUME BoardTypes, NEW f \in Files
  PROVE  Outcome[<<comp, f>>] \in Score \union {NoScore}
BY LeaderboardAssumption DEF BoardTypes

LEMMA CompareBest ==
  ASSUME NEW a \in Int, NEW b \in Int
  PROVE  /\ compareBest(a, b) \in {a, b}
         /\ ~Better(a, compareBest(a, b)) /\ ~Better(b, compareBest(a, b))
         /\ \A c \in Int : ~Better(c, a) => ~Better(c, compareBest(a, b))
BY DEF compareBest, Better

LEMMA NotBetterSelf == \A a \in Int : ~Better(a, a)
BY DEF Better

\* The entry of a user whose file is accepted.
LEMMA UpsertEntry ==
  ASSUME BoardInv, NEW u \in Users, NEW new \in Score, upsertLeaderboardEntry(u, new)
  PROVE  /\ entry' \in [Users -> Score \union {NoEntry}]
         /\ \A w \in Users : w # u => entry'[w] = entry[w]
         /\ entry[u] = NoEntry => entry'[u] = new
         /\ entry[u] # NoEntry =>
              /\ entry[u] \in Score
              /\ entry'[u] = [pub |-> compareBest(entry[u].pub, new.pub),
                              priv |-> compareBest(entry[u].priv, new.priv)]
         /\ entry'[u] \in Score
<1>1. CASE entry[u] = NoEntry
  BY <1>1 DEF upsertLeaderboardEntry, BoardInv, BoardTypes
<1>2. CASE entry[u] # NoEntry
  <2>1. entry[u] \in Score
    BY <1>2 DEF BoardInv, BoardTypes
  <2>2. [pub |-> compareBest(entry[u].pub, new.pub),
         priv |-> compareBest(entry[u].priv, new.priv)] \in Score
    BY <2>1, CompareBest DEF Score
  <2> QED
    BY <1>2, <2>1, <2>2 DEF upsertLeaderboardEntry, BoardInv, BoardTypes
<1> QED
  BY <1>1, <1>2

-----------------------------------------------------------------------------
\* The entry is the best of the files.

LEMMA InitBoard == Init => BoardInv
BY DEF Init, BoardInv, BoardTypes, EntryIsBest

\* The best of a user's scores, in each field apart.
Bests(u) ==
  /\ entry[u] # NoEntry
  /\ \E x \in scored[u] : entry[u].pub = x.pub
  /\ \E x \in scored[u] : entry[u].priv = x.priv
  /\ \A x \in scored[u] : ~Better(x.pub, entry[u].pub) /\ ~Better(x.priv, entry[u].priv)

LEMMA AcceptedFile ==
  ASSUME BoardInv, NEW u \in Users, NEW f \in Files, NEW new \in Score,
         new = Outcome[<<comp, f>>], ScoreFile(u, f)
  PROVE  /\ scored' = [scored EXCEPT ![u] = @ \union {new}]
         /\ upsertLeaderboardEntry(u, new)
         /\ comp' = comp /\ Bests(u)'
<1>1. /\ scored' = [scored EXCEPT ![u] = @ \union {new}]
      /\ upsertLeaderboardEntry(u, new) /\ comp' = comp
  BY LeaderboardAssumption DEF ScoreFile
<1>2. scored'[u] = scored[u] \union {new} /\ scored[u] \subseteq Score
  BY <1>1 DEF BoardInv, BoardTypes
<1>3. \A a, b : Better(a, b)' <=> Better(a, b)
  BY <1>1 DEF Better, Lower
<1>4. CASE entry[u] = NoEntry
  <2>1. scored[u] = {} /\ entry'[u] = new
    BY <1>1, <1>4, UpsertEntry DEF BoardInv, EntryIsBest
  <2> QED
    BY <1>1, <1>2, <1>3, <2>1, NotBetterSelf, LeaderboardAssumption DEF Bests, Score
<1>5. CASE entry[u] # NoEntry
  <2>1. /\ entry[u] \in Score /\ entry'[u] \in Score
        /\ entry'[u].pub = compareBest(entry[u].pub, new.pub)
        /\ entry'[u].priv = compareBest(entry[u].priv, new.priv)
    <3>1. /\ entry[u] \in Score /\ entry'[u] \in Score
          /\ entry'[u] = [pub |-> compareBest(entry[u].pub, new.pub),
                          priv |-> compareBest(entry[u].priv, new.priv)]
      BY <1>1, <1>5, UpsertEntry
    <3> QED
      BY <3>1
  <2>2. Bests(u)
    BY <1>5 DEF BoardInv, EntryIsBest, Bests
  <2>3. \E x \in scored'[u] : entry'[u].pub = x.pub
    BY <1>2, <2>1, <2>2, CompareBest DEF Bests, Score
  <2>4. \E x \in scored'[u] : entry'[u].priv = x.priv
    BY <1>2, <2>1, <2>2, CompareBest DEF Bests, Score
  <2>5. ASSUME NEW x \in scored'[u]
        PROVE  ~Better(x.pub, entry'[u].pub) /\ ~Better(x.priv, entry'[u].priv)
    <3>1. /\ x.pub \in Int /\ x.priv \in Int /\ new.pub \in Int /\ new.priv \in Int
          /\ entry[u].pub \in Int /\ entry[u].priv \in Int
      BY <1>2, <2>1 DEF Score
    <3>2. CASE x = new
      BY <2>1, <3>1, <3>2, CompareBest
    <3>3. CASE x \in scored[u]
      BY <2>1, <2>2, <3>1, <3>3, CompareBest DEF Bests
    <3> QED
      BY <1>2, <3>2, <3>3
  <2>6. entry'[u] # NoEntry
    BY <2>1, LeaderboardAssumption
  <2>7. Bests(u)'
    BY <1>3, <2>3, <2>4, <2>5, <2>6 DEF Bests
  <2> QED
    BY <1>1, <2>7
<1> QED
  BY <1>1, <1>4, <1>5

\* A step is an accepted file, or leaves scores and entries alone.
LEMMA BoardSteps ==
  ASSUME BoardTypes, [Next]_vars
  PROVE  \/ \E u \in Users, f \in Files : Outcome[<<comp, f>>] \in Score /\ ScoreFile(u, f)
         \/ UNCHANGED <<comp, scored, entry>>
<1>1. ASSUME NEW u \in Users, NEW f \in Files, ScoreFile(u, f), Outcome[<<comp, f>>] \notin Score
      PROVE  UNCHANGED <<comp, scored, entry>>
  BY <1>1, OutcomeType DEF ScoreFile
<1>2. ASSUME NEW r \in Readers, GetCached(r) \/ ReadFirstPage(r) \/ StorePage(r) \/ Deliver(r)
      PROVE  UNCHANGED <<comp, scored, entry>>
  BY <1>2 DEF GetCached, ReadFirstPage, StorePage, Deliver, BoardUnchanged
<1>3. ASSUME NEW r \in Readers, GetLaterPage(r) \/ GetPrivate(r) \/ GetShakeup(r) \/ ExportCsv(r)
      PROVE  UNCHANGED <<comp, scored, entry>>
  <2>1. ASSUME NEW kind, NEW pages, Respond(r, kind, pages) PROVE UNCHANGED <<comp, scored, entry>>
    BY <2>1 DEF Respond, BoardUnchanged
  <2> QED
    BY <1>3, <2>1 DEF GetLaterPage, GetPrivate, GetShakeup, ExportCsv
<1>4. ASSUME Complete \/ Tick \/ UNCHANGED vars PROVE UNCHANGED <<comp, scored, entry>>
  BY <1>4 DEF Complete, Tick, vars
<1> QED
  BY <1>1, <1>2, <1>3, <1>4 DEF Next

LEMMA NextBoard == BoardInv /\ [Next]_vars => BoardInv'
<1> SUFFICES ASSUME BoardInv, [Next]_vars PROVE BoardInv'
  OBVIOUS
<1>1. ASSUME NEW u \in Users, NEW f \in Files, Outcome[<<comp, f>>] \in Score, ScoreFile(u, f)
      PROVE  BoardInv'
  <2>1. PICK new \in Score : new = Outcome[<<comp, f>>]
    BY <1>1
  <2>2. /\ scored' = [scored EXCEPT ![u] = @ \union {new}]
        /\ upsertLeaderboardEntry(u, new) /\ comp' = comp /\ Bests(u)'
    BY <1>1, <2>1, AcceptedFile
  <2>3. BoardTypes'
    BY <2>2, UpsertEntry DEF BoardInv, BoardTypes
  <2>4. \A a, b : Better(a, b)' <=> Better(a, b)
    BY <2>2 DEF Better, Lower
  <2>5. ASSUME NEW w \in Users, w # u
        PROVE  scored'[w] = scored[w] /\ entry'[w] = entry[w]
    BY <2>2, <2>5, UpsertEntry DEF BoardInv, BoardTypes
  <2>6. scored'[u] # {}
    BY <2>2 DEF BoardInv, BoardTypes
  <2> QED
    BY <2>2, <2>3, <2>4, <2>5, <2>6 DEF BoardInv, EntryIsBest, Bests
<1>2. CASE UNCHANGED <<comp, scored, entry>>
  BY <1>2 DEF BoardInv, BoardTypes, EntryIsBest, Better, Lower
<1> QED
  BY <1>1, <1>2, BoardSteps DEF BoardInv

\* An entry holds the best public and, apart from it, the best private score.
THEOREM EntriesAreBest == Spec => []EntryIsBest
<1>1. BoardInv => EntryIsBest
  BY DEF BoardInv
<1> QED
  BY <1>1, InitBoard, NextBoard, PTL DEF Spec

-----------------------------------------------------------------------------
\* The refinement.

LEMMA InitRefines == Init => Best!Init
BY DEF Init, Best!Init, Lower

LEMMA NextRefines == BoardInv /\ [Next]_vars => [Best!Next]_(Best!vars)
<1> SUFFICES ASSUME BoardInv, [Next]_vars PROVE [Best!Next]_(Best!vars)
  OBVIOUS
<1>1. ASSUME NEW u \in Users, NEW f \in Files, Outcome[<<comp, f>>] \in Score, ScoreFile(u, f)
      PROVE  [Best!Next]_(Best!vars)
  <2>1. PICK new \in Score : new = Outcome[<<comp, f>>]
    BY <1>1
  <2>2. /\ scored' = [scored EXCEPT ![u] = @ \union {new}]
        /\ upsertLeaderboardEntry(u, new) /\ comp' = comp /\ Bests(u)'
    BY <1>1, <2>1, AcceptedFile
  <2>3. BoardInv'
    BY NextBoard
  <2>4. Lower' = Lower
    BY <2>2 DEF Lower
  <2>5. CASE new \notin scored[u]
    <3>1. new \in scored'[u] \ scored[u] /\ scored'[u] \subseteq Score /\ entry'[u] \in Score
      BY <2>1, <2>2, <2>3, <2>5, UpsertEntry DEF BoardInv, BoardTypes
    <3>2. PICK x \in scored'[u] : entry'[u].pub = x.pub
      BY <2>2 DEF Bests
    <3>3. PICK y \in scored'[u] : entry'[u].priv = y.priv
      BY <2>2 DEF Bests
    <3>4. \A z \in scored'[u] : ~Better(z.pub, x.pub) /\ ~Better(z.priv, y.priv)
      BY <2>2, <2>4, <3>2, <3>3 DEF Bests, Better
    <3>5. Best!IsBest(x, scored'[u], "pub") /\ Best!IsBest(y, scored'[u], "priv")
      BY <3>1, <3>2, <3>3, <3>4 DEF Best!IsBest, Best!NoWorse, Better, Score
    <3>6. entry' = [entry EXCEPT ![u] = [pub |-> x.pub, priv |-> y.priv]]
      <4>1. entry'[u] = [pub |-> x.pub, priv |-> y.priv]
        BY <3>1, <3>2, <3>3 DEF Score
      <4>2. \A w \in Users : w # u => entry'[w] = entry[w]
        BY <2>2, UpsertEntry
      <4> QED
        BY <2>3, <4>1, <4>2 DEF BoardInv, BoardTypes
    <3>7. Best!Accept(u)
      BY <2>2, <2>4, <3>1, <3>5, <3>6 DEF Best!Accept
    <3> QED
      BY <3>7 DEF Best!Next
  <2>6. CASE new \in scored[u]
    <3>1. scored' = scored
      BY <2>2, <2>6 DEF BoardInv, BoardTypes
    <3>2. /\ entry[u] \in Score
          /\ ~Better(new.pub, entry[u].pub) /\ ~Better(new.priv, entry[u].priv)
      BY <2>6 DEF BoardInv, BoardTypes, EntryIsBest
    <3>3. compareBest(entry[u].pub, new.pub) = entry[u].pub
      BY <2>1, <3>2 DEF compareBest, Better, Score
    <3>4. compareBest(entry[u].priv, new.priv) = entry[u].priv
      BY <2>1, <3>2 DEF compareBest, Better, Score
    <3>5. entry'[u] = entry[u]
      BY <2>2, <3>2, <3>3, <3>4, UpsertEntry, LeaderboardAssumption DEF Score
    <3>6. entry' = entry
      BY <2>2, <2>3, <3>5, UpsertEntry DEF BoardInv, BoardTypes
    <3> QED
      BY <2>4, <3>1, <3>6 DEF Best!vars
  <2> QED
    BY <2>5, <2>6
<1>2. CASE UNCHANGED <<comp, scored, entry>>
  BY <1>2 DEF Best!vars, Lower
<1> QED
  BY <1>1, <1>2, BoardSteps DEF BoardInv

\* Every step of the workers and the requests is, for the entries, one result
\* that is accepted, or nothing.
THEOREM LeaderboardKeepsBestScores == Spec => BestScoresSpec
<1>1. Spec => []BoardInv
  BY InitBoard, NextBoard, PTL DEF Spec
<1> QED
  BY <1>1, InitRefines, NextRefines, PTL DEF Spec, BestScoresSpec, Best!Spec

-----------------------------------------------------------------------------
\* The cached page.

LEMMA PagesBehind ==
  ASSUME BoardInv, NEW page \in Pages("pub", 0)
  PROVE  Behind(page)
<1>1. PICK o \in Orders("pub") : page = PageOf(o, "pub", 0)
  BY DEF Pages
<1>2. Ranked \in SUBSET Users /\ Cardinality(Ranked) \in Nat
  <2>1. Ranked \in SUBSET Users
    BY DEF Ranked
  <2> QED
    BY <2>1, LeaderboardAssumption, FS_Subset, FS_CardinalityType
<1>3. o \in Seq(Ranked) /\ o \in [1..Cardinality(Ranked) -> Ranked] /\ Len(o) = Cardinality(Ranked)
  BY <1>2 DEF Orders
<1>4. PICK last : last = IF 0 + Limit < Len(o) THEN 0 + Limit ELSE Len(o)
  OBVIOUS
<1>5. last \in Nat /\ last <= Len(o)
  BY <1>2, <1>3, <1>4, LeaderboardAssumption
<1>6. PICK s : s = SubSeq(o, 1, last)
  OBVIOUS
<1>7. Slice(o, 0) = s
  BY <1>4, <1>6 DEF Slice
<1>8. DOMAIN s = 1..last /\ \A i \in 1..last : s[i] \in Ranked
  BY <1>2, <1>3, <1>5, <1>6
<1>9. page = assignTiedRanks([i \in DOMAIN s |-> Row(s[i], "pub")], 0)
  BY <1>1, <1>7 DEF PageOf
<1>10. ASSUME NEW i \in DOMAIN page
       PROVE  page[i].user = s[i] /\ page[i].score = entry[s[i]].pub /\ s[i] \in Ranked
  BY <1>8, <1>9 DEF assignTiedRanks, Row
<1> QED
  BY <1>10, NotBetterSelf DEF Behind, Reached, Ranked, BoardInv, BoardTypes, Score

\* An entry only gets better.
LEMMA StaysReached ==
  ASSUME BoardInv, [Next]_vars, NEW v \in Users, NEW a \in Int, Reached(v, a)
  PROVE  Reached(v, a)'
<1>1. entry[v] \in Score
  BY DEF BoardInv, BoardTypes, Reached
<1>2. ASSUME NEW f \in Files, Outcome[<<comp, f>>] \in Score, ScoreFile(v, f)
      PROVE  Reached(v, a)'
  <2>1. PICK new \in Score : new = Outcome[<<comp, f>>]
    BY <1>2
  <2>2. upsertLeaderboardEntry(v, new) /\ comp' = comp
    BY <1>2, <2>1, AcceptedFile
  <2>3. entry'[v] = [pub |-> compareBest(entry[v].pub, new.pub),
                     priv |-> compareBest(entry[v].priv, new.priv)] /\ entry'[v] \in Score
    BY <2>2, UpsertEntry DEF Reached
  <2>4. entry'[v].pub = compareBest(entry[v].pub, new.pub)
    BY <2>3
  <2>5. ~Better(a, entry'[v].pub)
    BY <1>1, <2>4, CompareBest DEF Score, Reached
  <2>6. \A x, y : Better(x, y)' <=> Better(x, y)
    BY <2>2 DEF Better, Lower
  <2> QED
    BY <2>3, <2>5, <2>6, LeaderboardAssumption DEF Reached
<1>3. ASSUME NEW u \in Users, u # v, NEW f \in Files, Outcome[<<comp, f>>] \in Score, ScoreFile(u, f)
      PROVE  Reached(v, a)'
  <2>1. PICK new \in Score : new = Outcome[<<comp, f>>]
    BY <1>3
  <2>2. upsertLeaderboardEntry(u, new) /\ comp' = comp
    BY <1>3, <2>1, AcceptedFile
  <2>3. entry'[v] = entry[v]
    BY <1>3, <2>2, UpsertEntry
  <2> QED
    BY <2>2, <2>3 DEF Reached, Better, Lower
<1>4. CASE UNCHANGED <<comp, scored, entry>>
  BY <1>4 DEF Reached, Better, Lower
<1> QED
  BY <1>2, <1>3, <1>4, BoardSteps DEF BoardInv

LEMMA StaysBehind ==
  ASSUME BoardInv, [Next]_vars, NEW page, Behind(page)
  PROVE  Behind(page)'
BY StaysReached DEF Behind

LEMMA InitPages == Init => PageInv
BY DEF Init, PageInv, Idle

\* A request that comes to a step other than "read", with the copy as it is.
LEMMA PagesKept ==
  ASSUME BoardInv, PageInv, [Next]_vars, NEW r \in Readers, NEW pc, NEW page,
         Turn(r, pc, page), pc # "read", cache' = cache
  PROVE  PageInv'
<1>1. /\ DOMAIN reader' = Readers /\ reader'[r].pc # "read"
      /\ \A k \in Readers : k # r => reader'[k] = reader[k]
  BY DEF Turn, PageInv
<1>2. ASSUME NEW k \in Readers, reader'[k].pc = "read" PROVE Behind(reader[k].page)'
  <2>1. PICK p : p = reader[k].page
    OBVIOUS
  <2>2. reader'[k] = reader[k] /\ Behind(p)
    BY <1>1, <1>2, <2>1 DEF PageInv
  <2>3. Behind(p)'
    BY <2>2, StaysBehind
  <2> QED
    BY <2>1, <2>2, <2>3 DEF Behind
<1>3. cache' # NoPage => Behind(cache)'
  <2>1. PICK p : p = cache
    OBVIOUS
  <2>2. p # NoPage => Behind(p)'
    BY <2>1, StaysBehind DEF PageInv
  <2> QED
    BY <2>1, <2>2 DEF Behind
<1> QED
  BY <1>1, <1>2, <1>3 DEF PageInv

LEMMA NextPages == BoardInv /\ PageInv /\ [Next]_vars => PageInv'
<1> SUFFICES ASSUME BoardInv, PageInv, [Next]_vars PROVE PageInv'
  OBVIOUS
<1>1. ASSUME NEW k \in Readers, reader'[k] = reader[k], reader[k].pc = "read"
      PROVE  Behind(reader[k].page)'
  <2>1. PICK p : p = reader[k].page
    OBVIOUS
  <2>2. Behind(p)'
    BY <1>1, <2>1, StaysBehind DEF PageInv
  <2> QED
    BY <1>1, <2>1, <2>2 DEF Behind
<1>2. ASSUME cache # NoPage, cache' = cache PROVE Behind(cache)'
  <2>1. PICK p : p = cache
    OBVIOUS
  <2>2. Behind(p)'
    BY <1>2, <2>1, StaysBehind DEF PageInv
  <2> QED
    BY <1>2, <2>1, <2>2 DEF Behind
<1>3. ASSUME NEW r \in Readers, GetCached(r) PROVE PageInv'
  BY <1>3, PagesKept DEF GetCached, BoardUnchanged
<1>4. ASSUME NEW r \in Readers, ReadFirstPage(r) PROVE PageInv'
  <2>1. PICK page \in Pages("pub", 0) : Turn(r, "read", page)
    BY <1>4 DEF ReadFirstPage
  <2>2. Behind(page)'
    BY PagesBehind, StaysBehind
  <2>3. /\ DOMAIN reader' = Readers /\ reader'[r].page = page
        /\ \A k \in Readers : k # r => reader'[k] = reader[k]
    BY <2>1 DEF Turn, PageInv
  <2>4. Behind(reader[r].page)'
    BY <2>2, <2>3 DEF Behind
  <2>5. ASSUME NEW k \in Readers, reader'[k].pc = "read" PROVE Behind(reader[k].page)'
    BY <1>1, <2>3, <2>4, <2>5
  <2>6. cache' = cache
    BY <1>4 DEF ReadFirstPage, BoardUnchanged
  <2> QED
    BY <1>2, <2>3, <2>5, <2>6 DEF PageInv
<1>5. ASSUME NEW r \in Readers, StorePage(r) PROVE PageInv'
  <2>1. PICK p : p = reader[r].page
    OBVIOUS
  <2>2. Behind(p)'
    BY <1>5, <2>1, StaysBehind DEF StorePage, PageInv
  <2>3. Behind(cache)'
    BY <1>5, <2>1, <2>2 DEF StorePage, Behind
  <2>4. /\ DOMAIN reader' = Readers /\ reader'[r].pc = "public"
        /\ \A k \in Readers : k # r => reader'[k] = reader[k]
    BY <1>5 DEF StorePage, Turn, PageInv
  <2>5. ASSUME NEW k \in Readers, reader'[k].pc = "read" PROVE Behind(reader[k].page)'
    BY <1>1, <2>4, <2>5
  <2> QED
    BY <2>3, <2>4, <2>5 DEF PageInv
<1>6. ASSUME NEW r \in Readers, Deliver(r) PROVE PageInv'
  BY <1>6, PagesKept DEF Deliver, Idle, Turn, BoardUnchanged
<1>7. ASSUME NEW r \in Readers, GetLaterPage(r) \/ GetPrivate(r) \/ GetShakeup(r) \/ ExportCsv(r)
      PROVE  PageInv'
  <2>1. ASSUME NEW kind, NEW pages, Respond(r, kind, pages), kind # "read" PROVE PageInv'
    BY <2>1, PagesKept DEF Respond, BoardUnchanged
  <2> QED
    BY <1>7, <2>1 DEF GetLaterPage, GetPrivate, GetShakeup, ExportCsv
<1>8. ASSUME reader' = reader, cache' = cache \/ cache' = NoPage PROVE PageInv'
  <2>1. \A k \in Readers : reader'[k].pc = "read" => Behind(reader[k].page)'
    BY <1>1, <1>8
  <2> QED
    BY <1>2, <1>8, <2>1 DEF PageInv
<1>9. ASSUME NEW u \in Users, NEW f \in Files, ScoreFile(u, f) PROVE PageInv'
  BY <1>8, <1>9 DEF ScoreFile
<1>10. CASE Complete
  BY <1>8, <1>10 DEF Complete
<1>11. CASE Tick
  BY <1>8, <1>11 DEF Tick
<1>12. CASE UNCHANGED vars
  BY <1>8, <1>12 DEF vars
<1> QED
  BY <1>3, <1>4, <1>5, <1>6, <1>7, <1>9, <1>10, <1>11, <1>12 DEF Next

\* The cached page may lag; it never shows a better score than the entry's.
THEOREM CacheIsNeverAhead == Spec => []CachedNeverAhead
<1>1. PageInv => CachedNeverAhead
  BY DEF PageInv, CachedNeverAhead, Behind, Reached
<1> QED
  BY <1>1, InitBoard, NextBoard, InitPages, NextPages, PTL DEF Spec

-----------------------------------------------------------------------------
\* Orders and ranks.

Fields == {"pub", "priv"}

\* The entries with a better score than this one.
Beaten(field, score) == {u \in Ranked : Better(entry[u][field], score)}

LEMMA RankedIsFinite ==
  Ranked \subseteq Users /\ IsFiniteSet(Ranked) /\ Cardinality(Ranked) \in Nat
<1>1. Ranked \in SUBSET Users
  BY DEF Ranked
<1> QED
  BY <1>1, LeaderboardAssumption, FS_Subset, FS_CardinalityType

LEMMA RankedScores ==
  ASSUME BoardTypes, NEW u \in Ranked, NEW field \in Fields
  PROVE  u \in Users /\ entry[u][field] \in Int
<1>1. u \in Users /\ entry[u] \in Score
  BY DEF Ranked, BoardTypes
<1> QED
  BY <1>1 DEF Score, Fields

\* An order lists every entry once.
LEMMA OrderListsAll ==
  ASSUME NEW field, NEW o \in Orders(field)
  PROVE  /\ o \in [1..Cardinality(Ranked) -> Ranked]
         /\ \A i, j \in 1..Cardinality(Ranked) : o[i] = o[j] => i = j
         /\ \A u \in Ranked : \E k \in 1..Cardinality(Ranked) : o[k] = u
<1>1. PICK n \in Nat : n = Cardinality(Ranked)
  BY RankedIsFinite
<1>2. o \in [1..n -> Ranked] /\ \A i, j \in 1..n : o[i] = o[j] => i = j
  BY <1>1 DEF Orders
<1>3. o \in Injection(1..n, Ranked)
  BY <1>2, Fun_IsInj
<1>4. Cardinality(1..n) = n
  BY FS_Interval
<1>5. o \in Surjection(1..n, Ranked)
  BY <1>1, <1>3, <1>4, RankedIsFinite, FS_Injection
<1>6. \A u \in Ranked : \E k \in 1..n : o[k] = u
  BY <1>5, Fun_SurjectionProperties
<1> QED
  BY <1>1, <1>2, <1>6

\* The positions with a better score than this one come first, and there are
\* as many of them as such entries.
LEMMA BeatenComeFirst ==
  ASSUME BoardTypes, NEW field \in Fields, NEW o \in Orders(field), NEW score \in Int
  PROVE  /\ Cardinality(Beaten(field, score)) \in Nat
         /\ \A k \in 1..Cardinality(Ranked) :
              Better(entry[o[k]][field], score) <=> k <= Cardinality(Beaten(field, score))
<1>1. PICK n \in Nat : n = Cardinality(Ranked)
  BY RankedIsFinite
<1>2. /\ o \in [1..n -> Ranked]
      /\ \A i, j \in 1..n : o[i] = o[j] => i = j
      /\ \A u \in Ranked : \E k \in 1..n : o[k] = u
  BY <1>1, OrderListsAll
<1>3. \A i, j \in 1..n : i < j => ~Better(entry[o[j]][field], entry[o[i]][field])
  BY <1>1, <1>2 DEF Orders
<1>4. \A i \in 1..n : entry[o[i]][field] \in Int
  BY <1>2, RankedScores
<1>5. PICK first : first = {k \in 1..n : Better(entry[o[k]][field], score)}
  OBVIOUS
<1>6. first \in SUBSET (1..n) /\ IsFiniteSet(1..n)
  BY <1>5, FS_Interval
<1>7. IsFiniteSet(first) /\ Cardinality(first) \in Nat
  BY <1>6, FS_Subset, FS_CardinalityType
<1>8. Cardinality(Beaten(field, score)) = Cardinality(first)
  <2>1. PICK f : f = [k \in first |-> o[k]]
    OBVIOUS
  <2>2. f \in [first -> Beaten(field, score)]
    BY <1>2, <1>5, <2>1 DEF Beaten
  <2>3. \A a, b \in first : f[a] = f[b] => a = b
    BY <1>2, <1>6, <2>1
  <2>4. \A u \in Beaten(field, score) : \E k \in first : f[k] = u
    BY <1>2, <1>5, <2>1 DEF Beaten
  <2>5. f \in Injection(first, Beaten(field, score))
    BY <2>2, <2>3, Fun_IsInj
  <2>6. f \in Surjection(first, Beaten(field, score))
    BY <2>2, <2>4, Fun_IsSurj
  <2> QED
    BY <1>7, <2>5, <2>6, FS_Surjection
<1>9. ASSUME NEW k \in 1..n, k \in first PROVE k <= Cardinality(first)
  <2>1. ASSUME NEW j \in 1..k PROVE j \in first
    <3>1. j \in 1..n /\ (j = k \/ j < k)
      OBVIOUS
    <3>2. j < k => ~Better(entry[o[k]][field], entry[o[j]][field])
      BY <1>3, <3>1
    <3>3. entry[o[j]][field] \in Int /\ entry[o[k]][field] \in Int
      BY <1>4, <3>1
    <3> QED
      BY <1>5, <1>9, <3>1, <3>2, <3>3 DEF Better
  <2>2. 1..k \in SUBSET first
    BY <2>1
  <2>3. Cardinality(1..k) = k
    BY FS_Interval
  <2>4. Cardinality(1..k) <= Cardinality(first)
    BY <1>7, <2>2, FS_Subset
  <2> QED
    BY <2>3, <2>4
<1>10. ASSUME NEW k \in 1..n, k \notin first PROVE ~(k <= Cardinality(first))
  <2>1. ASSUME NEW j \in first PROVE j \in 1..(k - 1)
    <3>1. j \in 1..n /\ j # k
      BY <1>6, <1>10, <2>1
    <3>2. k < j => ~Better(entry[o[j]][field], entry[o[k]][field])
      BY <1>3, <3>1
    <3>3. entry[o[j]][field] \in Int /\ entry[o[k]][field] \in Int
      BY <1>4, <3>1
    <3> QED
      BY <1>5, <1>10, <2>1, <3>1, <3>2, <3>3 DEF Better
  <2>2. first \in SUBSET (1..(k - 1)) /\ IsFiniteSet(1..(k - 1)) /\ Cardinality(1..(k - 1)) = k - 1
    BY <2>1, FS_Interval
  <2>3. Cardinality(first) <= k - 1
    BY <2>2, FS_Subset, ZenonT(30)
  <2> QED
    BY <1>7, <2>3
<1> QED
  BY <1>1, <1>5, <1>7, <1>8, <1>9, <1>10

\* The first row of equal score, when there is one.
LEMMA FirstOfEquals ==
  ASSUME NEW rows, NEW i \in Nat, NEW j \in 1..i, rows[j].score = rows[i].score,
         \A k \in 1..(j - 1) : rows[k].score # rows[i].score
  PROVE  FirstEqual(rows, i) = j
<1> DEFINE P(m) == /\ rows[m].score = rows[i].score
                   /\ \A k \in 1..(m - 1) : rows[k].score # rows[i].score
<1>1. PICK c : c = FirstEqual(rows, i)
  OBVIOUS
<1>2. c \in 1..i /\ P(c)
  BY <1>1, Zenon DEF FirstEqual
<1>3. ~(c < j) /\ ~(j < c)
  BY <1>2
<1> QED
  BY <1>1, <1>2, <1>3

\* The rows of a page.
LEMMA PageRows ==
  ASSUME BoardTypes, NEW field \in Fields, NEW offset \in Nat, NEW o \in Orders(field)
  PROVE  \E n \in Nat : \E rows :
           /\ \A i \in 1..n : /\ offset + i \in 1..Cardinality(Ranked)
                              /\ rows[i] = Row(o[offset + i], field)
           /\ PageOf(o, field, offset) =
                [i \in 1..n |-> [rows[i] EXCEPT !.rank = offset + FirstEqual(rows, i)]]
<1>1. PICK total \in Nat : total = Cardinality(Ranked)
  BY RankedIsFinite
<1>2. o \in [1..total -> Ranked] /\ o \in Seq(Ranked) /\ Len(o) = total
  BY <1>1, OrderListsAll
<1>3. PICK last : last = IF offset + Limit < Len(o) THEN offset + Limit ELSE Len(o)
  OBVIOUS
<1>4. last \in Nat /\ last <= total
  BY <1>2, <1>3, LeaderboardAssumption
<1>5. PICK s : s = SubSeq(o, offset + 1, last)
  OBVIOUS
<1>6. Slice(o, offset) = s
  BY <1>3, <1>5, Zenon DEF Slice
<1>7. PICK n \in Nat : n = IF offset < last THEN last - offset ELSE 0
  <2>1. (IF offset < last THEN last - offset ELSE 0) \in Nat
    BY <1>4
  <2> QED
    BY <2>1, Zenon
<1>8. DOMAIN s = 1..n /\ \A i \in 1..n : s[i] = o[offset + i]
  <2>1. \A i \in (offset + 1)..last : o[i] \in Ranked
    BY <1>2, <1>4
  <2>2. /\ s \in Seq(Ranked)
        /\ Len(s) = IF offset + 1 <= last THEN last - (offset + 1) + 1 ELSE 0
        /\ \A i \in 1..(last - (offset + 1) + 1) : s[i] = o[offset + 1 + i - 1]
    BY <1>4, <1>5, <2>1, SubSeqProperties
  <2>3. \A i \in 1..n : i \in 1..(last - (offset + 1) + 1) /\ offset + 1 + i - 1 = offset + i
    BY <1>4, <1>7
  <2> QED
    BY <1>4, <1>7, <2>2, <2>3
<1>9. PICK rows : rows = [i \in 1..n |-> Row(s[i], field)]
  OBVIOUS
<1>10. PageOf(o, field, offset) = assignTiedRanks(rows, offset)
  BY <1>6, <1>8, <1>9, Zenon DEF PageOf
<1>11. DOMAIN rows = 1..n
  BY <1>9
<1>12. assignTiedRanks(rows, offset) =
         [i \in 1..n |-> [rows[i] EXCEPT !.rank = offset + FirstEqual(rows, i)]]
  BY <1>11, Zenon DEF assignTiedRanks
<1>13. \A i \in 1..n : offset + i \in 1..Cardinality(Ranked) /\ rows[i] = Row(o[offset + i], field)
  BY <1>1, <1>4, <1>7, <1>8, <1>9
<1> QED
  BY <1>10, <1>12, <1>13, Zenon

\* A better score has a smaller rank.
Ordered(page) ==
  \A i, j \in DOMAIN page : Better(page[i].score, page[j].score) => page[i].rank < page[j].rank

LEMMA PageRanks ==
  ASSUME BoardTypes, NEW field \in Fields, NEW offset \in Nat, NEW page \in Pages(field, offset)
  PROVE  IsPage(page) /\ Exact(page, field, offset) /\ Ordered(page)
<1>1. PICK o \in Orders(field) : page = PageOf(o, field, offset)
  BY DEF Pages
<1>2. PICK total \in Nat : total = Cardinality(Ranked)
  BY RankedIsFinite
<1>3. o \in [1..total -> Ranked]
  BY <1>2, OrderListsAll
<1>4. PICK n \in Nat : \E rows :
        /\ \A i \in 1..n : /\ offset + i \in 1..total
                           /\ rows[i] = Row(o[offset + i], field)
        /\ page = [i \in 1..n |-> [rows[i] EXCEPT !.rank = offset + FirstEqual(rows, i)]]
  <2>1. \E n \in Nat : \E rows :
          /\ \A i \in 1..n : /\ offset + i \in 1..Cardinality(Ranked)
                             /\ rows[i] = Row(o[offset + i], field)
          /\ PageOf(o, field, offset) =
               [i \in 1..n |-> [rows[i] EXCEPT !.rank = offset + FirstEqual(rows, i)]]
    BY PageRows, Zenon
  <2> QED
    BY <1>1, <1>2, <2>1, Zenon
<1>5. PICK rows :
        /\ \A i \in 1..n : /\ offset + i \in 1..total
                           /\ rows[i] = Row(o[offset + i], field)
        /\ page = [i \in 1..n |-> [rows[i] EXCEPT !.rank = offset + FirstEqual(rows, i)]]
  BY <1>4
<1>6. ASSUME NEW i \in 1..n
      PROVE  /\ offset + i \in 1..total /\ o[offset + i] \in Ranked
             /\ rows[i].score = entry[o[offset + i]][field]
             /\ page[i].user = o[offset + i]
             /\ page[i].score = entry[o[offset + i]][field]
             /\ page[i].rank = offset + FirstEqual(rows, i)
  <2>1. PICK rank : rank = offset + FirstEqual(rows, i)
    OBVIOUS
  <2>2. page[i] = [rows[i] EXCEPT !.rank = rank]
    BY <1>5, <2>1
  <2>3. rows[i] = [user |-> o[offset + i], score |-> entry[o[offset + i]][field], rank |-> 0]
    BY <1>5 DEF Row
  <2>4. offset + i \in 1..total /\ o[offset + i] \in Ranked
    BY <1>3, <1>5
  <2> QED
    BY <2>1, <2>2, <2>3, <2>4
<1>7. \A i \in 1..n : page[i].user \in Users /\ page[i].score \in Int
  BY <1>6, RankedScores
<1>8. ASSUME NEW i \in 1..n, NEW j \in 1..n, i < j
      PROVE  ~Better(page[j].score, page[i].score)
  <2>1. \A k, l \in 1..total : k < l => ~Better(entry[o[l]][field], entry[o[k]][field])
    BY <1>2, <1>3 DEF Orders
  <2>2. offset + i < offset + j
    BY <1>8
  <2> QED
    BY <1>6, <2>1, <2>2
<1>9. ASSUME NEW i \in 1..n
      PROVE  \E b \in Nat :
               /\ b = Cardinality(Beaten(field, page[i].score))
               /\ \A k \in 1..n : Better(page[k].score, page[i].score) <=> offset + k <= b
               /\ b < offset + i
               /\ page[i].rank = IF b < offset THEN offset + 1 ELSE b + 1
  <2>1. PICK sc \in Int : sc = page[i].score
    BY <1>7
  <2>2. PICK b \in Nat : /\ b = Cardinality(Beaten(field, sc))
                         /\ \A k \in 1..total : Better(entry[o[k]][field], sc) <=> k <= b
    BY <1>2, BeatenComeFirst
  <2>3. \A k \in 1..n : Better(page[k].score, sc) <=> offset + k <= b
    BY <1>6, <2>2
  <2>4. b < offset + i
    <3>1. ~(offset + i <= b)
      BY <2>1, <2>3, NotBetterSelf
    <3> QED
      BY <2>2, <3>1
  <2>5. \A k \in 1..i : offset + k > b => rows[k].score = rows[i].score
    <3>1. ASSUME NEW k \in 1..i, offset + k > b PROVE page[k].score = page[i].score
      <4>1. k \in 1..n /\ (k = i \/ k < i) /\ ~(offset + k <= b)
        BY <2>2, <3>1
      <4>2. ~Better(page[k].score, page[i].score)
        BY <2>1, <2>3, <4>1
      <4>3. k < i => ~Better(page[i].score, page[k].score)
        BY <1>8, <4>1
      <4> QED
        BY <1>7, <4>1, <4>2, <4>3 DEF Better
    <3>2. \A k \in 1..i : k \in 1..n
      OBVIOUS
    <3> QED
      BY <1>6, <3>1, <3>2
  <2>6. \A k \in 1..i : offset + k <= b => rows[k].score # rows[i].score
    <3>1. ASSUME NEW k \in 1..i, offset + k <= b PROVE page[k].score # page[i].score
      <4>1. Better(page[k].score, sc)
        BY <2>3, <3>1
      <4> QED
        BY <2>1, <4>1, NotBetterSelf
    <3>2. \A k \in 1..i : k \in 1..n
      OBVIOUS
    <3> QED
      BY <1>6, <3>1, <3>2
  <2>7. CASE b < offset
    <3>1. 1 \in 1..i /\ offset + 1 > b
      BY <2>2, <2>7
    <3>2. rows[1].score = rows[i].score
      BY <2>5, <3>1
    <3>3. FirstEqual(rows, i) = 1
      BY <3>1, <3>2, FirstOfEquals
    <3> QED
      BY <1>6, <2>1, <2>2, <2>3, <2>4, <2>7, <3>3
  <2>8. CASE ~(b < offset)
    <3>1. PICK j \in 1..i : j = b + 1 - offset
      BY <2>2, <2>4, <2>8
    <3>2. rows[j].score = rows[i].score
      BY <2>2, <2>5, <3>1
    <3>3. \A k \in 1..(j - 1) : rows[k].score # rows[i].score
      BY <2>2, <2>6, <3>1
    <3>4. FirstEqual(rows, i) = j
      BY <3>1, <3>2, <3>3, FirstOfEquals
    <3>5. page[i].rank = b + 1
      BY <1>6, <2>2, <3>1, <3>4
    <3> QED
      BY <2>1, <2>2, <2>3, <2>4, <2>8, <3>5
  <2> QED
    BY <2>7, <2>8
<1>10. DOMAIN page = 1..n
  BY <1>5
<1>11. Exact(page, field, offset)
  BY <1>9, <1>10 DEF Exact, Beaten
<1>12. IsPage(page)
  <2>1. \A i \in 1..n : page[i].rank \in Int
    BY <1>9
  <2>2. PICK rs : rs = {page[i] : i \in DOMAIN page}
    OBVIOUS
  <2>3. \A i \in 1..n : page[i] \in rs
    BY <1>10, <2>2
  <2>4. page = [i \in 1..n |-> page[i]]
    BY <1>5
  <2>5. page \in [1..n -> rs]
    BY <2>3, <2>4, Zenon
  <2>6. page \in Seq(rs)
    BY <2>5
  <2> QED
    BY <1>7, <1>10, <2>1, <2>2, <2>6 DEF IsPage
<1>13. Ordered(page)
  <2>1. ASSUME NEW i \in 1..n, NEW j \in 1..n, Better(page[i].score, page[j].score)
        PROVE  page[i].rank < page[j].rank
    <3>1. PICK b \in Nat : b < offset + i /\ page[i].rank = IF b < offset THEN offset + 1 ELSE b + 1
      BY <1>9
    <3>2. PICK c \in Nat : offset + i <= c /\ page[j].rank = IF c < offset THEN offset + 1 ELSE c + 1
      BY <1>9, <2>1
    <3> QED
      BY <3>1, <3>2
  <2> QED
    BY <1>10, <2>1 DEF Ordered
<1> QED
  BY <1>11, <1>12, <1>13

\* A list is a sequence of its rows.
LEMMA SequenceOfRows ==
  ASSUME NEW n \in Nat, NEW rs, NEW page \in [1..n -> rs]
  PROVE  DOMAIN page = 1..n /\ page \in Seq({page[i] : i \in DOMAIN page})
<1>1. DOMAIN page = 1..n
  OBVIOUS
<1>2. PICK own : own = {page[i] : i \in DOMAIN page}
  OBVIOUS
<1>3. \A i \in 1..n : page[i] \in own
  BY <1>1, <1>2
<1>4. page \in [1..n -> own]
  BY <1>3
<1>5. page \in Seq(own)
  BY <1>4
<1> QED
  BY <1>1, <1>2, <1>5

\* A list that numbers its rows (getShakeup, exportCsv).
LEMMA NumberedRows ==
  ASSUME BoardTypes, NEW field \in Fields, NEW o \in Orders(field), NEW rs,
         NEW page \in [1..Cardinality(Ranked) -> rs],
         \A i \in 1..Cardinality(Ranked) :
           page[i].user = o[i] /\ page[i].score = entry[o[i]][field] /\ page[i].rank = i
  PROVE  IsPage(page) /\ Ordered(page)
<1>1. PICK n \in Nat : n = Cardinality(Ranked)
  BY RankedIsFinite
<1>2. o \in [1..n -> Ranked]
  BY <1>1, OrderListsAll
<1>3. \A i \in 1..n : page[i].user = o[i] /\ page[i].score = entry[o[i]][field] /\ page[i].rank = i
  BY <1>1
<1>4. \A i \in 1..n : page[i].user \in Users /\ page[i].score \in Int
  BY <1>2, <1>3, RankedScores
<1>5. DOMAIN page = 1..n /\ page \in Seq({page[i] : i \in DOMAIN page})
  BY <1>1, SequenceOfRows
<1>6. IsPage(page)
  BY <1>3, <1>4, <1>5 DEF IsPage
<1>7. Ordered(page)
  <2>1. ASSUME NEW i \in 1..n, NEW j \in 1..n, Better(page[i].score, page[j].score), ~(i < j)
        PROVE  FALSE
    <3>1. i # j
      BY <1>4, <2>1, NotBetterSelf
    <3>2. ~Better(entry[o[i]][field], entry[o[j]][field])
      <4>1. \A k, l \in 1..n : k < l => ~Better(entry[o[l]][field], entry[o[k]][field])
        BY <1>1, <1>2 DEF Orders
      <4>2. j < i
        BY <2>1, <3>1
      <4> QED
        BY <4>1, <4>2
    <3> QED
      BY <1>3, <2>1, <3>2
  <2> QED
    BY <1>3, <1>5, <2>1 DEF Ordered
<1> QED
  BY <1>6, <1>7

LEMMA CsvRows ==
  ASSUME BoardTypes, NEW o \in Orders("pub"), NEW page,
         page = [i \in DOMAIN o |-> [Row(o[i], "pub") EXCEPT !.rank = i]]
  PROVE  IsPage(page) /\ Ordered(page)
<1>1. PICK n : n = Cardinality(Ranked)
  OBVIOUS
<1>2. DOMAIN o = 1..n
  BY <1>1, OrderListsAll
<1> DEFINE row(i) == [Row(o[i], "pub") EXCEPT !.rank = i]
<1>3. page = [i \in 1..n |-> row(i)]
  BY <1>2, Zenon
<1>4. \A i : row(i).user = o[i] /\ row(i).score = entry[o[i]]["pub"] /\ row(i).rank = i
  BY DEF Row
<1> HIDE DEF row
<1>5. \A i \in 1..n : page[i].user = o[i] /\ page[i].score = entry[o[i]]["pub"] /\ page[i].rank = i
  BY <1>3, <1>4
<1>6. PICK rs : rs = {row(i) : i \in 1..n}
  OBVIOUS
<1>7. \A i \in 1..n : row(i) \in rs
  BY <1>6
<1>8. page \in [1..n -> rs]
  BY <1>3, <1>7, Zenon
<1>9. "pub" \in Fields
  BY DEF Fields
<1>10. /\ page \in [1..Cardinality(Ranked) -> rs]
       /\ \A i \in 1..Cardinality(Ranked) :
            page[i].user = o[i] /\ page[i].score = entry[o[i]]["pub"] /\ page[i].rank = i
  BY <1>1, <1>5, <1>8, Zenon
<1> QED
  BY <1>9, <1>10, NumberedRows, ZenonT(30)

LEMMA ShakeupRows ==
  ASSUME BoardTypes, NEW o, NEW p \in Orders("priv"), NEW page, page = Shakeup(o, p)
  PROVE  IsPage(page) /\ Ordered(page)
<1>1. PICK n : n = Cardinality(Ranked)
  OBVIOUS
<1>2. DOMAIN p = 1..n
  BY <1>1, OrderListsAll
<1> DEFINE change(k) == (CHOOSE i \in DOMAIN o : o[i] = p[k]) - k
           row(k) == [user |-> p[k], score |-> entry[p[k]].priv, rank |-> k, rankChange |-> change(k)]
<1>3. page = [k \in 1..n |-> row(k)]
  BY <1>2, Zenon DEF Shakeup
<1> HIDE DEF change
<1>4. \A k \in 1..n : page[k].user = p[k] /\ page[k].score = entry[p[k]].priv /\ page[k].rank = k
  BY <1>3
<1>5. page \in [1..n -> {page[i] : i \in 1..n}] /\ "priv" \in Fields
  BY <1>3 DEF Fields
<1>6. \A k \in 1..n : page[k].score = entry[p[k]]["priv"]
  BY <1>4
<1> QED
  BY <1>1, <1>4, <1>5, <1>6, NumberedRows, ZenonT(30)

-----------------------------------------------------------------------------
\* The types, the order of the copies, and what a request comes to.

\* TypeOK, with the copies in order, those about to be stored included.
ListInv ==
  /\ TypeOK /\ DOMAIN reader = Readers
  /\ cache # NoPage => Ordered(cache)
  /\ \A r \in Readers : reader[r].pc = "read" => Ordered(reader[r].page)

\* A step gives the requests it moves the ranks they owe.
Answered ==
  \A r \in Readers : reader'[r].pc # reader[r].pc => RankOf(reader'[r].page, reader'[r].pc)

Steps == {"idle", "missed", "read"} \union Answers

LEMMA RankOfSteps ==
  ASSUME NEW page
  PROVE  /\ Exact(page, "pub", 0) => RankOf(page, "read")
         /\ (\E k \in 1..Cardinality(Users) : Exact(page, "pub", k * Limit)) => RankOf(page, "later")
         /\ Exact(page, "priv", 0) => RankOf(page, "private")
         /\ \A pc \in {"idle", "missed", "public", "shakeup", "csv"} : Ordered(page) => RankOf(page, pc)
BY DEF RankOf, Ordered

LEMMA EmptyPage == IsPage(<<>>) /\ Ordered(<<>>)
<1>1. <<>> \in Seq({}) /\ DOMAIN <<>> = {}
  OBVIOUS
<1>2. {<<>>[i] : i \in DOMAIN <<>>} = {}
  BY <1>1
<1> QED
  BY <1>1, <1>2 DEF IsPage, Ordered

\* The types of what no request writes.
Board == /\ comp \in Competitions /\ ended \in BOOLEAN
         /\ scored \in [Users -> SUBSET Score] /\ files \in 0..MaxFiles
         /\ entry \in [Users -> Score \union {NoEntry}]

\* A request comes to a step with a page.
LEMMA TurnLists ==
  ASSUME ListInv, NEW r \in Readers, NEW pc \in Steps, NEW page, Turn(r, pc, page),
         IsPage(page), Ordered(page), RankOf(page, pc),
         UNCHANGED <<comp, ended, scored, files, entry>>,
         UNCHANGED <<cache, ttl>> \/ (cache' = page /\ ttl' = Ttl)
  PROVE  ListInv' /\ Answered
<1>1. /\ DOMAIN reader' = Readers /\ reader'[r].pc = pc /\ reader'[r].page = page
      /\ \A k \in Readers : k # r => reader'[k] = reader[k]
  BY DEF Turn, ListInv
<1>2. \A p : Ordered(p)' <=> Ordered(p)
  BY DEF Ordered, Better, Lower
<1>3. cache' # NoPage => IsPage(cache') /\ Ordered(cache)'
  <2>1. PICK p : p = cache'
    OBVIOUS
  <2>2. p # NoPage => IsPage(p) /\ Ordered(p)
    BY <2>1 DEF ListInv, TypeOK
  <2>3. p # NoPage => Ordered(p)'
    BY <1>2, <2>2
  <2> QED
    BY <2>1, <2>2, <2>3 DEF Ordered
<1>4. ASSUME NEW k \in Readers
      PROVE  /\ reader'[k].pc \in Steps /\ IsPage(reader'[k].page)
             /\ reader'[k].pc = "read" => Ordered(reader[k].page)'
  <2>1. PICK p : p = reader'[k].page
    OBVIOUS
  <2>2. reader'[k].pc \in Steps /\ IsPage(p) /\ (reader'[k].pc = "read" => Ordered(p))
    BY <1>1, <2>1 DEF ListInv, TypeOK, Steps
  <2>3. reader'[k].pc = "read" => Ordered(p)'
    BY <1>2, <2>2
  <2> QED
    BY <2>1, <2>2, <2>3 DEF Ordered
<1>5. ttl' \in 0..Ttl /\ Board'
  BY LeaderboardAssumption DEF ListInv, TypeOK, Board
<1>6. Answered
  BY <1>1 DEF Answered
<1> QED
  BY <1>1, <1>3, <1>4, <1>5, <1>6, Zenon DEF ListInv, TypeOK, Board, Steps

\* A step that moves no request.
LEMMA QuietLists ==
  ASSUME ListInv, UNCHANGED <<comp, reader>>, Board', ttl' \in 0..Ttl,
         cache' = cache \/ cache' = NoPage
  PROVE  ListInv' /\ Answered
<1>1. \A p : Ordered(p)' <=> Ordered(p)
  BY DEF Ordered, Better, Lower
<1>2. cache' # NoPage => IsPage(cache') /\ Ordered(cache)'
  <2>1. PICK p : p = cache'
    OBVIOUS
  <2>2. p # NoPage => IsPage(p) /\ Ordered(p)
    BY <2>1 DEF ListInv, TypeOK
  <2>3. p # NoPage => Ordered(p)'
    BY <1>1, <2>2
  <2> QED
    BY <2>1, <2>2, <2>3 DEF Ordered
<1>3. ASSUME NEW k \in Readers, reader'[k].pc = "read" PROVE Ordered(reader[k].page)'
  <2>1. PICK p : p = reader'[k].page
    OBVIOUS
  <2>2. Ordered(p)
    BY <1>3, <2>1 DEF ListInv
  <2>3. Ordered(p)'
    BY <1>1, <2>2
  <2> QED
    BY <2>1, <2>3 DEF Ordered
<1>4. \A k \in Readers : reader'[k].pc \in Steps /\ IsPage(reader'[k].page)
  BY DEF ListInv, TypeOK, Steps
<1>5. DOMAIN reader' = Readers
  BY DEF ListInv
<1>6. Answered
  BY DEF Answered
<1> QED
  BY <1>2, <1>3, <1>4, <1>5, <1>6, Zenon DEF ListInv, TypeOK, Board, Steps

LEMMA InitLists == Init => ListInv
<1> SUFFICES ASSUME Init PROVE ListInv
  OBVIOUS
<1>1. \A r \in Readers : reader[r].pc = "idle" /\ reader[r].page = <<>>
  BY DEF Init, Idle
<1>2. scored \in [Users -> SUBSET Score] /\ entry \in [Users -> Score \union {NoEntry}]
  <2>1. PICK none \in SUBSET Score : none = {}
    OBVIOUS
  <2>2. PICK unranked \in Score \union {NoEntry} : unranked = NoEntry
    OBVIOUS
  <2>3. scored = [u \in Users |-> none] /\ entry = [u \in Users |-> unranked]
    BY <2>1, <2>2, Zenon DEF Init
  <2> QED
    BY <2>3
<1>3. comp \in Competitions /\ ended \in BOOLEAN /\ cache = NoPage
  BY DEF Init
<1>4. files \in 0..MaxFiles /\ ttl \in 0..Ttl
  <2>1. files = 0 /\ ttl = 0
    BY DEF Init
  <2> QED
    BY <2>1, LeaderboardAssumption
<1>5. DOMAIN reader = Readers
  BY DEF Init
<1> QED
  BY <1>1, <1>2, <1>3, <1>4, <1>5, EmptyPage DEF ListInv, TypeOK

\* A worker's file.
LEMMA FileLists ==
  ASSUME ListInv, NEW u \in Users, NEW f \in Files, ScoreFile(u, f)
  PROVE  ListInv' /\ Answered
<1>1. BoardTypes
  BY DEF ListInv, TypeOK, BoardTypes
<1>2. files' \in 0..MaxFiles
  BY LeaderboardAssumption DEF ScoreFile, ListInv, TypeOK
<1>3. scored' \in [Users -> SUBSET Score] /\ entry' \in [Users -> Score \union {NoEntry}]
  <2>1. CASE Outcome[<<comp, f>>] = NoScore
    BY <2>1 DEF ScoreFile, ListInv, TypeOK
  <2>2. CASE Outcome[<<comp, f>>] # NoScore
    <3>1. PICK new \in Score : new = Outcome[<<comp, f>>]
      BY <1>1, <2>2, OutcomeType
    <3>2. scored' = [scored EXCEPT ![u] = @ \union {new}] /\ upsertLeaderboardEntry(u, new)
      BY <2>2, <3>1 DEF ScoreFile
    <3>3. scored' \in [Users -> SUBSET Score]
      BY <1>1, <3>2 DEF BoardTypes
    <3>4. entry[u] # NoEntry =>
            [pub |-> compareBest(entry[u].pub, new.pub), priv |-> compareBest(entry[u].priv, new.priv)] \in Score
      BY <1>1, CompareBest DEF BoardTypes, Score
    <3>5. entry' \in [Users -> Score \union {NoEntry}]
      BY <1>1, <3>2, <3>4 DEF upsertLeaderboardEntry, BoardTypes
    <3> QED
      BY <3>3, <3>5
  <2> QED
    BY <2>1, <2>2
<1> QED
  BY <1>2, <1>3, QuietLists DEF ScoreFile, ListInv, TypeOK, Board

\* A request that reads once and answers.
LEMMA RespondLists ==
  ASSUME ListInv, NEW r \in Readers, NEW pc \in Steps, NEW pages, Respond(r, pc, pages),
         \A page \in pages : IsPage(page) /\ Ordered(page) /\ RankOf(page, pc)
  PROVE  ListInv' /\ Answered
<1>1. PICK page \in pages : Turn(r, pc, page)
  BY DEF Respond
<1> QED
  BY <1>1, TurnLists DEF Respond, BoardUnchanged

LEMMA NextLists ==
  ASSUME ListInv, [Next]_vars
  PROVE  ListInv' /\ Answered
<1>1. BoardTypes /\ "pub" \in Fields /\ "priv" \in Fields
  BY DEF ListInv, TypeOK, BoardTypes, Fields
<1>2. {"idle", "missed", "read", "public", "later", "private", "shakeup", "csv"} \subseteq Steps
  BY DEF Steps, Answers
<1>3. ASSUME NEW u \in Users, NEW f \in Files, ScoreFile(u, f) PROVE ListInv' /\ Answered
  BY <1>3, FileLists
<1>4. CASE Complete
  BY <1>4, QuietLists DEF Complete, ListInv, TypeOK, Board
<1>5. ASSUME NEW r \in Readers, GetCached(r) PROVE ListInv' /\ Answered
  <2>1. CASE cache # NoPage
    <3>1. PICK page : page = cache
      OBVIOUS
    <3>2. IsPage(page) /\ Ordered(page) /\ Turn(r, "public", page)
      BY <1>5, <2>1, <3>1 DEF ListInv, TypeOK, GetCached
    <3>3. RankOf(page, "public")
      BY <3>2, RankOfSteps
    <3> QED
      BY <1>2, <1>5, <3>2, <3>3, TurnLists DEF GetCached, BoardUnchanged
  <2>2. CASE cache = NoPage
    <3>1. Turn(r, "missed", <<>>) /\ RankOf(<<>>, "missed")
      BY <1>5, <2>2, EmptyPage, RankOfSteps DEF GetCached
    <3> QED
      BY <1>2, <1>5, <3>1, EmptyPage, TurnLists DEF GetCached, BoardUnchanged
  <2> QED
    BY <2>1, <2>2
<1>6. ASSUME NEW r \in Readers, ReadFirstPage(r) PROVE ListInv' /\ Answered
  <2>1. PICK page \in Pages("pub", 0) : Turn(r, "read", page)
    BY <1>6 DEF ReadFirstPage
  <2>2. IsPage(page) /\ Ordered(page) /\ RankOf(page, "read")
    BY <1>1, PageRanks, RankOfSteps
  <2> QED
    BY <1>2, <1>6, <2>1, <2>2, TurnLists DEF ReadFirstPage, BoardUnchanged
<1>7. ASSUME NEW r \in Readers, StorePage(r) PROVE ListInv' /\ Answered
  <2>1. PICK page : page = reader[r].page
    OBVIOUS
  <2>2. IsPage(page) /\ Ordered(page) /\ Turn(r, "public", page)
    BY <1>7, <2>1 DEF StorePage, ListInv, TypeOK
  <2>3. RankOf(page, "public") /\ cache' = page /\ ttl' = Ttl
    BY <1>7, <2>1, <2>2, RankOfSteps DEF StorePage
  <2> QED
    BY <1>2, <1>7, <2>2, <2>3, TurnLists DEF StorePage
<1>8. ASSUME NEW r \in Readers, Deliver(r) PROVE ListInv' /\ Answered
  <2>1. Turn(r, "idle", <<>>) /\ RankOf(<<>>, "idle")
    BY <1>8, EmptyPage, RankOfSteps DEF Deliver, Turn, Idle
  <2> QED
    BY <1>2, <1>8, <2>1, EmptyPage, TurnLists DEF Deliver, BoardUnchanged
<1>9. ASSUME NEW r \in Readers, GetLaterPage(r) PROVE ListInv' /\ Answered
  <2>1. PICK k \in 1..Cardinality(Users) : Respond(r, "later", Pages("pub", k * Limit) \ {<<>>})
    BY <1>9 DEF GetLaterPage
  <2>2. k * Limit \in Nat
    BY LeaderboardAssumption
  <2>3. PICK offset \in Nat : offset = k * Limit
    BY <2>2
  <2>4. \A page \in Pages("pub", offset) : IsPage(page) /\ Ordered(page) /\ RankOf(page, "later")
    BY <1>1, <2>3, PageRanks, RankOfSteps
  <2> QED
    BY <1>2, <2>1, <2>3, <2>4, RespondLists
<1>10. ASSUME NEW r \in Readers, GetPrivate(r) PROVE ListInv' /\ Answered
  <2>1. \A page \in Pages("priv", 0) : IsPage(page) /\ Ordered(page) /\ RankOf(page, "private")
    BY <1>1, PageRanks, RankOfSteps
  <2> QED
    BY <1>2, <1>10, <2>1, RespondLists DEF GetPrivate
<1>11. ASSUME NEW r \in Readers, GetShakeup(r) PROVE ListInv' /\ Answered
  <2>1. PICK pages : pages = {Shakeup(q[1], q[2]) :
             q \in {q \in Orders("pub") \X Orders("priv") : StableSort(q[1], q[2])}}
    OBVIOUS
  <2>2. \A page \in pages : \E o : \E p \in Orders("priv") : page = Shakeup(o, p)
    BY <2>1
  <2>3. \A page \in pages : IsPage(page) /\ Ordered(page) /\ RankOf(page, "shakeup")
    BY <1>1, <2>2, ShakeupRows, RankOfSteps
  <2> QED
    BY <1>2, <1>11, <2>1, <2>3, RespondLists DEF GetShakeup
<1>12. ASSUME NEW r \in Readers, ExportCsv(r) PROVE ListInv' /\ Answered
  <2>1. PICK pages : pages =
          {[i \in DOMAIN o |-> [Row(o[i], "pub") EXCEPT !.rank = i]] : o \in Orders("pub")}
    OBVIOUS
  <2>2. \A page \in pages : IsPage(page) /\ Ordered(page)
    BY <1>1, <2>1, CsvRows
  <2>3. \A page \in pages : RankOf(page, "csv")
    BY <2>2, RankOfSteps
  <2> QED
    BY <1>2, <1>12, <2>1, <2>2, <2>3, RespondLists DEF ExportCsv
<1>13. CASE Tick
  <2>1. ttl' \in 0..Ttl /\ (cache' = cache \/ cache' = NoPage)
    BY <1>13, LeaderboardAssumption DEF Tick, ListInv, TypeOK
  <2> QED
    BY <1>13, <2>1, QuietLists DEF Tick, ListInv, TypeOK, Board
<1>14. CASE UNCHANGED vars
  BY <1>14, QuietLists DEF vars, ListInv, TypeOK, Board
<1> QED
  BY <1>3, <1>4, <1>5, <1>6, <1>7, <1>8, <1>9, <1>10, <1>11, <1>12, <1>13, <1>14 DEF Next

\* Entries, copies and answers keep their types.
THEOREM LeaderboardTypes == Spec => []TypeOK
<1>1. ListInv => TypeOK
  BY DEF ListInv
<1> QED
  BY <1>1, InitLists, NextLists, PTL DEF Spec

\* Whatever scores land between its steps, a request ranks the rows it answers
\* by the entries that beat them, ties sharing a rank, and a copy that lags
\* still ranks a better score first.
THEOREM RanksCountBeaten == Spec => RanksCountBetter
<1>1. ListInv /\ [Next]_vars =>
        [\A r \in Readers :
           reader'[r].pc # reader[r].pc => RankOf(reader'[r].page, reader'[r].pc)]_vars
  BY NextLists DEF Answered
<1> QED
  BY <1>1, InitLists, NextLists, PTL DEF Spec, RanksCountBetter

-----------------------------------------------------------------------------
\* Induction, and folds over sequences.

\* A set of natural numbers has a least member: the initial segments are well founded.
LEMMA LeastNat ==
  ASSUME NEW S \in SUBSET Nat, S # {}
  PROVE  \E n \in S : \A m \in S : n <= m
<1> DEFINE Below == {0..n : n \in S}
           R == StrictSubsetOrdering(Nat)
           F == FiniteSubsetsOf(Nat)
<1>1. Below \subseteq F
  <2> SUFFICES ASSUME NEW n \in S PROVE 0..n \in F
    OBVIOUS
  <2>1. n \in Int /\ 0 \in Int
    OBVIOUS
  <2>2. IsFiniteSet(0..n)
    BY <2>1, FS_Interval
  <2>3. 0..n \subseteq Nat
    OBVIOUS
  <2> QED BY <2>2, <2>3 DEF FiniteSubsetsOf
<1>2. Below # {}
  OBVIOUS
<1>3. IsWellFoundedOn(R, F)
  BY FS_StrictSubsetOrderingWellFounded
<1>4. \E x \in Below : \A y \in Below : ~ (<<y, x>> \in R)
  <2> HIDE DEF Below, R, F
  <2> QED BY <1>1, <1>2, <1>3, WFMin
<1>5. PICK n \in S : \A m \in S : <<0..m, 0..n>> \notin R
  BY <1>4
<1>6. \A m \in S : m < n => <<0..m, 0..n>> \in R
  BY DEF StrictSubsetOrdering
<1> HIDE DEF R
<1>7. ASSUME NEW m \in S PROVE n <= m
  <2>1. ~(m < n)
    BY <1>5, <1>6
  <2> QED BY <2>1
<1> QED BY <1>7

\* Induction, over a set instead of a predicate.
LEMMA SetInduction ==
  ASSUME NEW S, 0 \in S, \A n \in Nat : n \in S => n + 1 \in S
  PROVE  Nat \subseteq S
<1> DEFINE T == {n \in Nat : n \notin S}
<1> SUFFICES ASSUME T # {} PROVE FALSE
  OBVIOUS
<1>1. PICK n \in T : \A m \in T : n <= m
  BY LeastNat
<1>2. n # 0 /\ n - 1 \in Nat /\ n - 1 \notin T
  BY <1>1
<1> QED BY <1>1, <1>2

\* The greatest member of a set.
LEMMA MaxIs ==
  ASSUME NEW s \in SUBSET Int, NEW m \in s, \A x \in s : x <= m
  PROVE  Max(s) = m
<1>1. \A x \in s : (\A y \in s : x >= y) => x = m
  OBVIOUS
<1>2. \A y \in s : m >= y
  OBVIOUS
<1> QED BY <1>1, <1>2 DEF Max

\* The greatest member of 1..(m+1), or a set of 1..m.
LEMMA MaxOfExtended ==
  ASSUME NEW m \in Nat, NEW s \in SUBSET (1..(m+1))
  PROVE  /\ m + 1 \in s => Max(s) = m + 1
         /\ m + 1 \notin s => s \in SUBSET (1..m)
<1>1. s \in SUBSET Int /\ \A x \in s : x <= m + 1
  OBVIOUS
<1>2. m + 1 \in s => Max(s) = m + 1
  BY <1>1, MaxIs
<1> QED BY <1>2

\* A set of whole numbers that is bounded has a greatest member.
LEMMA MaxInInterval ==
  ASSUME NEW n \in Nat, NEW s \in SUBSET (1..n), s # {}
  PROVE  Max(s) \in s /\ \A x \in s : x <= Max(s)
<1> DEFINE Above == {k \in Nat : \A x \in s : x <= k}
<1>1. Above \in SUBSET Nat /\ n \in Above
  OBVIOUS
<1>2. PICK m \in Above : \A k \in Above : m <= k
  <2> HIDE DEF Above
  <2> QED BY <1>1, LeastNat
<1>3. m \in s
  <2> SUFFICES ASSUME m \notin s PROVE FALSE
    OBVIOUS
  <2>1. PICK x \in s : TRUE
    OBVIOUS
  <2>2. x \in 1..n /\ x <= m
    OBVIOUS
  <2>3. m # 0 /\ m - 1 \in Nat /\ m \in Nat
    BY <2>2
  <2>4. ASSUME NEW y \in s PROVE y <= m - 1
    BY <2>3
  <2>5. m - 1 \in Above
    BY <2>3, <2>4
  <2> QED BY <2>3, <2>5, <1>2
<1> QED BY <1>2, <1>3, MaxIs

\* From a whole number and the value so far to the next value.
IsStep(step, n, V) == step \in [(1..n) \X V -> V]

\* A step function folded over the sets of whole numbers up to n.
IsFold(iter, m, V, base, step) ==
  /\ iter \in [SUBSET (1..m) -> V]
  /\ \A s \in SUBSET (1..m) :
       iter[s] = IF s = {} THEN base ELSE step[<<Max(s), iter[s \ {Max(s)}]>>]

\* The same, as far as its values are known to be in V.
Follows(fold, n, V, base, step) ==
  /\ fold[{}] = base
  /\ \A s \in SUBSET (1..n) : s # {} /\ fold[s \ {Max(s)}] \in V =>
       fold[s] = step[<<Max(s), fold[s \ {Max(s)}]>>]

\* The values it runs through from 1 to n.
IsTotal(total, n, V, base, step) ==
  /\ total \in [0..n -> V]
  /\ total[0] = base
  /\ \A k \in 0..(n-1) : total[k+1] = step[<<k + 1, total[k]>>]

\* A fold over the sets of 1..m goes on to those of 1..(m+1).
LEMMA FoldExtends ==
  ASSUME NEW n \in Nat, NEW V, NEW base \in V, NEW step, IsStep(step, n, V),
         NEW m \in Nat, m + 1 <= n, NEW f, IsFold(f, m, V, base, step)
  PROVE  \E g : IsFold(g, m + 1, V, base, step)
  <2> DEFINE g == [s \in SUBSET (1..(m+1)) |->
                     IF m + 1 \in s THEN step[<<m + 1, f[s \ {m + 1}]>>] ELSE f[s]]
  <2>1. f \in [SUBSET (1..m) -> V] /\ \A s \in SUBSET (1..m) :
          f[s] = IF s = {} THEN base ELSE step[<<Max(s), f[s \ {Max(s)}]>>]
    BY DEF IsFold
  <2>2. \A s \in SUBSET (1..(m+1)) : s \ {m+1} \in SUBSET (1..m)
    OBVIOUS
  <2>3. ASSUME NEW s \in SUBSET (1..(m+1)) PROVE g[s] \in V
    <3>1. m + 1 \in 1..n
      OBVIOUS
    <3>2. f[s \ {m + 1}] \in V /\ (m + 1 \notin s => f[s] \in V)
      BY <2>1, <2>2, MaxOfExtended
    <3> QED BY <3>1, <3>2 DEF IsStep
  <2>4. ASSUME NEW s \in SUBSET (1..(m+1))
        PROVE  g[s] = IF s = {} THEN base ELSE step[<<Max(s), g[s \ {Max(s)}]>>]
    <3>1. CASE m + 1 \in s
      <4>1. Max(s) = m + 1 /\ s # {}
        BY <3>1, MaxOfExtended
      <4>2. g[s \ {m + 1}] = f[s \ {m + 1}]
        BY <2>2
      <4> QED BY <3>1, <4>1, <4>2
    <3>2. CASE m + 1 \notin s
      <4>1. s \in SUBSET (1..m) /\ m + 1 \notin s \ {Max(s)} /\ s \ {Max(s)} \in SUBSET (1..(m+1))
        BY <3>2, MaxOfExtended
      <4>2. g[s] = f[s] /\ g[s \ {Max(s)}] = f[s \ {Max(s)}]
        BY <3>2, <4>1
      <4> QED BY <2>1, <4>1, <4>2
    <3> QED BY <3>1, <3>2
  <2>5. g \in [SUBSET (1..(m+1)) -> V]
    BY <2>3
  <2> HIDE DEF g
  <2>6. IsFold(g, m + 1, V, base, step)
    BY <2>4, <2>5 DEF IsFold
  <2> QED BY <2>6

\* So there is one over those of 1..n, and CHOOSE finds it.
LEMMA FoldExists ==
  ASSUME NEW n \in Nat, NEW V, NEW base \in V, NEW step, IsStep(step, n, V)
  PROVE  \E iter : IsFold(iter, n, V, base, step)
<1> DEFINE Done == {m \in Nat : m <= n => \E g : IsFold(g, m, V, base, step)}
<1>1. 0 \in Done
  <2> DEFINE g == [s \in SUBSET (1..0) |-> base]
  <2>1. g \in [SUBSET (1..0) -> V]
    OBVIOUS
  <2>2. \A s \in SUBSET (1..0) : s = {}
    OBVIOUS
  <2>3. IsFold(g, 0, V, base, step)
    BY <2>1, <2>2 DEF IsFold
  <2> QED BY <2>3
<1>2. ASSUME NEW m \in Nat, m \in Done PROVE m + 1 \in Done
  <2>1. m + 1 <= n => m <= n
    OBVIOUS
  <2>2. m + 1 <= n => \E g : IsFold(g, m + 1, V, base, step)
    BY <1>2, <2>1, FoldExtends
  <2> QED BY <2>2
<1>3. n \in Done
  <2> HIDE DEF Done
  <2> QED BY <1>1, <1>2, SetInduction
<1> QED BY <1>3

\* Of 1..(k+1), the fold takes k+1 and then 1..k.
LEMMA IntervalExtended ==
  ASSUME NEW n \in Nat, NEW k \in 0..(n-1)
  PROVE  /\ 1..(k+1) \in SUBSET (1..n) /\ 1..(k+1) # {} /\ (1..(k+1)) \ {k+1} = 1..k
         /\ Max(1..(k+1)) = k + 1 /\ k + 1 \in 1..n /\ k \in Nat
<1>1. Max(1..(k+1)) = k + 1
  BY MaxOfExtended
<1> QED BY <1>1

\* What a fold gives is the last of the values it runs through.
LEMMA FoldTotals ==
  ASSUME NEW n \in Nat, NEW V, NEW base \in V, NEW step, IsStep(step, n, V),
         NEW fold, Follows(fold, n, V, base, step)
  PROVE  \E total : IsTotal(total, n, V, base, step) /\ fold[1..n] = total[n]
<1> DEFINE T == {k \in Nat : k <= n => fold[1..k] \in V}
           total == [k \in 0..n |-> fold[1..k]]
<1>1. fold[1..0] = base
  BY 1..0 = {} DEF Follows
<1>2. ASSUME NEW k \in 0..(n-1), fold[1..k] \in V
      PROVE  fold[1..(k+1)] = step[<<k + 1, fold[1..k]>>]
  <2>1. fold[(1..(k+1)) \ {Max(1..(k+1))}] \in V
    BY <1>2, IntervalExtended
  <2>2. fold[1..(k+1)] = step[<<Max(1..(k+1)), fold[(1..(k+1)) \ {Max(1..(k+1))}]>>]
    BY <2>1, IntervalExtended DEF Follows
  <2> QED BY <2>2, IntervalExtended
<1>3. 0 \in T
  BY <1>1
<1>4. ASSUME NEW k \in Nat, k \in T PROVE k + 1 \in T
  <2> SUFFICES ASSUME k + 1 <= n PROVE fold[1..(k+1)] \in V
    OBVIOUS
  <2>1. k \in 0..(n-1) /\ k + 1 \in 1..n /\ fold[1..k] \in V
    BY <1>4
  <2> QED BY <2>1, <1>2 DEF IsStep
<1>5. Nat \subseteq T
  <2> HIDE DEF T
  <2> QED BY <1>3, <1>4, SetInduction
<1>6. \A k \in 0..n : fold[1..k] \in V
  BY <1>5
<1>7. total \in [0..n -> V] /\ total[0] = base /\ fold[1..n] = total[n]
  BY <1>1, <1>6
<1>8. ASSUME NEW k \in 0..(n-1) PROVE total[k+1] = step[<<k + 1, total[k]>>]
  <2>1. k \in 0..n /\ k + 1 \in 0..n
    OBVIOUS
  <2> QED BY <1>2, <1>6, <2>1
<1> HIDE DEF total
<1>9. IsTotal(total, n, V, base, step)
  BY <1>7, <1>8 DEF IsTotal
<1> QED BY <1>7, <1>9

\* Sum runs through the sums of the first terms.
LEMMA SumUnrolls ==
  ASSUME NEW n \in Nat, NEW values \in [1..n -> Int]
  PROVE  \E total \in [0..n -> Int] :
           /\ total[0] = 0
           /\ \A k \in 0..(n-1) : total[k+1] = total[k] + values[k+1]
           /\ Sum(values) = total[n]
<1> DEFINE Body(iter) == [s \in SUBSET (1..n) |->
             IF s = {} THEN 0 ELSE iter[s \ {Max(s)}] + values[Max(s)]]
           fold == CHOOSE iter : iter = Body(iter)
           step == [p \in (1..n) \X Int |-> p[2] + values[p[1]]]
<1>1. DOMAIN values = 1..n
  OBVIOUS
<1>2. Sum(values) = fold[1..n]
  BY <1>1, Zenon DEF Sum, FoldLeft, MapThenFoldSet
<1>3. IsStep(step, n, Int) /\ 0 \in Int
  BY DEF IsStep
<1>4. \A k \in 1..n, i \in Int : step[<<k, i>>] = i + values[k]
  OBVIOUS
<1> HIDE DEF step
<1>5. PICK iter : IsFold(iter, n, Int, 0, step)
  BY <1>3, FoldExists
<1>6. ASSUME NEW s \in SUBSET (1..n) PROVE iter[s] = Body(iter)[s]
  <2>1. CASE s = {}
    BY <2>1, <1>5 DEF IsFold
  <2>2. CASE s # {}
    <3>1. Max(s) \in 1..n /\ s \ {Max(s)} \in SUBSET (1..n)
      BY <2>2, MaxInInterval
    <3>2. iter[s] = step[<<Max(s), iter[s \ {Max(s)}]>>] /\ iter[s \ {Max(s)}] \in Int
      BY <1>5, <2>2, <3>1 DEF IsFold
    <3> QED BY <2>2, <3>1, <3>2, <1>4
  <2> QED BY <2>1, <2>2
<1>7. iter = Body(iter)
  BY <1>5, <1>6 DEF IsFold
<1>8. fold = Body(fold)
  <2> HIDE DEF Body
  <2> QED BY <1>7
<1> HIDE DEF fold
<1>9. \A s \in SUBSET (1..n) :
        fold[s] = IF s = {} THEN 0 ELSE fold[s \ {Max(s)}] + values[Max(s)]
  BY <1>8
<1>10. ASSUME NEW s \in SUBSET (1..n), s # {}, fold[s \ {Max(s)}] \in Int
       PROVE  fold[s] = step[<<Max(s), fold[s \ {Max(s)}]>>]
  <2>1. Max(s) \in 1..n
    BY <1>10, MaxInInterval
  <2> QED BY <2>1, <1>4, <1>9, <1>10
<1>11. Follows(fold, n, Int, 0, step)
  BY <1>9, <1>10 DEF Follows
<1>12. PICK total : IsTotal(total, n, Int, 0, step) /\ fold[1..n] = total[n]
  BY <1>3, <1>11, FoldTotals
<1>13. \A k \in 0..(n-1) : k + 1 \in 1..n /\ k \in 0..n
  OBVIOUS
<1>14. \A k \in 0..(n-1) : total[k+1] = total[k] + values[k+1]
  BY <1>4, <1>12, <1>13 DEF IsTotal
<1> QED BY <1>2, <1>12, <1>14 DEF IsTotal

-----------------------------------------------------------------------------
\* The single-pass scorers.

LEMMA LenIs ==
  ASSUME NEW n \in Nat, NEW X, NEW f \in [1..n -> X]
  PROVE  Len(f) = n /\ DOMAIN f = 1..n
OBVIOUS

\* MeanScorer runs through counts and sums.
LEMMA MeanUnrolls ==
  ASSUME NEW n \in Nat, NEW terms \in [1..n -> Int]
  PROVE  \E total :
           /\ total[0] = [count |-> 0, sum |-> 0]
           /\ \A k \in 0..(n-1) : total[k+1] = [count |-> total[k].count + 1, sum |-> total[k].sum + terms[k+1]]
           /\ MeanScorer(terms) = Quotient(total[n].sum, total[n].count)
<1> DEFINE State == [count : Int, sum : Int]
           zero == [count |-> 0, sum |-> 0]
           Body(iter) == [s \in SUBSET (1..n) |->
             IF s = {} THEN zero
             ELSE [count |-> iter[s \ {Max(s)}].count + 1,
                   sum |-> iter[s \ {Max(s)}].sum + terms[Max(s)]]]
           fold == CHOOSE iter : iter = Body(iter)
           step == [p \in (1..n) \X State |-> [count |-> p[2].count + 1, sum |-> p[2].sum + terms[p[1]]]]
<1>1. DOMAIN terms = 1..n
  OBVIOUS
<1>2. MeanScorer(terms) = Quotient(fold[1..n].sum, fold[1..n].count)
  BY <1>1, Zenon DEF MeanScorer, FoldLeft, MapThenFoldSet
<1>3. IsStep(step, n, State) /\ zero \in State
  BY DEF IsStep
<1>4. \A k \in 1..n, i \in State : step[<<k, i>>] = [count |-> i.count + 1, sum |-> i.sum + terms[k]]
  OBVIOUS
<1> HIDE DEF step, zero, State
<1>5. PICK iter : IsFold(iter, n, State, zero, step)
  BY <1>3, FoldExists
<1>6. ASSUME NEW s \in SUBSET (1..n) PROVE iter[s] = Body(iter)[s]
  <2>1. CASE s = {}
    BY <2>1, <1>5 DEF IsFold
  <2>2. CASE s # {}
    <3>1. Max(s) \in 1..n /\ s \ {Max(s)} \in SUBSET (1..n)
      BY <2>2, MaxInInterval
    <3>2. iter[s] = step[<<Max(s), iter[s \ {Max(s)}]>>] /\ iter[s \ {Max(s)}] \in State
      BY <1>5, <2>2, <3>1 DEF IsFold
    <3> QED BY <2>2, <3>1, <3>2, <1>4
  <2> QED BY <2>1, <2>2
<1>7. iter = Body(iter)
  BY <1>5, <1>6 DEF IsFold
<1>8. fold = Body(fold)
  <2> HIDE DEF Body
  <2> QED BY <1>7
<1> HIDE DEF fold
<1>9. \A s \in SUBSET (1..n) :
        fold[s] = IF s = {} THEN zero ELSE [count |-> fold[s \ {Max(s)}].count + 1,
                   sum |-> fold[s \ {Max(s)}].sum + terms[Max(s)]]
  BY <1>8
<1>10. ASSUME NEW s \in SUBSET (1..n), s # {}, fold[s \ {Max(s)}] \in State
       PROVE  fold[s] = step[<<Max(s), fold[s \ {Max(s)}]>>]
  <2>1. Max(s) \in 1..n
    BY <1>10, MaxInInterval
  <2> QED BY <2>1, <1>4, <1>9, <1>10
<1>11. Follows(fold, n, State, zero, step)
  BY <1>9, <1>10 DEF Follows
<1>12. PICK total : IsTotal(total, n, State, zero, step) /\ fold[1..n] = total[n]
  BY <1>3, <1>11, FoldTotals
<1>13. \A k \in 0..(n-1) : k + 1 \in 1..n /\ k \in 0..n
  OBVIOUS
<1>14. \A k \in 0..(n-1) : total[k+1] = [count |-> total[k].count + 1, sum |-> total[k].sum + terms[k+1]]
  BY <1>4, <1>12, <1>13 DEF IsTotal
<1> QED BY <1>2, <1>12, <1>14 DEF IsTotal, zero

\* Streamed or at once, a mean is the sum over the number of rows.
LEMMA MeanIsSum ==
  ASSUME NEW n \in Nat, NEW terms \in [1..n -> Int]
  PROVE  MeanScorer(terms) = Quotient(Sum(terms), n)
<1>1. PICK total \in [0..n -> Int] :
        /\ total[0] = 0
        /\ \A k \in 0..(n-1) : total[k+1] = total[k] + terms[k+1]
        /\ Sum(terms) = total[n]
  BY SumUnrolls
<1>2. PICK mean :
        /\ mean[0] = [count |-> 0, sum |-> 0]
        /\ \A k \in 0..(n-1) : mean[k+1] = [count |-> mean[k].count + 1, sum |-> mean[k].sum + terms[k+1]]
        /\ MeanScorer(terms) = Quotient(mean[n].sum, mean[n].count)
  BY MeanUnrolls
<1> DEFINE T == {k \in Nat : k <= n => mean[k].count = k /\ mean[k].sum = total[k]}
<1>3. 0 \in T
  BY <1>1, <1>2
<1>4. ASSUME NEW k \in Nat, k \in T PROVE k + 1 \in T
  <2> SUFFICES ASSUME k + 1 <= n PROVE mean[k+1].count = k + 1 /\ mean[k+1].sum = total[k+1]
    OBVIOUS
  <2>1. k \in 0..(n-1) /\ mean[k].count = k /\ mean[k].sum = total[k]
    BY <1>4
  <2>2. mean[k+1] = [count |-> mean[k].count + 1, sum |-> mean[k].sum + terms[k+1]]
    BY <1>2, <2>1
  <2>3. total[k+1] = total[k] + terms[k+1]
    BY <1>1, <2>1
  <2> QED BY <2>1, <2>2, <2>3
<1>5. n \in T
  <2> HIDE DEF T
  <2> QED BY <1>3, <1>4, SetInduction
<1> QED BY <1>1, <1>2, <1>5

\* A row as the scorers are fed it.
Cell == [actual : Int, predicted : Int]

\* AccuracyScorer runs through counts and hits.
LEMMA AccuracyUnrolls ==
  ASSUME NEW n \in Nat, NEW fed \in [1..n -> Cell]
  PROVE  \E total :
           /\ total[0] = [count |-> 0, correct |-> 0]
           /\ \A k \in 0..(n-1) : total[k+1] =
                [count |-> total[k].count + 1,
                 correct |-> IF fed[k+1].actual = fed[k+1].predicted THEN total[k].correct + 1
                             ELSE total[k].correct]
           /\ AccuracyScorer(fed) = Quotient(total[n].correct, total[n].count)
<1> DEFINE State == [count : Int, correct : Int]
           zero == [count |-> 0, correct |-> 0]
           update(s, r) == [count |-> s.count + 1,
                            correct |-> IF r.actual = r.predicted THEN s.correct + 1 ELSE s.correct]
           Body(iter) == [s \in SUBSET (1..n) |->
             IF s = {} THEN zero ELSE update(iter[s \ {Max(s)}], fed[Max(s)])]
           fold == CHOOSE iter : iter = Body(iter)
           step == [p \in (1..n) \X State |-> update(p[2], fed[p[1]])]
<1>1. DOMAIN fed = 1..n
  OBVIOUS
<1>2. AccuracyScorer(fed) = Quotient(fold[1..n].correct, fold[1..n].count)
  BY <1>1, Zenon DEF AccuracyScorer, FoldLeft, MapThenFoldSet
<1>3. IsStep(step, n, State) /\ zero \in State
  BY DEF IsStep
<1>4. \A k \in 1..n, i \in State : step[<<k, i>>] = update(i, fed[k])
  OBVIOUS
<1> HIDE DEF step, zero, State, update
<1>5. PICK iter : IsFold(iter, n, State, zero, step)
  BY <1>3, FoldExists
<1>6. ASSUME NEW s \in SUBSET (1..n) PROVE iter[s] = Body(iter)[s]
  <2>1. CASE s = {}
    BY <2>1, <1>5 DEF IsFold
  <2>2. CASE s # {}
    <3>1. Max(s) \in 1..n /\ s \ {Max(s)} \in SUBSET (1..n)
      BY <2>2, MaxInInterval
    <3>2. iter[s] = step[<<Max(s), iter[s \ {Max(s)}]>>] /\ iter[s \ {Max(s)}] \in State
      BY <1>5, <2>2, <3>1 DEF IsFold
    <3> QED BY <2>2, <3>1, <3>2, <1>4
  <2> QED BY <2>1, <2>2
<1>7. iter = Body(iter)
  BY <1>5, <1>6 DEF IsFold
<1>8. fold = Body(fold)
  <2> HIDE DEF Body
  <2> QED BY <1>7
<1> HIDE DEF fold
<1>9. \A s \in SUBSET (1..n) :
        fold[s] = IF s = {} THEN zero ELSE update(fold[s \ {Max(s)}], fed[Max(s)])
  BY <1>8
<1>10. ASSUME NEW s \in SUBSET (1..n), s # {}, fold[s \ {Max(s)}] \in State
       PROVE  fold[s] = step[<<Max(s), fold[s \ {Max(s)}]>>]
  <2>1. Max(s) \in 1..n
    BY <1>10, MaxInInterval
  <2> QED BY <2>1, <1>4, <1>9, <1>10
<1>11. Follows(fold, n, State, zero, step)
  BY <1>9, <1>10 DEF Follows
<1>12. PICK total : IsTotal(total, n, State, zero, step) /\ fold[1..n] = total[n]
  BY <1>3, <1>11, FoldTotals
<1>13. \A k \in 0..(n-1) : k + 1 \in 1..n /\ k \in 0..n
  OBVIOUS
<1>14. \A k \in 0..(n-1) : total[k+1] = update(total[k], fed[k+1])
  BY <1>4, <1>12, <1>13 DEF IsTotal
<1> QED BY <1>2, <1>12, <1>14 DEF IsTotal, zero, update

\* A property counted over a growing interval.
LEMMA CountExtended ==
  ASSUME NEW n \in Nat, NEW S \in SUBSET (1..n), NEW k \in 0..(n-1)
  PROVE  /\ Cardinality(S \intersect (1..(k+1))) =
              IF k + 1 \in S THEN Cardinality(S \intersect (1..k)) + 1
              ELSE Cardinality(S \intersect (1..k))
         /\ Cardinality(S \intersect (1..k)) \in Nat
         /\ Cardinality(S \intersect (1..0)) = 0
<1>1. k \in Int /\ 1 \in Int
  OBVIOUS
<1>2. IsFiniteSet(1..k)
  BY <1>1, FS_Interval
<1>3. IsFiniteSet(S \intersect (1..k)) /\ Cardinality(S \intersect (1..k)) \in Nat
  BY <1>2, FS_Intersection, FS_CardinalityType
<1>4. /\ k + 1 \notin S \intersect (1..k)
      /\ k + 1 \in S => S \intersect (1..(k+1)) = (S \intersect (1..k)) \union {k+1}
      /\ k + 1 \notin S => S \intersect (1..(k+1)) = S \intersect (1..k)
  OBVIOUS
<1>5. S \intersect (1..0) = {}
  OBVIOUS
<1>6. Cardinality((S \intersect (1..k)) \union {k+1}) = Cardinality(S \intersect (1..k)) + 1
  <2> HIDE <1>5
  <2> QED BY <1>3, <1>4, FS_AddElement
<1>7. Cardinality(S \intersect (1..0)) = 0
  BY <1>5, FS_EmptySet
<1> QED BY <1>3, <1>4, <1>6, <1>7

\* The same, for every property at once.
LEMMA CountStep ==
  ASSUME NEW n \in Nat, NEW k \in 0..(n-1)
  PROVE  \A S \in SUBSET (1..n) :
           /\ Cardinality(S \intersect (1..(k+1))) =
                IF k + 1 \in S THEN Cardinality(S \intersect (1..k)) + 1
                ELSE Cardinality(S \intersect (1..k))
           /\ Cardinality(S \intersect (1..k)) \in Nat
<1> TAKE S \in SUBSET (1..n)
<1> QED BY CountExtended

\* Both copies of the accuracy count the same hits.
LEMMA AccuracyAgrees ==
  ASSUME NEW n \in Nat, NEW fed \in [1..n -> Cell]
  PROVE  AccuracyScorer(fed) = accuracy(fed)
<1> DEFINE S == {i \in 1..n : fed[i].actual = fed[i].predicted}
           C(k) == Cardinality(S \intersect (1..k))
<1>1. PICK total :
           /\ total[0] = [count |-> 0, correct |-> 0]
           /\ \A k \in 0..(n-1) : total[k+1] =
                [count |-> total[k].count + 1,
                 correct |-> IF fed[k+1].actual = fed[k+1].predicted THEN total[k].correct + 1
                             ELSE total[k].correct]
           /\ AccuracyScorer(fed) = Quotient(total[n].correct, total[n].count)
  BY AccuracyUnrolls
<1> DEFINE T == {k \in Nat : k <= n => total[k].count = k /\ total[k].correct = C(k)}
<1>2. C(0) = 0
  <2>1. S \intersect (1..0) = {}
    OBVIOUS
  <2> QED BY <2>1, FS_EmptySet
<1>3. 0 \in T
  BY <1>1, <1>2
<1>4. ASSUME NEW k \in Nat, k \in T PROVE k + 1 \in T
  <2> SUFFICES ASSUME k + 1 <= n PROVE total[k+1].count = k + 1 /\ total[k+1].correct = C(k+1)
    OBVIOUS
  <2>1. k \in 0..(n-1) /\ total[k].count = k /\ total[k].correct = C(k)
    <3>1. k <= n => total[k].count = k /\ total[k].correct = C(k)
      BY <1>4
    <3> HIDE DEF T, C
    <3>2. k <= n /\ k \in 0..(n-1)
      OBVIOUS
    <3> QED BY <3>1, <3>2
  <2>2. C(k+1) = IF k + 1 \in S THEN C(k) + 1 ELSE C(k)
    <3>1. S \in SUBSET (1..n)
      OBVIOUS
    <3> HIDE DEF S
    <3> QED BY <3>1, <2>1, CountStep, SMTT(30)
  <2>3. k + 1 \in S <=> fed[k+1].actual = fed[k+1].predicted
    OBVIOUS
  <2>4. total[k+1] = [count |-> total[k].count + 1,
                 correct |-> IF fed[k+1].actual = fed[k+1].predicted THEN total[k].correct + 1
                             ELSE total[k].correct]
    BY <1>1, <2>1
  <2> HIDE DEF C, S
  <2> QED BY <2>1, <2>2, <2>3, <2>4
<1>5. n \in T
  <2> HIDE DEF T
  <2> QED BY <1>3, <1>4, SetInduction
<1>6. S \intersect (1..n) = S
  OBVIOUS
<1>7. DOMAIN fed = 1..n /\ Len(fed) = n
  BY LenIs
<1>8. accuracy(fed) = Quotient(Cardinality(S), n)
  BY <1>7 DEF accuracy
<1>9. total[n].count = n /\ total[n].correct = C(n)
  <2> HIDE DEF C, S
  <2> QED BY <1>5
<1>10. C(n) = Cardinality(S)
  BY <1>6
<1> HIDE DEF C, S
<1> QED BY <1>1, <1>8, <1>9, <1>10

-----------------------------------------------------------------------------
\* A sum does not depend on the order of its terms: it is the number of units
\* in the positive ones less that in the negative ones.

\* The units of the positive ones among the first k terms.
Units(v, k) == {p \in (1..k) \X (Nat \ {0}) : p[2] <= v[p[1]]}
Negated(v) == [i \in DOMAIN v |-> -v[i]]

\* One more term, and as many units more.
LEMMA UnitsExtended ==
  ASSUME NEW n \in Nat, NEW v \in [1..n -> Int], NEW k \in 0..(n-1), IsFiniteSet(Units(v, k))
  PROVE  /\ IsFiniteSet(Units(v, k+1))
         /\ Cardinality(Units(v, k+1)) =
              Cardinality(Units(v, k)) + (IF v[k+1] > 0 THEN v[k+1] ELSE 0)
<1> DEFINE m == v[k+1]
           New == {k+1} \X (1..m)
<1>1. k + 1 \in 1..n /\ m \in Int /\ 1 \in Int /\ k \in Nat
  OBVIOUS
<1>2. IsFiniteSet(1..m) /\ Cardinality(1..m) = IF m > 0 THEN m ELSE 0
  <2>1. IsFiniteSet(1..m) /\ Cardinality(1..m) = IF 1 > m THEN 0 ELSE m - 1 + 1
    BY <1>1, FS_Interval
  <2> QED BY <1>1, <2>1
<1>3. IsFiniteSet({k+1}) /\ Cardinality({k+1}) = 1
  BY FS_Singleton
<1>4. IsFiniteSet(New) /\ Cardinality(New) = IF m > 0 THEN m ELSE 0
  <2>1. IsFiniteSet(New) /\ Cardinality(New) = Cardinality({k+1}) * Cardinality(1..m)
    BY <1>2, <1>3, FS_Product
  <2> HIDE DEF New
  <2> QED BY <1>1, <1>2, <1>3, <2>1
<1>5. Units(v, k+1) = Units(v, k) \union New
  BY <1>1 DEF Units
<1>6. Units(v, k) \intersect New = {}
  BY <1>1 DEF Units
<1>7. Cardinality({}) = 0 /\ Cardinality(Units(v, k)) \in Nat
  BY FS_EmptySet, FS_CardinalityType
<1> HIDE DEF New
<1>8. /\ IsFiniteSet(Units(v, k) \union New)
      /\ Cardinality(Units(v, k) \union New) = Cardinality(Units(v, k)) + Cardinality(New) - Cardinality({})
  BY <1>4, <1>6, FS_Union
<1>9. Cardinality(Units(v, k+1)) = Cardinality(Units(v, k)) + Cardinality(New)
  <2>1. Cardinality(New) \in Int
    BY <1>1, <1>4
  <2>2. Cardinality(Units(v, k) \union New) = Cardinality(Units(v, k)) + Cardinality(New) - 0
    BY <1>7, <1>8, Zenon
  <2>3. Cardinality(Units(v, k+1)) = Cardinality(Units(v, k) \union New)
    BY <1>5, Zenon
  <2> HIDE <1>5, <1>8
  <2> QED BY <2>1, <2>2, <2>3, <1>7
<1> QED BY <1>4, <1>5, <1>8, <1>9

\* A sum, as a difference of two cardinalities.
LEMMA SumCounts ==
  ASSUME NEW n \in Nat, NEW v \in [1..n -> Int]
  PROVE  /\ IsFiniteSet(Units(v, n)) /\ IsFiniteSet(Units(Negated(v), n))
         /\ Sum(v) = Cardinality(Units(v, n)) - Cardinality(Units(Negated(v), n))
<1> DEFINE w == Negated(v)
           U(k) == Cardinality(Units(v, k))
           D(k) == Cardinality(Units(w, k))
<1>1. PICK total \in [0..n -> Int] :
        /\ total[0] = 0
        /\ \A k \in 0..(n-1) : total[k+1] = total[k] + v[k+1]
        /\ Sum(v) = total[n]
  BY SumUnrolls
<1>2. w \in [1..n -> Int] /\ \A i \in 1..n : w[i] = -v[i]
  BY DEF Negated
<1> DEFINE T == {k \in Nat : k <= n => /\ IsFiniteSet(Units(v, k)) /\ IsFiniteSet(Units(w, k))
                                       /\ total[k] = U(k) - D(k)}
<1>3. 0 \in T
  <2>1. Units(v, 0) = {} /\ Units(w, 0) = {}
    BY DEF Units
  <2>2. U(0) = 0 /\ D(0) = 0 /\ IsFiniteSet({})
    BY <2>1, FS_EmptySet
  <2>3. total[0] = U(0) - D(0)
    <3> HIDE DEF U, D
    <3> QED BY <1>1, <2>2
  <2>4. IsFiniteSet(Units(v, 0)) /\ IsFiniteSet(Units(w, 0))
    <3> HIDE DEF w
    <3> QED BY <2>1, <2>2
  <2> HIDE DEF U, D, w
  <2> QED BY <2>3, <2>4
<1>4. ASSUME NEW k \in Nat, k \in T PROVE k + 1 \in T
  <2> SUFFICES ASSUME k + 1 <= n
               PROVE  /\ IsFiniteSet(Units(v, k+1)) /\ IsFiniteSet(Units(w, k+1))
                      /\ total[k+1] = U(k+1) - D(k+1)
    OBVIOUS
  <2>1. k \in 0..(n-1) /\ k + 1 \in 1..n /\ v[k+1] \in Int
    OBVIOUS
  <2>2. IsFiniteSet(Units(v, k)) /\ IsFiniteSet(Units(w, k)) /\ total[k] = U(k) - D(k)
    BY <1>4
  <2>3. IsFiniteSet(Units(v, k+1)) /\ U(k+1) = U(k) + (IF v[k+1] > 0 THEN v[k+1] ELSE 0)
    BY <2>1, <2>2, UnitsExtended
  <2>4. IsFiniteSet(Units(w, k+1)) /\ D(k+1) = D(k) + (IF w[k+1] > 0 THEN w[k+1] ELSE 0)
    <3> HIDE DEF w
    <3> QED BY <1>2, <2>1, <2>2, UnitsExtended
  <2>5. w[k+1] = -v[k+1] /\ total[k+1] = total[k] + v[k+1]
    BY <1>1, <1>2, <2>1
  <2>6. U(k) \in Nat /\ D(k) \in Nat
    BY <2>2, FS_CardinalityType
  <2> HIDE DEF U, D, w
  <2> QED BY <2>1, <2>2, <2>3, <2>4, <2>5, <2>6, SMTT(30)
<1>5. n \in T
  <2> HIDE DEF T
  <2> QED BY <1>3, <1>4, SetInduction
<1> QED BY <1>1, <1>5

\* Terms in another order have as many units.
LEMMA UnitsPermuted ==
  ASSUME NEW n \in Nat, NEW v \in [1..n -> Int], NEW q \in Bijection(1..n, 1..n),
         IsFiniteSet(Units(v, n)), NEW w \in [1..n -> Int], \A i \in 1..n : w[i] = v[q[i]]
  PROVE  Cardinality(Units(w, n)) = Cardinality(Units(v, n))
<1> DEFINE A == Units(w, n)
           B == Units(v, n)
           f == [p \in A |-> <<q[p[1]], p[2]>>]
<1>1. /\ \A i \in 1..n : q[i] \in 1..n
      /\ \A i, j \in 1..n : q[i] = q[j] => i = j
      /\ \A j \in 1..n : \E i \in 1..n : q[i] = j
  BY DEF Bijection, Injection, Surjection, IsInjective
<1>2. \A p \in A : f[p] \in B
  BY <1>1 DEF Units
<1>3. ASSUME NEW a \in A, NEW b \in A, f[a] = f[b] PROVE a = b
  <2>1. a[1] \in 1..n /\ b[1] \in 1..n /\ a = <<a[1], a[2]>> /\ b = <<b[1], b[2]>>
    BY DEF Units
  <2>2. q[a[1]] = q[b[1]] /\ a[2] = b[2]
    <3> HIDE DEF A
    <3> QED BY <1>3
  <2> QED BY <1>1, <2>1, <2>2
<1>4. ASSUME NEW b \in B PROVE \E a \in A : f[a] = b
  <2>1. b[1] \in 1..n /\ b[2] \in Nat \ {0} /\ b = <<b[1], b[2]>> /\ b[2] <= v[b[1]]
    BY DEF Units
  <2>2. PICK i \in 1..n : q[i] = b[1]
    BY <1>1, <2>1
  <2>3. <<i, b[2]>> \in A
    BY <2>1, <2>2 DEF Units
  <2>4. f[<<i, b[2]>>] = b
    BY <2>1, <2>2, <2>3
  <2> QED BY <2>3, <2>4
<1> HIDE DEF A, B
<1>5. f \in Bijection(A, B)
  <2>1. f \in [A -> B]
    BY <1>2
  <2>2. DOMAIN f = A
    OBVIOUS
  <2> HIDE DEF f
  <2> QED BY <1>3, <1>4, <2>1, <2>2 DEF Bijection, Injection, Surjection, IsInjective
<1>6. ExistsBijection(A, B)
  BY <1>5 DEF ExistsBijection
<1>7. ExistsBijection(B, A)
  BY <1>6, Fun_ExistsBijSymmetric
<1> QED BY <1>7, FS_Bijection DEF A, B

\* Terms in another order have the same sum.
LEMMA SumPermuted ==
  ASSUME NEW n \in Nat, NEW v \in [1..n -> Int], NEW q \in Bijection(1..n, 1..n),
         NEW w \in [1..n -> Int], \A i \in 1..n : w[i] = v[q[i]]
  PROVE  Sum(w) = Sum(v)
<1>1. \A i \in 1..n : q[i] \in 1..n
  BY DEF Bijection, Injection
<1>2. Negated(v) \in [1..n -> Int] /\ Negated(w) \in [1..n -> Int]
  BY DEF Negated
<1>3. \A i \in 1..n : Negated(w)[i] = Negated(v)[q[i]]
  BY <1>1 DEF Negated
<1>4. Cardinality(Units(w, n)) = Cardinality(Units(v, n))
  BY SumCounts, UnitsPermuted
<1>5. Cardinality(Units(Negated(w), n)) = Cardinality(Units(Negated(v), n))
  BY <1>2, <1>3, SumCounts, UnitsPermuted
<1> QED BY <1>4, <1>5, SumCounts

-----------------------------------------------------------------------------
\* F1: the classes met, and the three counts of each.

\* cs lists the members of S once.
Lists(cs, S) ==
  /\ cs \in Seq(Int)
  /\ \A i, j \in 1..Len(cs) : cs[i] = cs[j] => i = j
  /\ \A x : x \in S <=> \E i \in 1..Len(cs) : cs[i] = x

\* new is cs, with x behind it unless it is there.
Grows(new, cs, S, x) ==
  /\ Lists(new, S \union {x})
  /\ Len(cs) <= Len(new) /\ Len(new) \in Nat \ {0}
  /\ \A i \in 1..Len(cs) : new[i] = cs[i]
  /\ S = {} => new[1] = x

\* Insert lists the old members in place and the new one behind them.
LEMMA InsertGrows ==
  ASSUME NEW S, NEW cs, Lists(cs, S), NEW x \in Int
  PROVE  Grows(Insert(cs, x), cs, S, x)
<1>1. cs \in Seq(Int) /\ Len(cs) \in Nat
  BY DEF Lists
<1>2. CASE Contains(cs, x)
  <2>1. x \in S /\ Insert(cs, x) = cs /\ Len(cs) # 0 /\ S # {}
    BY <1>1, <1>2 DEF Contains, Insert, Lists
  <2> QED BY <1>1, <2>1 DEF Lists, Grows
<1>3. CASE ~Contains(cs, x)
  <2>1. Insert(cs, x) = Append(cs, x) /\ x \notin S
    BY <1>1, <1>3 DEF Contains, Insert, Lists
  <2>2. /\ Append(cs, x) \in Seq(Int) /\ Len(Append(cs, x)) = Len(cs) + 1
        /\ Append(cs, x)[Len(cs) + 1] = x
        /\ \A i \in 1..Len(cs) : Append(cs, x)[i] = cs[i]
    BY <1>1
  <2>3. S = {} => Len(cs) = 0
    <3>1. Len(cs) # 0 => 1 \in 1..Len(cs)
      BY <1>1
    <3>2. Len(cs) # 0 => cs[1] \in S
      BY <3>1 DEF Lists
    <3> QED BY <3>2
  <2> DEFINE new == Append(cs, x)
  <2>4. \A i \in 1..Len(new) : (i \in 1..Len(cs) /\ new[i] = cs[i]) \/ (i = Len(cs) + 1 /\ new[i] = x)
    BY <1>1, <2>2
  <2>5. Len(new) = Len(cs) + 1 /\ new \in Seq(Int)
    BY <2>2
  <2>6. \A i \in 1..Len(cs) : i \in 1..Len(new) /\ new[i] = cs[i]
    BY <1>1, <2>2
  <2>7. Len(cs) + 1 \in 1..Len(new) /\ new[Len(cs)+1] = x
    BY <1>1, <2>2
  <2> HIDE DEF new
  <2>8. Lists(new, S \union {x})
    <3>1. ASSUME NEW i \in 1..Len(new), NEW j \in 1..Len(new), new[i] = new[j] PROVE i = j
      <4>1. \A k \in 1..Len(cs) : cs[k] # x
        BY <2>1 DEF Lists
      <4> QED BY <3>1, <4>1, <2>4 DEF Lists
    <3>2. \A y : y \in S \union {x} <=> \E i \in 1..Len(new) : new[i] = y
      BY <2>4, <2>6, <2>7 DEF Lists
    <3> QED BY <3>1, <3>2, <2>5 DEF Lists
  <2>9. /\ Len(cs) <= Len(new) /\ Len(new) \in Nat \ {0}
        /\ \A i \in 1..Len(cs) : new[i] = cs[i]
        /\ S = {} => new[1] = x
    BY <1>1, <2>3, <2>5, <2>6, <2>7
  <2> QED BY <2>1, <2>8, <2>9 DEF new, Grows
<1> QED BY <1>2, <1>3

\* The Set of classes, filled cell by cell.
LEMMA ClassesUnroll ==
  ASSUME NEW n \in Nat, NEW cells \in [1..n -> Int]
  PROVE  \E total :
           /\ total[0] = << >>
           /\ \A k \in 0..(n-1) : total[k+1] = Insert(total[k], cells[k+1])
           /\ FoldLeft(Insert, <<>>, cells) = total[n]
<1> DEFINE State == Seq(Int)
           none == << >>
           Body(iter) == [s \in SUBSET (1..n) |->
             IF s = {} THEN none ELSE Insert(iter[s \ {Max(s)}], cells[Max(s)])]
           fold == CHOOSE iter : iter = Body(iter)
           step == [p \in (1..n) \X State |-> Insert(p[2], cells[p[1]])]
<1>1. DOMAIN cells = 1..n
  OBVIOUS
<1>2. FoldLeft(Insert, <<>>, cells) = fold[1..n]
  BY <1>1, Zenon DEF FoldLeft, MapThenFoldSet
<1>3. IsStep(step, n, State) /\ none \in State
  <2>1. \A cs \in Seq(Int), x \in Int : Insert(cs, x) \in Seq(Int)
    BY DEF Insert
  <2> QED BY <2>1 DEF IsStep
<1>4. \A k \in 1..n, i \in State : step[<<k, i>>] = Insert(i, cells[k])
  OBVIOUS
<1> HIDE DEF step, none, State
<1>5. PICK iter : IsFold(iter, n, State, none, step)
  BY <1>3, FoldExists
<1>6. ASSUME NEW s \in SUBSET (1..n) PROVE iter[s] = Body(iter)[s]
  <2>1. CASE s = {}
    BY <2>1, <1>5 DEF IsFold
  <2>2. CASE s # {}
    <3>1. Max(s) \in 1..n /\ s \ {Max(s)} \in SUBSET (1..n)
      BY <2>2, MaxInInterval
    <3>2. iter[s] = step[<<Max(s), iter[s \ {Max(s)}]>>] /\ iter[s \ {Max(s)}] \in State
      BY <1>5, <2>2, <3>1 DEF IsFold
    <3> QED BY <2>2, <3>1, <3>2, <1>4
  <2> QED BY <2>1, <2>2
<1>7. iter = Body(iter)
  BY <1>5, <1>6 DEF IsFold
<1>8. fold = Body(fold)
  <2> HIDE DEF Body
  <2> QED BY <1>7
<1> HIDE DEF fold
<1>9. \A s \in SUBSET (1..n) :
        fold[s] = IF s = {} THEN none ELSE Insert(fold[s \ {Max(s)}], cells[Max(s)])
  BY <1>8
<1>10. ASSUME NEW s \in SUBSET (1..n), s # {}, fold[s \ {Max(s)}] \in State
       PROVE  fold[s] = step[<<Max(s), fold[s \ {Max(s)}]>>]
  <2>1. Max(s) \in 1..n
    BY <1>10, MaxInInterval
  <2> QED BY <2>1, <1>4, <1>9, <1>10
<1>11. Follows(fold, n, State, none, step)
  BY <1>9, <1>10 DEF Follows
<1>12. PICK total : IsTotal(total, n, State, none, step) /\ fold[1..n] = total[n]
  BY <1>3, <1>11, FoldTotals
<1>13. \A k \in 0..(n-1) : k + 1 \in 1..n /\ k \in 0..n
  OBVIOUS
<1>14. \A k \in 0..(n-1) : total[k+1] = Insert(total[k], cells[k+1])
  BY <1>4, <1>12, <1>13 DEF IsTotal
<1> QED BY <1>2, <1>12, <1>14 DEF IsTotal, none

\* It lists each class once, the first cell first.
LEMMA ClassesListed ==
  ASSUME NEW n \in Nat \ {0}, NEW cells \in [1..n -> Int]
  PROVE  /\ Lists(FoldLeft(Insert, <<>>, cells), {cells[i] : i \in 1..n})
         /\ FoldLeft(Insert, <<>>, cells)[1] = cells[1]
<1>1. PICK total :
           /\ total[0] = << >>
           /\ \A k \in 0..(n-1) : total[k+1] = Insert(total[k], cells[k+1])
           /\ FoldLeft(Insert, <<>>, cells) = total[n]
  BY ClassesUnroll
<1> DEFINE Met(k) == {cells[i] : i \in 1..k}
           T == {k \in Nat : k <= n => Lists(total[k], Met(k)) /\ (k # 0 => total[k][1] = cells[1])}
<1>2. 0 \in T
  <2>1. Lists(<< >>, {})
    BY DEF Lists
  <2>2. Met(0) = {}
    OBVIOUS
  <2> HIDE DEF Met
  <2> QED BY <1>1, <2>1, <2>2
<1>3. ASSUME NEW k \in Nat, k \in T PROVE k + 1 \in T
  <2> SUFFICES ASSUME k + 1 <= n
               PROVE  Lists(total[k+1], Met(k+1)) /\ total[k+1][1] = cells[1]
    OBVIOUS
  <2>1. k \in 0..(n-1) /\ k + 1 \in 1..n /\ cells[k+1] \in Int
    OBVIOUS
  <2>2. Lists(total[k], Met(k)) /\ (k # 0 => total[k][1] = cells[1])
    BY <1>3
  <2>3. Met(k+1) = Met(k) \union {cells[k+1]}
    <3>1. \A i : i \in 1..(k+1) <=> i \in 1..k \/ i = k + 1
      OBVIOUS
    <3> QED BY <3>1
  <2>4. total[k+1] = Insert(total[k], cells[k+1])
    BY <1>1, <2>1
  <2>5. k = 0 => Met(k) = {}
    OBVIOUS
  <2>6. k # 0 => Met(k) # {}
    <3>1. k # 0 => cells[1] \in Met(k)
      OBVIOUS
    <3> QED BY <3>1
  <2> HIDE DEF Met
  <2>7. k # 0 => 1 \in 1..Len(total[k])
    BY <2>2, <2>6 DEF Lists
  <2>8. /\ Lists(Insert(total[k], cells[k+1]), Met(k) \union {cells[k+1]})
        /\ \A i \in 1..Len(total[k]) : Insert(total[k], cells[k+1])[i] = total[k][i]
        /\ Met(k) = {} => Insert(total[k], cells[k+1])[1] = cells[k+1]
    <3> DEFINE M == Met(k)
    <3>1. cells[k+1] \in Int /\ Lists(total[k], M)
      BY <2>1, <2>2
    <3> HIDE DEF M
    <3>2. Grows(Insert(total[k], cells[k+1]), total[k], M, cells[k+1])
      BY <3>1, InsertGrows
    <3> QED BY <3>2 DEF M, Grows
  <2>9. Lists(total[k+1], Met(k+1))
    BY <2>3, <2>4, <2>8
  <2>10. CASE k = 0
    BY <2>4, <2>5, <2>8, <2>9, <2>10
  <2>11. CASE k # 0
    BY <2>2, <2>4, <2>7, <2>8, <2>9, <2>11
  <2> QED BY <2>10, <2>11
<1>4. n \in T
  <2> HIDE DEF T
  <2> QED BY <1>2, <1>3, SetInduction
<1> QED BY <1>1, <1>4

\* The rows that count for a class.
TruePositives(fed) ==
  [cls \in Int |-> {j \in DOMAIN fed : fed[j].actual = cls /\ fed[j].predicted = cls}]
FalsePositives(fed) ==
  [cls \in Int |-> {j \in DOMAIN fed : fed[j].actual # cls /\ fed[j].predicted = cls}]
FalseNegatives(fed) ==
  [cls \in Int |-> {j \in DOMAIN fed : fed[j].actual = cls /\ fed[j].predicted # cls}]

\* The classes of the first k rows.
Met(fed, k) == {fed[i].actual : i \in 1..k} \union {fed[i].predicted : i \in 1..k}

\* A count that a Map may lack.
At(counts, i) == IF i \in DOMAIN counts THEN counts[i] ELSE 0

\* counts holds, for each class, how many of the first k rows are in its rows.
Counted(counts, classes, rows, k) ==
  /\ counts \in Seq(Nat) /\ Len(counts) <= Len(classes)
  /\ \A i \in 1..Len(classes) : At(counts, i) = Cardinality(rows[classes[i]] \intersect (1..k))

\* The counts aligned with the classes, one more for cls.
Bumped(counts, classes, cls) ==
  [i \in DOMAIN classes |-> At(counts, i) + (IF classes[i] = cls THEN 1 ELSE 0)]

F1State == [classes : Seq(Int), tp : Seq(Nat), fp : Seq(Nat), fn : Seq(Nat)]

LEMMA BumpedType ==
  ASSUME NEW counts \in Seq(Nat), NEW classes \in Seq(Int), NEW cls
  PROVE  /\ Bumped(counts, classes, cls) \in Seq(Nat)
         /\ Len(Bumped(counts, classes, cls)) = Len(classes)
         /\ DOMAIN Bumped(counts, classes, cls) = 1..Len(classes)
         /\ \A i \in 1..Len(classes) :
              At(Bumped(counts, classes, cls), i) = At(counts, i) + (IF classes[i] = cls THEN 1 ELSE 0)
<1> DEFINE b == Bumped(counts, classes, cls)
<1>1. Len(classes) \in Nat /\ DOMAIN classes = 1..Len(classes)
  OBVIOUS
<1>2. \A i \in 1..Len(classes) : At(counts, i) \in Nat
  BY DEF At
<1>3. b = [i \in 1..Len(classes) |-> At(counts, i) + (IF classes[i] = cls THEN 1 ELSE 0)]
  BY <1>1 DEF Bumped
<1>4. b \in [1..Len(classes) -> Nat]
  BY <1>2, <1>3
<1>5. b \in Seq(Nat) /\ Len(b) = Len(classes) /\ DOMAIN b = 1..Len(classes)
  BY <1>1, <1>4, SMTT(30)
<1>6. \A i \in 1..Len(classes) : At(b, i) = At(counts, i) + (IF classes[i] = cls THEN 1 ELSE 0)
  BY <1>3, <1>5 DEF At
<1> QED BY <1>5, <1>6

\* Bump, field by field.
LEMMA Bumps ==
  ASSUME NEW s \in F1State, NEW cls
  PROVE  /\ Bump(s, "tp", cls) = [s EXCEPT !.tp = Bumped(s.tp, s.classes, cls)]
         /\ Bump(s, "fp", cls) = [s EXCEPT !.fp = Bumped(s.fp, s.classes, cls)]
         /\ Bump(s, "fn", cls) = [s EXCEPT !.fn = Bumped(s.fn, s.classes, cls)]
BY DEF Bump, Bumped, At, F1State

\* update of the F1 scorer.
F1Update(s, r) ==
  LET e == [s EXCEPT !.classes = Insert(Insert(s.classes, r.actual), r.predicted)]
  IN  IF r.actual = r.predicted THEN Bump(e, "tp", r.actual)
      ELSE Bump(Bump(e, "fp", r.predicted), "fn", r.actual)

LEMMA WithClasses ==
  ASSUME NEW s \in F1State, NEW c
  PROVE  [s EXCEPT !.classes = c] = [classes |-> c, tp |-> s.tp, fp |-> s.fp, fn |-> s.fn]
<1>1. s = [classes |-> s.classes, tp |-> s.tp, fp |-> s.fp, fn |-> s.fn]
  BY DEF F1State
<1>2. PICK a, b, d, e : s = [classes |-> a, tp |-> b, fp |-> d, fn |-> e]
  BY <1>1
<1>3. s.tp = b /\ s.fp = d /\ s.fn = e
  BY <1>2
<1>4. [[classes |-> a, tp |-> b, fp |-> d, fn |-> e] EXCEPT !.classes = c]
        = [classes |-> c, tp |-> b, fp |-> d, fn |-> e]
  OBVIOUS
<1> QED BY <1>2, <1>3, <1>4, Zenon

\* update of the F1 scorer, by whether the row is a hit.
LEMMA F1UpdateIs ==
  ASSUME NEW s \in F1State, NEW r \in Cell
  PROVE  LET cs == Insert(Insert(s.classes, r.actual), r.predicted)
         IN  /\ cs \in Seq(Int)
             /\ F1Update(s, r) =
                  IF r.actual = r.predicted
                  THEN [classes |-> cs, tp |-> Bumped(s.tp, cs, r.actual), fp |-> s.fp, fn |-> s.fn]
                  ELSE [classes |-> cs, tp |-> s.tp, fp |-> Bumped(s.fp, cs, r.predicted),
                        fn |-> Bumped(s.fn, cs, r.actual)]
             /\ F1Update(s, r) \in F1State
<1> DEFINE cs == Insert(Insert(s.classes, r.actual), r.predicted)
           e == [s EXCEPT !.classes = cs]
<1>1. cs \in Seq(Int)
  BY DEF Insert, F1State, Cell
<1> HIDE DEF cs
<1>2. e \in F1State /\ e = [classes |-> cs, tp |-> s.tp, fp |-> s.fp, fn |-> s.fn]
  <2>1. e = [classes |-> cs, tp |-> s.tp, fp |-> s.fp, fn |-> s.fn]
    BY WithClasses
  <2>2. s.tp \in Seq(Nat) /\ s.fp \in Seq(Nat) /\ s.fn \in Seq(Nat)
    BY DEF F1State
  <2> HIDE DEF e
  <2> QED BY <1>1, <2>1, <2>2 DEF F1State
<1>3. F1Update(s, r) = IF r.actual = r.predicted THEN Bump(e, "tp", r.actual)
                       ELSE Bump(Bump(e, "fp", r.predicted), "fn", r.actual)
  BY DEF F1Update, cs
<1> HIDE DEF e
<1>4. /\ e.classes = cs /\ e.tp = s.tp /\ e.fp = s.fp /\ e.fn = s.fn
      /\ s.tp \in Seq(Nat) /\ s.fp \in Seq(Nat) /\ s.fn \in Seq(Nat)
  BY <1>2 DEF F1State
<1>5. CASE r.actual = r.predicted
  <2>1. F1Update(s, r) = [e EXCEPT !.tp = Bumped(s.tp, cs, r.actual)]
    BY <1>2, <1>3, <1>4, <1>5, Bumps
  <2>2. Bumped(s.tp, cs, r.actual) \in Seq(Nat)
    BY <1>1, <1>4, BumpedType
  <2>3. F1Update(s, r) = [classes |-> cs, tp |-> Bumped(s.tp, cs, r.actual), fp |-> s.fp, fn |-> s.fn]
    BY <2>1, <1>2
  <2>4. F1Update(s, r) \in F1State
    BY <2>2, <2>3, <1>1, <1>4 DEF F1State
  <2> QED BY <2>3, <2>4, <1>1, <1>5 DEF cs
<1>6. CASE r.actual # r.predicted
  <2> DEFINE f == Bump(e, "fp", r.predicted)
  <2>1. f = [e EXCEPT !.fp = Bumped(s.fp, cs, r.predicted)]
    BY <1>2, <1>4, Bumps
  <2>2. Bumped(s.fp, cs, r.predicted) \in Seq(Nat) /\ Bumped(s.fn, cs, r.actual) \in Seq(Nat)
    BY <1>1, <1>4, BumpedType
  <2>3. f = [classes |-> cs, tp |-> s.tp, fp |-> Bumped(s.fp, cs, r.predicted), fn |-> s.fn]
    BY <2>1, <1>2
  <2>4. f \in F1State /\ f.classes = cs /\ f.fn = s.fn
    BY <2>2, <2>3, <1>1, <1>4 DEF F1State
  <2>5. F1Update(s, r) = Bump(f, "fn", r.actual)
    BY <1>3, <1>6
  <2> HIDE DEF f
  <2>6. F1Update(s, r) = [f EXCEPT !.fn = Bumped(s.fn, cs, r.actual)]
    BY <2>4, <2>5, Bumps
  <2>7. F1Update(s, r) = [classes |-> cs, tp |-> s.tp, fp |-> Bumped(s.fp, cs, r.predicted),
                          fn |-> Bumped(s.fn, cs, r.actual)]
    BY <2>3, <2>6
  <2>8. F1Update(s, r) \in F1State
    BY <2>2, <2>7, <1>1, <1>4 DEF F1State
  <2> QED BY <2>7, <2>8, <1>1, <1>6 DEF cs
<1> QED BY <1>5, <1>6

\* New classes leave the counts right: no earlier row is of theirs.
LEMMA CountedGrows ==
  ASSUME NEW classes \in Seq(Int), NEW cs \in Seq(Int), NEW rows, NEW k \in Nat, NEW counts,
         Counted(counts, classes, rows, k), Len(classes) <= Len(cs),
         \A i \in 1..Len(cs) :
           IF i \in 1..Len(classes) THEN cs[i] = classes[i] ELSE rows[cs[i]] \intersect (1..k) = {}
  PROVE  Counted(counts, cs, rows, k)
<1>1. counts \in Seq(Nat) /\ Len(counts) \in Nat /\ Len(classes) \in Nat /\ Len(cs) \in Nat
  BY DEF Counted
<1>2. DOMAIN counts = 1..Len(counts) /\ Len(counts) <= Len(classes)
  BY <1>1 DEF Counted
<1>3. ASSUME NEW i \in 1..Len(cs) PROVE At(counts, i) = Cardinality(rows[cs[i]] \intersect (1..k))
  <2>1. CASE i \in 1..Len(classes)
    BY <2>1 DEF Counted
  <2>2. CASE i \notin 1..Len(classes)
    <3>1. At(counts, i) = 0
      BY <1>1, <1>2, <2>2 DEF At
    <3> QED BY <2>2, <3>1, FS_EmptySet
  <2> QED BY <2>1, <2>2
<1>4. Len(counts) <= Len(cs)
  BY <1>1, <1>2
<1> QED BY <1>1, <1>3, <1>4 DEF Counted

\* A count that a row is not of stays right.
LEMMA CountedStays ==
  ASSUME NEW n \in Nat, NEW k \in 0..(n-1), NEW cs \in Seq(Int), NEW rows \in [Int -> SUBSET (1..n)],
         NEW counts, Counted(counts, cs, rows, k),
         \A i \in 1..Len(cs) : k + 1 \notin rows[cs[i]]
  PROVE  Counted(counts, cs, rows, k + 1)
<1>1. ASSUME NEW i \in 1..Len(cs)
      PROVE  Cardinality(rows[cs[i]] \intersect (1..(k+1))) = Cardinality(rows[cs[i]] \intersect (1..k))
  <2>1. rows[cs[i]] \in SUBSET (1..n)
    OBVIOUS
  <2>2. k + 1 \notin rows[cs[i]]
    OBVIOUS
  <2> QED BY <2>1, <2>2, CountStep, Zenon
<1> QED BY <1>1 DEF Counted

\* A count that a row is of is right after the bump.
LEMMA CountedBumped ==
  ASSUME NEW n \in Nat, NEW k \in 0..(n-1), NEW cs \in Seq(Int), NEW rows \in [Int -> SUBSET (1..n)],
         NEW counts, Counted(counts, cs, rows, k), NEW cls,
         \A i \in 1..Len(cs) : k + 1 \in rows[cs[i]] <=> cs[i] = cls
  PROVE  Counted(Bumped(counts, cs, cls), cs, rows, k + 1)
<1>1. counts \in Seq(Nat)
  BY DEF Counted
<1>2. /\ Bumped(counts, cs, cls) \in Seq(Nat) /\ Len(Bumped(counts, cs, cls)) = Len(cs)
      /\ \A i \in 1..Len(cs) :
           At(Bumped(counts, cs, cls), i) = At(counts, i) + (IF cs[i] = cls THEN 1 ELSE 0)
  BY <1>1, BumpedType
<1>3. ASSUME NEW i \in 1..Len(cs)
      PROVE  At(Bumped(counts, cs, cls), i) = Cardinality(rows[cs[i]] \intersect (1..(k+1)))
  <2> DEFINE S == rows[cs[i]]
  <2>1. S \in SUBSET (1..n)
    OBVIOUS
  <2> HIDE DEF S
  <2>2. /\ Cardinality(S \intersect (1..(k+1))) =
              IF k + 1 \in S THEN Cardinality(S \intersect (1..k)) + 1
              ELSE Cardinality(S \intersect (1..k))
        /\ Cardinality(S \intersect (1..k)) \in Nat
    BY <2>1, CountStep, Zenon
  <2>3. At(counts, i) = Cardinality(S \intersect (1..k))
    BY DEF Counted, S
  <2>4. k + 1 \in S <=> cs[i] = cls
    BY DEF S
  <2>5. At(Bumped(counts, cs, cls), i) = At(counts, i) + (IF cs[i] = cls THEN 1 ELSE 0)
    BY <1>2
  <2>6. At(Bumped(counts, cs, cls), i) = Cardinality(S \intersect (1..(k+1)))
    BY <2>2, <2>3, <2>4, <2>5
  <2> QED BY <2>6 DEF S
<1>4. Len(cs) <= Len(cs)
  OBVIOUS
<1> QED BY <1>2, <1>3, <1>4 DEF Counted

\* After k rows: the classes met, the first label first, and their counts.
F1Inv(s, fed, k) ==
  /\ s \in F1State
  /\ Lists(s.classes, Met(fed, k))
  /\ k # 0 => s.classes[1] = fed[1].actual
  /\ Counted(s.tp, s.classes, TruePositives(fed), k)
  /\ Counted(s.fp, s.classes, FalsePositives(fed), k)
  /\ Counted(s.fn, s.classes, FalseNegatives(fed), k)

\* A row keeps the invariant of the F1 scorer.
LEMMA F1Step ==
  ASSUME NEW n \in Nat, NEW fed \in [1..n -> Cell], NEW k \in 0..(n-1),
         NEW s, F1Inv(s, fed, k)
  PROVE  F1Inv(F1Update(s, fed[k+1]), fed, k + 1)
<1> DEFINE r == fed[k+1]
           mid == Insert(s.classes, r.actual)
           cs == Insert(mid, r.predicted)
           M == Met(fed, k)
           new == F1Update(s, r)
<1>1. k \in Nat /\ k + 1 \in 1..n /\ r \in Cell /\ r.actual \in Int /\ r.predicted \in Int
  BY DEF Cell
<1>2. s \in F1State /\ s.classes \in Seq(Int) /\ Lists(s.classes, M)
  BY DEF F1Inv, F1State
<1> HIDE DEF M
<1>3. Grows(mid, s.classes, M, r.actual)
  <2> HIDE DEF r
  <2> QED BY <1>1, <1>2, InsertGrows
<1>4. Grows(cs, mid, M \union {r.actual}, r.predicted)
  <2>1. Lists(mid, M \union {r.actual})
    BY <1>3 DEF Grows
  <2> HIDE DEF r, mid
  <2> QED BY <1>1, <2>1, InsertGrows
<1>5. /\ cs \in Seq(Int)
      /\ new = IF r.actual = r.predicted
               THEN [classes |-> cs, tp |-> Bumped(s.tp, cs, r.actual), fp |-> s.fp, fn |-> s.fn]
               ELSE [classes |-> cs, tp |-> s.tp, fp |-> Bumped(s.fp, cs, r.predicted),
                     fn |-> Bumped(s.fn, cs, r.actual)]
      /\ new \in F1State
  <2> HIDE DEF r
  <2> QED BY <1>1, <1>2, F1UpdateIs
<1>6. Met(fed, k + 1) = (M \union {r.actual}) \union {r.predicted}
  <2>1. \A i : i \in 1..(k+1) <=> i \in 1..k \/ i = k + 1
    OBVIOUS
  <2> QED BY <2>1 DEF Met, M
<1>7. Lists(cs, Met(fed, k + 1)) /\ new.classes = cs
  <2> HIDE DEF r, mid, cs, new
  <2>1. Lists(cs, Met(fed, k + 1))
    BY <1>4, <1>6 DEF Grows
  <2> QED BY <2>1, <1>5
<1> HIDE DEF cs, new
<1>8. /\ Len(s.classes) <= Len(cs)
      /\ \A i \in 1..Len(s.classes) : i \in 1..Len(cs) /\ cs[i] = s.classes[i]
  <2> HIDE DEF mid, r
  <2>1. Len(s.classes) \in Nat /\ Len(mid) \in Nat /\ Len(cs) \in Nat
    BY <1>2, <1>5, <1>3 DEF Grows
  <2>2. Len(s.classes) <= Len(mid) /\ \A i \in 1..Len(s.classes) : mid[i] = s.classes[i]
    BY <1>3 DEF Grows
  <2>3. Len(mid) <= Len(cs) /\ \A i \in 1..Len(mid) : cs[i] = mid[i]
    BY <1>4 DEF Grows
  <2> QED BY <2>1, <2>2, <2>3
<1>9. ASSUME NEW i \in 1..Len(cs), i \notin 1..Len(s.classes) PROVE cs[i] \in Int /\ cs[i] \notin M
  <2>1. cs[i] \in Int
    BY <1>5
  <2>2. ASSUME cs[i] \in M PROVE FALSE
    <3>1. PICK j \in 1..Len(s.classes) : s.classes[j] = cs[i]
      BY <1>2, <2>2 DEF Lists
    <3>2. cs[j] = cs[i] /\ j \in 1..Len(cs)
      BY <1>8, <3>1
    <3>3. i = j
      BY <1>7, <3>2 DEF Lists
    <3> QED BY <1>9, <3>3
  <2> QED BY <2>1, <2>2
<1>10. ASSUME NEW cls \in Int, cls \notin M
       PROVE  /\ TruePositives(fed)[cls] \intersect (1..k) = {}
              /\ FalsePositives(fed)[cls] \intersect (1..k) = {}
              /\ FalseNegatives(fed)[cls] \intersect (1..k) = {}
  <2>1. \A j \in 1..k : fed[j].actual # cls /\ fed[j].predicted # cls
    BY <1>10 DEF M, Met
  <2> QED BY <2>1 DEF TruePositives, FalsePositives, FalseNegatives
<1>11. /\ TruePositives(fed) \in [Int -> SUBSET (1..n)]
       /\ FalsePositives(fed) \in [Int -> SUBSET (1..n)]
       /\ FalseNegatives(fed) \in [Int -> SUBSET (1..n)]
  BY DEF TruePositives, FalsePositives, FalseNegatives
<1>12. /\ Counted(s.tp, cs, TruePositives(fed), k)
       /\ Counted(s.fp, cs, FalsePositives(fed), k)
       /\ Counted(s.fn, cs, FalseNegatives(fed), k)
  <2> DEFINE Fresh(rows) == \A i \in 1..Len(cs) :
           IF i \in 1..Len(s.classes) THEN cs[i] = s.classes[i] ELSE rows[cs[i]] \intersect (1..k) = {}
  <2>1. Fresh(TruePositives(fed)) /\ Fresh(FalsePositives(fed)) /\ Fresh(FalseNegatives(fed))
    BY <1>8, <1>9, <1>10
  <2>2. /\ Counted(s.tp, s.classes, TruePositives(fed), k)
        /\ Counted(s.fp, s.classes, FalsePositives(fed), k)
        /\ Counted(s.fn, s.classes, FalseNegatives(fed), k)
    BY DEF F1Inv
  <2>3. Counted(s.tp, cs, TruePositives(fed), k)
    BY <1>1, <1>2, <1>5, <1>8, <2>1, <2>2, CountedGrows
  <2>4. Counted(s.fp, cs, FalsePositives(fed), k)
    BY <1>1, <1>2, <1>5, <1>8, <2>1, <2>2, CountedGrows
  <2>5. Counted(s.fn, cs, FalseNegatives(fed), k)
    BY <1>1, <1>2, <1>5, <1>8, <2>1, <2>2, CountedGrows
  <2> QED BY <2>3, <2>4, <2>5
<1>13. ASSUME NEW cls \in Int
       PROVE  /\ k + 1 \in TruePositives(fed)[cls] <=> r.actual = cls /\ r.predicted = cls
              /\ k + 1 \in FalsePositives(fed)[cls] <=> r.actual # cls /\ r.predicted = cls
              /\ k + 1 \in FalseNegatives(fed)[cls] <=> r.actual = cls /\ r.predicted # cls
  BY <1>1 DEF TruePositives, FalsePositives, FalseNegatives
<1>14. \A i \in 1..Len(cs) : cs[i] \in Int
  BY <1>5
<1>15. /\ Counted(new.tp, cs, TruePositives(fed), k + 1)
       /\ Counted(new.fp, cs, FalsePositives(fed), k + 1)
       /\ Counted(new.fn, cs, FalseNegatives(fed), k + 1)
  <2> HIDE DEF r
  <2>1. CASE r.actual = r.predicted
    <3>1. new.tp = Bumped(s.tp, cs, r.actual) /\ new.fp = s.fp /\ new.fn = s.fn
      BY <1>5, <2>1
    <3>2. \A i \in 1..Len(cs) : k + 1 \in TruePositives(fed)[cs[i]] <=> cs[i] = r.actual
      BY <1>13, <1>14, <2>1
    <3>3. \A i \in 1..Len(cs) : k + 1 \notin FalsePositives(fed)[cs[i]]
      BY <1>13, <1>14, <2>1
    <3>4. \A i \in 1..Len(cs) : k + 1 \notin FalseNegatives(fed)[cs[i]]
      BY <1>13, <1>14, <2>1
    <3>5. Counted(new.tp, cs, TruePositives(fed), k + 1)
      BY <1>5, <1>11, <1>12, <3>1, <3>2, CountedBumped
    <3>6. Counted(new.fp, cs, FalsePositives(fed), k + 1)
      BY <1>5, <1>11, <1>12, <3>1, <3>3, CountedStays
    <3>7. Counted(new.fn, cs, FalseNegatives(fed), k + 1)
      BY <1>5, <1>11, <1>12, <3>1, <3>4, CountedStays
    <3> QED BY <3>5, <3>6, <3>7
  <2>2. CASE r.actual # r.predicted
    <3>1. /\ new.tp = s.tp /\ new.fp = Bumped(s.fp, cs, r.predicted)
          /\ new.fn = Bumped(s.fn, cs, r.actual)
      BY <1>5, <2>2
    <3>2. \A i \in 1..Len(cs) : k + 1 \notin TruePositives(fed)[cs[i]]
      BY <1>13, <1>14, <2>2
    <3>3. \A i \in 1..Len(cs) : k + 1 \in FalsePositives(fed)[cs[i]] <=> cs[i] = r.predicted
      BY <1>13, <1>14, <2>2
    <3>4. \A i \in 1..Len(cs) : k + 1 \in FalseNegatives(fed)[cs[i]] <=> cs[i] = r.actual
      BY <1>13, <1>14, <2>2
    <3>5. Counted(new.tp, cs, TruePositives(fed), k + 1)
      BY <1>5, <1>11, <1>12, <3>1, <3>2, CountedStays
    <3>6. Counted(new.fp, cs, FalsePositives(fed), k + 1)
      BY <1>5, <1>11, <1>12, <3>1, <3>3, CountedBumped
    <3>7. Counted(new.fn, cs, FalseNegatives(fed), k + 1)
      BY <1>5, <1>11, <1>12, <3>1, <3>4, CountedBumped
    <3> QED BY <3>5, <3>6, <3>7
  <2> QED BY <2>1, <2>2
<1>16. cs[1] = fed[1].actual
  <2>1. CASE k = 0
    <3>1. M = {}
      BY <2>1 DEF M, Met
    <3>2. mid[1] = r.actual /\ 1 \in 1..Len(mid)
      <4> HIDE DEF mid, r
      <4> QED BY <1>3, <3>1 DEF Grows
    <3>3. cs[1] = mid[1]
      <4> HIDE DEF mid, r
      <4> QED BY <1>4, <3>2 DEF Grows
    <3> QED BY <2>1, <3>2, <3>3
  <2>2. CASE k # 0
    <3>1. fed[1].actual \in M
      BY <1>1, <2>2 DEF M, Met
    <3>2. 1 \in 1..Len(s.classes)
      BY <1>2, <3>1 DEF Lists
    <3> QED BY <1>8, <2>2, <3>2 DEF F1Inv
  <2> QED BY <2>1, <2>2
<1>17. F1Inv(new, fed, k + 1)
  BY <1>5, <1>7, <1>15, <1>16 DEF F1Inv
<1> QED BY <1>17 DEF new

\* finalize of the F1 scorer.
F1At(s, counts, cls) == At(counts, CHOOSE k \in DOMAIN s.classes : s.classes[k] = cls)

F1Result(s) ==
  f1Of([k \in DOMAIN s.classes |-> LET cls == s.classes[k] IN
          FromConfusion(F1At(s, s.tp, cls), F1At(s, s.fp, cls), F1At(s, s.fn, cls))])

\* The F1 scorer, as finalize of a fold of update.
LEMMA F1Folds ==
  ASSUME NEW fed, NEW n, DOMAIN fed = 1..n
  PROVE  F1ScoreScorer(fed) =
           LET zero == [classes |-> <<>>, tp |-> <<>>, fp |-> <<>>, fn |-> <<>>]
               Body(iter) == [s \in SUBSET (1..n) |->
                 IF s = {} THEN zero ELSE F1Update(iter[s \ {Max(s)}], fed[Max(s)])]
               fold == CHOOSE iter : iter = Body(iter)
           IN  F1Result(fold[1..n])
BY SMT DEF F1ScoreScorer, F1Result, F1At, At, F1Update, FoldLeft, MapThenFoldSet

\* It runs through the states that update makes of the rows.
LEMMA F1Unrolls ==
  ASSUME NEW n \in Nat, NEW fed \in [1..n -> Cell]
  PROVE  \E total :
           /\ total[0] = [classes |-> <<>>, tp |-> <<>>, fp |-> <<>>, fn |-> <<>>]
           /\ \A k \in 0..(n-1) : total[k+1] = F1Update(total[k], fed[k+1])
           /\ F1ScoreScorer(fed) = F1Result(total[n])
<1> DEFINE zero == [classes |-> <<>>, tp |-> <<>>, fp |-> <<>>, fn |-> <<>>]
           Body(iter) == [s \in SUBSET (1..n) |->
             IF s = {} THEN zero ELSE F1Update(iter[s \ {Max(s)}], fed[Max(s)])]
           fold == CHOOSE iter : iter = Body(iter)
           step == [p \in (1..n) \X F1State |-> F1Update(p[2], fed[p[1]])]
<1>1. DOMAIN fed = 1..n
  OBVIOUS
<1>2. F1ScoreScorer(fed) = F1Result(fold[1..n])
  BY <1>1, F1Folds, Zenon
<1>3. IsStep(step, n, F1State) /\ zero \in F1State
  <2>1. zero \in F1State
    BY DEF F1State
  <2>2. \A p \in (1..n) \X F1State : p[2] \in F1State /\ fed[p[1]] \in Cell
    OBVIOUS
  <2>3. \A p \in (1..n) \X F1State : F1Update(p[2], fed[p[1]]) \in F1State
    BY <2>2, F1UpdateIs
  <2> QED BY <2>1, <2>3 DEF IsStep
<1>4. \A k \in 1..n, i \in F1State : step[<<k, i>>] = F1Update(i, fed[k])
  OBVIOUS
<1> HIDE DEF step, zero
<1>5. PICK iter : IsFold(iter, n, F1State, zero, step)
  BY <1>3, FoldExists
<1>6. ASSUME NEW s \in SUBSET (1..n) PROVE iter[s] = Body(iter)[s]
  <2>1. CASE s = {}
    BY <2>1, <1>5 DEF IsFold
  <2>2. CASE s # {}
    <3>1. Max(s) \in 1..n /\ s \ {Max(s)} \in SUBSET (1..n)
      BY <2>2, MaxInInterval
    <3>2. iter[s] = step[<<Max(s), iter[s \ {Max(s)}]>>] /\ iter[s \ {Max(s)}] \in F1State
      BY <1>5, <2>2, <3>1 DEF IsFold
    <3> QED BY <2>2, <3>1, <3>2, <1>4
  <2> QED BY <2>1, <2>2
<1>7. iter = Body(iter)
  BY <1>5, <1>6 DEF IsFold
<1>8. fold = Body(fold)
  <2> HIDE DEF Body
  <2> QED BY <1>7
<1> HIDE DEF fold
<1>9. \A s \in SUBSET (1..n) :
        fold[s] = IF s = {} THEN zero ELSE F1Update(fold[s \ {Max(s)}], fed[Max(s)])
  BY <1>8
<1>10. ASSUME NEW s \in SUBSET (1..n), s # {}, fold[s \ {Max(s)}] \in F1State
       PROVE  fold[s] = step[<<Max(s), fold[s \ {Max(s)}]>>]
  <2>1. Max(s) \in 1..n
    BY <1>10, MaxInInterval
  <2> QED BY <2>1, <1>4, <1>9, <1>10
<1>11. Follows(fold, n, F1State, zero, step)
  BY <1>9, <1>10 DEF Follows
<1>12. PICK total : IsTotal(total, n, F1State, zero, step) /\ fold[1..n] = total[n]
  BY <1>3, <1>11, FoldTotals
<1>13. \A k \in 0..(n-1) : k + 1 \in 1..n /\ k \in 0..n
  OBVIOUS
<1>14. \A k \in 0..(n-1) : total[k+1] = F1Update(total[k], fed[k+1])
  BY <1>4, <1>12, <1>13 DEF IsTotal
<1> QED BY <1>2, <1>12, <1>14 DEF IsTotal, zero

\* So its last state counts all rows.
LEMMA F1Holds ==
  ASSUME NEW n \in Nat, NEW fed \in [1..n -> Cell]
  PROVE  \E s : F1Inv(s, fed, n) /\ F1ScoreScorer(fed) = F1Result(s)
<1>1. PICK total :
           /\ total[0] = [classes |-> <<>>, tp |-> <<>>, fp |-> <<>>, fn |-> <<>>]
           /\ \A k \in 0..(n-1) : total[k+1] = F1Update(total[k], fed[k+1])
           /\ F1ScoreScorer(fed) = F1Result(total[n])
  BY F1Unrolls
<1> DEFINE T == {k \in Nat : k <= n => F1Inv(total[k], fed, k)}
<1>2. 0 \in T
  <2>1. /\ total[0] \in F1State /\ total[0].classes = <<>> /\ total[0].tp = <<>>
        /\ total[0].fp = <<>> /\ total[0].fn = <<>>
    BY <1>1 DEF F1State
  <2>2. Met(fed, 0) = {}
    BY DEF Met
  <2>3. Lists(<<>>, {})
    BY DEF Lists
  <2>4. \A rows : Counted(<<>>, <<>>, rows, 0)
    BY DEF Counted
  <2> QED BY <2>1, <2>2, <2>3, <2>4 DEF F1Inv
<1>3. ASSUME NEW k \in Nat, k \in T PROVE k + 1 \in T
  <2> SUFFICES ASSUME k + 1 <= n PROVE F1Inv(total[k+1], fed, k + 1)
    OBVIOUS
  <2>1. k \in 0..(n-1) /\ F1Inv(total[k], fed, k)
    BY <1>3
  <2>2. total[k+1] = F1Update(total[k], fed[k+1])
    BY <1>1, <2>1
  <2> QED BY <2>1, <2>2, F1Step
<1>4. n \in T
  <2> HIDE DEF T
  <2> QED BY <1>2, <1>3, SetInduction
<1> QED BY <1>1, <1>4

\* Two lists of a set are permutations of each other.
LEMMA ListsPermuted ==
  ASSUME NEW S, NEW a, NEW b, Lists(a, S), Lists(b, S)
  PROVE  \E m \in Nat : /\ Len(a) = m /\ Len(b) = m
                        /\ \E q \in Bijection(1..m, 1..m) : \A i \in 1..m : a[i] = b[q[i]]
<1> DEFINE A == 1..Len(a)
           B == 1..Len(b)
           q == [i \in A |-> CHOOSE j \in B : b[j] = a[i]]
<1>1. Len(a) \in Nat /\ Len(b) \in Nat
  BY DEF Lists
<1>2. \A i \in A : \E j \in B : b[j] = a[i]
  BY DEF Lists
<1>3. \A i \in A : q[i] \in B /\ b[q[i]] = a[i]
  BY <1>2
<1>4. ASSUME NEW i \in A, NEW j \in A, q[i] = q[j] PROVE i = j
  <2> HIDE DEF q
  <2>1. a[i] = a[j]
    BY <1>3, <1>4
  <2> QED BY <2>1 DEF Lists
<1>5. \A j \in B : \E i \in A : q[i] = j
  <2> TAKE j \in B
  <2>1. PICK i \in A : a[i] = b[j]
    BY DEF Lists
  <2>2. q[i] \in B /\ b[q[i]] = b[j]
    BY <1>3, <2>1
  <2>3. q[i] = j
    <3> HIDE DEF q
    <3> QED BY <2>2 DEF Lists
  <2> QED BY <2>3
<1>6. q \in Bijection(A, B)
  <2>1. q \in [A -> B] /\ DOMAIN q = A
    BY <1>3
  <2> HIDE DEF q, A, B
  <2> QED BY <1>4, <1>5, <2>1 DEF Bijection, Injection, Surjection, IsInjective
<1>7. IsFiniteSet(A) /\ Cardinality(A) = Len(a) /\ IsFiniteSet(B) /\ Cardinality(B) = Len(b)
  <2>1. \A m \in Nat : IsFiniteSet(1..m) /\ Cardinality(1..m) = m
    <3> TAKE m \in Nat
    <3>1. m \in Int /\ 1 \in Int
      OBVIOUS
    <3>2. IsFiniteSet(1..m) /\ Cardinality(1..m) = IF 1 > m THEN 0 ELSE m - 1 + 1
      BY <3>1, FS_Interval
    <3> QED BY <3>2
  <2> QED BY <1>1, <2>1
<1>8. Len(a) = Len(b)
  <2>1. ExistsBijection(A, B)
    BY <1>6 DEF ExistsBijection
  <2> HIDE DEF A, B
  <2>2. Cardinality(A) = Cardinality(B)
    BY <1>7, <2>1, FS_Bijection, Fun_ExistsBijSymmetric
  <2> QED BY <1>7, <2>2
<1> HIDE DEF q
<1> QED BY <1>1, <1>3, <1>6, <1>8

LEMMA F1AtIs ==
  ASSUME NEW S, NEW s \in F1State, Lists(s.classes, S), NEW k \in 1..Len(s.classes), NEW counts
  PROVE  F1At(s, counts, s.classes[k]) = At(counts, k)
<1>1. DOMAIN s.classes = 1..Len(s.classes)
  BY DEF Lists
<1>2. (CHOOSE i \in DOMAIN s.classes : s.classes[i] = s.classes[k]) = k
  BY <1>1 DEF Lists
<1> QED BY <1>2, Zenon DEF F1At

\* The batch F1 of a class is that of its three counts.
LEMMA BinaryF1Is ==
  ASSUME NEW n \in Nat, NEW fed \in [1..n -> Cell], NEW cls \in Int
  PROVE  binaryF1(fed, cls) =
           FromConfusion(Cardinality(TruePositives(fed)[cls]), Cardinality(FalsePositives(fed)[cls]),
                         Cardinality(FalseNegatives(fed)[cls]))
<1> DEFINE found == {i \in DOMAIN fed : fed[i].predicted = cls}
           real == {i \in DOMAIN fed : fed[i].actual = cls}
<1>1. /\ found \intersect real = TruePositives(fed)[cls]
      /\ found \ real = FalsePositives(fed)[cls]
      /\ real \ found = FalseNegatives(fed)[cls]
  BY DEF TruePositives, FalsePositives, FalseNegatives
<1> QED BY <1>1, Zenon DEF binaryF1

\* finalize gives the batch F1 of each class, in the order they were met.
LEMMA F1ResultIs ==
  ASSUME NEW n \in Nat, NEW fed \in [1..n -> Cell], NEW s, F1Inv(s, fed, n)
  PROVE  F1Result(s) = f1Of([k \in 1..Len(s.classes) |-> binaryF1(fed, s.classes[k])])
<1>1. /\ s \in F1State /\ Lists(s.classes, Met(fed, n))
      /\ Counted(s.tp, s.classes, TruePositives(fed), n)
      /\ Counted(s.fp, s.classes, FalsePositives(fed), n)
      /\ Counted(s.fn, s.classes, FalseNegatives(fed), n)
  BY DEF F1Inv
<1>2. DOMAIN s.classes = 1..Len(s.classes) /\ s.classes \in Seq(Int)
  BY <1>1 DEF Lists
<1>3. /\ TruePositives(fed) \in [Int -> SUBSET (1..n)]
      /\ FalsePositives(fed) \in [Int -> SUBSET (1..n)]
      /\ FalseNegatives(fed) \in [Int -> SUBSET (1..n)]
  BY DEF TruePositives, FalsePositives, FalseNegatives
<1>4. ASSUME NEW k \in 1..Len(s.classes)
      PROVE  FromConfusion(F1At(s, s.tp, s.classes[k]), F1At(s, s.fp, s.classes[k]), F1At(s, s.fn, s.classes[k]))
             = binaryF1(fed, s.classes[k])
  <2> DEFINE cls == s.classes[k]
  <2>1. cls \in Int
    BY <1>2
  <2>2. /\ F1At(s, s.tp, cls) = At(s.tp, k) /\ F1At(s, s.fp, cls) = At(s.fp, k)
        /\ F1At(s, s.fn, cls) = At(s.fn, k)
    BY <1>1, F1AtIs
  <2>3. \A S \in SUBSET (1..n) : S \intersect (1..n) = S
    OBVIOUS
  <2>4. /\ At(s.tp, k) = Cardinality(TruePositives(fed)[cls] \intersect (1..n))
        /\ At(s.fp, k) = Cardinality(FalsePositives(fed)[cls] \intersect (1..n))
        /\ At(s.fn, k) = Cardinality(FalseNegatives(fed)[cls] \intersect (1..n))
    BY <1>1 DEF Counted
  <2> HIDE DEF cls
  <2>5. /\ At(s.tp, k) = Cardinality(TruePositives(fed)[cls])
        /\ At(s.fp, k) = Cardinality(FalsePositives(fed)[cls])
        /\ At(s.fn, k) = Cardinality(FalseNegatives(fed)[cls])
    BY <1>3, <2>1, <2>3, <2>4
  <2>6. binaryF1(fed, cls) =
           FromConfusion(Cardinality(TruePositives(fed)[cls]), Cardinality(FalsePositives(fed)[cls]),
                         Cardinality(FalseNegatives(fed)[cls]))
    BY <2>1, BinaryF1Is
  <2>7. FromConfusion(F1At(s, s.tp, cls), F1At(s, s.fp, cls), F1At(s, s.fn, cls)) = binaryF1(fed, cls)
    BY <2>2, <2>5, <2>6
  <2> QED BY <2>7 DEF cls
<1>5. [k \in DOMAIN s.classes |->
         FromConfusion(F1At(s, s.tp, s.classes[k]), F1At(s, s.fp, s.classes[k]), F1At(s, s.fn, s.classes[k]))]
      = [k \in 1..Len(s.classes) |-> binaryF1(fed, s.classes[k])]
  BY <1>2, <1>4
<1> QED BY <1>5, Zenon DEF F1Result

LEMMA FromConfusionType ==
  ASSUME NEW tp \in Nat, NEW fp \in Nat, NEW fn \in Nat, Scale \in Int
  PROVE  FromConfusion(tp, fp, fn) \in Int
<1>1. ASSUME tp # 0 PROVE Quotient(2 * tp, 2 * tp + fp + fn) \in Int
  <2>1. 2 * tp + fp + fn \in Nat \ {0} /\ (2 * tp) * Scale \in Int
    BY <1>1
  <2>2. \A x \in Int, y \in Nat \ {0} : x \div y \in Int
    OBVIOUS
  <2> QED BY <2>1, <2>2 DEF Quotient
<1> QED BY <1>1 DEF FromConfusion

LEMMA BinaryF1Type ==
  ASSUME NEW n \in Nat, NEW fed \in [1..n -> Cell], NEW cls \in Int, Scale \in Int
  PROVE  binaryF1(fed, cls) \in Int
<1>1. \A S \in SUBSET (1..n) : Cardinality(S) \in Nat
  <2> TAKE S \in SUBSET (1..n)
  <2>1. n \in Int /\ 1 \in Int
    OBVIOUS
  <2>2. IsFiniteSet(1..n)
    BY <2>1, FS_Interval
  <2> QED BY <2>2, FS_Subset, FS_CardinalityType
<1>2. /\ TruePositives(fed)[cls] \in SUBSET (1..n)
      /\ FalsePositives(fed)[cls] \in SUBSET (1..n)
      /\ FalseNegatives(fed)[cls] \in SUBSET (1..n)
  BY DEF TruePositives, FalsePositives, FalseNegatives
<1>3. FromConfusion(Cardinality(TruePositives(fed)[cls]), Cardinality(FalsePositives(fed)[cls]),
                    Cardinality(FalseNegatives(fed)[cls])) \in Int
  <2>1. /\ Cardinality(TruePositives(fed)[cls]) \in Nat
        /\ Cardinality(FalsePositives(fed)[cls]) \in Nat
        /\ Cardinality(FalseNegatives(fed)[cls]) \in Nat
    BY <1>1, <1>2
  <2> QED BY <2>1, FromConfusionType
<1> QED BY <1>3, BinaryF1Is

LEMMA Concatenated ==
  ASSUME NEW n \in Nat, NEW a \in [1..n -> Int], NEW b \in [1..n -> Int]
  PROVE  /\ a \o b \in [1..(n + n) -> Int]
         /\ \A i \in 1..n : (a \o b)[i] = a[i] /\ (a \o b)[n + i] = b[i]
<1>1. a \in Seq(Int) /\ b \in Seq(Int) /\ Len(a) = n /\ Len(b) = n
  OBVIOUS
<1>2. /\ a \o b \in Seq(Int) /\ Len(a \o b) = Len(a) + Len(b)
      /\ \A i \in 1..(Len(a) + Len(b)) : (a \o b)[i] = IF i <= Len(a) THEN a[i] ELSE b[i - Len(a)]
  BY <1>1, ConcatProperties
<1> DEFINE c == a \o b
<1> HIDE DEF c
<1>3. c \in Seq(Int) /\ Len(c) = n + n /\ \A i \in 1..(n + n) : c[i] = IF i <= n THEN a[i] ELSE b[i - n]
  BY <1>1, <1>2 DEF c
<1>4. c \in [1..(n+n) -> Int]
  BY <1>3
<1>5. ASSUME NEW i \in 1..n PROVE c[i] = a[i] /\ c[n + i] = b[i]
  <2>1. i \in 1..(n+n) /\ n + i \in 1..(n+n) /\ i <= n /\ ~(n + i <= n) /\ (n + i) - n = i
    OBVIOUS
  <2> QED BY <1>3, <2>1
<1> QED BY <1>4, <1>5 DEF c

\* The batch scorer meets all labels before all predictions: another order,
\* the same first class.
LEMMA CellsListed ==
  ASSUME NEW n \in Nat \ {0}, NEW fed \in [1..n -> Cell]
  PROVE  LET cells == [i \in DOMAIN fed |-> fed[i].actual] \o [i \in DOMAIN fed |-> fed[i].predicted]
             classes == FoldLeft(Insert, <<>>, cells)
         IN  Lists(classes, Met(fed, n)) /\ classes[1] = fed[1].actual
<1> DEFINE as == [i \in DOMAIN fed |-> fed[i].actual]
           ps == [i \in DOMAIN fed |-> fed[i].predicted]
           cells == as \o ps
           m == n + n
<1>1. as \in [1..n -> Int] /\ ps \in [1..n -> Int]
  BY DEF Cell
<1>2. as \in Seq(Int) /\ ps \in Seq(Int) /\ Len(as) = n /\ Len(ps) = n
  BY <1>1
<1>3. \A i \in 1..n : as[i] = fed[i].actual /\ ps[i] = fed[i].predicted
  OBVIOUS
<1> HIDE DEF as, ps
<1>4. m \in Nat \ {0}
  OBVIOUS
<1>5. cells \in [1..m -> Int] /\ \A i \in 1..n : cells[i] = as[i] /\ cells[n + i] = ps[i]
  BY <1>1, Concatenated
<1> HIDE DEF cells
<1>6. ASSUME NEW i \in 1..n
      PROVE  i \in 1..m /\ n + i \in 1..m /\ cells[i] = as[i] /\ cells[n + i] = ps[i]
  <2>1. i \in 1..m /\ n + i \in 1..m
    OBVIOUS
  <2>2. cells[i] = as[i] /\ cells[n + i] = ps[i]
    BY <1>5
  <2> QED BY <2>1, <2>2
<1>7. ASSUME NEW i \in 1..m, i \notin 1..n PROVE i - n \in 1..n /\ cells[i] = ps[i - n]
  <2>1. i - n \in 1..n /\ n + (i - n) = i
    BY <1>7
  <2> QED BY <1>5, <2>1
<1>8. {cells[i] : i \in 1..m} = Met(fed, n)
  <2> HIDE DEF m
  <2>1. ASSUME NEW i \in 1..m PROVE cells[i] \in Met(fed, n)
    <3>1. CASE i \in 1..n
      BY <1>3, <1>6, <3>1, ZenonT(30) DEF Met
    <3>2. CASE i \notin 1..n
      <4>1. i - n \in 1..n /\ cells[i] = ps[i - n]
        BY <1>7, <3>2
      <4>2. cells[i] = fed[i - n].predicted
        BY <1>3, <4>1
      <4> QED BY <4>1, <4>2 DEF Met
    <3> QED BY <3>1, <3>2
  <2>2. ASSUME NEW i \in 1..n
        PROVE  /\ fed[i].actual \in {cells[j] : j \in 1..m}
               /\ fed[i].predicted \in {cells[j] : j \in 1..m}
    <3>1. i \in 1..m /\ n + i \in 1..m /\ cells[i] = fed[i].actual /\ cells[n + i] = fed[i].predicted
      BY <1>3, <1>6
    <3> QED BY <3>1
  <2> QED BY <2>1, <2>2 DEF Met
<1>9. Lists(FoldLeft(Insert, <<>>, cells), {cells[i] : i \in 1..m}) /\ FoldLeft(Insert, <<>>, cells)[1] = cells[1]
  <2> HIDE DEF m
  <2> QED BY <1>4, <1>5, ClassesListed
<1>10. cells[1] = fed[1].actual
  <2>1. 1 \in 1..n
    OBVIOUS
  <2> QED BY <1>3, <1>6, <2>1
<1> DEFINE classes == FoldLeft(Insert, <<>>, cells)
<1>11. Lists(classes, Met(fed, n)) /\ classes[1] = fed[1].actual
  BY <1>8, <1>9, <1>10, Zenon
<1> QED BY <1>11, Zenon DEF as, ps, cells

\* Of two classes with the same first, the second is the same; the macro
\* average of more does not depend on their order.
LEMMA F1OfPermuted ==
  ASSUME NEW S, NEW a, NEW b, Lists(a, S), Lists(b, S), a[1] = b[1],
         NEW f, \A x \in Int : f[x] \in Int
  PROVE  f1Of([k \in 1..Len(a) |-> f[a[k]]]) = f1Of([k \in 1..Len(b) |-> f[b[k]]])
<1> DEFINE A == [k \in 1..Len(a) |-> f[a[k]]]
           B == [k \in 1..Len(b) |-> f[b[k]]]
<1>1. PICK m \in Nat : /\ Len(a) = m /\ Len(b) = m
                       /\ \E q \in Bijection(1..m, 1..m) : \A i \in 1..m : a[i] = b[q[i]]
  BY ListsPermuted
<1>2. PICK q \in Bijection(1..m, 1..m) : \A i \in 1..m : a[i] = b[q[i]]
  BY <1>1
<1>3. a \in Seq(Int) /\ b \in Seq(Int)
  BY DEF Lists
<1>4. A \in [1..m -> Int] /\ B \in [1..m -> Int]
  BY <1>1, <1>3
<1>5. Len(A) = m /\ Len(B) = m
  BY <1>4, LenIs
<1>6. \A i \in 1..m : A[i] = B[q[i]]
  <2> TAKE i \in 1..m
  <2>1. q[i] \in 1..m
    BY <1>2 DEF Bijection, Injection
  <2> QED BY <1>1, <1>2, <2>1
<1>7. Sum(A) = Sum(B)
  <2> HIDE DEF A, B
  <2> QED BY <1>2, <1>4, <1>6, SumPermuted, ZenonT(30)
<1>8. m = 2 => A[2] = B[2]
  <2> SUFFICES ASSUME m = 2 PROVE A[2] = B[2]
    OBVIOUS
  <2>1. 1 \in 1..m /\ 2 \in 1..m
    OBVIOUS
  <2>2. q[1] \in 1..m /\ q[2] \in 1..m /\ q[1] # q[2]
    BY <2>1 DEF Bijection, Injection, IsInjective
  <2>3. b[q[1]] = b[1]
    BY <1>2, <2>1
  <2>4. q[1] = 1
    BY <1>1, <2>1, <2>2, <2>3 DEF Lists
  <2>5. q[2] = 2
    BY <2>2, <2>4
  <2>6. A[2] = B[q[2]]
    BY <1>6, <2>1
  <2> HIDE DEF A, B
  <2> QED BY <2>5, <2>6
<1> HIDE DEF A, B
<1>9. f1Of(A) = f1Of(B)
  BY <1>5, <1>7, <1>8 DEF f1Of
<1> QED BY <1>9 DEF A, B

\* Both copies of the F1 score agree.
LEMMA F1Agrees ==
  ASSUME NEW n \in Nat \ {0}, NEW fed \in [1..n -> Cell], Scale \in Int
  PROVE  F1ScoreScorer(fed) = f1Score(fed)
<1> DEFINE cells == [i \in DOMAIN fed |-> fed[i].actual] \o [i \in DOMAIN fed |-> fed[i].predicted]
           classes == FoldLeft(Insert, <<>>, cells)
           f == [x \in Int |-> binaryF1(fed, x)]
<1>1. PICK s : F1Inv(s, fed, n) /\ F1ScoreScorer(fed) = F1Result(s)
  BY F1Holds
<1>2. Lists(classes, Met(fed, n)) /\ classes[1] = fed[1].actual
  BY CellsListed
<1>3. f1Score(fed) = f1Of([k \in DOMAIN classes |-> binaryF1(fed, classes[k])])
  BY Zenon DEF f1Score
<1> HIDE DEF classes
<1>4. Lists(s.classes, Met(fed, n)) /\ s.classes[1] = classes[1]
  BY <1>1, <1>2 DEF F1Inv
<1>5. \A x \in Int : f[x] \in Int /\ f[x] = binaryF1(fed, x)
  BY BinaryF1Type
<1>6. DOMAIN classes = 1..Len(classes) /\ classes \in Seq(Int) /\ s.classes \in Seq(Int)
  BY <1>2, <1>4 DEF Lists
<1> HIDE DEF f
<1>7. [k \in DOMAIN classes |-> binaryF1(fed, classes[k])] = [k \in 1..Len(classes) |-> f[classes[k]]]
  BY <1>5, <1>6
<1>8. [k \in 1..Len(s.classes) |-> binaryF1(fed, s.classes[k])] = [k \in 1..Len(s.classes) |-> f[s.classes[k]]]
  BY <1>5, <1>6
<1>9. F1Result(s) = f1Of([k \in 1..Len(s.classes) |-> f[s.classes[k]]])
  <2>1. n \in Nat
    OBVIOUS
  <2>2. F1Result(s) = f1Of([k \in 1..Len(s.classes) |-> binaryF1(fed, s.classes[k])])
    BY <1>1, <2>1, F1ResultIs
  <2> QED BY <1>8, <2>2, Zenon
<1>10. f1Score(fed) = f1Of([k \in 1..Len(classes) |-> f[classes[k]]])
  BY <1>3, <1>7, Zenon
<1>11. f1Of([k \in 1..Len(s.classes) |-> f[s.classes[k]]]) = f1Of([k \in 1..Len(classes) |-> f[classes[k]]])
  <2> DEFINE S == Met(fed, n)
             a == s.classes
  <2>1. Lists(classes, S) /\ Lists(a, S) /\ a[1] = classes[1] /\ \A x \in Int : f[x] \in Int
    BY <1>2, <1>4, <1>5
  <2> HIDE DEF S, a
  <2>2. f1Of([k \in 1..Len(a) |-> f[a[k]]]) = f1Of([k \in 1..Len(classes) |-> f[classes[k]]])
    BY <2>1, F1OfPermuted, SMTT(30)
  <2> QED BY <2>2 DEF a
<1> QED BY <1>1, <1>9, <1>10, <1>11

-----------------------------------------------------------------------------
\* AUC: the pairs of a positive and a negative met in this order.

Positives(fed) == {i \in DOMAIN fed : fed[i].actual = 1}
Negatives(fed) == DOMAIN fed \ Positives(fed)

\* No positive and negative row have the same prediction.
Untied(fed) == \A i \in Positives(fed), j \in Negatives(fed) : fed[i].predicted # fed[j].predicted

\* Without ties, both walks of the curve pass the same pairs.
LEMMA AucAgrees ==
  ASSUME NEW n \in Nat, NEW fed \in [1..n -> Cell], Untied(fed)
  PROVE  AucRocScorer(fed) = aucRoc(fed)
<1> DEFINE pos == {i \in DOMAIN fed : fed[i].actual = 1}
           neg == DOMAIN fed \ pos
           batch == {p \in (DOMAIN fed) \X (DOMAIN fed) :
              \/ fed[p[1]].predicted > fed[p[2]].predicted
              \/ fed[p[1]].predicted = fed[p[2]].predicted /\ p[1] < p[2]}
           stream == {p \in (DOMAIN fed) \X (DOMAIN fed) : fed[p[1]].predicted >= fed[p[2]].predicted}
<1>1. \A i \in DOMAIN fed : fed[i].predicted \in Int
  BY DEF Cell
<1>2. ASSUME NEW p \in pos \X neg PROVE p \in batch <=> p \in stream
  <2>1. fed[p[1]].predicted # fed[p[2]].predicted
    BY DEF Untied, Positives, Negatives
  <2>2. p \in (DOMAIN fed) \X (DOMAIN fed) /\ fed[p[1]].predicted \in Int /\ fed[p[2]].predicted \in Int
    BY <1>1
  <2> QED BY <2>1, <2>2
<1>3. (pos \X neg) \intersect batch = (pos \X neg) \intersect stream
  <2> HIDE DEF pos, neg, batch, stream
  <2> QED BY <1>2
<1> QED BY <1>3, Zenon DEF AucRocScorer, aucRoc, Area

\* Larger quotients of a larger dividend.
LEMMA QuotientMonotone ==
  ASSUME NEW a \in Nat, NEW b \in Nat, a <= b, NEW d \in Nat \ {0}, Scale \in Nat
  PROVE  Quotient(a, d) <= Quotient(b, d)
<1>1. a * Scale \in Nat /\ b * Scale \in Nat
  OBVIOUS
<1>2. a * Scale <= b * Scale
  OBVIOUS
<1>3. \A x \in Nat, y \in Nat : x <= y => x \div d <= y \div d
  OBVIOUS
<1> QED BY <1>1, <1>2, <1>3 DEF Quotient

\* The streaming AUC puts the positives before the negatives they are tied
\* with, the batch AUC keeps the order of the file: on any file the first is at
\* least the second (AucRocScorer of worker/src/scorers, aucRoc of
\* backend/src/worker/scorers.ts).
THEOREM AucNeverLess ==
  ASSUME NEW n \in Nat, NEW fed \in [1..n -> Cell], Scale \in Nat
  PROVE  aucRoc(fed) <= AucRocScorer(fed)
<1> DEFINE pos == {i \in DOMAIN fed : fed[i].actual = 1}
           neg == DOMAIN fed \ pos
           batch == {p \in (DOMAIN fed) \X (DOMAIN fed) :
              \/ fed[p[1]].predicted > fed[p[2]].predicted
              \/ fed[p[1]].predicted = fed[p[2]].predicted /\ p[1] < p[2]}
           stream == {p \in (DOMAIN fed) \X (DOMAIN fed) : fed[p[1]].predicted >= fed[p[2]].predicted}
           X == (pos \X neg) \intersect batch
           Y == (pos \X neg) \intersect stream
<1>1. \A i \in DOMAIN fed : fed[i].predicted \in Int
  BY DEF Cell
<1>2. batch \subseteq stream
  <2> SUFFICES ASSUME NEW p \in batch PROVE p \in stream
    OBVIOUS
  <2>1. p \in (DOMAIN fed) \X (DOMAIN fed) /\ fed[p[1]].predicted \in Int /\ fed[p[2]].predicted \in Int
    BY <1>1
  <2> QED BY <2>1
<1>3. IsFiniteSet(pos) /\ IsFiniteSet(neg)
  <2>1. n \in Int /\ 1 \in Int
    OBVIOUS
  <2>2. IsFiniteSet(1..n)
    BY <2>1, FS_Interval
  <2>3. pos \subseteq 1..n /\ neg \subseteq 1..n
    OBVIOUS
  <2> QED BY <2>2, <2>3, FS_Subset
<1>4. IsFiniteSet(pos \X neg)
  <2> HIDE DEF pos, neg
  <2> QED BY <1>3, FS_Product
<1>5. aucRoc(fed) = IF pos = {} \/ neg = {} THEN Quotient(1, 2)
                    ELSE Quotient(Cardinality(X), Cardinality(pos) * Cardinality(neg))
  BY Zenon DEF aucRoc, Area
<1>6. AucRocScorer(fed) = IF pos = {} \/ neg = {} THEN Quotient(1, 2)
                    ELSE Quotient(Cardinality(Y), Cardinality(pos) * Cardinality(neg))
  BY Zenon DEF AucRocScorer, Area
<1> HIDE DEF pos, neg, batch, stream
<1>7. IsFiniteSet(Y) /\ IsFiniteSet(X) /\ X \subseteq Y
  BY <1>2, <1>4, FS_Subset
<1> HIDE DEF X, Y
<1>8. Cardinality(X) <= Cardinality(Y) /\ Cardinality(X) \in Nat /\ Cardinality(Y) \in Nat
  BY <1>7, FS_Subset, FS_CardinalityType
<1>9. CASE pos = {} \/ neg = {}
  <2>1. Quotient(1, 2) \in Int
    BY DEF Quotient
  <2> QED BY <1>5, <1>6, <1>9, <2>1
<1>10. CASE ~(pos = {} \/ neg = {})
  <2>1. Cardinality(pos) \in Nat \ {0} /\ Cardinality(neg) \in Nat \ {0}
    BY <1>3, <1>10, FS_CardinalityType, FS_EmptySet
  <2>2. \A x, y \in Nat \ {0} : x * y \in Nat \ {0}
    OBVIOUS
  <2> QED BY <1>5, <1>6, <1>8, <1>10, <2>1, <2>2, QuotientMonotone
<1> QED BY <1>9, <1>10

LEMMA IntervalSize ==
  ASSUME NEW n \in Nat
  PROVE  /\ IsFiniteSet(1..n) /\ Cardinality(1..n) = n
         /\ \A S \in SUBSET (1..n) : IsFiniteSet(S) /\ Cardinality(S) \in Nat /\ Cardinality(S) <= n
<1>1. n \in Int /\ 1 \in Int
  OBVIOUS
<1>2. IsFiniteSet(1..n) /\ Cardinality(1..n) = IF 1 > n THEN 0 ELSE n - 1 + 1
  BY <1>1, FS_Interval
<1>3. Cardinality(1..n) = n
  BY <1>2
<1> QED BY <1>2, <1>3, FS_Subset, FS_CardinalityType

LEMMA TermsTyped ==
  ASSUME NEW n \in Nat, NEW fed \in [1..n -> Cell]
  PROVE  SquaredErrors(fed) \in [1..n -> Int] /\ Losses(fed) \in [1..n -> Int]
<1>1. \A i \in 1..n : fed[i].actual \in Int /\ fed[i].predicted \in Int
  BY DEF Cell
<1>2. \A a, p \in Int : (a - p) * (a - p) \in Int
  OBVIOUS
<1>3. SquaredErrors(fed) \in [1..n -> Int]
  BY <1>1, <1>2 DEF SquaredErrors
<1>4. \A i \in 1..n : RowLoss(fed[i]) \in Int
  <2> TAKE i \in 1..n
  <2>1. Nats(fed[i].predicted) \in Int
    BY DEF Nats
  <2>2. \A a, p \in Int : a * p + (1 - a) * (1 - p) \in Int
    OBVIOUS
  <2> QED BY <1>1, <2>1, <2>2 DEF RowLoss
<1>5. Losses(fed) \in [1..n -> Int]
  BY <1>4 DEF Losses
<1> QED BY <1>3, <1>5

\* On every part of a file and for every metric, the single-pass scorer of the
\* container computes what the batch scorer of the API process defines; under
\* AUC, when no positive and negative row have the same prediction.
THEOREM ScorersAgree ==
  ASSUME NEW n \in Nat \ {0}, NEW fed \in [1..n -> Cell], Scale \in Nat \ {0},
         NEW metric \in Metrics \ {"CUSTOM"}, metric = "AUC_ROC" => Untied(fed)
  PROVE  createStreamingScorer(metric, fed) = SCORERS(metric, fed)
<1>1. n \in Nat /\ Scale \in Int
  OBVIOUS
<1>2. Len(fed) = n
  BY <1>1, LenIs
<1>3. AccuracyScorer(fed) = accuracy(fed)
  BY <1>1, AccuracyAgrees
<1>4. RmseScorer(fed) = rmse(fed)
  BY <1>1, <1>2, TermsTyped, MeanIsSum DEF RmseScorer, rmse
<1>5. LogLossScorer(fed) = logLoss(fed)
  BY <1>1, <1>2, TermsTyped, MeanIsSum DEF LogLossScorer, logLoss
<1>6. F1ScoreScorer(fed) = f1Score(fed)
  BY <1>1, F1Agrees
<1>7. metric = "AUC_ROC" => AucRocScorer(fed) = aucRoc(fed)
  BY <1>1, AucAgrees
<1>8. metric \in {"ACCURACY", "RMSE", "F1_SCORE", "AUC_ROC", "LOG_LOSS"}
  BY DEF Metrics
<1> QED BY <1>3, <1>4, <1>5, <1>6, <1>7, <1>8 DEF createStreamingScorer, SCORERS

\* The rows that are kept are numbered one to one.
LEMMA InFileOrderIs ==
  ASSUME NEW n \in Nat, NEW K \in SUBSET (1..n)
  PROVE  InFileOrder(K) \in Bijection(1..Cardinality(K), K)
<1> DEFINE m == Cardinality(K)
           Upto(i) == {j \in K : j <= i}
           rank == [i \in K |-> Cardinality(Upto(i))]
           f == InFileOrder(K)
<1>1. IsFiniteSet(K) /\ m \in Nat
  BY IntervalSize
<1>2. ASSUME NEW i \in K
      PROVE  /\ IsFiniteSet(Upto(i)) /\ rank[i] \in 1..m /\ rank[i] = Cardinality(Upto(i))
             /\ \A j \in K : rank[i] = rank[j] /\ i <= j => i = j
  <2>1. \A j \in K : Upto(j) \in SUBSET K
    OBVIOUS
  <2>2. \A j \in K : IsFiniteSet(Upto(j)) /\ Cardinality(Upto(j)) \in Nat /\ Cardinality(Upto(j)) <= m
    BY <1>1, <2>1, FS_Subset, FS_CardinalityType
  <2>3. \A j \in K : j \in Int /\ j \in Upto(j)
    OBVIOUS
  <2>4. Cardinality(Upto(i)) # 0
    <3>1. Upto(i) # {}
      BY <2>3
    <3> HIDE DEF Upto
    <3> QED BY <2>2, <3>1, FS_EmptySet
  <2>5. ASSUME NEW j \in K, rank[i] = rank[j], i <= j PROVE i = j
    <3>1. Upto(i) \in SUBSET Upto(j)
      <4>1. \A k \in K : k <= i => k <= j
        BY <2>3, <2>5
      <4> QED BY <4>1
    <3>2. Cardinality(Upto(i)) = Cardinality(Upto(j))
      BY <2>5
    <3>3. Upto(i) = Upto(j)
      <4> HIDE DEF Upto
      <4> QED BY <2>2, <3>1, <3>2, FS_Subset
    <3>4. j <= i
      BY <2>3, <3>3
    <3> QED BY <2>3, <2>5, <3>4
  <2>6. rank[i] \in 1..m /\ rank[i] = Cardinality(Upto(i))
    <3> HIDE DEF m, Upto
    <3> QED BY <1>1, <2>2, <2>4
  <2> HIDE DEF rank, m, Upto
  <2> QED BY <2>2, <2>5, <2>6
<1>3. rank \in Injection(K, 1..m)
  <2>1. rank \in [K -> 1..m]
    <3>1. \A i \in K : rank[i] \in 1..m
      BY <1>2
    <3> HIDE DEF m, Upto
    <3> QED BY <3>1
  <2>2. \A i, j \in K : i <= j \/ j <= i
    OBVIOUS
  <2>3. \A i, j \in K : rank[i] = rank[j] => i = j
    <3> HIDE DEF rank, Upto, m
    <3> QED BY <1>2, <2>2
  <2> HIDE DEF rank, Upto, m
  <2> QED BY <2>1, <2>3 DEF Injection, IsInjective
<1>4. rank \in Surjection(K, 1..m)
  <2> HIDE DEF rank, Upto
  <2>1. IsFiniteSet(1..m) /\ Cardinality(1..m) = Cardinality(K)
    BY <1>1, IntervalSize
  <2> QED BY <1>3, <2>1, FS_Injection
<1>5. \A k \in 1..m : \E i \in K : rank[i] = k
  <2> HIDE DEF rank, m, Upto
  <2> QED BY <1>4 DEF Surjection
<1>6. f = [k \in 1..m |-> CHOOSE i \in K : Cardinality(Upto(i)) = k]
  BY Zenon DEF InFileOrder
<1> HIDE DEF f, m
<1>7. ASSUME NEW k \in 1..m PROVE f[k] \in K /\ rank[f[k]] = k
  <2> HIDE DEF rank
  <2>1. f[k] = CHOOSE i \in K : Cardinality(Upto(i)) = k
    BY <1>6
  <2>2. \A i \in K : rank[i] = Cardinality(Upto(i))
    BY <1>2
  <2>3. \E i \in K : Cardinality(Upto(i)) = k
    BY <1>5, <2>2
  <2> HIDE DEF Upto
  <2>4. f[k] \in K /\ Cardinality(Upto(f[k])) = k
    BY <2>1, <2>3
  <2> QED BY <2>2, <2>4
<1>8. \A i \in K : rank[i] \in 1..m /\ f[rank[i]] = i
  <2> TAKE i \in K
  <2>1. rank[i] \in 1..m
    BY <1>2
  <2> HIDE DEF rank
  <2>2. \A j \in K : rank[i] = rank[j] => i = j
    BY <1>3 DEF Injection, IsInjective
  <2>3. f[rank[i]] \in K /\ rank[f[rank[i]]] = rank[i]
    BY <1>7, <2>1
  <2> QED BY <2>1, <2>2, <2>3
<1> HIDE DEF rank
<1>9. f \in [1..m -> K]
  BY <1>6, <1>7
<1>10. \A a, b \in 1..m : f[a] = f[b] => a = b
  BY <1>7
<1>11. \A i \in K : \E k \in 1..m : f[k] = i
  BY <1>8
<1>12. f \in Bijection(1..m, K)
  BY <1>9, <1>10, <1>11, Fun_IsBij
<1> QED BY <1>12 DEF f, m

-----------------------------------------------------------------------------
\* From a file to what the scorers are fed.

LEMMA TableIs ==
  ASSUME NEW rows, IsTable(rows)
  PROVE  /\ rows \in Seq([id : {rows[i].id : i \in DOMAIN rows}, value : Int \union {NaN}])
         /\ Len(rows) \in Nat /\ DOMAIN rows = 1..Len(rows)
         /\ \A i \in 1..Len(rows) :
              /\ rows[i] \in [id : {rows[j].id : j \in DOMAIN rows}, value : Int \union {NaN}]
              /\ NaN \notin Values(rows) => rows[i].value \in Int
<1> DEFINE TableRow == [id : {rows[i].id : i \in DOMAIN rows}, value : Int \union {NaN}]
<1>1. rows \in Seq(TableRow)
  BY DEF IsTable
<1>2. \A r \in TableRow : r.value \in Int \union {NaN}
  OBVIOUS
<1> HIDE DEF TableRow
<1>3. Len(rows) \in Nat /\ DOMAIN rows = 1..Len(rows) /\ \A i \in 1..Len(rows) : rows[i] \in TableRow
  BY <1>1
<1>4. ASSUME NEW i \in 1..Len(rows), NaN \notin Values(rows) PROVE rows[i].value \in Int
  <2>1. rows[i].value \in Int \union {NaN}
    BY <1>2, <1>3
  <2>2. rows[i].value # NaN
    BY <1>3, <1>4 DEF Values
  <2> QED BY <2>1, <2>2
<1> QED BY <1>1, <1>3, <1>4 DEF TableRow

\* A file whose rows the container accepts, of a competition it can score.
Scorable(c, s) ==
  /\ IsCompetition(c) /\ IsFile(s)
  /\ TruthIndexed(c) /\ RowsAccepted(c, s)

\* What the checks of buildTruthIndex and of the row loop come to: a file
\* without ids of its own has the places of the truth, and every cell is a number.
LEMMA ScorableIs ==
  ASSUME NEW c, NEW s, Scorable(c, s)
  PROVE  \E n \in Nat \ {0} :
           /\ Len(c.truth) = n /\ DOMAIN c.truth = 1..n /\ DOMAIN s.rows = 1..n
           /\ \A i \in 1..n : /\ TruthIndex(c, s, i) \in 1..n
                              /\ c.hasId => c.truth[TruthIndex(c, s, i)].id = s.rows[i].id
                              /\ c.truth[i].value \in Int
                              /\ s.rows[i].value \in Int
           /\ c.public \in SUBSET (1..n)
<1> DEFINE n == Len(c.truth)
<1>1. IsTable(c.truth) /\ IsTable(s.rows)
  BY DEF Scorable, IsCompetition, IsFile
<1>2. NaN \notin Values(c.truth) /\ NaN \notin Values(s.rows) /\ Len(s.rows) = n /\ Len(c.truth) # 0
  BY DEF Scorable, TruthIndexed, RowsAccepted, Readable
<1>3. n \in Nat \ {0} /\ DOMAIN c.truth = 1..n /\ DOMAIN s.rows = 1..n
  BY <1>1, <1>2, TableIs
<1>4. \A i \in 1..n : c.truth[i].value \in Int /\ s.rows[i].value \in Int
  BY <1>1, <1>2, TableIs
<1>5. ASSUME NEW i \in 1..n
      PROVE  /\ TruthIndex(c, s, i) \in 1..n
             /\ c.hasId => c.truth[TruthIndex(c, s, i)].id = s.rows[i].id
  <2>1. CASE c.hasId
    <3>1. s.rows[i].id \in {c.truth[k].id : k \in DOMAIN c.truth}
      BY <1>3, <2>1 DEF Scorable, RowsAccepted
    <3>2. \E k \in DOMAIN c.truth : c.truth[k].id = s.rows[i].id
      BY <3>1
    <3>3. TruthIndex(c, s, i) = CHOOSE k \in DOMAIN c.truth : c.truth[k].id = s.rows[i].id
      BY <2>1 DEF TruthIndex
    <3> QED BY <1>3, <3>2, <3>3
  <2>2. CASE ~c.hasId
    BY <2>2 DEF TruthIndex
  <2> QED BY <2>1, <2>2
<1>6. c.public \in SUBSET (1..n)
  BY DEF Scorable, IsCompetition, SplitMasks
<1> QED BY <1>3, <1>4, <1>5, <1>6

\* The rows of s that go to the scorer of part.
Kept(c, s, part) == {i \in DOMAIN s.rows : TruthIndex(c, s, i) \in part}

LEMMA Float32Type ==
  ASSUME Float32Limit \in Int, NEW v \in Int
  PROVE  Float32(v) \in Int
BY DEF Float32

\* The cells a scorer is fed, by the rows that are kept.
LEMMA FedIs ==
  ASSUME NEW c, NEW s, Scorable(c, s), NEW part
  PROVE  LET K == Kept(c, s, part)
             kept == InFileOrder(K)
             m == Cardinality(K)
         IN  /\ K \in SUBSET (1..Len(c.truth)) /\ m \in Nat
             /\ kept \in Bijection(1..m, K) /\ kept \in [1..m -> K]
             /\ Fed(c, s, part) \in [1..m -> Cell]
             /\ \A a \in 1..m : Fed(c, s, part)[a] =
                  [actual |-> Float32(c.truth[TruthIndex(c, s, kept[a])].value),
                   predicted |-> s.rows[kept[a]].value]
             /\ Fed(c, s, part) = <<>> <=> m = 0
<1> DEFINE K == Kept(c, s, part)
           kept == InFileOrder(K)
           m == Cardinality(K)
           row(a) == [actual |-> Float32(c.truth[TruthIndex(c, s, kept[a])].value),
                      predicted |-> s.rows[kept[a]].value]
<1>1. PICK n \in Nat \ {0} :
           /\ Len(c.truth) = n /\ DOMAIN c.truth = 1..n /\ DOMAIN s.rows = 1..n
           /\ \A i \in 1..n : /\ TruthIndex(c, s, i) \in 1..n
                              /\ c.hasId => c.truth[TruthIndex(c, s, i)].id = s.rows[i].id
                              /\ c.truth[i].value \in Int
                              /\ s.rows[i].value \in Int
           /\ c.public \in SUBSET (1..n)
  BY ScorableIs
<1>2. K \in SUBSET (1..n) /\ n \in Nat
  BY <1>1 DEF Kept
<1> HIDE DEF K
<1>3. m \in Nat
  BY <1>2, IntervalSize
<1>4. kept \in Bijection(1..m, K)
  BY <1>2, InFileOrderIs
<1>5. kept \in [1..m -> K]
  BY <1>4 DEF Bijection, Injection
<1>6. Fed(c, s, part) = [a \in DOMAIN kept |-> row(a)]
  BY Zenon DEF Fed, Kept, K
<1> HIDE DEF kept, m
<1>7. ASSUME NEW a \in 1..m PROVE row(a) \in Cell
  <2>1. kept[a] \in 1..n
    BY <1>2, <1>5
  <2>2. s.rows[kept[a]].value \in Int /\ c.truth[TruthIndex(c, s, kept[a])].value \in Int
    BY <1>1, <2>1
  <2>3. Float32(c.truth[TruthIndex(c, s, kept[a])].value) \in Int
    BY <2>2, Float32Type, ScoreboardAssumption
  <2> QED BY <2>2, <2>3 DEF Cell
<1> HIDE DEF row
<1>8. DOMAIN kept = 1..m
  BY <1>5
<1>9. Fed(c, s, part) = [a \in 1..m |-> row(a)]
  BY <1>6, <1>8
<1>10. Fed(c, s, part) \in [1..m -> Cell] /\ \A a \in 1..m : Fed(c, s, part)[a] = row(a)
  BY <1>7, <1>9
<1>11. Fed(c, s, part) = <<>> <=> m = 0
  <2>1. DOMAIN Fed(c, s, part) = 1..m /\ Len(Fed(c, s, part)) = m
    BY <1>3, <1>10, LenIs
  <2>2. m = 0 => Fed(c, s, part) = <<>>
    BY <1>10
  <2>3. Fed(c, s, part) = <<>> => m = 0
    BY <2>1
  <2> QED BY <2>2, <2>3
<1> QED BY <1>1, <1>2, <1>3, <1>4, <1>5, <1>10, <1>11 DEF K, kept, m, row

-----------------------------------------------------------------------------
\* Scores are numbers.

LEMMA SumType ==
  ASSUME NEW n \in Nat, NEW values \in [1..n -> Int]
  PROVE  Sum(values) \in Int
<1>1. PICK total \in [0..n -> Int] : Sum(values) = total[n]
  BY SumUnrolls
<1>2. n \in 0..n
  OBVIOUS
<1> QED BY <1>1, <1>2

LEMMA QuotientType ==
  ASSUME NEW a \in Int, NEW d \in Nat \ {0}, Scale \in Int
  PROVE  Quotient(a, d) \in Int
<1>1. a * Scale \in Int
  OBVIOUS
<1>2. \A x \in Int : x \div d \in Int
  OBVIOUS
<1> QED BY <1>1, <1>2 DEF Quotient

LEMMA MeanType ==
  ASSUME NEW n \in Nat \ {0}, NEW terms \in [1..n -> Int], Scale \in Int
  PROVE  MeanScorer(terms) \in Int
<1>1. n \in Nat
  OBVIOUS
<1>2. MeanScorer(terms) = Quotient(Sum(terms), n) /\ Sum(terms) \in Int
  BY <1>1, MeanIsSum, SumType
<1> QED BY <1>2, QuotientType

LEMMA F1ScoreType ==
  ASSUME NEW n \in Nat \ {0}, NEW fed \in [1..n -> Cell], Scale \in Int
  PROVE  f1Score(fed) \in Int
<1> DEFINE cells == [i \in DOMAIN fed |-> fed[i].actual] \o [i \in DOMAIN fed |-> fed[i].predicted]
           classes == FoldLeft(Insert, <<>>, cells)
           f1s == [k \in DOMAIN classes |-> binaryF1(fed, classes[k])]
           m == Len(classes)
<1>1. f1Score(fed) = f1Of(f1s)
  BY Zenon DEF f1Score
<1>2. Lists(classes, Met(fed, n))
  BY CellsListed
<1> HIDE DEF classes
<1>3. m \in Nat /\ DOMAIN classes = 1..m /\ \A k \in 1..m : classes[k] \in Int
  BY <1>2 DEF Lists
<1>4. m # 0
  <2>1. fed[1].actual \in Met(fed, n)
    BY DEF Met
  <2>2. \E k \in 1..m : classes[k] = fed[1].actual
    BY <1>2, <2>1 DEF Lists
  <2> QED BY <2>2
<1>5. \A k \in 1..m : binaryF1(fed, classes[k]) \in Int
  BY <1>3, BinaryF1Type
<1>6. f1s \in [1..m -> Int]
  BY <1>3, <1>5
<1>7. Len(f1s) = m /\ Sum(f1s) \in Int
  <2> HIDE DEF f1s, m
  <2> QED BY <1>3, <1>6, LenIs, SumType
<1>8. f1Of(f1s) \in Int
  <2> HIDE DEF f1s, m
  <2>1. m = 2 => f1s[2] \in Int
    BY <1>6
  <2>2. \A x \in Int, d \in Nat \ {0} : x \div d \in Int
    OBVIOUS
  <2>3. Sum(f1s) \div m \in Int
    BY <1>3, <1>4, <1>7, <2>2
  <2> QED BY <1>7, <2>1, <2>3 DEF f1Of
<1> QED BY <1>1, <1>8

LEMMA AucType ==
  ASSUME NEW n \in Nat, NEW fed \in [1..n -> Cell], Scale \in Int, NEW before
  PROVE  Area(fed, before) \in Int
<1> DEFINE pos == {i \in DOMAIN fed : fed[i].actual = 1}
           neg == DOMAIN fed \ pos
           met == (pos \X neg) \intersect before
<1>1. pos \in SUBSET (1..n) /\ neg \in SUBSET (1..n)
  OBVIOUS
<1>2. Area(fed, before) = IF pos = {} \/ neg = {} THEN Quotient(1, 2)
                          ELSE Quotient(Cardinality(met), Cardinality(pos) * Cardinality(neg))
  BY Zenon DEF Area
<1> HIDE DEF pos, neg
<1>3. IsFiniteSet(pos) /\ IsFiniteSet(neg) /\ Cardinality(pos) \in Nat /\ Cardinality(neg) \in Nat
  BY <1>1, IntervalSize
<1>4. Cardinality(met) \in Nat
  BY <1>3, FS_Product, FS_Intersection, FS_CardinalityType
<1> HIDE DEF met
<1>5. Quotient(1, 2) \in Int
  BY QuotientType
<1>6. ASSUME ~(pos = {} \/ neg = {})
      PROVE  Quotient(Cardinality(met), Cardinality(pos) * Cardinality(neg)) \in Int
  <2>1. Cardinality(pos) \in Nat \ {0} /\ Cardinality(neg) \in Nat \ {0}
    BY <1>3, <1>6, FS_EmptySet
  <2>2. \A x, y \in Nat \ {0} : x * y \in Nat \ {0}
    OBVIOUS
  <2>3. Cardinality(pos) * Cardinality(neg) \in Nat \ {0} /\ Cardinality(met) \in Int
    BY <1>4, <2>1, <2>2
  <2> QED BY <2>3, QuotientType
<1> QED BY <1>2, <1>5, <1>6

\* A metric of some rows is a number.
LEMMA ScorerType ==
  ASSUME NEW n \in Nat \ {0}, NEW fed \in [1..n -> Cell], Scale \in Int,
         NEW metric \in Metrics \ {"CUSTOM"}
  PROVE  createStreamingScorer(metric, fed) \in Int
<1>1. n \in Nat /\ DOMAIN fed = 1..n
  OBVIOUS
<1>2. Len(fed) = n
  BY <1>1, LenIs
<1>3. AccuracyScorer(fed) \in Int
  <2>1. {i \in DOMAIN fed : fed[i].actual = fed[i].predicted} \in SUBSET (1..n)
    BY <1>1
  <2>2. Cardinality({i \in DOMAIN fed : fed[i].actual = fed[i].predicted}) \in Int
    BY <1>1, <2>1, IntervalSize
  <2>3. accuracy(fed) = Quotient(Cardinality({i \in DOMAIN fed : fed[i].actual = fed[i].predicted}), n)
    BY <1>2, Zenon DEF accuracy
  <2> QED BY <1>1, <2>2, <2>3, QuotientType, AccuracyAgrees
<1>4. RmseScorer(fed) \in Int
  BY <1>1, TermsTyped, MeanType DEF RmseScorer
<1>5. LogLossScorer(fed) \in Int
  BY <1>1, TermsTyped, MeanType DEF LogLossScorer
<1>6. F1ScoreScorer(fed) \in Int
  BY F1Agrees, F1ScoreType
<1>7. AucRocScorer(fed) \in Int
  BY <1>1, AucType, Zenon DEF AucRocScorer
<1>8. metric \in {"ACCURACY", "RMSE", "F1_SCORE", "AUC_ROC", "LOG_LOSS"}
  BY DEF Metrics
<1> QED BY <1>3, <1>4, <1>5, <1>6, <1>7, <1>8 DEF createStreamingScorer

-----------------------------------------------------------------------------
\* The two copies of processScoring.

\* The ids of the truth in the truth's order, or no ids.
SameOrder(c, s) == c.hasId => CoversTruth(c, s) /\ InTruthOrder(c, s) = s

\* A file in the order of the truth: its i-th row is the truth's i-th.
LEMMA OwnIndex ==
  ASSUME NEW c, NEW s, Scorable(c, s), SameOrder(c, s), NEW i \in 1..Len(c.truth)
  PROVE  /\ TruthIndex(c, s, i) = i
         /\ Paired(c, s, i) = [actual |-> c.truth[i].value, predicted |-> s.rows[i].value]
<1>1. PICK n \in Nat \ {0} :
           /\ Len(c.truth) = n /\ DOMAIN c.truth = 1..n /\ DOMAIN s.rows = 1..n
           /\ \A k \in 1..n : /\ TruthIndex(c, s, k) \in 1..n
                              /\ c.hasId => c.truth[TruthIndex(c, s, k)].id = s.rows[k].id
                              /\ c.truth[k].value \in Int
                              /\ s.rows[k].value \in Int
           /\ c.public \in SUBSET (1..n)
  BY ScorableIs
<1>2. CASE ~c.hasId
  BY <1>2 DEF TruthIndex, Paired
<1>3. CASE c.hasId
  <2>1. s \in [hasId : BOOLEAN, hasTarget : BOOLEAN, others : {s.others}, rows : {s.rows}]
    BY DEF Scorable, IsFile
  <2>2. [s EXCEPT !.rows = [k \in DOMAIN c.truth |->
           CHOOSE row \in ToSet(s.rows) : row.id = c.truth[k].id]] = s
    BY <1>3 DEF SameOrder, InTruthOrder
  <2>3. s.rows = [k \in DOMAIN c.truth |-> CHOOSE row \in ToSet(s.rows) : row.id = c.truth[k].id]
    <3> DEFINE new == [k \in DOMAIN c.truth |-> CHOOSE row \in ToSet(s.rows) : row.id = c.truth[k].id]
    <3> HIDE DEF new
    <3>1. [s EXCEPT !.rows = new].rows = new
      BY <2>1
    <3> QED BY <2>2, <3>1 DEF new
  <2>4. s.rows[i] = CHOOSE row \in ToSet(s.rows) : row.id = c.truth[i].id
    BY <1>1, <2>3
  <2>5. {s.rows[k].id : k \in DOMAIN s.rows} = {c.truth[k].id : k \in DOMAIN c.truth}
    BY <1>3 DEF SameOrder, CoversTruth
  <2>6. c.truth[i].id \in {s.rows[k].id : k \in DOMAIN s.rows}
    BY <1>1, <2>5
  <2>7. \E row \in ToSet(s.rows) : row.id = c.truth[i].id
    BY <2>6 DEF ToSet
  <2>8. s.rows[i].id = c.truth[i].id
    BY <2>4, <2>7
  <2>9. \A j, k \in DOMAIN c.truth : c.truth[j].id = c.truth[k].id => j = k
    <3>1. Distinct(c.truth)
      BY <1>3 DEF Scorable, TruthIndexed
    <3> QED BY <3>1, Zenon DEF Distinct
  <2>10. TruthIndex(c, s, i) = i
    BY <1>1, <1>3, <2>8, <2>9
  <2> DEFINE Wins(k) == /\ c.truth[k].id = s.rows[i].id
                        /\ \A j \in DOMAIN c.truth : c.truth[j].id = s.rows[i].id => j <= k
  <2>11. \A k \in DOMAIN c.truth : Wins(k) <=> k = i
    <3>1. i \in DOMAIN c.truth /\ i <= i
      BY <1>1
    <3>2. \A k \in DOMAIN c.truth : c.truth[k].id = s.rows[i].id <=> k = i
      BY <2>8, <2>9, <3>1
    <3> QED BY <3>1, <3>2
  <2>12. (CHOOSE k \in DOMAIN c.truth : Wins(k)) = i
    <3> HIDE DEF Wins
    <3> QED BY <1>1, <2>11
  <2>13. Paired(c, s, i) = [actual |-> c.truth[CHOOSE k \in DOMAIN c.truth : Wins(k)].value,
                            predicted |-> s.rows[i].value]
    BY <1>3 DEF Paired
  <2> HIDE DEF Wins
  <2> QED BY <2>10, <2>12, <2>13
<1> QED BY <1>2, <1>3

\* The split by truth index and the split by row are then the same.
LEMMA PartsAgree ==
  ASSUME NEW c, NEW s, Scorable(c, s), SameOrder(c, s), ExactLabels(c), NEW part
  PROVE  Fed(c, s, part) = Partition(c, s, part)
<1> DEFINE K == Kept(c, s, part)
           kept == InFileOrder(K)
           m == Cardinality(K)
<1>1. /\ K \in SUBSET (1..Len(c.truth)) /\ m \in Nat /\ kept \in [1..m -> K]
      /\ Fed(c, s, part) \in [1..m -> Cell]
      /\ \A a \in 1..m : Fed(c, s, part)[a] =
           [actual |-> Float32(c.truth[TruthIndex(c, s, kept[a])].value),
            predicted |-> s.rows[kept[a]].value]
  BY FedIs
<1>2. PICK n \in Nat \ {0} :
           /\ Len(c.truth) = n /\ DOMAIN c.truth = 1..n /\ DOMAIN s.rows = 1..n
           /\ \A k \in 1..n : /\ TruthIndex(c, s, k) \in 1..n
                              /\ c.hasId => c.truth[TruthIndex(c, s, k)].id = s.rows[k].id
                              /\ c.truth[k].value \in Int
                              /\ s.rows[k].value \in Int
           /\ c.public \in SUBSET (1..n)
  BY ScorableIs
<1>3. \A i \in 1..n : TruthIndex(c, s, i) = i
  BY <1>2, OwnIndex
<1>4. {i \in DOMAIN s.rows : i \in part} = K
  BY <1>2, <1>3 DEF Kept
<1>5. Partition(c, s, part) = [a \in DOMAIN kept |-> Paired(c, s, kept[a])]
  BY <1>4, Zenon DEF Partition
<1> HIDE DEF K, kept, m
<1>6. Partition(c, s, part) = [a \in 1..m |-> Paired(c, s, kept[a])]
  BY <1>1, <1>5
<1>7. ASSUME NEW a \in 1..m PROVE Fed(c, s, part)[a] = Paired(c, s, kept[a])
  <2>1. kept[a] \in 1..n
    BY <1>1, <1>2
  <2>2. TruthIndex(c, s, kept[a]) = kept[a]
        /\ Paired(c, s, kept[a]) = [actual |-> c.truth[kept[a]].value, predicted |-> s.rows[kept[a]].value]
    BY <1>2, <2>1, OwnIndex, SMTT(30)
  <2>3. c.truth[kept[a]].value \in Values(c.truth) /\ c.truth[kept[a]].value # NaN
    BY <1>2, <2>1, ScoreboardAssumption DEF Values
  <2>4. Float32(c.truth[kept[a]].value) = c.truth[kept[a]].value
    BY <2>3 DEF ExactLabels
  <2> QED BY <1>1, <2>2, <2>4
<1> QED BY <1>1, <1>6, <1>7

\* What Standalone makes of a scorable file.
LEMMA StandaloneIs ==
  ASSUME NEW c, NEW s, IsCompetition(c), IsFile(s)
  PROVE  LET pub == Fed(c, s, c.public)
             priv == Fed(c, s, DOMAIN c.truth \ c.public)
         IN  /\ Standalone(c, s) # Rejected => Scorable(c, s) /\ c.metric # "CUSTOM" /\ pub # <<>> /\ priv # <<>>
             /\ Scorable(c, s) /\ c.metric # "CUSTOM" /\ pub # <<>> /\ priv # <<>> =>
                  Standalone(c, s) = [pub |-> createStreamingScorer(c.metric, pub),
                                      priv |-> createStreamingScorer(c.metric, priv)]
BY DEF Standalone, Scorable

LEMMA PartScored ==
  ASSUME NEW c, NEW s, Scorable(c, s), c.metric # "CUSTOM", NEW part, Fed(c, s, part) # <<>>
  PROVE  createStreamingScorer(c.metric, Fed(c, s, part)) \in Int
<1> DEFINE m == Cardinality(Kept(c, s, part))
<1>1. m \in Nat /\ Fed(c, s, part) \in [1..m -> Cell] /\ m # 0
  BY FedIs
<1>2. c.metric \in Metrics \ {"CUSTOM"}
  BY DEF Scorable, IsCompetition
<1> HIDE DEF m
<1> QED BY <1>1, <1>2, ScorerType, ScoreboardAssumption

\* Whatever file the container is given, it throws or comes to two numbers:
\* the outcome of a file is one the leaderboard takes, which is what
\* LeaderboardAssumption asks of Outcome.
THEOREM FilesScored ==
  ASSUME NEW c \in Competitions, NEW s, IsFile(s)
  PROVE  Standalone(c, s) \in Score \union {Rejected}
<1>1. IsCompetition(c)
  BY ScoreboardAssumption
<1>2. CASE Standalone(c, s) = Rejected
  BY <1>2
<1>3. CASE Standalone(c, s) # Rejected
  <2> DEFINE pub == Fed(c, s, c.public)
             priv == Fed(c, s, DOMAIN c.truth \ c.public)
  <2>1. Scorable(c, s) /\ c.metric # "CUSTOM" /\ pub # <<>> /\ priv # <<>>
    BY <1>1, <1>3, StandaloneIs
  <2>2. Standalone(c, s) = [pub |-> createStreamingScorer(c.metric, pub),
                            priv |-> createStreamingScorer(c.metric, priv)]
    BY <1>1, <2>1, StandaloneIs
  <2>3. createStreamingScorer(c.metric, pub) \in Int /\ createStreamingScorer(c.metric, priv) \in Int
    BY <2>1, PartScored
  <2> QED BY <2>2, <2>3 DEF Score
<1> QED BY <1>2, <1>3

\* No tie in the part of a competition without one.
LEMMA PartUntied ==
  ASSUME NEW c, NEW s, ~Tied(c, s), NEW part \in {c.public, DOMAIN c.truth \ c.public}
  PROVE  Untied(Fed(c, s, part))
<1> DEFINE fed == Fed(c, s, part)
<1>1. ~ \E i, j \in DOMAIN fed : /\ fed[i].actual = 1 /\ fed[j].actual # 1
                                 /\ fed[i].predicted = fed[j].predicted
  BY Zenon DEF Tied
<1> HIDE DEF fed
<1>2. Untied(fed)
  BY <1>1 DEF Untied, Positives, Negatives
<1> QED BY <1>2 DEF fed

\* A part scores alike in both copies.
LEMMA PartAgrees ==
  ASSUME NEW c, NEW s, Scorable(c, s), SameOrder(c, s), ExactLabels(c), c.metric # "CUSTOM",
         NEW part, Fed(c, s, part) # <<>>,
         c.metric = "AUC_ROC" => Untied(Fed(c, s, part))
  PROVE  createStreamingScorer(c.metric, Fed(c, s, part)) = SCORERS(c.metric, Partition(c, s, part))
<1> DEFINE m == Cardinality(Kept(c, s, part))
           fed == Fed(c, s, part)
<1>1. m \in Nat /\ fed \in [1..m -> Cell] /\ m # 0
  BY FedIs
<1>2. c.metric \in Metrics \ {"CUSTOM"}
  BY DEF Scorable, IsCompetition
<1>3. Partition(c, s, part) = fed
  BY PartsAgree
<1> HIDE DEF m, fed
<1>4. createStreamingScorer(c.metric, fed) = SCORERS(c.metric, fed)
  <2>1. c.metric = "AUC_ROC" => Untied(fed)
    BY DEF fed
  <2> QED BY <1>1, <1>2, <2>1, ScorersAgree, ScoreboardAssumption
<1> QED BY <1>3, <1>4 DEF fed

\* What the two copies ask of a file is the same, but for the columns that
\* neither reads.
LEMMA SameRefusals ==
  ASSUME NEW c, NEW s, IsCompetition(c), IsFile(s)
  PROVE  ColumnsComplete(c, s) /\ InlineRowsAccepted(c, s) <=>
           c.others \subseteq s.others /\ RowsAccepted(c, s)
<1>1. Len(s.rows) \in Nat /\ (s.rows # <<>> <=> Len(s.rows) # 0)
  BY DEF IsFile, IsTable
<1>2. Readable(s.rows) <=> parseCsvStream(s.rows) /\ s.rows # <<>>
  BY <1>1, ScoreboardAssumption DEF Readable, parseCsvStream
<1>3. (\A i \in DOMAIN s.rows : \E k \in DOMAIN c.truth : c.truth[k].id = s.rows[i].id) <=>
        {s.rows[i].id : i \in DOMAIN s.rows} \subseteq {c.truth[i].id : i \in DOMAIN c.truth}
  OBVIOUS
<1> QED BY <1>2, <1>3 DEF ColumnsComplete, InlineRowsAccepted, RowsAccepted

\* What Inline makes of a scorable file in the order of the truth, with every
\* column of the truth.
LEMMA InlineIs ==
  ASSUME NEW c, NEW s, IsCompetition(c), IsFile(s), TruthIndexed(c), SameOrder(c, s),
         c.others \subseteq s.others
  PROVE  LET pub == Partition(c, s, c.public)
             priv == Partition(c, s, DOMAIN c.truth \ c.public)
         IN  /\ ~(Scorable(c, s) /\ c.metric # "CUSTOM" /\ pub # <<>> /\ priv # <<>>) => Inline(c, s) = Rejected
             /\ Scorable(c, s) /\ c.metric # "CUSTOM" /\ pub # <<>> /\ priv # <<>> =>
                  Inline(c, s) = [pub |-> SCORERS(c.metric, pub), priv |-> SCORERS(c.metric, priv)]
<1> DEFINE Paired_s == {Paired(c, s, i).actual : i \in DOMAIN s.rows}
           pub == Partition(c, s, c.public)
           priv == Partition(c, s, DOMAIN c.truth \ c.public)
           ok == /\ parseCsvStream(c.truth) /\ c.truth # <<>>
                 /\ ColumnsComplete(c, s) /\ InlineRowsAccepted(c, s)
                 /\ NaN \notin Paired_s
                 /\ c.metric # "CUSTOM"
<1>1. Inline(c, s) = IF ~ok THEN Rejected
                     ELSE IF pub = <<>> \/ priv = <<>> THEN Rejected
                     ELSE [pub |-> SCORERS(c.metric, pub), priv |-> SCORERS(c.metric, priv)]
  BY Zenon DEF Inline
<1> HIDE DEF ok, pub, priv
<1>2. ok => Scorable(c, s) /\ c.metric # "CUSTOM"
  BY SameRefusals DEF ok, Scorable
<1>3. ASSUME Scorable(c, s), c.metric # "CUSTOM" PROVE ok
  <2>1. PICK n \in Nat \ {0} :
           /\ Len(c.truth) = n /\ DOMAIN c.truth = 1..n /\ DOMAIN s.rows = 1..n
           /\ \A k \in 1..n : /\ TruthIndex(c, s, k) \in 1..n
                              /\ c.hasId => c.truth[TruthIndex(c, s, k)].id = s.rows[k].id
                              /\ c.truth[k].value \in Int
                              /\ s.rows[k].value \in Int
           /\ c.public \in SUBSET (1..n)
    BY <1>3, ScorableIs
  <2>2. ASSUME NEW i \in 1..n PROVE Paired(c, s, i).actual # NaN
    <3>1. Paired(c, s, i) = [actual |-> c.truth[i].value, predicted |-> s.rows[i].value]
      BY <1>3, <2>1, OwnIndex
    <3>2. c.truth[i].value \in Int
      BY <2>1
    <3> QED BY <3>1, <3>2, ScoreboardAssumption
  <2>3. NaN \notin Paired_s
    BY <2>1, <2>2
  <2>4. ColumnsComplete(c, s) /\ InlineRowsAccepted(c, s)
    BY <1>3, SameRefusals DEF Scorable
  <2>5. parseCsvStream(c.truth) /\ c.truth # <<>>
    <3>1. Len(c.truth) <= MaxCsvRows
      BY <2>1 DEF TruthIndexed, Readable
    <3>2. c.truth # <<>>
      BY <2>1
    <3> QED BY <3>1, <3>2 DEF parseCsvStream
  <2> QED BY <1>3, <2>3, <2>4, <2>5 DEF ok
<1>4. /\ ~(Scorable(c, s) /\ c.metric # "CUSTOM" /\ pub # <<>> /\ priv # <<>>) => Inline(c, s) = Rejected
      /\ Scorable(c, s) /\ c.metric # "CUSTOM" /\ pub # <<>> /\ priv # <<>> =>
                  Inline(c, s) = [pub |-> SCORERS(c.metric, pub), priv |-> SCORERS(c.metric, priv)]
  BY <1>1, <1>2, <1>3
<1> QED BY <1>4 DEF pub, priv

\* Both copies of processScoring come to the same outcome.
LEMMA CopiesAgree ==
  ASSUME NEW c, NEW s, IsCompetition(c), IsFile(s),
         ExactLabels(c), TruthIndexed(c), SameOrder(c, s), c.others \subseteq s.others,
         c.metric = "AUC_ROC" => Standalone(c, s) = Rejected \/ ~Tied(c, s)
  PROVE  Standalone(c, s) = Inline(c, s)
<1> DEFINE P == c.public
           Q == DOMAIN c.truth \ c.public
<1>1. CASE Standalone(c, s) = Rejected
  <2>1. ~(Scorable(c, s) /\ c.metric # "CUSTOM" /\ Partition(c, s, P) # <<>> /\ Partition(c, s, Q) # <<>>)
    <3> SUFFICES ASSUME Scorable(c, s), c.metric # "CUSTOM",
                        Partition(c, s, P) # <<>>, Partition(c, s, Q) # <<>>
                 PROVE  FALSE
      OBVIOUS
    <3>1. Fed(c, s, P) # <<>> /\ Fed(c, s, Q) # <<>>
      BY PartsAgree
    <3>2. Standalone(c, s) = [pub |-> createStreamingScorer(c.metric, Fed(c, s, P)),
                              priv |-> createStreamingScorer(c.metric, Fed(c, s, Q))]
      BY <3>1, StandaloneIs
    <3>3. createStreamingScorer(c.metric, Fed(c, s, P)) \in Int /\ createStreamingScorer(c.metric, Fed(c, s, Q)) \in Int
      BY <3>1, PartScored
    <3>4. Standalone(c, s) \in Score
      BY <3>2, <3>3 DEF Score
    <3> QED BY <1>1, <3>4, ScoreboardAssumption
  <2> QED BY <1>1, <2>1, InlineIs
<1>2. CASE Standalone(c, s) # Rejected
  <2>1. Scorable(c, s) /\ c.metric # "CUSTOM" /\ Fed(c, s, P) # <<>> /\ Fed(c, s, Q) # <<>>
    BY <1>2, StandaloneIs
  <2>2. Standalone(c, s) = [pub |-> createStreamingScorer(c.metric, Fed(c, s, P)),
                            priv |-> createStreamingScorer(c.metric, Fed(c, s, Q))]
    BY <2>1, StandaloneIs
  <2>3. Partition(c, s, P) # <<>> /\ Partition(c, s, Q) # <<>>
    BY <2>1, PartsAgree
  <2>4. Inline(c, s) = [pub |-> SCORERS(c.metric, Partition(c, s, P)),
                        priv |-> SCORERS(c.metric, Partition(c, s, Q))]
    BY <2>1, <2>3, InlineIs
  <2>5. c.metric = "AUC_ROC" => Untied(Fed(c, s, P)) /\ Untied(Fed(c, s, Q))
    BY <1>2, PartUntied
  <2>6. createStreamingScorer(c.metric, Fed(c, s, P)) = SCORERS(c.metric, Partition(c, s, P))
    BY <2>1, <2>5, PartAgrees
  <2>7. createStreamingScorer(c.metric, Fed(c, s, Q)) = SCORERS(c.metric, Partition(c, s, Q))
    BY <2>1, <2>5, PartAgrees
  <2> QED BY <2>2, <2>4, <2>6, <2>7
<1> QED BY <1>1, <1>2

LEMMA NowhereDisagree == \A c \in Competitions : c \notin DisagreeIn
<1> SUFFICES ASSUME NEW p \in Competitions \X Submissions,
                    ExactLabels(p[1]), TruthIndexed(p[1]), p[1].others \subseteq p[2].others,
                    p[1].hasId => CoversTruth(p[1], p[2]) /\ InTruthOrder(p[1], p[2]) = p[2],
                    p[1].metric = "AUC_ROC" => Standalone(p[1], p[2]) = Rejected \/ ~Tied(p[1], p[2])
             PROVE  Standalone(p[1], p[2]) = Inline(p[1], p[2])
  BY Zenon DEF DisagreeIn
<1>1. IsCompetition(p[1]) /\ IsFile(p[2])
  BY ScoreboardAssumption
<1>2. SameOrder(p[1], p[2])
  BY DEF SameOrder
<1> QED BY <1>1, <1>2, CopiesAgree

\* The competition of a run is one of Competitions.
LEMMA CompetitionKept == Spec => [](comp \in Competitions)
<1>1. Spec => []BoardInv
  BY InitBoard, NextBoard, PTL DEF Spec
<1>2. BoardInv => comp \in Competitions
  BY DEF BoardInv, BoardTypes
<1> QED BY <1>1, <1>2, PTL

\* In the competition of the leaderboard, whichever it is, no file sets the two
\* copies of processScoring apart.
THEOREM WorkersAlwaysAgree == Spec => []WorkersAgree
<1>1. comp \in Competitions => WorkersAgree
  BY NowhereDisagree DEF WorkersAgree
<1> QED BY <1>1, CompetitionKept, PTL

-----------------------------------------------------------------------------
\* Rows in another order.

LEMMA BijectionSize ==
  ASSUME NEW A, NEW B, IsFiniteSet(A), NEW g, g \in [A -> B],
         \A a, b \in A : g[a] = g[b] => a = b, \A b \in B : \E a \in A : g[a] = b
  PROVE  Cardinality(A) = Cardinality(B)
<1>1. g \in Bijection(A, B)
  BY Fun_IsBij
<1>2. ExistsBijection(A, B)
  BY <1>1 DEF ExistsBijection
<1> QED BY <1>2, FS_Bijection

\* A permutation keeps the size of a set.
LEMMA ImageSize ==
  ASSUME NEW m \in Nat, NEW q \in Bijection(1..m, 1..m),
         NEW S \in SUBSET (1..m), NEW U \in SUBSET (1..m), \A i \in 1..m : i \in S <=> q[i] \in U
  PROVE  Cardinality(S) = Cardinality(U)
<1> DEFINE g == [i \in S |-> q[i]]
<1>1. /\ \A i \in 1..m : q[i] \in 1..m
      /\ \A i, j \in 1..m : q[i] = q[j] => i = j
      /\ \A j \in 1..m : \E i \in 1..m : q[i] = j
  BY DEF Bijection, Injection, Surjection, IsInjective
<1>2. g \in [S -> U]
  <2>1. \A i \in S : i \in 1..m /\ q[i] \in U
    OBVIOUS
  <2> QED BY <2>1
<1>3. \A a, b \in S : g[a] = g[b] => a = b
  BY <1>1
<1>4. \A b \in U : \E a \in S : g[a] = b
  <2> TAKE b \in U
  <2>1. PICK i \in 1..m : q[i] = b
    BY <1>1
  <2> QED BY <2>1
<1>5. IsFiniteSet(S)
  BY IntervalSize
<1> HIDE DEF g
<1> QED BY <1>2, <1>3, <1>4, <1>5, BijectionSize

\* The same cells, met in another order.
Rearranged(fed, other, m, q) ==
  /\ fed \in [1..m -> Cell] /\ other \in [1..m -> Cell]
  /\ q \in Bijection(1..m, 1..m)
  /\ \A i \in 1..m : q[i] \in 1..m /\ fed[i] = other[q[i]]

LEMMA AccuracyRearranged ==
  ASSUME NEW m \in Nat, NEW fed, NEW other, NEW q, Rearranged(fed, other, m, q)
  PROVE  AccuracyScorer(fed) = AccuracyScorer(other)
<1> DEFINE S == {i \in 1..m : fed[i].actual = fed[i].predicted}
           U == {i \in 1..m : other[i].actual = other[i].predicted}
<1>1. /\ fed \in [1..m -> Cell] /\ other \in [1..m -> Cell] /\ q \in Bijection(1..m, 1..m)
      /\ \A i \in 1..m : q[i] \in 1..m /\ fed[i] = other[q[i]]
  BY DEF Rearranged
<1>2. S \in SUBSET (1..m) /\ U \in SUBSET (1..m) /\ \A i \in 1..m : i \in S <=> q[i] \in U
  BY <1>1
<1>3. Cardinality(S) = Cardinality(U)
  <2> HIDE DEF S, U
  <2> QED BY <1>1, <1>2, ImageSize
<1>4. DOMAIN fed = 1..m /\ DOMAIN other = 1..m /\ Len(fed) = m /\ Len(other) = m
  BY <1>1, LenIs
<1>5. accuracy(fed) = Quotient(Cardinality(S), m) /\ accuracy(other) = Quotient(Cardinality(U), m)
  BY <1>4, Zenon DEF accuracy
<1> HIDE DEF S, U
<1> QED BY <1>1, <1>3, <1>5, AccuracyAgrees

LEMMA MeanRearranged ==
  ASSUME NEW m \in Nat, NEW v \in [1..m -> Int], NEW w \in [1..m -> Int],
         NEW q \in Bijection(1..m, 1..m), \A i \in 1..m : v[i] = w[q[i]]
  PROVE  MeanScorer(v) = MeanScorer(w)
<1>1. Sum(v) = Sum(w)
  BY SumPermuted
<1> QED BY <1>1, MeanIsSum

LEMMA TermsRearranged ==
  ASSUME NEW m \in Nat, NEW fed, NEW other, NEW q, Rearranged(fed, other, m, q)
  PROVE  RmseScorer(fed) = RmseScorer(other) /\ LogLossScorer(fed) = LogLossScorer(other)
<1>1. /\ fed \in [1..m -> Cell] /\ other \in [1..m -> Cell] /\ q \in Bijection(1..m, 1..m)
      /\ \A i \in 1..m : q[i] \in 1..m /\ fed[i] = other[q[i]]
  BY DEF Rearranged
<1>2. /\ SquaredErrors(fed) \in [1..m -> Int] /\ Losses(fed) \in [1..m -> Int]
      /\ SquaredErrors(other) \in [1..m -> Int] /\ Losses(other) \in [1..m -> Int]
  BY <1>1, TermsTyped
<1>3. DOMAIN fed = 1..m /\ DOMAIN other = 1..m
  BY <1>1
<1>4. \A i \in 1..m : SquaredErrors(fed)[i] = SquaredErrors(other)[q[i]]
  BY <1>1, <1>3 DEF SquaredErrors
<1>5. \A i \in 1..m : Losses(fed)[i] = Losses(other)[q[i]]
  BY <1>1, <1>3 DEF Losses
<1>6. MeanScorer(SquaredErrors(fed)) = MeanScorer(SquaredErrors(other))
  BY <1>1, <1>2, <1>4, MeanRearranged
<1>7. MeanScorer(Losses(fed)) = MeanScorer(Losses(other))
  BY <1>1, <1>2, <1>5, MeanRearranged
<1> QED BY <1>6, <1>7 DEF RmseScorer, LogLossScorer

\* The pairs of a positive and a negative that raise the streaming AUC.
Raising(fed) ==
  (Positives(fed) \X Negatives(fed)) \intersect
    {p \in (DOMAIN fed) \X (DOMAIN fed) : fed[p[1]].predicted >= fed[p[2]].predicted}

LEMMA AucIs ==
  ASSUME NEW fed
  PROVE  AucRocScorer(fed) =
           IF Positives(fed) = {} \/ Negatives(fed) = {} THEN Quotient(1, 2)
           ELSE Quotient(Cardinality(Raising(fed)),
                         Cardinality(Positives(fed)) * Cardinality(Negatives(fed)))
BY Zenon DEF AucRocScorer, Area, Raising, Positives, Negatives

\* A permutation of the rows carries pairs to pairs.
LEMMA AucRearranged ==
  ASSUME NEW m \in Nat, NEW fed, NEW other, NEW q, Rearranged(fed, other, m, q)
  PROVE  AucRocScorer(fed) = AucRocScorer(other)
<1> DEFINE A == Raising(fed)
           B == Raising(other)
           g == [p \in A |-> <<q[p[1]], q[p[2]]>>]
<1>1. /\ fed \in [1..m -> Cell] /\ other \in [1..m -> Cell] /\ q \in Bijection(1..m, 1..m)
      /\ \A i \in 1..m : q[i] \in 1..m /\ fed[i] = other[q[i]]
  BY DEF Rearranged
<1>2. DOMAIN fed = 1..m /\ DOMAIN other = 1..m
  BY <1>1
<1>3. /\ Positives(fed) \in SUBSET (1..m) /\ Negatives(fed) \in SUBSET (1..m)
      /\ Positives(other) \in SUBSET (1..m) /\ Negatives(other) \in SUBSET (1..m)
  BY <1>2 DEF Positives, Negatives
<1>4. \A i \in 1..m : /\ i \in Positives(fed) <=> q[i] \in Positives(other)
                      /\ i \in Negatives(fed) <=> q[i] \in Negatives(other)
  BY <1>1, <1>2 DEF Positives, Negatives
<1>5. Cardinality(Positives(fed)) = Cardinality(Positives(other))
  BY <1>1, <1>3, <1>4, ImageSize
<1>6. Cardinality(Negatives(fed)) = Cardinality(Negatives(other))
  BY <1>1, <1>3, <1>4, ImageSize
<1>7. /\ Positives(fed) = {} <=> Positives(other) = {}
      /\ Negatives(fed) = {} <=> Negatives(other) = {}
  <2>1. \A S \in SUBSET (1..m) : Cardinality(S) = 0 <=> S = {}
    BY IntervalSize, FS_EmptySet
  <2> QED BY <1>3, <1>5, <1>6, <2>1
<1>8. /\ \A i, j \in 1..m : q[i] = q[j] => i = j
      /\ \A j \in 1..m : \E i \in 1..m : q[i] = j
  BY <1>1 DEF Bijection, Injection, Surjection, IsInjective
<1>9. \A i, j \in 1..m : <<i, j>> \in A <=> <<q[i], q[j]>> \in B
  BY <1>1, <1>2, <1>4 DEF Raising
<1>10. /\ \A p \in A : p[1] \in 1..m /\ p[2] \in 1..m /\ p = <<p[1], p[2]>>
       /\ \A p \in B : p[1] \in 1..m /\ p[2] \in 1..m /\ p = <<p[1], p[2]>>
  BY <1>2 DEF Raising
<1>11. IsFiniteSet(A)
  <2>1. IsFiniteSet(Positives(fed)) /\ IsFiniteSet(Negatives(fed))
    BY <1>3, IntervalSize
  <2> QED BY <2>1, FS_Product, FS_Intersection DEF Raising
<1> HIDE DEF A, B
<1>12. g \in [A -> B]
  <2>1. ASSUME NEW p \in A PROVE <<q[p[1]], q[p[2]]>> \in B
    <3>1. p[1] \in 1..m /\ p[2] \in 1..m /\ <<p[1], p[2]>> \in A
      BY <1>10
    <3> QED BY <1>9, <3>1
  <2> QED BY <2>1
<1>13. \A a, b \in A : g[a] = g[b] => a = b
  <2> SUFFICES ASSUME NEW a \in A, NEW b \in A, g[a] = g[b] PROVE a = b
    OBVIOUS
  <2>1. q[a[1]] = q[b[1]] /\ q[a[2]] = q[b[2]]
    OBVIOUS
  <2>2. a[1] = b[1] /\ a[2] = b[2]
    BY <1>8, <1>10, <2>1
  <2> QED BY <1>10, <2>2
<1>14. \A b \in B : \E a \in A : g[a] = b
  <2> TAKE b \in B
  <2>1. b[1] \in 1..m /\ b[2] \in 1..m /\ b = <<b[1], b[2]>>
    BY <1>10
  <2>2. PICK i \in 1..m, j \in 1..m : q[i] = b[1] /\ q[j] = b[2]
    BY <1>8, <2>1
  <2>3. <<i, j>> \in A
    BY <1>9, <2>1, <2>2
  <2>4. g[<<i, j>>] = b
    BY <2>1, <2>2, <2>3
  <2> QED BY <2>3, <2>4
<1>15. Cardinality(A) = Cardinality(B)
  <2> HIDE DEF g
  <2> QED BY <1>11, <1>12, <1>13, <1>14, BijectionSize
<1> QED BY <1>5, <1>6, <1>7, <1>15, AucIs DEF A, B

\* No metric but F1 asks in which order it meets its rows.
LEMMA ScorersRearranged ==
  ASSUME NEW m \in Nat, NEW fed, NEW other, NEW q, Rearranged(fed, other, m, q),
         NEW metric \in Metrics \ {"CUSTOM", "F1_SCORE"}
  PROVE  createStreamingScorer(metric, fed) = createStreamingScorer(metric, other)
<1>1. metric \in {"ACCURACY", "RMSE", "AUC_ROC", "LOG_LOSS"}
  BY DEF Metrics
<1>2. AccuracyScorer(fed) = AccuracyScorer(other)
  BY AccuracyRearranged
<1>3. RmseScorer(fed) = RmseScorer(other) /\ LogLossScorer(fed) = LogLossScorer(other)
  BY TermsRearranged
<1>4. AucRocScorer(fed) = AucRocScorer(other)
  BY AucRearranged
<1> QED BY <1>1, <1>2, <1>3, <1>4 DEF createStreamingScorer

-----------------------------------------------------------------------------
\* A file in the order of the truth.

\* The place in the truth of each row of s.
Places(c, s) == [i \in 1..Len(c.truth) |-> TruthIndex(c, s, i)]

\* A file with every id of a truth of distinct ids.
Covers(c, s) ==
  /\ IsCompetition(c) /\ IsFile(s)
  /\ Distinct(c.truth) /\ CoversTruth(c, s)

\* The truth index of a file with every id is a permutation.
LEMMA PlacesIs ==
  ASSUME NEW c, NEW s, Covers(c, s)
  PROVE  \E n \in Nat :
           /\ Len(c.truth) = n /\ DOMAIN c.truth = 1..n /\ DOMAIN s.rows = 1..n /\ Len(s.rows) = n
           /\ Places(c, s) \in Bijection(1..n, 1..n)
           /\ \A i \in 1..n : /\ Places(c, s)[i] = TruthIndex(c, s, i)
                              /\ c.truth[Places(c, s)[i]].id = s.rows[i].id
<1> DEFINE n == Len(c.truth)
           P == Places(c, s)
<1>1. c.hasId /\ Len(s.rows) = n
  BY DEF Covers, CoversTruth
<1>2. n \in Nat /\ DOMAIN c.truth = 1..n /\ DOMAIN s.rows = 1..n
  <2>1. IsTable(c.truth) /\ IsTable(s.rows)
    BY DEF Covers, IsCompetition, IsFile
  <2> QED BY <1>1, <2>1, TableIs
<1>3. {s.rows[i].id : i \in 1..n} = {c.truth[i].id : i \in 1..n}
  BY <1>2 DEF Covers, CoversTruth
<1>4. \A j, k \in 1..n : c.truth[j].id = c.truth[k].id => j = k
  BY <1>2, Zenon DEF Covers, Distinct
<1>5. ASSUME NEW i \in 1..n PROVE P[i] = TruthIndex(c, s, i) /\ P[i] \in 1..n /\ c.truth[P[i]].id = s.rows[i].id
  <2>1. s.rows[i].id \in {c.truth[k].id : k \in 1..n}
    BY <1>3
  <2>2. \E k \in DOMAIN c.truth : c.truth[k].id = s.rows[i].id
    BY <1>2, <2>1
  <2>3. TruthIndex(c, s, i) = CHOOSE k \in DOMAIN c.truth : c.truth[k].id = s.rows[i].id
    BY <1>1 DEF TruthIndex
  <2>4. TruthIndex(c, s, i) \in 1..n /\ c.truth[TruthIndex(c, s, i)].id = s.rows[i].id
    BY <1>2, <2>2, <2>3
  <2>5. P[i] = TruthIndex(c, s, i)
    BY DEF Places
  <2> QED BY <2>4, <2>5
<1> HIDE DEF P
<1>6. \A k \in 1..n : \E i \in 1..n : P[i] = k
  <2> TAKE k \in 1..n
  <2>1. c.truth[k].id \in {s.rows[i].id : i \in 1..n}
    BY <1>3
  <2>2. PICK i \in 1..n : s.rows[i].id = c.truth[k].id
    BY <2>1
  <2> QED BY <1>4, <1>5, <2>2
<1>7. P \in [1..n -> 1..n]
  <2>1. P = [i \in 1..n |-> TruthIndex(c, s, i)]
    BY DEF P, Places
  <2> QED BY <1>5, <2>1
<1> HIDE DEF n
<1>8. P \in Surjection(1..n, 1..n)
  BY <1>6, <1>7 DEF Surjection
<1>9. P \in Injection(1..n, 1..n)
  BY <1>2, <1>8, IntervalSize, FS_Surjection
<1>10. P \in Bijection(1..n, 1..n)
  BY <1>8, <1>9, Fun_IsBij
<1> QED BY <1>1, <1>2, <1>5, <1>10 DEF P, n

\* The file in the order of the truth: the rows moved to their places.
LEMMA OrderedIs ==
  ASSUME NEW c, NEW s, Covers(c, s), NEW n \in Nat,
         Len(c.truth) = n, DOMAIN c.truth = 1..n, DOMAIN s.rows = 1..n, Len(s.rows) = n,
         NEW P, P = Places(c, s), P \in Bijection(1..n, 1..n),
         \A i \in 1..n : c.truth[P[i]].id = s.rows[i].id
  PROVE  LET t == InTruthOrder(c, s)
         IN  /\ t.hasId = s.hasId /\ t.hasTarget = s.hasTarget
             /\ DOMAIN t.rows = 1..n /\ Len(t.rows) = n
             /\ \A i \in 1..n : t.rows[P[i]] = s.rows[i]
             /\ \A k \in 1..n : TruthIndex(c, t, k) = k
             /\ IsFile(t)
<1> DEFINE t == InTruthOrder(c, s)
           new == [k \in DOMAIN c.truth |-> CHOOSE row \in ToSet(s.rows) : row.id = c.truth[k].id]
<1>1. s \in [hasId : BOOLEAN, hasTarget : BOOLEAN, others : {s.others}, rows : {s.rows}] /\ IsTable(s.rows)
  BY DEF Covers, IsFile
<1>2. t = [s EXCEPT !.rows = new]
  BY DEF InTruthOrder
<1> HIDE DEF t, new
<1>3. t.hasId = s.hasId /\ t.hasTarget = s.hasTarget /\ t.rows = new
      /\ t \in [hasId : BOOLEAN, hasTarget : BOOLEAN, others : {t.others}, rows : {t.rows}]
  BY <1>1, <1>2
<1>4. DOMAIN new = 1..n /\ \A k \in 1..n : new[k] = CHOOSE row \in ToSet(s.rows) : row.id = c.truth[k].id
  BY DEF new
<1>5. /\ \A i \in 1..n : P[i] \in 1..n
      /\ \A i, j \in 1..n : P[i] = P[j] => i = j
      /\ \A k \in 1..n : \E i \in 1..n : P[i] = k
  BY DEF Bijection, Injection, Surjection, IsInjective
<1>6. \A j, k \in 1..n : c.truth[j].id = c.truth[k].id => j = k
  BY Zenon DEF Covers, Distinct
<1>7. ASSUME NEW i \in 1..n PROVE new[P[i]] = s.rows[i]
  <2>1. s.rows[i] \in ToSet(s.rows) /\ s.rows[i].id = c.truth[P[i]].id
    BY DEF ToSet
  <2>2. ASSUME NEW row \in ToSet(s.rows), row.id = c.truth[P[i]].id PROVE row = s.rows[i]
    <3>1. PICK j \in 1..n : row = s.rows[j]
      BY DEF ToSet
    <3>2. c.truth[P[j]].id = c.truth[P[i]].id
      BY <2>2, <3>1
    <3>3. P[j] = P[i]
      BY <1>5, <1>6, <3>2
    <3> QED BY <1>5, <3>1, <3>3
  <2>3. new[P[i]] = CHOOSE row \in ToSet(s.rows) : row.id = c.truth[P[i]].id
    BY <1>4, <1>5
  <2> QED BY <2>1, <2>2, <2>3
<1> DEFINE TableRow == [id : {s.rows[i].id : i \in DOMAIN s.rows}, value : Int \union {NaN}]
           NewRow == [id : {new[i].id : i \in DOMAIN new}, value : Int \union {NaN}]
<1>8. \A i \in 1..n : s.rows[i] \in TableRow
  BY <1>1, TableIs
<1>9. ASSUME NEW k \in 1..n PROVE new[k].id = c.truth[k].id /\ new[k] \in NewRow
  <2>1. PICK i \in 1..n : P[i] = k
    BY <1>5
  <2>2. new[k] = s.rows[i]
    BY <1>7, <2>1
  <2>3. new[k].id = c.truth[k].id
    BY <2>1, <2>2
  <2>4. new[k] \in TableRow
    BY <1>8, <2>2
  <2>5. new[k].id \in {new[j].id : j \in DOMAIN new}
    BY <1>4
  <2>6. new[k] = [id |-> new[k].id, value |-> new[k].value] /\ new[k].value \in Int \union {NaN}
    BY <2>4
  <2>7. new[k] \in NewRow
    BY <2>5, <2>6
  <2> QED BY <2>3, <2>7
<1>10. new \in Seq(NewRow) /\ Len(new) = n
  <2> HIDE DEF NewRow
  <2>1. new \in [1..n -> NewRow]
    <3>1. new = [k \in 1..n |-> new[k]]
      BY DEF new
    <3> QED BY <1>9, <3>1
  <2> QED BY <2>1
<1>11. IsTable(new)
  BY <1>10 DEF IsTable
<1>12. IsFile(t)
  BY <1>3, <1>11 DEF IsFile
<1>13. ASSUME NEW k \in 1..n PROVE TruthIndex(c, t, k) = k
  <2>1. t.rows[k].id = c.truth[k].id
    BY <1>3, <1>9
  <2>2. c.hasId
    BY DEF Covers, CoversTruth
  <2>3. TruthIndex(c, t, k) = CHOOSE j \in DOMAIN c.truth : c.truth[j].id = t.rows[k].id
    BY <2>2 DEF TruthIndex
  <2> QED BY <1>6, <2>1, <2>3
<1> QED BY <1>3, <1>4, <1>7, <1>10, <1>12, <1>13 DEF t

\* P maps K one to one onto L.
Carries(P, K, L) ==
  /\ \A i \in K : P[i] \in L
  /\ \A i, j \in K : P[i] = P[j] => i = j
  /\ \A k \in L : \E i \in K : P[i] = k

\* A permutation of the rows is one of the numbers they are fed under.
LEMMA Composed ==
  ASSUME NEW m \in Nat, NEW K, NEW L, NEW f \in Bijection(1..m, K), NEW g \in Bijection(1..m, L),
         NEW P, Carries(P, K, L)
  PROVE  \E q \in Bijection(1..m, 1..m) : \A a \in 1..m : q[a] \in 1..m /\ g[q[a]] = P[f[a]]
<1> DEFINE q == [a \in 1..m |-> CHOOSE b \in 1..m : g[b] = P[f[a]]]
<1>1. /\ \A a \in 1..m : f[a] \in K /\ g[a] \in L
      /\ \A a, b \in 1..m : f[a] = f[b] => a = b
      /\ \A a, b \in 1..m : g[a] = g[b] => a = b
      /\ \A i \in K : \E a \in 1..m : f[a] = i
      /\ \A k \in L : \E a \in 1..m : g[a] = k
  BY DEF Bijection, Injection, Surjection, IsInjective
<1>2. /\ \A i \in K : P[i] \in L
      /\ \A i, j \in K : P[i] = P[j] => i = j
      /\ \A k \in L : \E i \in K : P[i] = k
  BY DEF Carries
<1>3. ASSUME NEW a \in 1..m PROVE q[a] \in 1..m /\ g[q[a]] = P[f[a]]
  <2>1. P[f[a]] \in L
    BY <1>2, <1>1
  <2>2. \E b \in 1..m : g[b] = P[f[a]]
    BY <1>1, <2>1
  <2> QED BY <2>2
<1>4. q \in [1..m -> 1..m]
  BY <1>3
<1> HIDE DEF q
<1>5. ASSUME NEW a \in 1..m, NEW b \in 1..m, q[a] = q[b] PROVE a = b
  <2>1. P[f[a]] = P[f[b]] /\ f[a] \in K /\ f[b] \in K
    BY <1>1, <1>3, <1>5
  <2>2. f[a] = f[b]
    BY <1>2, <2>1
  <2> QED BY <1>1, <2>2
<1>6. ASSUME NEW b \in 1..m PROVE \E a \in 1..m : q[a] = b
  <2>1. PICK i \in K : P[i] = g[b]
    BY <1>2, <1>1
  <2>2. PICK a \in 1..m : f[a] = i
    BY <1>1
  <2>3. q[a] \in 1..m /\ g[q[a]] = g[b]
    BY <1>3, <2>1, <2>2
  <2>4. q[a] = b
    BY <1>1, <2>3
  <2> QED BY <2>4
<1>7. q \in Bijection(1..m, 1..m)
  BY <1>4, <1>5, <1>6, Fun_IsBij
<1> QED BY <1>3, <1>7

\* The row loop accepts a file in either order, or in neither.
LEMMA OrderedAccepted ==
  ASSUME NEW c, NEW s, Covers(c, s)
  PROVE  RowsAccepted(c, InTruthOrder(c, s)) <=> RowsAccepted(c, s)
<1> DEFINE t == InTruthOrder(c, s)
           P == Places(c, s)
<1>1. PICK n \in Nat :
           /\ Len(c.truth) = n /\ DOMAIN c.truth = 1..n /\ DOMAIN s.rows = 1..n /\ Len(s.rows) = n
           /\ P \in Bijection(1..n, 1..n)
           /\ \A i \in 1..n : P[i] = TruthIndex(c, s, i) /\ c.truth[P[i]].id = s.rows[i].id
  BY PlacesIs
<1>2. /\ \A i \in 1..n : P[i] \in 1..n
      /\ \A k \in 1..n : \E i \in 1..n : P[i] = k
  BY <1>1 DEF Bijection, Injection, Surjection, IsInjective
<1>3. /\ t.hasId = s.hasId /\ t.hasTarget = s.hasTarget
      /\ DOMAIN t.rows = 1..n /\ Len(t.rows) = n
      /\ \A i \in 1..n : t.rows[P[i]] = s.rows[i]
  <2> HIDE DEF P, t
  <2>1. P = Places(c, s)
    BY DEF P
  <2>2. LET u == InTruthOrder(c, s)
        IN  /\ u.hasId = s.hasId /\ u.hasTarget = s.hasTarget
            /\ DOMAIN u.rows = 1..n /\ Len(u.rows) = n
            /\ \A i \in 1..n : u.rows[P[i]] = s.rows[i]
    BY <1>1, <2>1, OrderedIs
  <2> QED BY <2>2 DEF t
<1> HIDE DEF t, P
<1>4. Values(t.rows) = Values(s.rows)
  <2>1. ASSUME NEW i \in 1..n PROVE s.rows[i].value \in Values(t.rows)
    BY <1>2, <1>3 DEF Values
  <2>2. ASSUME NEW k \in 1..n PROVE t.rows[k].value \in Values(s.rows)
    <3>1. PICK i \in 1..n : P[i] = k
      BY <1>2
    <3>2. t.rows[k] = s.rows[i]
      BY <1>3, <3>1
    <3> QED BY <1>1, <3>2 DEF Values
  <2> QED BY <1>1, <1>3, <2>1, <2>2 DEF Values
<1>5. {t.rows[i].id : i \in DOMAIN t.rows} = {s.rows[i].id : i \in DOMAIN s.rows}
  <2>1. ASSUME NEW i \in 1..n PROVE s.rows[i].id \in {t.rows[k].id : k \in 1..n}
    BY <1>2, <1>3
  <2>2. ASSUME NEW k \in 1..n PROVE t.rows[k].id \in {s.rows[i].id : i \in 1..n}
    <3>1. PICK i \in 1..n : P[i] = k
      BY <1>2
    <3>2. t.rows[k] = s.rows[i]
      BY <1>3, <3>1
    <3> QED BY <3>2
  <2> QED BY <1>1, <1>3, <2>1, <2>2, ZenonT(30)
<1>6. RowsAccepted(c, t) <=> RowsAccepted(c, s)
  BY <1>1, <1>3, <1>4, <1>5 DEF RowsAccepted, Readable
<1> QED BY <1>6 DEF t

\* What a part is fed in one order is what it is fed in the other, rearranged.
LEMMA PartsRearranged ==
  ASSUME NEW c, NEW s, Covers(c, s), Scorable(c, s), Scorable(c, InTruthOrder(c, s)), NEW part
  PROVE  \E m, q :
           /\ m \in Nat
           /\ Rearranged(Fed(c, s, part), Fed(c, InTruthOrder(c, s), part), m, q)
           /\ Fed(c, s, part) = <<>> <=> Fed(c, InTruthOrder(c, s), part) = <<>>
<1> DEFINE t == InTruthOrder(c, s)
           P == Places(c, s)
           K == Kept(c, s, part)
           L == Kept(c, t, part)
           m == Cardinality(K)
           f == InFileOrder(K)
           g == InFileOrder(L)
<1>1. PICK n \in Nat :
           /\ Len(c.truth) = n /\ DOMAIN c.truth = 1..n /\ DOMAIN s.rows = 1..n /\ Len(s.rows) = n
           /\ P \in Bijection(1..n, 1..n)
           /\ \A i \in 1..n : P[i] = TruthIndex(c, s, i) /\ c.truth[P[i]].id = s.rows[i].id
  BY PlacesIs
<1>2. /\ \A i \in 1..n : P[i] \in 1..n
      /\ \A i, j \in 1..n : P[i] = P[j] => i = j
      /\ \A k \in 1..n : \E i \in 1..n : P[i] = k
  BY <1>1 DEF Bijection, Injection, Surjection, IsInjective
<1>3. /\ DOMAIN t.rows = 1..n
      /\ \A i \in 1..n : t.rows[P[i]] = s.rows[i]
      /\ \A k \in 1..n : TruthIndex(c, t, k) = k
  <2> HIDE DEF P, t, K, L, m, f, g
  <2>1. P = Places(c, s)
    BY DEF P
  <2>2. LET u == InTruthOrder(c, s)
        IN  /\ DOMAIN u.rows = 1..n
            /\ \A i \in 1..n : u.rows[P[i]] = s.rows[i]
            /\ \A k \in 1..n : TruthIndex(c, u, k) = k
    BY <1>1, <2>1, OrderedIs
  <2> QED BY <2>2 DEF t
<1>4. /\ m \in Nat /\ f \in Bijection(1..m, K) /\ f \in [1..m -> K]
      /\ Fed(c, s, part) \in [1..m -> Cell]
      /\ \A a \in 1..m : Fed(c, s, part)[a] =
           [actual |-> Float32(c.truth[TruthIndex(c, s, f[a])].value), predicted |-> s.rows[f[a]].value]
      /\ Fed(c, s, part) = <<>> <=> m = 0
  BY FedIs
<1>5. LET o == Cardinality(L)
      IN  /\ o \in Nat /\ g \in Bijection(1..o, L) /\ g \in [1..o -> L]
          /\ Fed(c, t, part) \in [1..o -> Cell]
          /\ \A a \in 1..o : Fed(c, t, part)[a] =
               [actual |-> Float32(c.truth[TruthIndex(c, t, g[a])].value), predicted |-> t.rows[g[a]].value]
          /\ Fed(c, t, part) = <<>> <=> o = 0
  <2>1. Scorable(c, t)
    OBVIOUS
  <2> HIDE DEF t
  <2> QED BY <2>1, FedIs
<1>6. K = {i \in 1..n : P[i] \in part}
  BY <1>1 DEF Kept
<1>7. L = {k \in 1..n : k \in part}
  <2> HIDE DEF t, P, K
  <2> QED BY <1>3 DEF Kept
<1> HIDE DEF t, P, K, L, f, g, m
<1>8. /\ \A i \in K : P[i] \in L
      /\ \A i, j \in K : P[i] = P[j] => i = j
      /\ \A k \in L : \E i \in K : P[i] = k
  <2>1. \A i \in K : P[i] \in L
    BY <1>2, <1>6, <1>7
  <2>2. \A i, j \in K : P[i] = P[j] => i = j
    BY <1>2, <1>6
  <2>3. ASSUME NEW k \in L PROVE \E i \in K : P[i] = k
    <3>1. k \in 1..n /\ k \in part
      BY <1>7
    <3>2. PICK i \in 1..n : P[i] = k
      BY <1>2, <3>1
    <3> QED BY <1>6, <3>1, <3>2
  <2> QED BY <2>1, <2>2, <2>3
<1>9. Cardinality(L) = m
  <2> DEFINE h == [i \in K |-> P[i]]
  <2>1. h \in [K -> L] /\ (\A a, b \in K : h[a] = h[b] => a = b) /\ \A b \in L : \E a \in K : h[a] = b
    BY <1>8
  <2>2. IsFiniteSet(K)
    BY <1>6, IntervalSize
  <2> HIDE DEF h
  <2> QED BY <2>1, <2>2, BijectionSize DEF m
<1>10. PICK q \in Bijection(1..m, 1..m) : \A a \in 1..m : q[a] \in 1..m /\ g[q[a]] = P[f[a]]
  <2>1. g \in Bijection(1..m, L)
    BY <1>5, <1>9
  <2>2. m \in Nat /\ f \in Bijection(1..m, K)
    BY <1>4
  <2>3. \E q \in Bijection(1..m, 1..m) : \A a \in 1..m : q[a] \in 1..m /\ g[q[a]] = P[f[a]]
    <3>1. Carries(P, K, L)
      BY <1>8 DEF Carries
    <3> QED BY <3>1, <2>1, <2>2, Composed
  <2> QED BY <2>3
<1>11. ASSUME NEW a \in 1..m PROVE Fed(c, s, part)[a] = Fed(c, t, part)[q[a]]
  <2> DEFINE i == f[a]
             b == q[a]
  <2>1. i \in 1..n /\ i \in K
    BY <1>4, <1>6
  <2>2. b \in 1..m /\ g[b] = P[i] /\ P[i] \in 1..n
    BY <1>2, <1>10, <2>1
  <2>3. Fed(c, s, part)[a] = [actual |-> Float32(c.truth[P[i]].value), predicted |-> s.rows[i].value]
    BY <1>1, <1>4, <2>1
  <2>4. Fed(c, t, part)[b] =
          [actual |-> Float32(c.truth[TruthIndex(c, t, g[b])].value), predicted |-> t.rows[g[b]].value]
    BY <1>5, <1>9, <2>2
  <2>5. TruthIndex(c, t, g[b]) = P[i] /\ t.rows[g[b]] = s.rows[i]
    BY <1>3, <2>1, <2>2
  <2> HIDE DEF i, b
  <2>6. Fed(c, s, part)[a] = Fed(c, t, part)[b]
    BY <2>2, <2>3, <2>4, <2>5
  <2> QED BY <2>6 DEF b
<1>12. Rearranged(Fed(c, s, part), Fed(c, t, part), m, q)
  BY <1>4, <1>5, <1>9, <1>10, <1>11 DEF Rearranged
<1>13. Fed(c, s, part) = <<>> <=> Fed(c, t, part) = <<>>
  BY <1>4, <1>5, <1>9
<1> QED BY <1>4, <1>12, <1>13 DEF t

LEMMA PartScoreKept ==
  ASSUME NEW c, NEW s, Covers(c, s), Scorable(c, s), Scorable(c, InTruthOrder(c, s)), NEW part,
         c.metric \notin {"CUSTOM", "F1_SCORE"}
  PROVE  /\ createStreamingScorer(c.metric, Fed(c, s, part)) =
              createStreamingScorer(c.metric, Fed(c, InTruthOrder(c, s), part))
         /\ Fed(c, s, part) = <<>> <=> Fed(c, InTruthOrder(c, s), part) = <<>>
<1> DEFINE x == Fed(c, s, part)
           y == Fed(c, InTruthOrder(c, s), part)
<1>1. \E m, q : m \in Nat /\ Rearranged(x, y, m, q) /\ (x = <<>> <=> y = <<>>)
  BY PartsRearranged
<1>2. c.metric \in Metrics \ {"CUSTOM", "F1_SCORE"}
  BY DEF Scorable, IsCompetition
<1> HIDE DEF x, y
<1>3. createStreamingScorer(c.metric, x) = createStreamingScorer(c.metric, y) /\ (x = <<>> <=> y = <<>>)
  BY <1>1, <1>2, ScorersRearranged
<1> QED BY <1>3 DEF x, y

\* The order of a file does not change what Standalone makes of it.
LEMMA OrderKept ==
  ASSUME NEW c, NEW s, IsCompetition(c), IsFile(s), CoversTruth(c, s), c.metric # "F1_SCORE"
  PROVE  Standalone(c, s) = Standalone(c, InTruthOrder(c, s))
<1> DEFINE t == InTruthOrder(c, s)
           A == c.public
           B == DOMAIN c.truth \ c.public
<1>1. CASE ~TruthIndexed(c) \/ c.metric = "CUSTOM"
  BY <1>1 DEF Standalone
<1>2. CASE TruthIndexed(c) /\ c.metric # "CUSTOM"
  <2>1. Covers(c, s)
    <3>1. c.hasId
      BY DEF CoversTruth
    <3> QED BY <1>2, <3>1 DEF Covers, TruthIndexed
  <2>2. IsFile(t)
    <3>1. PICK n \in Nat :
           /\ Len(c.truth) = n /\ DOMAIN c.truth = 1..n /\ DOMAIN s.rows = 1..n /\ Len(s.rows) = n
           /\ Places(c, s) \in Bijection(1..n, 1..n)
           /\ \A i \in 1..n : /\ Places(c, s)[i] = TruthIndex(c, s, i)
                              /\ c.truth[Places(c, s)[i]].id = s.rows[i].id
      BY <2>1, PlacesIs
    <3> DEFINE P == Places(c, s)
    <3>2. P = Places(c, s) /\ P \in Bijection(1..n, 1..n) /\ \A i \in 1..n : c.truth[P[i]].id = s.rows[i].id
      BY <3>1
    <3> HIDE DEF P, t
    <3>3. IsFile(InTruthOrder(c, s))
      BY <2>1, <3>1, <3>2, OrderedIs
    <3> QED BY <3>3 DEF t
  <2>3. RowsAccepted(c, t) <=> RowsAccepted(c, s)
    BY <2>1, OrderedAccepted
  <2>4. Scorable(c, s) <=> Scorable(c, t)
    BY <1>2, <2>2, <2>3 DEF Scorable
  <2>5. CASE Scorable(c, s)
    <3>1. /\ createStreamingScorer(c.metric, Fed(c, s, A)) = createStreamingScorer(c.metric, Fed(c, t, A))
          /\ Fed(c, s, A) = <<>> <=> Fed(c, t, A) = <<>>
      BY <1>2, <2>1, <2>4, <2>5, PartScoreKept
    <3>2. /\ createStreamingScorer(c.metric, Fed(c, s, B)) = createStreamingScorer(c.metric, Fed(c, t, B))
          /\ Fed(c, s, B) = <<>> <=> Fed(c, t, B) = <<>>
      BY <1>2, <2>1, <2>4, <2>5, PartScoreKept
    <3> HIDE DEF t
    <3>3. CASE Fed(c, s, A) = <<>> \/ Fed(c, s, B) = <<>>
      <4>1. Standalone(c, s) = Rejected
        BY <3>3, StandaloneIs
      <4>2. Standalone(c, t) = Rejected
        BY <2>2, <3>1, <3>2, <3>3, StandaloneIs
      <4> QED BY <4>1, <4>2 DEF t
    <3>4. CASE Fed(c, s, A) # <<>> /\ Fed(c, s, B) # <<>>
      <4>1. Standalone(c, s) = [pub |-> createStreamingScorer(c.metric, Fed(c, s, A)),
                                priv |-> createStreamingScorer(c.metric, Fed(c, s, B))]
        BY <1>2, <2>5, <3>4, StandaloneIs
      <4>2. Standalone(c, t) = [pub |-> createStreamingScorer(c.metric, Fed(c, t, A)),
                                priv |-> createStreamingScorer(c.metric, Fed(c, t, B))]
        BY <1>2, <2>2, <2>4, <2>5, <3>1, <3>2, <3>4, StandaloneIs
      <4> QED BY <3>1, <3>2, <4>1, <4>2 DEF t
    <3> QED BY <3>3, <3>4 DEF t
  <2>6. CASE ~Scorable(c, s)
    <3> HIDE DEF t
    <3>1. Standalone(c, s) = Rejected
      BY <2>6, StandaloneIs
    <3>2. Standalone(c, t) = Rejected
      BY <2>2, <2>4, <2>6, StandaloneIs
    <3> QED BY <3>1, <3>2 DEF t
  <2> QED BY <2>5, <2>6
<1> QED BY <1>1, <1>2

\* The rows of s, with the value 0 in the private ones.
LEMMA HiddenIs ==
  ASSUME NEW c, NEW s, Scorable(c, s)
  PROVE  LET t == Hidden(c, s)
         IN  /\ Scorable(c, t)
             /\ \A part : Kept(c, t, part) = Kept(c, s, part)
             /\ Fed(c, t, c.public) = Fed(c, s, c.public)
<1> DEFINE t == Hidden(c, s)
           blank(i) == [s.rows[i] EXCEPT !.value = 0]
           new == [i \in DOMAIN s.rows |->
                     IF TruthIndex(c, s, i) \in c.public THEN s.rows[i] ELSE blank(i)]
           TableRow == [id : {s.rows[i].id : i \in DOMAIN s.rows}, value : Int \union {NaN}]
<1>1. PICK n \in Nat \ {0} :
           /\ Len(c.truth) = n /\ DOMAIN c.truth = 1..n /\ DOMAIN s.rows = 1..n
           /\ \A k \in 1..n : /\ TruthIndex(c, s, k) \in 1..n
                              /\ c.hasId => c.truth[TruthIndex(c, s, k)].id = s.rows[k].id
                              /\ c.truth[k].value \in Int
                              /\ s.rows[k].value \in Int
           /\ c.public \in SUBSET (1..n)
  BY ScorableIs
<1>2. s \in [hasId : BOOLEAN, hasTarget : BOOLEAN, others : {s.others}, rows : {s.rows}] /\ IsTable(s.rows) /\ IsTable(c.truth)
  BY DEF Scorable, IsFile, IsCompetition
<1>3. \A i \in 1..n : s.rows[i] \in TableRow
  <2>1. Len(s.rows) = n
    BY <1>1, <1>2, TableIs DEF Scorable, RowsAccepted
  <2> QED BY <1>2, <2>1, TableIs
<1>4. ASSUME NEW i \in 1..n
      PROVE  blank(i) \in TableRow /\ blank(i).id = s.rows[i].id /\ blank(i).value = 0
  <2>1. s.rows[i] \in TableRow
    BY <1>3
  <2> QED BY <2>1
<1>5. t = [s EXCEPT !.rows = new]
  BY DEF Hidden
<1> HIDE DEF t, blank
<1>6. /\ DOMAIN new = 1..n
      /\ \A i \in 1..n : new[i] = IF TruthIndex(c, s, i) \in c.public THEN s.rows[i] ELSE blank(i)
  BY <1>1
<1> HIDE DEF new, TableRow
<1>7. ASSUME NEW i \in 1..n
      PROVE  new[i] \in TableRow /\ new[i].id = s.rows[i].id /\ new[i].value \in Int
  <2>1. CASE TruthIndex(c, s, i) \in c.public
    <3>1. new[i] = s.rows[i]
      BY <1>6, <2>1
    <3> QED BY <1>1, <1>3, <3>1
  <2>2. CASE TruthIndex(c, s, i) \notin c.public
    <3>1. new[i] = blank(i)
      BY <1>6, <2>2
    <3> QED BY <1>4, <3>1
  <2> QED BY <2>1, <2>2
<1>8. new = [i \in 1..n |-> new[i]]
  BY <1>6 DEF new
<1>9. /\ t.hasId = s.hasId /\ t.hasTarget = s.hasTarget /\ t.rows = new
      /\ t \in [hasId : BOOLEAN, hasTarget : BOOLEAN, others : {t.others}, rows : {t.rows}]
  BY <1>2, <1>5
<1>10. {new[i].id : i \in DOMAIN new} = {s.rows[i].id : i \in DOMAIN s.rows}
  <2>1. DOMAIN new = 1..n /\ DOMAIN s.rows = 1..n /\ \A i \in 1..n : new[i].id = s.rows[i].id
    BY <1>1, <1>6, <1>7
  <2> QED BY <2>1
<1>11. IsTable(new) /\ Len(new) = n
  <2>1. new \in [1..n -> TableRow]
    BY <1>7, <1>8
  <2>2. new \in Seq(TableRow) /\ Len(new) = n
    BY <2>1
  <2>3. TableRow = [id : {new[i].id : i \in DOMAIN new}, value : Int \union {NaN}]
    BY <1>10 DEF TableRow
  <2> QED BY <2>2, <2>3 DEF IsTable
<1>12. NaN \notin Values(new)
  BY <1>6, <1>7, ScoreboardAssumption DEF Values
<1>13. RowsAccepted(c, t)
  <2>1. Readable(s.rows) /\ s.hasTarget /\ (c.hasId => s.hasId) /\ Len(s.rows) = Len(c.truth)
        /\ (c.hasId => {s.rows[i].id : i \in DOMAIN s.rows} \subseteq {c.truth[i].id : i \in DOMAIN c.truth})
    BY DEF Scorable, RowsAccepted
  <2>2. Readable(new)
    BY <1>1, <1>11, <2>1 DEF Readable
  <2> QED BY <1>1, <1>9, <1>10, <1>11, <1>12, <2>1, <2>2 DEF RowsAccepted
<1>14. Scorable(c, t)
  BY <1>9, <1>11, <1>13 DEF Scorable, IsFile
<1>15. ASSUME NEW i \in 1..n PROVE TruthIndex(c, t, i) = TruthIndex(c, s, i)
  <2> DEFINE find(x) == CHOOSE k \in DOMAIN c.truth : c.truth[k].id = x
  <2>1. /\ TruthIndex(c, t, i) = IF c.hasId THEN find(t.rows[i].id) ELSE i
        /\ TruthIndex(c, s, i) = IF c.hasId THEN find(s.rows[i].id) ELSE i
    BY Zenon DEF TruthIndex
  <2>2. t.rows[i].id = s.rows[i].id
    BY <1>7, <1>9
  <2> HIDE DEF find
  <2> QED BY <2>1, <2>2
<1>16. \A part : Kept(c, t, part) = Kept(c, s, part)
  BY <1>1, <1>6, <1>9, <1>15 DEF Kept
<1> DEFINE K == Kept(c, s, c.public)
           f == InFileOrder(K)
           m == Cardinality(K)
<1>17. /\ m \in Nat /\ f \in [1..m -> K]
       /\ Fed(c, s, c.public) \in [1..m -> Cell]
       /\ \A a \in 1..m : Fed(c, s, c.public)[a] =
            [actual |-> Float32(c.truth[TruthIndex(c, s, f[a])].value), predicted |-> s.rows[f[a]].value]
  <2>1. LET A == Kept(c, s, c.public)
            kept == InFileOrder(A)
            count == Cardinality(A)
        IN  /\ A \in SUBSET (1..Len(c.truth)) /\ count \in Nat
            /\ kept \in Bijection(1..count, A) /\ kept \in [1..count -> A]
            /\ Fed(c, s, c.public) \in [1..count -> Cell]
            /\ \A a \in 1..count : Fed(c, s, c.public)[a] =
                 [actual |-> Float32(c.truth[TruthIndex(c, s, kept[a])].value),
                  predicted |-> s.rows[kept[a]].value]
            /\ Fed(c, s, c.public) = <<>> <=> count = 0
    BY FedIs, Zenon
  <2> QED BY <2>1, Zenon
<1>18. /\ Fed(c, t, c.public) \in [1..m -> Cell]
       /\ \A a \in 1..m : Fed(c, t, c.public)[a] =
            [actual |-> Float32(c.truth[TruthIndex(c, t, f[a])].value), predicted |-> t.rows[f[a]].value]
  <2>1. Kept(c, t, c.public) = K
    BY <1>16
  <2> HIDE DEF K, f, m
  <2> DEFINE L == Kept(c, t, c.public)
             g == InFileOrder(L)
             o == Cardinality(L)
  <2>2. /\ Fed(c, t, c.public) \in [1..o -> Cell]
        /\ \A a \in 1..o : Fed(c, t, c.public)[a] =
            [actual |-> Float32(c.truth[TruthIndex(c, t, g[a])].value), predicted |-> t.rows[g[a]].value]
    <3>1. LET k == InFileOrder(Kept(c, t, c.public))
              x == Cardinality(Kept(c, t, c.public))
          IN  /\ Fed(c, t, c.public) \in [1..x -> Cell]
              /\ \A a \in 1..x : Fed(c, t, c.public)[a] =
                   [actual |-> Float32(c.truth[TruthIndex(c, t, k[a])].value),
                    predicted |-> t.rows[k[a]].value]
      <4> HIDE DEF L, g, o
      <4> QED BY <1>14, FedIs
    <3> QED BY <3>1
  <2>3. g = f /\ o = m
    BY <2>1 DEF K, f, m
  <2> HIDE DEF g, o, f, m
  <2> QED BY <2>2, <2>3
<1>19. K = {i \in 1..n : TruthIndex(c, s, i) \in c.public}
  BY <1>1 DEF Kept
<1> HIDE DEF K, f, m
<1>20. ASSUME NEW a \in 1..m PROVE Fed(c, t, c.public)[a] = Fed(c, s, c.public)[a]
  <2>1. f[a] \in 1..n /\ TruthIndex(c, s, f[a]) \in c.public
    BY <1>17, <1>19
  <2>2. t.rows[f[a]] = s.rows[f[a]]
    BY <1>6, <1>9, <2>1
  <2>3. TruthIndex(c, t, f[a]) = TruthIndex(c, s, f[a])
    BY <1>15, <2>1
  <2>4. Fed(c, s, c.public)[a] =
          [actual |-> Float32(c.truth[TruthIndex(c, s, f[a])].value), predicted |-> s.rows[f[a]].value]
    BY <1>17
  <2>5. Fed(c, t, c.public)[a] =
          [actual |-> Float32(c.truth[TruthIndex(c, t, f[a])].value), predicted |-> t.rows[f[a]].value]
    BY <1>18
  <2> QED BY <2>2, <2>3, <2>4, <2>5
<1>21. Fed(c, t, c.public) = Fed(c, s, c.public)
  BY <1>17, <1>18, <1>20
<1> QED BY <1>14, <1>16, <1>21 DEF t

\* The public score is that of the file without its private values.
LEMMA PrivateHidden ==
  ASSUME NEW c, NEW s, IsCompetition(c), IsFile(s), Standalone(c, s) # Rejected
  PROVE  Standalone(c, s).pub = Standalone(c, Hidden(c, s)).pub
<1> DEFINE t == Hidden(c, s)
           A == c.public
           B == DOMAIN c.truth \ c.public
<1>1. Scorable(c, s) /\ c.metric # "CUSTOM" /\ Fed(c, s, A) # <<>> /\ Fed(c, s, B) # <<>>
  BY StandaloneIs
<1>2. Scorable(c, t) /\ (\A part : Kept(c, t, part) = Kept(c, s, part)) /\ Fed(c, t, A) = Fed(c, s, A)
  BY <1>1, HiddenIs
<1> HIDE DEF t
<1>3. Fed(c, t, B) # <<>>
  <2>1. Cardinality(Kept(c, s, B)) # 0
    BY <1>1, FedIs
  <2>2. Cardinality(Kept(c, t, B)) # 0
    BY <1>2, <2>1
  <2> QED BY <1>2, <2>2, FedIs
<1>4. IsFile(t)
  BY <1>2 DEF Scorable
<1>5. Standalone(c, s) = [pub |-> createStreamingScorer(c.metric, Fed(c, s, A)),
                          priv |-> createStreamingScorer(c.metric, Fed(c, s, B))]
  BY <1>1, StandaloneIs
<1>6. Standalone(c, t) = [pub |-> createStreamingScorer(c.metric, Fed(c, t, A)),
                          priv |-> createStreamingScorer(c.metric, Fed(c, t, B))]
  BY <1>1, <1>2, <1>3, <1>4, StandaloneIs
<1>7. Standalone(c, s).pub = Standalone(c, t).pub
  BY <1>2, <1>5, <1>6
<1> QED BY <1>7 DEF t

LEMMA NowhereShows == \A c \in Competitions : c \notin OrderMattersIn \union PrivateShowsIn
<1>1. ASSUME NEW p \in Competitions \X Submissions,
             p[1].metric # "F1_SCORE", CoversTruth(p[1], p[2])
      PROVE  Standalone(p[1], p[2]) = Standalone(p[1], InTruthOrder(p[1], p[2]))
  <2>1. IsCompetition(p[1]) /\ IsFile(p[2])
    BY ScoreboardAssumption
  <2> QED BY <1>1, <2>1, OrderKept
<1>2. \A c \in Competitions : c \notin OrderMattersIn
  BY <1>1, Zenon DEF OrderMattersIn
<1>3. ASSUME NEW p \in Competitions \X Submissions, Standalone(p[1], p[2]) # Rejected
      PROVE  Standalone(p[1], p[2]).pub = Standalone(p[1], Hidden(p[1], p[2])).pub
  <2>1. IsCompetition(p[1]) /\ IsFile(p[2])
    BY ScoreboardAssumption
  <2> QED BY <1>3, <2>1, PrivateHidden
<1>4. \A c \in Competitions : c \notin PrivateShowsIn
  BY <1>3, Zenon DEF PrivateShowsIn
<1> QED BY <1>2, <1>4

\* In the competition of the leaderboard, the scores of a file do not change with
\* the order of its rows, nor its public score with its private rows.
THEOREM SplitAlwaysFollowsTruth == Spec => []SplitFollowsTruth
<1>1. comp \in Competitions => SplitFollowsTruth
  BY NowhereShows DEF SplitFollowsTruth
<1> QED BY <1>1, CompetitionKept, PTL
=============================================================================
