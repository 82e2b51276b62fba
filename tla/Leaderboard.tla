------------------------------ MODULE Leaderboard ------------------------------
(***************************************************************************)
(* The leaderboard of one competition: the LeaderboardEntry rows the       *)
(* scoring worker keeps, and the requests that rank them.  A worker's      *)
(* computation and its faults belong to Evaluation and ScoringPipeline;    *)
(* here a file is scored in one step, with the outcome Outcome gives it.   *)
(*                                                                         *)
(* Requests read the Redis copy of the first page, then the entries, then  *)
(* write the copy: each await is a step, and scores land in between.       *)
(***************************************************************************)
EXTENDS Integers, FiniteSets, Sequences

CONSTANTS
  Competitions,   \* records with at least a metric
  Users,
  Files,          \* the files a user may have scored
  Outcome,        \* <<competition, file>> -> [pub, priv], or NoScore
  NoScore,        \* the file was refused
  NoEntry, NoPage,
  Readers,        \* requests in flight
  Ascending,      \* LOWER_IS_BETTER: metrics of which a smaller score wins
  Limit,          \* rows of a page: 50, the page size that is cached
  Ttl,            \* life of the cached page: 120 s
  MaxFiles        \* bound: files scored

Score == [pub : Int, priv : Int]

ASSUME LeaderboardAssumption ==
  /\ IsFiniteSet(Users)
  /\ Outcome \in [Competitions \X Files -> Score \union {NoScore}]
  /\ NoScore \notin Score /\ NoEntry \notin Score
  /\ Limit \in Nat \ {0} /\ Ttl \in Nat \ {0} /\ MaxFiles \in Nat

VARIABLES
  comp,     \* the competition
  ended,    \* its status is COMPLETED or ARCHIVED
  scored,   \* history, per user: the results of the files scored so far
  files,    \* files scored so far
  entry,    \* LeaderboardEntry per user: best public, best private
  cache,    \* leaderboard:cache:<id>:public, a page
  ttl,      \* life left of cache
  reader    \* progress of each request, then the list it answers

vars == <<comp, ended, scored, files, entry, cache, ttl, reader>>

-----------------------------------------------------------------------------
\* Order and ranks.

Lower == comp.metric \in Ascending
Better(a, b) == IF Lower THEN a < b ELSE a > b
Ranked == {u \in Users : entry[u] # NoEntry}

\* orderBy one score; rows of equal score come in any order.
Orders(field) ==
  {o \in [1..Cardinality(Ranked) -> Ranked] :
     /\ \A i, j \in DOMAIN o : o[i] = o[j] => i = j
     /\ \A i, j \in DOMAIN o : i < j => ~Better(entry[o[j]][field], entry[o[i]][field])}

\* skip and take
Slice(o, offset) ==
  LET last == IF offset + Limit < Len(o) THEN offset + Limit ELSE Len(o)
  IN  SubSeq(o, offset + 1, last)

\* Faulty variant: no ties.
IndexRanks(rows, offset) == [i \in DOMAIN rows |-> [rows[i] EXCEPT !.rank = offset + i]]

\* A row keeps the rank of the row before it when their scores are equal, and
\* otherwise gets its position: within a page, that of the first of its equals.
FirstEqual(rows, i) ==
  CHOOSE j \in 1..i : /\ rows[j].score = rows[i].score
                      /\ \A k \in 1..(j - 1) : rows[k].score # rows[i].score

assignTiedRanks(rows, offset) ==
  [i \in DOMAIN rows |-> [rows[i] EXCEPT !.rank = offset + FirstEqual(rows, i)]]

Row(u, field) == [user |-> u, score |-> entry[u][field], rank |-> 0]
PageOf(o, field, offset) ==
  LET s == Slice(o, offset) IN assignTiedRanks([i \in DOMAIN s |-> Row(s[i], field)], offset)
Pages(field, offset) == {PageOf(o, field, offset) : o \in Orders(field)}

-----------------------------------------------------------------------------
Answers == {"public", "later", "private", "shakeup", "csv"}
Idle == [pc |-> "idle", page |-> <<>>]

Init ==
  /\ comp \in Competitions
  /\ ended = FALSE
  /\ scored = [u \in Users |-> {}] /\ files = 0
  /\ entry = [u \in Users |-> NoEntry]
  /\ cache = NoPage /\ ttl = 0
  /\ reader = [r \in Readers |-> Idle]

\* Faulty variant: the entry takes the last score instead of the best one.
LastScore(existing, incoming) == incoming

compareBest(existing, incoming) == IF Better(existing, incoming) THEN existing ELSE incoming

\* Faulty variant: the better public score brings its private score along.
UpsertByPublic(u, new) ==
  entry' = [entry EXCEPT ![u] =
    IF @ = NoEntry \/ compareBest(IF @ = NoEntry THEN 0 ELSE @.pub, new.pub) = new.pub THEN new ELSE @]

upsertLeaderboardEntry(u, new) ==
  entry' = [entry EXCEPT ![u] =
    IF @ = NoEntry THEN new
    ELSE [pub |-> compareBest(@.pub, new.pub), priv |-> compareBest(@.priv, new.priv)]]

\* A worker scores a file; the cached page is left as it is.
ScoreFile(u, f) ==
  LET result == Outcome[<<comp, f>>]
  IN  /\ files < MaxFiles /\ files' = files + 1
      /\ IF result = NoScore THEN UNCHANGED <<scored, entry>>
         ELSE /\ scored' = [scored EXCEPT ![u] = @ \union {result}]
              /\ upsertLeaderboardEntry(u, result)
      /\ UNCHANGED <<comp, ended, cache, ttl, reader>>

Complete ==
  /\ ~ended /\ ended' = TRUE
  /\ UNCHANGED <<comp, scored, files, entry, cache, ttl, reader>>

BoardUnchanged == UNCHANGED <<comp, ended, scored, files, entry, cache, ttl>>
Turn(r, pc, page) == reader' = [reader EXCEPT ![r] = [pc |-> pc, page |-> page]]

\* A request that reads once and answers.
Respond(r, kind, pages) ==
  /\ reader[r].pc = "idle"
  /\ \E page \in pages : Turn(r, kind, page)
  /\ BoardUnchanged

\* The answer reaches the client.
Deliver(r) ==
  /\ reader[r].pc \in Answers
  /\ reader' = [reader EXCEPT ![r] = Idle]
  /\ BoardUnchanged

\* getPublicLeaderboard, page 1: the copy, when there is one.
GetCached(r) ==
  /\ reader[r].pc = "idle"
  /\ IF cache # NoPage THEN Turn(r, "public", cache) ELSE Turn(r, "missed", <<>>)
  /\ BoardUnchanged

\* The entries of the page are read and ranked.
ReadFirstPage(r) ==
  /\ reader[r].pc = "missed"
  /\ \E page \in Pages("pub", 0) : Turn(r, "read", page)
  /\ BoardUnchanged

\* Faulty variant: set instead of setex.
StoreForever(r) ==
  /\ reader[r].pc = "read"
  /\ cache' = reader[r].page /\ ttl' = 0
  /\ Turn(r, "public", reader[r].page)
  /\ UNCHANGED <<comp, ended, scored, files, entry>>

\* redis.setex, then the answer.
StorePage(r) ==
  /\ reader[r].pc = "read"
  /\ cache' = reader[r].page /\ ttl' = Ttl
  /\ Turn(r, "public", reader[r].page)
  /\ UNCHANGED <<comp, ended, scored, files, entry>>

\* Another page, or another page size: never cached.
GetLaterPage(r) ==
  \E k \in 1..Cardinality(Users) : Respond(r, "later", Pages("pub", k * Limit) \ {<<>>})

\* getPrivateLeaderboard: 403 before the competition has ended.
GetPrivate(r) == ended /\ Respond(r, "private", Pages("priv", 0))

\* getShakeup: a row's rank in the private order against its rank in the
\* public one, without ties.  The rows come by public score, and the stable
\* sort by private score keeps that order between equals.
Shakeup(o, p) ==
  LET publicRank(u) == CHOOSE i \in DOMAIN o : o[i] = u
  IN  [k \in DOMAIN p |-> [user |-> p[k], score |-> entry[p[k]].priv, rank |-> k,
                           rankChange |-> publicRank(p[k]) - k]]

StableSort(o, p) ==
  \A i, j \in DOMAIN o, k, l \in DOMAIN p :
    /\ o[i] = p[k] /\ o[j] = p[l] /\ entry[o[i]].priv = entry[o[j]].priv
    /\ i < j
    => k < l

GetShakeup(r) ==
  ended /\ Respond(r, "shakeup", {Shakeup(q[1], q[2]) :
             q \in {q \in Orders("pub") \X Orders("priv") : StableSort(q[1], q[2])}})

\* exportCsv: numbered rows by public score.
ExportCsv(r) ==
  Respond(r, "csv", {[i \in DOMAIN o |-> [Row(o[i], "pub") EXCEPT !.rank = i]] : o \in Orders("pub")})

\* Faulty variant: the life of a copy that is gone goes on falling.
TickAlways ==
  /\ ttl' = ttl - 1
  /\ cache' = IF ttl = 1 THEN NoPage ELSE cache
  /\ UNCHANGED <<comp, ended, scored, files, entry, reader>>

\* Time passes for the copy, which disappears at the end of its life.
Tick ==
  /\ ttl > 0
  /\ ttl' = ttl - 1
  /\ cache' = IF ttl = 1 THEN NoPage ELSE cache
  /\ UNCHANGED <<comp, ended, scored, files, entry, reader>>

Serve(r) == ReadFirstPage(r) \/ StorePage(r)

Next ==
  \/ \E u \in Users, f \in Files : ScoreFile(u, f)
  \/ Complete
  \/ \E r \in Readers : \/ GetCached(r) \/ ReadFirstPage(r) \/ StorePage(r) \/ Deliver(r)
                        \/ GetLaterPage(r) \/ GetPrivate(r) \/ GetShakeup(r) \/ ExportCsv(r)
  \/ Tick

Spec == Init /\ [][Next]_vars

\* Redis expires keys, and a request that has begun runs to its end.
FairSpec == Spec /\ WF_vars(Tick) /\ \A r \in Readers : WF_vars(Serve(r))

-----------------------------------------------------------------------------
IsPage(p) ==
  /\ p \in Seq({p[i] : i \in DOMAIN p})
  /\ \A i \in DOMAIN p : p[i].user \in Users /\ p[i].score \in Int /\ p[i].rank \in Int

TypeOK ==
  /\ comp \in Competitions
  /\ ended \in BOOLEAN
  /\ scored \in [Users -> SUBSET Score] /\ files \in 0..MaxFiles
  /\ entry \in [Users -> Score \union {NoEntry}]
  /\ cache # NoPage => IsPage(cache)
  /\ ttl \in 0..Ttl
  /\ \A r \in Readers : reader[r].pc \in {"idle", "missed", "read"} \union Answers /\ IsPage(reader[r].page)

\* The entries keep the promise of BestScores (upsertLeaderboardEntry).
Best == INSTANCE BestScores WITH lower <- Lower, accepted <- scored, best <- entry
BestScoresSpec == Best!Spec

\* Whatever order the scores land in and however often a user scores, the
\* entry holds the best public and, apart from it, the best private score of
\* the accepted files (upsertLeaderboardEntry, LeaderboardEntry).
EntryIsBest ==
  \A u \in Users :
    IF scored[u] = {} THEN entry[u] = NoEntry
    ELSE /\ entry[u] # NoEntry
         /\ \E x \in scored[u] : entry[u].pub = x.pub
         /\ \E x \in scored[u] : entry[u].priv = x.priv
         /\ \A x \in scored[u] : /\ ~Better(x.pub, entry[u].pub)
                                 /\ ~Better(x.priv, entry[u].priv)

\* The cached page may lag behind the entries, but it never shows a user a
\* score better than the one the entry holds, nor a user without an entry
\* (getPublicLeaderboard stores what it read before the last scores).
CachedNeverAhead ==
  cache # NoPage =>
    \A i \in DOMAIN cache : LET row == cache[i] IN
      /\ entry[row.user] # NoEntry
      /\ ~Better(row.score, entry[row.user].pub)

\* A row's rank on the page that begins after offset rows.
Exact(page, field, offset) ==
  \A i \in DOMAIN page :
    LET beaten == Cardinality({u \in Ranked : Better(entry[u][field], page[i].score)})
    IN  page[i].rank = IF beaten < offset THEN offset + 1 ELSE beaten + 1

\* What the list a request comes to owes, by the step it comes to.
RankOf(page, pc) ==
  CASE pc = "read"    -> Exact(page, "pub", 0)
    [] pc = "later"   -> \E k \in 1..Cardinality(Users) : Exact(page, "pub", k * Limit)
    [] pc = "private" -> Exact(page, "priv", 0)
    [] OTHER -> \A i, j \in DOMAIN page :
                  Better(page[i].score, page[j].score) => page[i].rank < page[j].rank

\* The rank of a row counts the entries that beat it, so that equal scores
\* share a rank and the next rank skips; only a tie that began on the page
\* before restarts at the first rank of its page (assignTiedRanks).  The lists
\* that number their rows give a strictly better score a smaller number, also
\* when the copy they come from is stale (getShakeup, exportCsv).
RanksCountBetter ==
  [][\A r \in Readers :
       reader'[r].pc # reader[r].pc => RankOf(reader'[r].page, reader'[r].pc)]_vars

\* Nobody deletes the cached page when a score lands; still, once scores stop
\* landing, what readers find in it is the current leaderboard or nothing:
\* late StorePage steps run out and the copy expires (redis.setex 120 s).
EventuallyFresh == <>[](cache = NoPage \/ cache \in Pages("pub", 0))
=============================================================================
