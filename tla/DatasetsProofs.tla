----------------------------- MODULE DatasetsProofs -----------------------------
(***************************************************************************)
(* What TLAPS proves of Datasets, for every number of uploads and of       *)
(* requests in flight.                                                     *)
(***************************************************************************)
EXTENDS Datasets, FiniteSetTheorems, TLAPS

Uploading(h) == request[h].pc \in {"received", "accepted", "putting", "put"}
HasFile(h) == request[h].pc \in {"received", "accepted", "putting"}
Downloading(h) == request[h].pc \in {"download", "link"}
Signing(n) == {h \in Handlers : At(h, "link") /\ N(h) = n}

Requests ==
  {Idle} \union [pc : {"received", "accepted", "download", "link"}, n : Upload]
         \union [pc : {"putting", "put"}, n : Upload, version : Nat]

Types ==
  /\ competition \in BOOLEAN
  /\ temp \subseteq Upload /\ objects \subseteq Upload
  /\ rows \subseteq [n : Upload, version : Nat, downloadCount : Nat]
  /\ request \in [Handlers -> Requests]
  /\ uploads \in 0..MaxUploads
  /\ links \in [Upload -> Nat] /\ fate \in [Upload -> Fates]

\* Who still works on an upload, and what has become of the others.
FateInv ==
  /\ \A n \in Upload : n > uploads => fate[n] = "none"
  /\ \A h \in Handlers : Uploading(h) => N(h) <= uploads /\ fate[N(h)] = "none"
  /\ \A h, k \in Handlers : Uploading(h) /\ Uploading(k) /\ N(h) = N(k) => h = k
  /\ \A h \in Handlers : Downloading(h) => fate[N(h)] = "stored"
  /\ \A r \in rows : fate[r.n] = "stored"
  /\ \A n \in Upload : links[n] # 0 => fate[n] = "stored"

\* RowsUsable, with the downloads that are counted and not yet signed.
RowInv ==
  /\ IsFiniteSet(rows)
  /\ Versions = 1..Cardinality(rows)
  /\ \A r, s \in rows : r.version = s.version => r = s
  /\ \A r \in rows : r.n \in objects /\ links[r.n] + Cardinality(Signing(r.n)) <= r.downloadCount
  /\ \A h \in Handlers : At(h, "put") => N(h) \in objects

\* FilesAccountedFor, with the step that owns a file or an object.
FileInv ==
  /\ \A n \in temp : \/ fate[n] \in {"refused", "stopped"}
                     \/ \E h \in Handlers : HasFile(h) /\ N(h) = n
  /\ \A n \in objects : \/ fate[n] \in {"aborted", "stopped"}
                        \/ \E r \in rows : r.n = n
                        \/ ~competition
                        \/ \E h \in Handlers : At(h, "put") /\ N(h) = n

-----------------------------------------------------------------------------
\* Types.

LEMMA InitTypes == Init => Types
BY DatasetsAssumption DEF Init, Types, Requests, Fates, Upload

\* A request and its upload, by its step.
LEMMA RequestKinds ==
  ASSUME Types, NEW h \in Handlers
  PROVE  /\ request[h].pc \in {"idle", "received", "accepted", "download", "link", "putting", "put"}
         /\ ~At(h, "idle") => N(h) \in Upload
         /\ ~At(h, "idle") => request[h].pc \in {"received", "accepted", "download", "link", "putting", "put"}
         /\ request[h].pc \in {"received", "accepted", "download", "link"} =>
              request[h] = [pc |-> request[h].pc, n |-> N(h)]
         /\ request[h].pc \in {"putting", "put"} =>
              /\ request[h].version \in Nat
              /\ request[h] = [pc |-> request[h].pc, n |-> N(h), version |-> request[h].version]
         /\ At(h, "idle") => request[h] = Idle
BY DEF Types, Requests, Idle, At, N

LEMMA LatestNat == RowInv /\ Types => Latest \in Nat /\ Latest = Cardinality(rows)
<1> SUFFICES ASSUME RowInv, Types PROVE Latest \in Nat /\ Latest = Cardinality(rows)
  OBVIOUS
<1>1. Cardinality(rows) \in Nat /\ Versions = 1..Cardinality(rows)
  BY FS_CardinalityType DEF RowInv
<1>2. \E v \in Versions \union {0} : \A w \in Versions : w <= v
  <2>1. Cardinality(rows) \in Versions \union {0}
    BY <1>1
  <2> QED
    BY <1>1, <2>1
<1>3. Latest \in Versions \union {0} /\ \A w \in Versions : w <= Latest
  BY <1>2 DEF Latest
<1> QED
  BY <1>1, <1>3

LEMMA NextTypes == Types /\ RowInv /\ [Next]_vars => Types'
<1> SUFFICES ASSUME Types, RowInv, [Next]_vars PROVE Types'
  OBVIOUS
<1> USE DatasetsAssumption DEF Types, Requests
<1>1. ASSUME NEW h \in Handlers, Receive(h) PROVE Types'
  BY <1>1 DEF Receive, Upload
<1>2. ASSUME NEW h \in Handlers, ScreenOut(h) \/ Refuse(h) PROVE Types'
  BY <1>2, RequestKinds DEF ScreenOut, Refuse, End, Fates, At
<1>3. ASSUME NEW h \in Handlers, Accept(h) PROVE Types'
  <2>1. request'[h] = [pc |-> "accepted", n |-> N(h)] /\ N(h) \in Upload
    BY <1>3, RequestKinds DEF Accept, Turn, At
  <2> QED
    BY <1>3, <2>1 DEF Accept, Turn
<1>4. ASSUME NEW h \in Handlers, ReadLatest(h) PROVE Types'
  BY <1>4, LatestNat, RequestKinds DEF ReadLatest, At, N
<1>5. ASSUME NEW h \in Handlers, PutObject(h) PROVE Types'
  <2>1. request'[h] = [pc |-> "put", n |-> N(h), version |-> request[h].version]
        /\ N(h) \in Upload /\ request[h].version \in Nat
    BY <1>5, RequestKinds DEF PutObject, Turn, At
  <2> QED
    BY <1>5, <2>1 DEF PutObject, Turn
<1>6. ASSUME NEW h \in Handlers, PutFails(h) \/ Abort(h) PROVE Types'
  BY <1>6, RequestKinds DEF PutFails, Abort, End, Fates, At
<1>7. ASSUME NEW h \in Handlers, Create(h) PROVE Types'
  BY <1>7, RequestKinds DEF Create, End, Fates, At
<1>8. ASSUME NEW h \in Handlers, DownloadRequest(h) PROVE Types'
  BY <1>8 DEF DownloadRequest
<1>9. ASSUME NEW h \in Handlers, CountDownload(h) PROVE Types'
  <2>1. N(h) \in Upload /\ request[h] = [pc |-> "download", n |-> N(h)]
    BY <1>9, RequestKinds DEF CountDownload, At
  <2>2. rows' \subseteq [n : Upload, version : Nat, downloadCount : Nat]
    BY <1>9 DEF CountDownload
  <2>3. request' \in [Handlers -> Requests] /\ fate' \in [Upload -> Fates]
    BY <1>9, <2>1 DEF CountDownload, Turn, End
  <2> QED
    BY <1>9, <2>2, <2>3 DEF CountDownload
<1>10. ASSUME NEW h \in Handlers, Sign(h) PROVE Types'
  BY <1>10, RequestKinds DEF Sign, End, At
<1>11. CASE DeleteCompetition
  BY <1>11 DEF DeleteCompetition
<1>12. CASE Stop
  BY <1>12 DEF Stop, Fates
<1>13. CASE UNCHANGED vars
  BY <1>13 DEF vars
<1> QED
  BY <1>1, <1>2, <1>3, <1>4, <1>5, <1>6, <1>7, <1>8, <1>9, <1>10, <1>11, <1>12, <1>13 DEF Next

-----------------------------------------------------------------------------
\* How uploads end.

\* A step of one request moves that request to a step pc or to its end.
Moves(h, pc) ==
  /\ request'[h].pc = pc /\ (pc # "idle" => N(h)' = N(h))
  /\ \A k \in Handlers : k # h => request'[k] = request[k]

LEMMA TurnMoves ==
  ASSUME Types, NEW h \in Handlers, ~At(h, "idle"),
         NEW pc \in {"accepted", "put", "link"}, Turn(h, pc)
  PROVE  Moves(h, pc) /\ fate' = fate
BY RequestKinds DEF Moves, Turn, At, N, Types

LEMMA EndMoves ==
  ASSUME Types, NEW h \in Handlers, ~At(h, "idle"), NEW how \in Fates, End(h, how)
  PROVE  /\ Moves(h, "idle") /\ fate' = [fate EXCEPT ![N(h)] = how] /\ N(h) \in Upload
BY RequestKinds DEF Moves, End, At, N, Types, Idle

LEMMA InitFate == Init => FateInv
BY DEF Init, FateInv, Idle, Uploading, Downloading, N

\* An upload that goes on.
LEMMA UploadTurnFate ==
  ASSUME Types, FateInv, NEW h \in Handlers, NEW pc, Uploading(h), Moves(h, pc),
         pc \in {"accepted", "putting", "put"}, UNCHANGED <<rows, uploads, links, fate>>
  PROVE  FateInv'
BY DEF FateInv, Moves, Uploading, Downloading, N

\* An upload that ends without a row.
LEMMA UploadEndFate ==
  ASSUME Types, FateInv, NEW h \in Handlers, NEW how \in Fates, Uploading(h), End(h, how),
         UNCHANGED <<rows, uploads, links>>
  PROVE  FateInv'
<1>1. ~At(h, "idle")
  BY DEF Uploading, At
<1>2. Moves(h, "idle") /\ fate' = [fate EXCEPT ![N(h)] = how] /\ N(h) \in Upload
  BY <1>1, EndMoves
<1>3. \A k \in Handlers : Downloading(k) => N(k) # N(h)
  BY DEF FateInv
<1>4. \A r \in rows : r.n # N(h)
  BY DEF FateInv
<1>5. links[N(h)] = 0
  BY <1>2 DEF FateInv
<1>6. \A k \in Handlers : ~At(k, "idle") => N(k) \in Upload
  BY RequestKinds
<1>7. \A k \in Handlers : k # h => request'[k] = request[k] /\ N(k)' = N(k)
  BY <1>2 DEF Moves, N
<1>8. ~Uploading(h)' /\ ~Downloading(h)'
  BY <1>2 DEF Moves, Uploading, Downloading
<1>9. \A n \in Upload : n # N(h) => fate'[n] = fate[n]
  BY <1>2 DEF Types
<1>10. \A n \in Upload : n > uploads' => fate'[n] = "none"
  <2>1. N(h) <= uploads
    BY DEF FateInv
  <2>2. \A n \in Upload : n > uploads => n # N(h)
    BY <1>2, <2>1, DatasetsAssumption DEF Upload, Types
  <2> QED
    BY <1>9, <2>2 DEF FateInv
<1>11. \A k \in Handlers : Uploading(k)' => Uploading(k) /\ k # h /\ N(k)' = N(k)
  BY <1>7, <1>8 DEF Uploading
<1>12. \A k \in Handlers : Uploading(k)' => N(k)' <= uploads' /\ fate'[N(k)'] = "none"
  <2> SUFFICES ASSUME NEW k \in Handlers, Uploading(k)'
               PROVE  N(k)' <= uploads' /\ fate'[N(k)'] = "none"
    OBVIOUS
  <2>1. Uploading(k) /\ k # h /\ N(k)' = N(k) /\ N(k) \in Upload
    BY <1>6, <1>11 DEF Uploading, At
  <2>2. N(k) # N(h) /\ N(k) <= uploads /\ fate[N(k)] = "none"
    BY <2>1 DEF FateInv
  <2> QED
    BY <1>9, <2>1, <2>2
<1>13. \A j, k \in Handlers : Uploading(j)' /\ Uploading(k)' /\ N(j)' = N(k)' => j = k
  BY <1>11 DEF FateInv
<1>14. \A k \in Handlers : Downloading(k)' => fate'[N(k)'] = "stored"
  <2> SUFFICES ASSUME NEW k \in Handlers, Downloading(k)'
               PROVE  fate'[N(k)'] = "stored"
    OBVIOUS
  <2>1. Downloading(k) /\ N(k)' = N(k) /\ N(k) \in Upload
    BY <1>6, <1>7, <1>8 DEF Downloading, At
  <2> QED
    BY <1>3, <1>9, <2>1 DEF FateInv
<1>15. \A r \in rows' : fate'[r.n] = "stored"
  BY <1>4, <1>9 DEF FateInv, Types
<1>16. \A n \in Upload : links'[n] # 0 => fate'[n] = "stored"
  BY <1>5, <1>9 DEF FateInv
<1> QED
  BY <1>10, <1>12, <1>13, <1>14, <1>15, <1>16 DEF FateInv

LEMMA NextFate == Types /\ RowInv /\ FateInv /\ [Next]_vars => FateInv'
<1> SUFFICES ASSUME Types, RowInv, FateInv, [Next]_vars PROVE FateInv'
  OBVIOUS
<1>0. \A k \in Handlers : ~At(k, "idle") => N(k) \in Upload
  BY RequestKinds
<1>1. ASSUME NEW h \in Handlers, Receive(h) PROVE FateInv'
  <2>1. /\ uploads + 1 \in Upload /\ uploads' = uploads + 1
        /\ request'[h].pc = "received" /\ N(h)' = uploads + 1
        /\ \A k \in Handlers : k # h => request'[k] = request[k] /\ N(k)' = N(k)
    BY <1>1, DatasetsAssumption DEF Receive, Types, N, Upload
  <2>2. \A n \in Upload : n > uploads' => fate'[n] = "none"
    BY <1>1, <2>1, DatasetsAssumption DEF Receive, FateInv, Types, Upload
  <2>3. fate[uploads + 1] = "none"
    BY <2>1 DEF FateInv, Types
  <2>4. \A k \in Handlers : k # h /\ Uploading(k)' => Uploading(k) /\ N(k) \in Nat /\ N(k) <= uploads
    BY <1>0, <2>1, DatasetsAssumption DEF FateInv, Uploading, At, Upload
  <2>5. \A k \in Handlers : Uploading(k)' => N(k)' <= uploads' /\ fate'[N(k)'] = "none"
    BY <1>1, <2>1, <2>3, <2>4 DEF FateInv, Types, Receive
  <2>6. \A j, k \in Handlers : Uploading(j)' /\ Uploading(k)' /\ N(j)' = N(k)' => j = k
    BY <2>1, <2>4 DEF FateInv, Types
  <2>7. \A k \in Handlers : Downloading(k)' => fate'[N(k)'] = "stored"
    BY <1>1, <2>1 DEF FateInv, Downloading, Receive
  <2> QED
    BY <1>1, <2>2, <2>5, <2>6, <2>7 DEF FateInv, Receive
<1>2. ASSUME NEW h \in Handlers, ScreenOut(h) \/ Refuse(h) \/ PutFails(h) \/ Abort(h) PROVE FateInv'
  BY <1>2, UploadEndFate DEF ScreenOut, Refuse, PutFails, Abort, Uploading, At, Fates
<1>3. ASSUME NEW h \in Handlers, Accept(h) \/ PutObject(h) PROVE FateInv'
  BY <1>3, TurnMoves, UploadTurnFate DEF Accept, PutObject, Uploading, At
<1>4. ASSUME NEW h \in Handlers, ReadLatest(h) PROVE FateInv'
  <2>1. Moves(h, "putting")
    BY <1>4, RequestKinds DEF ReadLatest, Moves, At, N, Types
  <2> QED
    BY <1>4, <2>1, UploadTurnFate DEF ReadLatest, Uploading, At
<1>5. ASSUME NEW h \in Handlers, Create(h) PROVE FateInv'
  <2>1. /\ Moves(h, "idle") /\ fate' = [fate EXCEPT ![N(h)] = "stored"] /\ N(h) \in Upload
    BY <1>5, EndMoves DEF Create, At, Fates
  <2>2. \A k \in Handlers : Uploading(k)' => Uploading(k) /\ k # h /\ N(k)' = N(k) /\ N(k) # N(h)
    BY <1>5, <2>1 DEF Moves, Uploading, N, FateInv, Create, At
  <2>3. \A k \in Handlers : Downloading(k)' => Downloading(k) /\ N(k)' = N(k)
    BY <2>1 DEF Moves, Downloading, N
  <2>4. N(h) <= uploads
    BY <1>5 DEF FateInv, Create, Uploading, At
  <2>5. \A n \in Upload : n > uploads' => fate'[n] = "none"
    BY <1>5, <2>1, <2>4, DatasetsAssumption DEF FateInv, Create, Types, Upload
  <2>6. \A r \in rows' : r \in rows \/ r.n = N(h)
    BY <1>5 DEF Create
  <2>7. \A k \in Handlers : Uploading(k)' => N(k)' <= uploads' /\ fate'[N(k)'] = "none"
    BY <1>0, <1>5, <2>1, <2>2 DEF FateInv, Types, Create, Uploading, At
  <2>8. \A k \in Handlers : Downloading(k)' => fate'[N(k)'] = "stored"
    BY <1>0, <2>1, <2>3 DEF FateInv, Types, Downloading, At
  <2>9. \A r \in rows' : fate'[r.n] = "stored"
    BY <2>1, <2>6 DEF FateInv, Types
  <2>10. \A n \in Upload : links'[n] # 0 => fate'[n] = "stored"
    BY <1>5, <2>1 DEF FateInv, Types, Create
  <2> QED
    BY <2>2, <2>5, <2>7, <2>8, <2>9, <2>10 DEF FateInv
<1>6. ASSUME NEW h \in Handlers, DownloadRequest(h) PROVE FateInv'
  <2>1. PICK r \in rows : request' = [request EXCEPT ![h] = [pc |-> "download", n |-> r.n]]
    BY <1>6 DEF DownloadRequest
  <2>2. request'[h].pc = "download" /\ N(h)' = r.n /\ fate[r.n] = "stored"
    BY <2>1 DEF Types, N, FateInv
  <2>3. \A k \in Handlers : k # h => request'[k] = request[k] /\ N(k)' = N(k)
    BY <2>1 DEF Types, N
  <2> QED
    BY <1>6, <2>2, <2>3 DEF FateInv, DownloadRequest, Uploading, Downloading
<1>7. ASSUME NEW h \in Handlers, CountDownload(h) PROVE FateInv'
  <2>1. N(h) \in Upload /\ fate[N(h)] = "stored" /\ ~At(h, "idle")
    BY <1>0, <1>7 DEF CountDownload, FateInv, Downloading, At
  <2>2. (Moves(h, "link") \/ Moves(h, "idle")) /\ fate' = fate
    <3>1. CASE Turn(h, "link")
      BY <2>1, <3>1, TurnMoves
    <3>2. CASE End(h, fate[N(h)])
      BY <2>1, <3>2, EndMoves DEF Types, Fates
    <3> QED
      BY <1>7, <3>1, <3>2 DEF CountDownload
  <2>3. \A s \in rows' : \E r \in rows : s.n = r.n
    BY <1>7 DEF CountDownload, Types
  <2> QED
    BY <1>7, <2>1, <2>2, <2>3 DEF FateInv, CountDownload, Moves, Uploading, Downloading, N, At
<1>8. ASSUME NEW h \in Handlers, Sign(h) PROVE FateInv'
  <2>1. N(h) \in Upload /\ fate[N(h)] = "stored" /\ ~At(h, "idle")
    BY <1>0, <1>8 DEF Sign, FateInv, Downloading, At
  <2>2. Moves(h, "idle") /\ fate' = fate
    BY <1>8, <2>1, EndMoves DEF Sign, Types, Fates
  <2>3. \A n \in Upload : n # N(h) => links'[n] = links[n]
    BY <1>8 DEF Sign, Types
  <2> QED
    BY <1>8, <2>1, <2>2, <2>3 DEF FateInv, Sign, Moves, Uploading, Downloading, N, At
<1>9. CASE DeleteCompetition
  BY <1>9 DEF DeleteCompetition, FateInv, Uploading, Downloading, N
<1>10. CASE Stop
  <2>1. \A k \in Handlers : request'[k] = Idle
    BY <1>10 DEF Stop
  <2>2. \A k \in Handlers : ~Uploading(k)' /\ ~Downloading(k)'
    BY <2>1 DEF Uploading, Downloading, Idle
  <2>3. \A n \in Upload : fate[n] = "stored" => fate'[n] = "stored"
    BY <1>10 DEF Stop, Types
  <2>4. \A n \in Upload : n > uploads' => fate'[n] = "none"
    <3> SUFFICES ASSUME NEW n \in Upload, n > uploads' PROVE fate'[n] = "none"
      OBVIOUS
    <3>1. fate[n] = "none"
      BY <1>10 DEF Stop, FateInv
    <3>2. \A h \in Handlers : ~At(h, "idle") => N(h) # n
      <4> SUFFICES ASSUME NEW h \in Handlers, ~At(h, "idle"), N(h) = n PROVE FALSE
        OBVIOUS
      <4>1. Uploading(h) \/ Downloading(h)
        BY RequestKinds DEF Uploading, Downloading
      <4> QED
        BY <1>10, <3>1, <4>1, DatasetsAssumption DEF Stop, FateInv, Types, Upload
    <3> QED
      BY <1>10, <3>1, <3>2 DEF Stop
  <2> QED
    BY <1>10, <2>2, <2>3, <2>4 DEF Stop, FateInv, Types
<1>11. CASE UNCHANGED vars
  BY <1>11 DEF vars, FateInv, Uploading, Downloading, N
<1> QED
  BY <1>1, <1>2, <1>3, <1>4, <1>5, <1>6, <1>7, <1>8, <1>9, <1>10, <1>11 DEF Next

-----------------------------------------------------------------------------
\* The rows.

LEMMA InitRows == Init => RowInv
<1> SUFFICES ASSUME Init PROVE RowInv
  OBVIOUS
<1>1. rows = {} /\ IsFiniteSet(rows) /\ Cardinality(rows) = 0 /\ Versions = {}
  BY FS_EmptySet DEF Init, Versions
<1> QED
  BY <1>1 DEF RowInv, Init, Idle, At

LEMMA SigningFinite ==
  ASSUME NEW n
  PROVE  IsFiniteSet(Signing(n)) /\ Cardinality(Signing(n)) \in Nat
<1>1. Signing(n) \in SUBSET Handlers
  BY DEF Signing
<1> QED
  BY <1>1, DatasetsAssumption, FS_Subset, FS_CardinalityType

\* A step of h that leaves rows, objects and links, and those who sign, alone.
LEMMA RowsKept ==
  ASSUME RowInv, NEW h \in Handlers,
         \A k \in Handlers : k # h => request'[k] = request[k],
         ~At(h, "link"), ~At(h, "link")', At(h, "put")' => N(h)' \in objects',
         objects \subseteq objects', UNCHANGED <<rows, links>>
  PROVE  RowInv'
<1>1. \A n : Signing(n)' = Signing(n)
  BY DEF Signing, At, N
<1>2. \A k \in Handlers : At(k, "put")' => N(k)' \in objects'
  BY DEF At, N, RowInv
<1> QED
  BY <1>1, <1>2 DEF RowInv, Versions

\* The new row is numbered after all others.
LEMMA CreateRows ==
  ASSUME Types, FateInv, RowInv, NEW h \in Handlers, Create(h)
  PROVE  RowInv'
<1> DEFINE new == [n |-> N(h), version |-> request[h].version, downloadCount |-> 0]
           c == Cardinality(rows)
<1>1. c \in Nat /\ Versions = 1..c /\ new.version = c + 1
  BY LatestNat, FS_CardinalityType DEF RowInv, Create
<1>2. rows' = rows \union {new} /\ new \notin rows
  BY <1>1 DEF Create, Versions
<1>3. IsFiniteSet(rows') /\ Cardinality(rows') = c + 1
  BY <1>2, FS_AddElement DEF RowInv
<1>4. Versions' = 1..Cardinality(rows')
  <2>1. Versions' = Versions \union {c + 1}
    BY <1>1, <1>2 DEF Versions
  <2> QED
    BY <1>1, <1>3, <2>1
<1>5. \A r, s \in rows' : r.version = s.version => r = s
  BY <1>1, <1>2 DEF RowInv, Versions
<1>6. N(h) \in objects /\ N(h) \in Upload /\ fate[N(h)] = "none" /\ links[N(h)] = 0
  BY RequestKinds DEF Create, RowInv, FateInv, Uploading, At
<1>7. Moves(h, "idle")
  BY EndMoves DEF Create, At, Fates
<1>8. \A n : Signing(n)' = Signing(n)
  BY <1>7 DEF Signing, Moves, N, At, Create
<1>9. Signing(N(h)) = {}
  BY <1>6 DEF Signing, FateInv, Downloading, At
<1>10. ASSUME NEW r \in rows'
       PROVE  r.n \in objects' /\ links'[r.n] + Cardinality(Signing(r.n)') <= r.downloadCount
  <2>1. CASE r \in rows
    BY <1>8, <2>1 DEF RowInv, Create
  <2>2. CASE r = new
    BY <1>6, <1>8, <1>9, <2>2, FS_EmptySet DEF Create
  <2> QED
    BY <1>2, <2>1, <2>2
<1>11. \A k \in Handlers : At(k, "put")' => N(k)' \in objects'
  BY <1>7 DEF Moves, At, N, RowInv, Create
<1> QED
  BY <1>3, <1>4, <1>5, <1>10, <1>11 DEF RowInv

\* A download is counted in its row, if that is still there, and then signs.
LEMMA CountRows ==
  ASSUME Types, FateInv, RowInv, NEW h \in Handlers, CountDownload(h)
  PROVE  RowInv'
<1>1. ~At(h, "idle") /\ ~At(h, "link") /\ ~At(h, "put") /\ N(h) \in Upload
  BY RequestKinds DEF CountDownload, At
<1>2. PICK m \in Upload : m = N(h)
  BY <1>1
<1>3. PICK f : f = [r \in rows |-> IF r.n = m THEN [r EXCEPT !.downloadCount = @ + 1] ELSE r]
  OBVIOUS
<1>4. \A r \in rows : /\ f[r].n = r.n /\ f[r].version = r.version
                      /\ r.n \in Upload /\ r.downloadCount \in Nat
                      /\ f[r].downloadCount = IF r.n = m THEN r.downloadCount + 1 ELSE r.downloadCount
  BY <1>3 DEF Types
<1>5. f = [r \in rows |-> f[r]] /\ rows' = {f[r] : r \in rows}
  BY <1>2, <1>3 DEF CountDownload
<1>6. f \in Bijection(rows, rows')
  <2>1. f \in Surjection(rows, rows')
    BY <1>5 DEF Surjection
  <2>2. ASSUME NEW r \in rows, NEW s \in rows, f[r] = f[s] PROVE r = s
    <3>1. r.version = s.version
      BY <1>4, <2>2
    <3> QED
      BY <3>1 DEF RowInv
  <2>3. f \in Injection(rows, rows')
    BY <1>5, <2>2 DEF Injection, IsInjective
  <2> QED
    BY <2>1, <2>3 DEF Bijection
<1>7. IsFiniteSet(rows') /\ Cardinality(rows') = Cardinality(rows)
  BY <1>6, FS_Bijection DEF ExistsBijection, RowInv
<1>8. Versions' = Versions
  BY <1>4, <1>5 DEF Versions
<1>9. ASSUME NEW s \in rows', NEW t \in rows', s.version = t.version PROVE s = t
  <2>1. PICK q \in rows, r \in rows : s = f[q] /\ t = f[r]
    BY <1>5
  <2>2. q.version = r.version
    BY <1>4, <1>9, <2>1
  <2> QED
    BY <2>1, <2>2 DEF RowInv
<1>10. CASE \E r \in rows : r.n = m
  <2>1. Moves(h, "link")
    BY <1>1, <1>2, <1>10, TurnMoves DEF CountDownload
  <2>2. h \notin Signing(m) /\ Signing(m)' = Signing(m) \union {h}
    BY <1>1, <1>2, <2>1 DEF Moves, Signing, At, N
  <2>3. \A n : n # m => Signing(n)' = Signing(n)
    BY <1>1, <1>2, <2>1 DEF Moves, Signing, At, N
  <2>4. Cardinality(Signing(m)') = Cardinality(Signing(m)) + 1
    BY <2>2, SigningFinite, FS_AddElement
  <2>5. ASSUME NEW s \in rows'
        PROVE  s.n \in objects' /\ links'[s.n] + Cardinality(Signing(s.n)') <= s.downloadCount
    <3>1. PICK r \in rows : s = f[r]
      BY <1>5
    <3>2. s.n = r.n /\ links[r.n] \in Nat /\ Cardinality(Signing(r.n)) \in Nat /\ r.downloadCount \in Nat
          /\ s.downloadCount = IF r.n = m THEN r.downloadCount + 1 ELSE r.downloadCount
      BY <1>4, <3>1, SigningFinite DEF Types
    <3>3. r.n \in objects /\ links[r.n] + Cardinality(Signing(r.n)) <= r.downloadCount
      BY DEF RowInv
    <3>4. Cardinality(Signing(s.n)') =
            IF r.n = m THEN Cardinality(Signing(r.n)) + 1 ELSE Cardinality(Signing(r.n))
      BY <2>3, <2>4, <3>2
    <3> QED
      BY <3>2, <3>3, <3>4 DEF CountDownload
  <2>6. \A k \in Handlers : At(k, "put")' => N(k)' \in objects'
    BY <2>1 DEF Moves, At, N, RowInv, CountDownload
  <2> QED
    BY <1>7, <1>8, <1>9, <2>5, <2>6 DEF RowInv
<1>11. CASE ~\E r \in rows : r.n = m
  <2>1. Moves(h, "idle")
    BY <1>1, <1>2, <1>11, EndMoves DEF CountDownload, Types
  <2>2. rows' = rows
    BY <1>2, <1>11 DEF CountDownload
  <2>3. \A k \in Handlers : k # h => request'[k] = request[k]
    BY <2>1 DEF Moves
  <2>4. ~At(h, "link")' /\ ~At(h, "put")'
    BY <2>1 DEF Moves, At
  <2> QED
    BY <1>1, <2>2, <2>3, <2>4, RowsKept DEF CountDownload
<1> QED
  BY <1>10, <1>11

\* A link is handed out, or not, and its request ends.
LEMMA SignRows ==
  ASSUME Types, FateInv, RowInv, NEW h \in Handlers, Sign(h)
  PROVE  RowInv'
<1>1. ~At(h, "idle") /\ At(h, "link") /\ N(h) \in Upload
  BY RequestKinds DEF Sign, At
<1>2. PICK m \in Upload : m = N(h)
  BY <1>1
<1>3. Moves(h, "idle")
  BY <1>1, EndMoves DEF Sign, Types
<1>4. h \in Signing(m) /\ Signing(m)' = Signing(m) \ {h}
  BY <1>1, <1>2, <1>3 DEF Moves, Signing, At, N
<1>5. \A n : n # m => Signing(n)' = Signing(n)
  BY <1>1, <1>2, <1>3 DEF Moves, Signing, At, N
<1>6. Cardinality(Signing(m)') = Cardinality(Signing(m)) - 1
  BY <1>4, SigningFinite, FS_RemoveElement
<1>7. PICK signed \in 0..1 : links' = [links EXCEPT ![m] = @ + signed]
  BY <1>2 DEF Sign
<1>8. ASSUME NEW r \in rows
      PROVE  links'[r.n] + Cardinality(Signing(r.n)') <= r.downloadCount
  <2>1. /\ r.n \in Upload /\ links[r.n] \in Nat /\ Cardinality(Signing(r.n)) \in Nat
        /\ r.downloadCount \in Nat
    BY SigningFinite DEF Types
  <2>2. links[r.n] + Cardinality(Signing(r.n)) <= r.downloadCount
    BY DEF RowInv
  <2>3. links'[r.n] = IF r.n = m THEN links[r.n] + signed ELSE links[r.n]
    BY <1>7, <2>1 DEF Types
  <2>4. Cardinality(Signing(r.n)') =
          IF r.n = m THEN Cardinality(Signing(r.n)) - 1 ELSE Cardinality(Signing(r.n))
    BY <1>5, <1>6
  <2> QED
    BY <2>1, <2>2, <2>3, <2>4
<1>9. \A k \in Handlers : At(k, "put")' => N(k)' \in objects'
  BY <1>3 DEF Moves, At, N, RowInv, Sign
<1> QED
  BY <1>8, <1>9 DEF RowInv, Versions, Sign

LEMMA NextRows == Types /\ FateInv /\ RowInv /\ [Next]_vars => RowInv'
<1> SUFFICES ASSUME Types, FateInv, RowInv, [Next]_vars PROVE RowInv'
  OBVIOUS
<1>1. ASSUME NEW h \in Handlers, Receive(h) PROVE RowInv'
  <2>1. /\ \A k \in Handlers : k # h => request'[k] = request[k]
        /\ ~At(h, "link") /\ ~At(h, "link")' /\ ~At(h, "put")'
    BY <1>1 DEF Receive, Types, At
  <2> QED
    BY <1>1, <2>1, RowsKept DEF Receive
<1>2. ASSUME NEW h \in Handlers, ScreenOut(h) \/ Refuse(h) \/ PutFails(h) \/ Abort(h) PROVE RowInv'
  <2>1. Moves(h, "idle") /\ ~At(h, "link")
    BY <1>2, EndMoves DEF ScreenOut, Refuse, PutFails, Abort, At, Fates
  <2>2. ~At(h, "link")' /\ ~At(h, "put")' /\ \A k \in Handlers : k # h => request'[k] = request[k]
    BY <2>1 DEF Moves, At
  <2> QED
    BY <1>2, <2>1, <2>2, RowsKept DEF ScreenOut, Refuse, PutFails, Abort
<1>3. ASSUME NEW h \in Handlers, Accept(h) PROVE RowInv'
  <2>1. Moves(h, "accepted") /\ ~At(h, "link")
    BY <1>3, TurnMoves DEF Accept, At
  <2>2. ~At(h, "link")' /\ ~At(h, "put")' /\ \A k \in Handlers : k # h => request'[k] = request[k]
    BY <2>1 DEF Moves, At
  <2> QED
    BY <1>3, <2>1, <2>2, RowsKept DEF Accept
<1>4. ASSUME NEW h \in Handlers, ReadLatest(h) PROVE RowInv'
  <2>1. /\ \A k \in Handlers : k # h => request'[k] = request[k]
        /\ ~At(h, "link") /\ ~At(h, "link")' /\ ~At(h, "put")'
    BY <1>4 DEF ReadLatest, Types, At
  <2> QED
    BY <1>4, <2>1, RowsKept DEF ReadLatest
<1>5. ASSUME NEW h \in Handlers, PutObject(h) PROVE RowInv'
  <2>1. Moves(h, "put") /\ ~At(h, "link")
    BY <1>5, TurnMoves DEF PutObject, At
  <2>2. ~At(h, "link")' /\ N(h)' \in objects' /\ \A k \in Handlers : k # h => request'[k] = request[k]
    BY <1>5, <2>1 DEF Moves, At, PutObject
  <2> QED
    BY <1>5, <2>1, <2>2, RowsKept DEF PutObject
<1>6. ASSUME NEW h \in Handlers, Create(h) PROVE RowInv'
  BY <1>6, CreateRows
<1>7. ASSUME NEW h \in Handlers, DownloadRequest(h) PROVE RowInv'
  <2>1. /\ \A k \in Handlers : k # h => request'[k] = request[k]
        /\ ~At(h, "link") /\ ~At(h, "link")' /\ ~At(h, "put")'
    BY <1>7 DEF DownloadRequest, Types, At
  <2> QED
    BY <1>7, <2>1, RowsKept DEF DownloadRequest
<1>8. ASSUME NEW h \in Handlers, CountDownload(h) PROVE RowInv'
  BY <1>8, CountRows
<1>9. ASSUME NEW h \in Handlers, Sign(h) PROVE RowInv'
  BY <1>9, SignRows
<1>10. CASE DeleteCompetition
  <2>1. rows' = {} /\ Versions' = {} /\ Cardinality(rows') = 0 /\ IsFiniteSet(rows')
    BY <1>10, FS_EmptySet DEF DeleteCompetition, Versions
  <2>2. \A k \in Handlers : At(k, "put")' => N(k)' \in objects'
    BY <1>10 DEF DeleteCompetition, RowInv, At, N
  <2> QED
    BY <2>1, <2>2 DEF RowInv
<1>11. CASE Stop
  <2>1. \A k \in Handlers : ~At(k, "link")' /\ ~At(k, "put")'
    BY <1>11 DEF Stop, At, Idle
  <2>2. \A n : Cardinality(Signing(n)') = 0
    BY <2>1, FS_EmptySet DEF Signing
  <2>3. ASSUME NEW r \in rows PROVE links[r.n] + Cardinality(Signing(r.n)') <= r.downloadCount
    <3>1. links[r.n] \in Nat /\ Cardinality(Signing(r.n)) \in Nat /\ r.downloadCount \in Nat
      BY SigningFinite DEF Types
    <3> QED
      BY <2>2, <3>1 DEF RowInv
  <2> QED
    BY <1>11, <2>1, <2>3 DEF Stop, RowInv, Versions
<1>12. CASE UNCHANGED vars
  BY <1>12 DEF vars, RowInv, Versions, Signing, At, N
<1> QED
  BY <1>1, <1>2, <1>3, <1>4, <1>5, <1>6, <1>7, <1>8, <1>9, <1>10, <1>11, <1>12 DEF Next

-----------------------------------------------------------------------------
\* The files and the objects.

\* A request that ends accounts for its file and its object by its fate.
LEMMA UploadEndFiles ==
  ASSUME Types, FateInv, FileInv, NEW h \in Handlers, NEW how \in Fates, Uploading(h), End(h, how),
         temp' \subseteq temp, N(h) \in temp' => how = "refused",
         At(h, "put") => how \in {"aborted", "stored"},
         how = "stored" => \E r \in rows' : r.n = N(h),
         rows \subseteq rows', UNCHANGED <<competition, objects>>
  PROVE  FileInv'
<1>1. ~At(h, "idle")
  BY DEF Uploading, At
<1>2. PICK m \in Upload : m = N(h)
  BY <1>1, RequestKinds
<1>3. Moves(h, "idle") /\ fate' = [fate EXCEPT ![m] = how]
  BY <1>1, <1>2, EndMoves
<1>4. \A k \in Handlers : k # h => request'[k] = request[k] /\ N(k)' = N(k)
  BY <1>3 DEF Moves, N
<1>5. ASSUME NEW n \in temp'
      PROVE  fate'[n] \in {"refused", "stopped"} \/ \E k \in Handlers : HasFile(k)' /\ N(k)' = n
  <2>1. CASE n = m
    BY <1>2, <1>3, <2>1 DEF Types
  <2>2. CASE n # m
    <3>1. fate'[n] = fate[n]
      BY <1>3, <2>2 DEF Types
    <3>2. \A k \in Handlers : HasFile(k) /\ N(k) = n => HasFile(k)' /\ N(k)' = n
      BY <1>2, <1>4, <2>2 DEF HasFile
    <3> QED
      BY <3>1, <3>2 DEF FileInv
  <2> QED
    BY <2>1, <2>2
<1>6. ASSUME NEW n \in objects'
      PROVE  \/ fate'[n] \in {"aborted", "stopped"}
             \/ \E r \in rows' : r.n = n
             \/ ~competition'
             \/ \E k \in Handlers : At(k, "put")' /\ N(k)' = n
  <2>1. CASE n = m /\ At(h, "put")
    BY <1>2, <1>3, <2>1 DEF Types
  <2>2. CASE ~(n = m /\ At(h, "put"))
    <3>1. fate[n] \in {"aborted", "stopped"} => fate'[n] = fate[n]
      BY <1>2, <1>3 DEF Types, FateInv
    <3>2. \A k \in Handlers : At(k, "put") /\ N(k) = n => At(k, "put")' /\ N(k)' = n
      BY <1>2, <1>4, <2>2 DEF At
    <3> QED
      BY <3>1, <3>2 DEF FileInv
  <2> QED
    BY <2>1, <2>2
<1> QED
  BY <1>5, <1>6 DEF FileInv

\* A step that touches no file: a file or an object keeps who works on it.
LEMMA FilesKept ==
  ASSUME FileInv, NEW h \in Handlers,
         \A k \in Handlers : k # h => request'[k] = request[k],
         HasFile(h) => HasFile(h)' /\ N(h)' = N(h), ~At(h, "put"),
         \A r \in rows : \E s \in rows' : s.n = r.n,
         UNCHANGED <<competition, temp, objects, fate>>
  PROVE  FileInv'
<1>1. \A k \in Handlers : HasFile(k) => HasFile(k)' /\ N(k)' = N(k)
  BY DEF HasFile, N
<1>2. \A k \in Handlers : At(k, "put") => At(k, "put")' /\ N(k)' = N(k)
  BY DEF At, N
<1> QED
  BY <1>1, <1>2 DEF FileInv

LEMMA InitFiles == Init => FileInv
BY DEF Init, FileInv

LEMMA NextFiles == Types /\ FateInv /\ FileInv /\ [Next]_vars => FileInv'
<1> SUFFICES ASSUME Types, FateInv, FileInv, [Next]_vars PROVE FileInv'
  OBVIOUS
<1>1. ASSUME NEW h \in Handlers, Receive(h) PROVE FileInv'
  <2>1. /\ request'[h].pc = "received" /\ N(h)' = uploads + 1 /\ At(h, "idle")
        /\ \A k \in Handlers : k # h => request'[k] = request[k] /\ N(k)' = N(k)
    BY <1>1 DEF Receive, Types, N
  <2>2. \A k \in Handlers : HasFile(k) => HasFile(k)' /\ N(k)' = N(k)
    BY <2>1 DEF HasFile, At
  <2>3. \A k \in Handlers : At(k, "put") => At(k, "put")' /\ N(k)' = N(k)
    BY <2>1 DEF At
  <2>4. HasFile(h)' /\ N(h)' = uploads + 1
    BY <2>1 DEF HasFile
  <2> QED
    BY <1>1, <2>2, <2>3, <2>4 DEF FileInv, Receive
<1>2. ASSUME NEW h \in Handlers, ScreenOut(h) \/ Refuse(h) \/ PutFails(h) \/ Abort(h) PROVE FileInv'
  <2>1. Uploading(h)
    BY <1>2 DEF ScreenOut, Refuse, PutFails, Abort, Uploading, At
  <2>2. N(h) \notin temp \/ ~At(h, "put")
    <3> SUFFICES ASSUME N(h) \in temp, At(h, "put") PROVE FALSE
      OBVIOUS
    <3>1. PICK k \in Handlers : HasFile(k) /\ N(k) = N(h)
      BY <2>1 DEF FileInv, FateInv
    <3> QED
      BY <2>1, <3>1 DEF FateInv, HasFile, Uploading, At
  <2>3. CASE ScreenOut(h)
    BY <2>1, <2>3, UploadEndFiles DEF ScreenOut, At, Fates
  <2>4. CASE Refuse(h)
    BY <2>1, <2>4, UploadEndFiles DEF Refuse, At, Fates
  <2>5. CASE PutFails(h)
    BY <2>1, <2>5, UploadEndFiles DEF PutFails, At, Fates
  <2>6. CASE Abort(h)
    BY <2>1, <2>2, <2>6, UploadEndFiles DEF Abort, At, Fates
  <2> QED
    BY <1>2, <2>3, <2>4, <2>5, <2>6
<1>3. ASSUME NEW h \in Handlers, Accept(h) PROVE FileInv'
  <2>1. Moves(h, "accepted") /\ fate' = fate
    BY <1>3, TurnMoves DEF Accept, At
  <2>2. /\ \A k \in Handlers : k # h => request'[k] = request[k]
        /\ HasFile(h)' /\ N(h)' = N(h) /\ ~At(h, "put")
    BY <1>3, <2>1 DEF Moves, HasFile, At, Accept
  <2> QED
    BY <1>3, <2>1, <2>2, FilesKept DEF Accept
<1>4. ASSUME NEW h \in Handlers, ReadLatest(h) PROVE FileInv'
  <2>1. /\ \A k \in Handlers : k # h => request'[k] = request[k]
        /\ HasFile(h)' /\ N(h)' = N(h) /\ ~At(h, "put")
    BY <1>4 DEF ReadLatest, HasFile, At, N, Types
  <2> QED
    BY <1>4, <2>1, FilesKept DEF ReadLatest
<1>5. ASSUME NEW h \in Handlers, PutObject(h) PROVE FileInv'
  <2>1. PICK m \in Upload : m = N(h)
    BY <1>5, RequestKinds DEF PutObject, At
  <2>2. Moves(h, "put") /\ fate' = fate
    BY <1>5, TurnMoves DEF PutObject, At
  <2>3. \A k \in Handlers : k # h => request'[k] = request[k] /\ N(k)' = N(k)
    BY <2>2 DEF Moves, N
  <2>4. At(h, "put")' /\ N(h)' = m
    BY <2>1, <2>2 DEF Moves, At
  <2>5. \A k \in Handlers : HasFile(k) /\ N(k) # m => HasFile(k)' /\ N(k)' = N(k)
    BY <2>1, <2>3 DEF HasFile
  <2>6. \A k \in Handlers : At(k, "put") => At(k, "put")' /\ N(k)' = N(k)
    BY <1>5, <2>3 DEF At, PutObject
  <2>7. temp' = temp \ {m} /\ objects' = objects \union {m} /\ UNCHANGED <<rows, competition>>
    BY <1>5, <2>1 DEF PutObject
  <2> QED
    BY <2>2, <2>4, <2>5, <2>6, <2>7 DEF FileInv
<1>6. ASSUME NEW h \in Handlers, Create(h) PROVE FileInv'
  <2>1. Uploading(h) /\ At(h, "put")
    BY <1>6 DEF Create, Uploading, At
  <2>2. N(h) \notin temp
    <3> SUFFICES ASSUME N(h) \in temp PROVE FALSE
      OBVIOUS
    <3>1. PICK k \in Handlers : HasFile(k) /\ N(k) = N(h)
      BY <2>1 DEF FileInv, FateInv
    <3> QED
      BY <2>1, <3>1 DEF FateInv, HasFile, Uploading, At
  <2>3. End(h, "stored") /\ UNCHANGED <<competition, temp, objects>> /\ rows \subseteq rows'
    BY <1>6 DEF Create
  <2>4. \E r \in rows' : r.n = N(h)
    <3> DEFINE new == [n |-> N(h), version |-> request[h].version, downloadCount |-> 0]
    <3>1. new \in rows'
      BY <1>6 DEF Create
    <3>2. new.n = N(h)
      OBVIOUS
    <3> QED
      BY <3>1, <3>2
  <2> QED
    BY <2>1, <2>2, <2>3, <2>4, UploadEndFiles DEF Fates
<1>7. ASSUME NEW h \in Handlers, DownloadRequest(h) PROVE FileInv'
  <2>1. \A k \in Handlers : k # h => request'[k] = request[k]
    BY <1>7 DEF DownloadRequest, Types
  <2> QED
    BY <1>7, <2>1, FilesKept DEF DownloadRequest, HasFile, At
<1>8. ASSUME NEW h \in Handlers, CountDownload(h) PROVE FileInv'
  <2>1. ~At(h, "idle") /\ ~HasFile(h) /\ ~At(h, "put") /\ N(h) \in Upload
    BY <1>8, RequestKinds DEF CountDownload, At, HasFile
  <2>2. (Moves(h, "link") \/ Moves(h, "idle")) /\ fate' = fate
    <3>1. CASE Turn(h, "link")
      BY <2>1, <3>1, TurnMoves
    <3>2. CASE End(h, fate[N(h)])
      BY <2>1, <3>2, EndMoves DEF Types, Fates
    <3> QED
      BY <1>8, <3>1, <3>2 DEF CountDownload
  <2>3. \A r \in rows : \E s \in rows' : s.n = r.n
    <3> SUFFICES ASSUME NEW r \in rows PROVE \E s \in rows' : s.n = r.n
      OBVIOUS
    <3>1. PICK s \in rows' : s = IF r.n = N(h) THEN [r EXCEPT !.downloadCount = @ + 1] ELSE r
      BY <1>8 DEF CountDownload
    <3> QED
      BY <3>1 DEF Types
  <2>4. \A k \in Handlers : k # h => request'[k] = request[k]
    BY <2>2 DEF Moves
  <2> QED
    BY <1>8, <2>1, <2>2, <2>3, <2>4, FilesKept DEF CountDownload
<1>9. ASSUME NEW h \in Handlers, Sign(h) PROVE FileInv'
  <2>1. ~At(h, "idle") /\ ~HasFile(h) /\ ~At(h, "put") /\ N(h) \in Upload
    BY <1>9, RequestKinds DEF Sign, At, HasFile
  <2>2. Moves(h, "idle") /\ fate' = fate
    BY <1>9, <2>1, EndMoves DEF Sign, Types, Fates
  <2>3. \A k \in Handlers : k # h => request'[k] = request[k]
    BY <2>2 DEF Moves
  <2> QED
    BY <1>9, <2>1, <2>2, <2>3, FilesKept DEF Sign
<1>10. CASE DeleteCompetition
  BY <1>10 DEF DeleteCompetition, FileInv, HasFile, N
<1>11. CASE Stop
  <2>1. ASSUME NEW k \in Handlers, Uploading(k), NEW n, n = N(k) PROVE fate'[n] = "stopped"
    <3>1. n \in Upload /\ fate[n] = "none"
      BY <2>1, RequestKinds DEF FateInv, Uploading, At
    <3> QED
      BY <1>11, <2>1, <3>1 DEF Stop, Uploading, At
  <2>2. \A n \in Upload : fate[n] # "none" => fate'[n] = fate[n]
    BY <1>11 DEF Stop
  <2>3. ASSUME NEW n \in temp' PROVE fate'[n] \in {"refused", "stopped"}
    BY <1>11, <2>1, <2>2, <2>3 DEF Stop, FileInv, Types, HasFile, Uploading
  <2>4. ASSUME NEW n \in objects'
        PROVE  fate'[n] \in {"aborted", "stopped"} \/ (\E r \in rows' : r.n = n) \/ ~competition'
    BY <1>11, <2>1, <2>2, <2>4 DEF Stop, FileInv, Types, At, Uploading
  <2> QED
    BY <2>3, <2>4 DEF FileInv
<1>12. CASE UNCHANGED vars
  BY <1>12 DEF vars, FileInv, HasFile, At, N
<1> QED
  BY <1>1, <1>2, <1>3, <1>4, <1>5, <1>6, <1>7, <1>8, <1>9, <1>10, <1>11, <1>12 DEF Next

-----------------------------------------------------------------------------
LEMMA DatasetsInductive == Spec => [](Types /\ FateInv /\ RowInv /\ FileInv)
<1>1. Init => Types /\ FateInv /\ RowInv /\ FileInv
  BY InitTypes, InitFate, InitRows, InitFiles
<1>2. Types /\ FateInv /\ RowInv /\ FileInv /\ [Next]_vars => (Types /\ FateInv /\ RowInv /\ FileInv)'
  BY NextTypes, NextFate, NextRows, NextFiles
<1> QED
  BY <1>1, <1>2, PTL DEF Spec

\* Whatever overlaps, fails or stops: versions without a gap, an object for
\* every row, and no link that was not counted.
THEOREM DatasetsAreUsable == Spec => []RowsUsable
<1>1. Types /\ RowInv => RowsUsable
  <2> SUFFICES ASSUME Types, RowInv, NEW r \in rows PROVE links[r.n] <= r.downloadCount
    BY DEF RowInv, RowsUsable
  <2>1. links[r.n] \in Nat /\ r.downloadCount \in Nat /\ Cardinality(Signing(r.n)) \in Nat
    BY SigningFinite DEF Types
  <2> QED
    BY <2>1 DEF RowInv
<1> QED
  BY <1>1, DatasetsInductive, PTL

\* What an upload leaves behind is known from how its request ended.
THEOREM DatasetFilesAreAccountedFor == Spec => []FilesAccountedFor
<1>1. FileInv => FilesAccountedFor
  BY DEF FileInv, FilesAccountedFor, HasFile, At
<1> QED
  BY <1>1, DatasetsInductive, PTL
=============================================================================
