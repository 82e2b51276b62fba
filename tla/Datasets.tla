------------------------------- MODULE Datasets -------------------------------
(***************************************************************************)
(* The datasets of one competition: files a host uploads, kept as objects  *)
(* in MinIO and as versioned rows.                                         *)
(*                                                                         *)
(* An upload passes from a temporary file to an object to a row.  The      *)
(* object is put inside the transaction that numbers the row, which the    *)
(* database may abort and Prisma ends after five seconds; nothing takes    *)
(* the object back.  Upload n is named by its number, as is its temporary  *)
(* file and its object (both names carry a fresh UUID).                    *)
(***************************************************************************)
EXTENDS Integers, FiniteSets

CONSTANTS
  Handlers,   \* requests in flight at one time
  MaxUploads  \* bound: uploads received

ASSUME DatasetsAssumption == IsFiniteSet(Handlers) /\ MaxUploads \in Nat

VARIABLES
  competition,  \* it exists
  temp,         \* files in os.tmpdir()
  objects,      \* objects under datasets/
  rows,         \* datasets: upload, version, downloadCount
  request,      \* per handler, the progress of its request
  uploads,      \* uploads received so far
  links,        \* history, per upload: download links handed out
  fate          \* history, per upload: how its request ended

vars == <<competition, temp, objects, rows, request, uploads, links, fate>>

Upload == 1..MaxUploads
Fates == {"none", "screened", "refused", "aborted", "stopped", "stored"}
Idle == [pc |-> "idle"]
Versions == {r.version : r \in rows}
Latest == CHOOSE v \in Versions \union {0} : \A w \in Versions : w <= v

Init ==
  /\ competition = TRUE
  /\ temp = {} /\ objects = {} /\ rows = {}
  /\ request = [h \in Handlers |-> Idle]
  /\ uploads = 0
  /\ links = [n \in Upload |-> 0] /\ fate = [n \in Upload |-> "none"]

-----------------------------------------------------------------------------
At(h, pc) == request[h].pc = pc
N(h) == request[h].n
Turn(h, pc) == request' = [request EXCEPT ![h].pc = pc] /\ UNCHANGED fate
End(h, how) == request' = [request EXCEPT ![h] = Idle] /\ fate' = [fate EXCEPT ![N(h)] = how]

\* multer has written the file of a HOST or an ADMIN to the disk.
Receive(h) ==
  /\ At(h, "idle") /\ uploads < MaxUploads
  /\ uploads' = uploads + 1
  /\ temp' = temp \union {uploads + 1}
  /\ request' = [request EXCEPT ![h] = [pc |-> "received", n |-> uploads + 1]]
  /\ UNCHANGED <<competition, objects, rows, links, fate>>

\* validateMagicBytes, antivirusScan: a file whose content is not that of its
\* extension, or that is infected, is deleted.
ScreenOut(h) ==
  /\ At(h, "received")
  /\ temp' = temp \ {N(h)} /\ End(h, "screened")
  /\ UNCHANGED <<competition, objects, rows, uploads, links>>

\* Nothing deletes the file when the scan that is required cannot be made,
\* when a field is refused (uploadDatasetSchema), when the competition is
\* gone or when the caller does not host it.
Refuse(h) ==
  /\ At(h, "received") /\ End(h, "refused")
  /\ UNCHANGED <<competition, temp, objects, rows, uploads, links>>

\* The caller hosts the competition, which is not read again.
Accept(h) ==
  /\ At(h, "received") /\ competition /\ Turn(h, "accepted")
  /\ UNCHANGED <<competition, temp, objects, rows, uploads, links>>

\* The transaction begins: the version is the one after the latest it sees.
ReadLatest(h) ==
  /\ At(h, "accepted")
  /\ request' = [request EXCEPT ![h] = [pc |-> "putting", n |-> @.n, version |-> Latest + 1]]
  /\ UNCHANGED <<competition, temp, objects, rows, uploads, links, fate>>

PutObject(h) ==
  /\ At(h, "putting") /\ Turn(h, "put")
  /\ objects' = objects \union {N(h)} /\ temp' = temp \ {N(h)}
  /\ UNCHANGED <<competition, rows, uploads, links>>

\* Faulty variant: the file is deleted only when the object is there.
PutFailsKeepsFile(h) ==
  /\ At(h, "putting") /\ End(h, "aborted")
  /\ UNCHANGED <<competition, temp, objects, rows, uploads, links>>

\* The file is deleted (finally), the transaction is rolled back.
PutFails(h) ==
  /\ At(h, "putting") /\ End(h, "aborted")
  /\ temp' = temp \ {N(h)}
  /\ UNCHANGED <<competition, objects, rows, uploads, links>>

\* Faulty variant: no Serializable isolation and no UNIQUE version.
CreateUnchecked(h) ==
  /\ At(h, "put") /\ competition
  /\ rows' = rows \union {[n |-> N(h), version |-> request[h].version, downloadCount |-> 0]}
  /\ End(h, "stored")
  /\ UNCHANGED <<competition, temp, objects, uploads, links>>

\* The row refers to the competition, and its version is still the next one:
\* an upload that committed since ReadLatest makes this one fail.
Create(h) ==
  /\ At(h, "put") /\ competition /\ request[h].version = Latest + 1
  /\ rows' = rows \union {[n |-> N(h), version |-> request[h].version, downloadCount |-> 0]}
  /\ End(h, "stored")
  /\ UNCHANGED <<competition, temp, objects, uploads, links>>

\* The insert fails, or the transaction has lasted too long.
Abort(h) ==
  /\ At(h, "put") /\ End(h, "aborted")
  /\ UNCHANGED <<competition, temp, objects, rows, uploads, links>>

-----------------------------------------------------------------------------
\* getDownloadUrl: the row and the enrollment are read; then the count, then
\* the link.
DownloadRequest(h) ==
  \E r \in rows :
    /\ At(h, "idle") /\ r.downloadCount = 0   \* bound: one download of a dataset
    /\ request' = [request EXCEPT ![h] = [pc |-> "download", n |-> r.n]]
    /\ UNCHANGED <<competition, temp, objects, rows, uploads, links, fate>>

\* A row that is gone ends the request.
CountDownload(h) ==
  /\ At(h, "download")
  /\ rows' = {IF r.n = N(h) THEN [r EXCEPT !.downloadCount = @ + 1] ELSE r : r \in rows}
  /\ IF \E r \in rows : r.n = N(h) THEN Turn(h, "link") ELSE End(h, fate[N(h)])
  /\ UNCHANGED <<competition, temp, objects, uploads, links>>

\* The link is signed without a look at the object; signing may fail.
Sign(h) ==
  /\ At(h, "link") /\ End(h, fate[N(h)])
  /\ \E signed \in 0..1 : links' = [links EXCEPT ![N(h)] = @ + signed]
  /\ UNCHANGED <<competition, temp, objects, rows, uploads>>

-----------------------------------------------------------------------------
\* CompetitionService.delete: the rows go with it.
DeleteCompetition ==
  /\ competition /\ competition' = FALSE /\ rows' = {}
  /\ UNCHANGED <<temp, objects, request, uploads, links, fate>>

\* The process stops: its requests are lost.
Stop ==
  /\ \E h \in Handlers : ~At(h, "idle")
  /\ request' = [h \in Handlers |-> Idle]
  /\ fate' = [n \in Upload |->
       IF fate[n] = "none" /\ \E h \in Handlers : ~At(h, "idle") /\ N(h) = n THEN "stopped" ELSE fate[n]]
  /\ UNCHANGED <<competition, temp, objects, rows, uploads, links>>

Next ==
  \/ \E h \in Handlers :
       \/ Receive(h) \/ ScreenOut(h) \/ Refuse(h) \/ Accept(h)
       \/ ReadLatest(h) \/ PutObject(h) \/ PutFails(h) \/ Create(h) \/ Abort(h)
       \/ DownloadRequest(h) \/ CountDownload(h) \/ Sign(h)
  \/ DeleteCompetition \/ Stop

Spec == Init /\ [][Next]_vars

-----------------------------------------------------------------------------
\* The datasets of a competition are numbered 1, 2, ... without a gap however
\* many uploads overlap, each has its object, whatever failed around it, and
\* its download count is no less than the links handed out (upload: the
\* object before the row; getDownloadUrl: the count before the link).
RowsUsable ==
  /\ Versions = 1..Cardinality(rows)
  /\ \A r \in rows : r.n \in objects /\ links[r.n] <= r.downloadCount

\* What an upload leaves behind is known from how it ended: a temporary file
\* without a request is of one that was refused after the scan or stopped,
\* and an object without a row is of one that was aborted or stopped, or of a
\* deleted competition; an infected file and a stored one leave none (the
\* finally of upload, the unlinks of dataset.routes.ts).
FilesAccountedFor ==
  LET busy == {N(h) : h \in {h \in Handlers : ~At(h, "idle")}}
  IN  /\ \A n \in temp \ busy : fate[n] \in {"refused", "stopped"}
      /\ \A n \in objects \ busy :
           \/ fate[n] \in {"aborted", "stopped"}
           \/ \E r \in rows : r.n = n
           \/ ~competition
=============================================================================
