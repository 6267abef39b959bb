------------------------------- MODULE Files -------------------------------
(***************************************************************************)
(* The files attached to a plan's content: their rows and their objects in *)
(* the R2 bucket, two stores no transaction spans.                         *)
(*                                                                         *)
(* The routes carry no plan id, so PlanAccessGuard is not on them: whom    *)
(* the row-level policies let through is let through, and the entitlement  *)
(* checks ask for the caller's own tier and usage (a contact's are outside *)
(* this plan, hence unconstrained).                                        *)
(*                                                                         *)
(* A client puts the object with a presigned URL, or the parts of a        *)
(* multipart upload, and then says that the upload is complete.  Only if   *)
(* it names the parts does the server turn to the bucket; otherwise it     *)
(* takes the client's word.  Sizes are in MB, one for all files.  Left     *)
(* out: lists and downloads, which only read, and names and types.         *)
(***************************************************************************)
EXTENDS PlanContent, FiniteSetsExt

CONSTANTS
    FileIds,        \* files, each id used once
    FileRequests,   \* requests on files in flight at once
    Multipart,      \* those above the multipart threshold
    SizeMb          \* size of a file

ASSUME FileAssumption ==
    /\ Null \notin FileIds /\ Multipart \subseteq FileIds
    /\ SizeMb \in Nat
    /\ IsFiniteSet(FileIds) /\ IsFiniteSet(FileRequests) /\ FileRequests # {}

VARIABLES
    file,       \* the table
    object,     \* the bucket: per file none, parts of a multipart upload, or the object
    url,        \* files whose upload URL is valid
    freq,       \* requests on files
    \* Observation only
    taken,      \* file ids ever given out
    foreign,    \* files uploaded by contacts
    early,      \* files called complete, without parts, before their object was there
    lost,       \* rows a removal left when it had deleted their objects
    unseen      \* files inserted under a file that was being removed

fileVars == <<file, object, url, freq, taken, foreign, early, lost, unseen>>
allVars == <<vars, fileVars>>

NoFile == [row |-> Null, parent |-> Null, status |-> "pending", shared |-> FALSE]
FileRow == [row : Ids, parent : FileIds \union {Null},
            status : {"pending", "uploading", "complete"}, shared : BOOLEAN]

\* assemble: a completion that names the parts.
FileOps == {"init", "complete", "assemble", "share", "revoke", "remove"}

(***************************************************************************)
(* admitted   the entitlements guard has passed (uploads)                  *)
(* checked    parent, size and parent file are verified                    *)
(* inserted   the row is inserted; its foreign keys hold parent rows       *)
(* found      findOneWithPillarCheck has returned                          *)
(* assembled  R2 has put the parts together                                *)
(* dropped    the objects are deleted, as far as R2 did                    *)
(***************************************************************************)
FileSteps == {"idle", "admitted", "checked", "inserted", "found", "assembled", "dropped"}

\* group: the files to remove, then those whose objects are deleted; kept: those
\* whose objects R2 did not delete.
FileRequest == [step : FileSteps, op : FileOps, by : Contacts \union {Owner, Null},
                file : FileIds \union {Null}, row : Ids \union {Null}, parent : FileIds \union {Null},
                group : SUBSET FileIds, kept : SUBSET FileIds]

Quiet == [step |-> "idle", op |-> "init", by |-> Null, file |-> Null, row |-> Null, parent |-> Null,
          group |-> {}, kept |-> {}]

FilesTypeOK ==
    /\ file \in [FileIds -> FileRow \union {NoFile}]
    /\ object \in [FileIds -> {"none", "parts", "stored"}]
    /\ url \subseteq FileIds
    /\ freq \in [FileRequests -> FileRequest]
    /\ taken \subseteq FileIds /\ foreign \subseteq FileIds
    /\ early \subseteq FileIds /\ lost \subseteq FileIds /\ unseen \subseteq FileIds

FilesInit ==
    /\ Init
    /\ file = [f \in FileIds |-> NoFile]
    /\ object = [f \in FileIds |-> "none"]
    /\ url = {}
    /\ freq = [q \in FileRequests |-> Quiet]
    /\ taken = {} /\ foreign = {} /\ early = {} /\ lost = {} /\ unseen = {}

IsFile(f) == file[f] # NoFile
FilesOf(i) == {f \in FileIds : IsFile(f) /\ file[f].row = i}
ChildrenOf(f) == {g \in FileIds : IsFile(g) /\ file[g].parent = f}

\* parent_file_id ... ON DELETE CASCADE, to any depth: in every set that has f
\* and the children of what it has.
Descendants(f) ==
    {g \in FileIds : \A S \in SUBSET FileIds :
        f \in S /\ (\A h \in S : ChildrenOf(h) \subseteq S) => g \in S}

(***************************************************************************)
(* Policies and entitlements                                               *)
(***************************************************************************)
\* The files' policies are those of the row they are attached to.
FileRead(u, f) == IsFile(f) /\ CanRead(u, KindOf[file[f].row])
FileModify(u, f) == IsFile(f) /\ CanModify(u)

UsageMb == SizeMb * Cardinality({f \in FileIds : IsFile(f)})

\* requirePillarAccessInTx and the guard's pillar check.
PillarOpen(u, i) == u = Owner => EvaluatePillarAccess(tier, Routes(KindOf[i]).pillar)

\* @RequiresQuota('storage_mb'): only that there is room at all.
RoomLeft(u) == u = Owner => EvaluateQuota(tier, "storage_mb", UsageMb)

\* requireFileSizeQuotaInTx: that this file fits.
SizeFits(u) == u = Owner => CanUploadFileSize(tier, UsageMb, SizeMb)

(***************************************************************************)
(* initiateUpload                                                          *)
(***************************************************************************)
FileGoto(q, step) == freq' = [freq EXCEPT ![q].step = step]
FileFinish(q) == freq' = [freq EXCEPT ![q] = Quiet]

Upload(u, f, i, p) ==
    [step |-> "admitted", op |-> "init", by |-> u, file |-> f, row |-> i, parent |-> p,
     group |-> {}, kept |-> {}]

InitGuard(q, u, f, i, p) ==
    /\ freq[q] = Quiet
    /\ f \notin taken
    /\ PillarOpen(u, i)
    /\ RoomLeft(u)
    /\ freq' = [freq EXCEPT ![q] = Upload(u, f, i, p)]
    /\ taken' = taken \union {f}
    /\ foreign' = IF u = Owner THEN foreign ELSE foreign \union {f}
    /\ UNCHANGED <<vars, file, object, url, early, lost, unseen>>

\* verifyParentExists, the size check, and the parent file of the same row.
InitCheck(q) ==
    LET r == freq[q]
    IN  /\ r.step = "admitted"
        /\ row[r.row].there /\ CanRead(r.by, KindOf[r.row])
        /\ SizeFits(r.by)
        /\ r.parent # Null => FileRead(r.by, r.parent) /\ file[r.parent].row = r.row
        /\ FileGoto(q, "checked")
        /\ UNCHANGED <<vars, file, object, url, taken, foreign, early, lost, unseen>>

\* A row another transaction is deleting: a reference to it waits, and fails.
BeingDeleted(i) ==
    \E p \in Requests : req[p].id = i /\ req[p].op = "delete" /\ req[p].step = "written" /\ req[p].hit

\* INSERT, then createMultipartUpload, which no rollback undoes.
InitInsert(q) ==
    LET r == freq[q]
    IN  /\ r.step = "checked"
        /\ row[r.row].there /\ CanModify(r.by)
        /\ ~BeingDeleted(r.row)
        /\ r.parent # Null => IsFile(r.parent)
        /\ FileGoto(q, "inserted")
        /\ object' = IF r.file \in Multipart THEN [object EXCEPT ![r.file] = "parts"] ELSE object
        /\ UNCHANGED <<vars, file, url, taken, foreign, early, lost, unseen>>

InitCommit(q) ==
    LET r == freq[q]
    IN  /\ r.step = "inserted"
        /\ file' = [file EXCEPT ![r.file] =
                      [row |-> r.row, parent |-> r.parent, shared |-> FALSE,
                       status |-> IF r.file \in Multipart THEN "uploading" ELSE "pending"]]
        /\ url' = url \union {r.file}
        /\ unseen' = IF \E p \in FileRequests : freq[p].op = "remove" /\ freq[p].file = r.parent
                     THEN unseen \union {r.file} ELSE unseen
        /\ FileFinish(q)
        /\ UNCHANGED <<vars, object, taken, foreign, early, lost>>

(***************************************************************************)
(* The client and the bucket                                               *)
(***************************************************************************)
\* A PUT to the presigned URL, which knows nothing of the row.
ClientPuts(f) ==
    /\ f \in url \ Multipart
    /\ object' = [object EXCEPT ![f] = "stored"]
    /\ early' = early \ {f} /\ lost' = lost \ {f}
    /\ UNCHANGED <<vars, file, url, freq, taken, foreign, unseen>>

\* expiresIn: an hour.
UrlExpires(f) ==
    /\ f \in url
    /\ url' = url \ {f}
    /\ UNCHANGED <<vars, file, object, freq, taken, foreign, early, lost, unseen>>

(***************************************************************************)
(* completeUpload, createShareLink, revokeShareLink                        *)
(***************************************************************************)
\* Mutation: a removal that forgets the children.
FoundAlone(op, u, f) ==
    [step |-> "found", op |-> op, by |-> u, file |-> f, row |-> Null, parent |-> Null,
     group |-> IF op = "remove" THEN {f} ELSE {}, kept |-> {}]

Found(op, u, f) ==
    [step |-> "found", op |-> op, by |-> u, file |-> f, row |-> Null, parent |-> Null,
     group |-> IF op = "remove" THEN {f} \union ChildrenOf(f) ELSE {}, kept |-> {}]

\* findOneWithPillarCheck
FindFile(q, op, u, f) ==
    /\ freq[q] = Quiet
    /\ FileRead(u, f)
    /\ PillarOpen(u, file[f].row)
    /\ freq' = [freq EXCEPT ![q] = Found(op, u, f)]
    /\ UNCHANGED <<vars, file, object, url, taken, foreign, lost, unseen>>

\* A file that is complete already is returned as it is.  Whether the object is
\* there, nobody looks; dto.parts is optional for every file.
CompleteSelect(q, u, f) ==
    /\ file[f].status # "complete"
    /\ \E op \in {"complete", "assemble"} :
          /\ FindFile(q, op, u, f)
          /\ early' = IF op = "complete" /\ object[f] # "stored" THEN early \union {f} ELSE early

\* completeMultipartUpload; it fails when there is no open upload.
CompleteAssemble(q) ==
    LET r == freq[q]
    IN  /\ r.step = "found" /\ r.op = "assemble"
        /\ object[r.file] = "parts"
        /\ object' = [object EXCEPT ![r.file] = "stored"]
        /\ early' = early \ {r.file}
        /\ FileGoto(q, "assembled")
        /\ UNCHANGED <<vars, file, url, taken, foreign, lost, unseen>>

\* Mutation: the row is taken to be there still.
UpdateFileAnyway(q, status, shared) ==
    LET r == freq[q]
    IN  file' = [file EXCEPT ![r.file].status = status, ![r.file].shared = shared]

\* An UPDATE by id, with the policy; it may find nothing.
UpdateFile(q, status, shared) ==
    LET r == freq[q]
    IN  file' = IF FileModify(r.by, r.file)
                THEN [file EXCEPT ![r.file].status = status, ![r.file].shared = shared]
                ELSE file

\* Mutation: the row is written without waiting for R2.
CompleteAtOnce(q) ==
    LET r == freq[q]
    IN  /\ r.op \in {"complete", "assemble"}
        /\ r.step \in {"found", "assembled"}
        /\ UpdateFile(q, "complete", file[r.file].shared)
        /\ FileFinish(q)
        /\ UNCHANGED <<vars, object, url, taken, foreign, early, lost, unseen>>

CompleteCommit(q) ==
    LET r == freq[q]
    IN  /\ \/ r.op = "complete" /\ r.step = "found"
           \/ r.op = "assemble" /\ r.step = "assembled"
        /\ UpdateFile(q, "complete", file[r.file].shared)
        /\ FileFinish(q)
        /\ UNCHANGED <<vars, object, url, taken, foreign, early, lost, unseen>>

\* Mutation: a link for a file that is not complete yet.
ShareSelectAny(q, u, f) == FindFile(q, "share", u, f) /\ UNCHANGED early

ShareSelect(q, u, f) ==
    file[f].status = "complete" /\ FindFile(q, "share", u, f) /\ UNCHANGED early

ShareCommit(q) ==
    LET r == freq[q]
    IN  /\ r.step = "found" /\ r.op = "share"
        /\ UpdateFile(q, file[r.file].status, TRUE)
        /\ FileFinish(q)
        /\ UNCHANGED <<vars, object, url, taken, foreign, early, lost, unseen>>

RevokeSelect(q, u, f) == FindFile(q, "revoke", u, f) /\ UNCHANGED early

RevokeCommit(q) ==
    LET r == freq[q]
    IN  /\ r.step = "found" /\ r.op = "revoke"
        /\ UpdateFile(q, file[r.file].status, FALSE)
        /\ FileFinish(q)
        /\ UNCHANGED <<vars, object, url, taken, foreign, early, lost, unseen>>

(***************************************************************************)
(* remove                                                                  *)
(***************************************************************************)
RemoveSelect(q, u, f) == FindFile(q, "remove", u, f) /\ UNCHANGED early

\* deleteObject for the file and its children; failures are only logged.  An
\* unfinished multipart upload is not an object, and stays.
RemoveObjects(q) ==
    LET r == freq[q]
    IN  /\ r.step = "found" /\ r.op = "remove"
        /\ \E done \in SUBSET r.group :
              /\ object' = [f \in FileIds |-> IF f \in done /\ object[f] = "stored" THEN "none"
                                              ELSE object[f]]
              /\ freq' = [freq EXCEPT ![q].step = "dropped", ![q].group = done,
                                      ![q].kept = r.group \ done]
        /\ UNCHANGED <<vars, file, url, taken, foreign, early, lost, unseen>>

\* What a removal that ends without deleting the row has deleted all the same.
LeftBehind(q) == lost \union {f \in freq[q].group : freq[q].step = "dropped" /\ IsFile(f)}

\* DELETE, with the policy and the cascade; it waits for uncommitted children.
RemoveCommit(q) ==
    LET r == freq[q]
        gone == IF FileModify(r.by, r.file) THEN Descendants(r.file) ELSE {}
    IN  /\ r.step = "dropped"
        /\ \A p \in FileRequests : freq[p].step = "inserted" => freq[p].parent \notin gone
        /\ file' = [f \in FileIds |-> IF f \in gone THEN NoFile ELSE file[f]]
        /\ lost' = LeftBehind(q) \ gone
        /\ FileFinish(q)
        /\ UNCHANGED <<vars, object, url, taken, foreign, early, unseen>>

\* What is committed or done at R2 stays.
FileRequestFails(q) ==
    /\ freq[q] # Quiet
    /\ FileFinish(q)
    /\ lost' = LeftBehind(q)
    /\ UNCHANGED <<vars, file, object, url, taken, foreign, early, unseen>>

\* shareExpiresAt passes: accessSharedFile no longer finds the file.
ShareExpires(f) ==
    /\ file[f].shared
    /\ file' = [file EXCEPT ![f].shared = FALSE]
    /\ UNCHANGED <<vars, object, url, freq, taken, foreign, early, lost, unseen>>

(***************************************************************************)
(* Content and files together                                              *)
(***************************************************************************)
\* The foreign keys of files: a deleted row takes its files' rows along, but
\* not their objects; its DELETE waits for a file that is being inserted.
RowsCascade ==
    /\ file' = [f \in FileIds |-> IF IsFile(f) /\ ~row'[file[f].row].there THEN NoFile ELSE file[f]]
    /\ \A q \in Requests, p \in FileRequests :
          req'[q].op = "delete" /\ req[q].step = "read" /\ req'[q].step = "written"
            => ~(freq[p].step = "inserted" /\ freq[p].row = req[q].id)
    /\ UNCHANGED <<object, url, freq, taken, foreign, early, lost, unseen>>

AskFile(q) ==
    \E u \in Contacts \union {Owner}, f \in FileIds :
        \/ \E i \in used, p \in FileIds \union {Null} : InitGuard(q, u, f, i, p)
        \/ CompleteSelect(q, u, f)
        \/ ShareSelect(q, u, f)
        \/ RevokeSelect(q, u, f)
        \/ RemoveSelect(q, u, f)

FileProceed(q) ==
    \/ InitCheck(q) \/ InitInsert(q) \/ InitCommit(q)
    \/ CompleteAssemble(q) \/ CompleteCommit(q)
    \/ ShareCommit(q) \/ RevokeCommit(q)
    \/ RemoveObjects(q) \/ RemoveCommit(q)

FilesNext ==
    \/ Next /\ RowsCascade
    \/ \E q \in FileRequests : AskFile(q) \/ FileProceed(q) \/ FileRequestFails(q)
    \/ \E f \in FileIds : ClientPuts(f) \/ UrlExpires(f) \/ ShareExpires(f)

FilesSpec == FilesInit /\ [][FilesNext]_allVars

(***************************************************************************)
(* Safety                                                                  *)
(***************************************************************************)
\* The size is checked against committed rows: uploads that overlap exceed the
\* owner's storage, but only by what is in flight.  What contacts upload is
\* checked against their own storage, and not bounded here at all.
MostMb == Max({TierConfig[t].quotas.storage_mb : t \in had})

StorageBounded ==
    SizeMb * Cardinality({f \in FileIds \ foreign : IsFile(f)})
        <= MostMb + SizeMb * (Cardinality(FileRequests) - 1)

Dropping(f) == \E q \in FileRequests : freq[q].step = "dropped" /\ f \in freq[q].group

\* A complete file has its object, except while a removal is between its two
\* stores, and after one that ended there: its transaction failed, or its
\* author may read the file only, which the policy notices at the DELETE, when
\* the object is gone.  And except for the client's word: a completion that
\* names parts waits for R2, one that names none is believed, and a client that
\* sends it before the object is there has a complete file without one.
CompleteHasObject ==
    \A f \in FileIds :
        file[f].status = "complete" =>
            object[f] = "stored" \/ Dropping(f) \/ f \in lost \/ f \in early

\* A link that opens leads to an object, with the same exceptions.
LinksLeadToObjects ==
    \A f \in FileIds :
        file[f].shared => object[f] = "stored" \/ Dropping(f) \/ f \in lost \/ f \in early

\* When a file's row goes its object is gone, unless the row went with the
\* content it was attached to, R2 refused, the client put the object again, or
\* the file came under a removed one unseen: inserted meanwhile, or deeper
\* than the removal looks.
RemovedIsGone ==
    [][\A f \in FileIds : IsFile(f) /\ file'[f] = NoFile /\ object'[f] = "stored" =>
        \/ ~row'[file[f].row].there
        \/ \E q \in FileRequests :
            /\ freq[q].step = "dropped"
            /\ \/ f \in freq[q].group \union freq[q].kept
               \/ f \in unseen
               \/ file[f].parent # freq[q].file]_allVars

\* Who may only look at a plan destroys nothing of it.
ObjectsGoByEditors ==
    [][\A f \in FileIds : object[f] = "stored" /\ object'[f] # "stored" =>
        \E q \in FileRequests : f \in freq[q].group /\ CanModify(freq[q].by)]_allVars
=============================================================================
