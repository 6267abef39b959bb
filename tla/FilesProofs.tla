---------------------------- MODULE FilesProofs ----------------------------
(***************************************************************************)
(* Theorems about Files: content and files together implement content      *)
(* alone, complete files and links have their objects, removals leave      *)
(* nothing they have seen, and by how much storage is exceeded.            *)
(*                                                                         *)
(* Everything rests on FilesInv, which says what a request on files still  *)
(* knows while the rows and the objects change behind its back.            *)
(***************************************************************************)
EXTENDS Files, PlanContentProofs

Uploading(q) == freq[q].step \in {"admitted", "checked", "inserted"}
Working(q) == freq[q].step \in {"found", "assembled", "dropped"}

\* A file may be complete: it has its object, a removal is or was between the
\* stores, or a client has said too early that the object is there.
Sound(f) == object[f] = "stored" \/ Dropping(f) \/ f \in lost \/ f \in early

\* A file has an id that was given out.
FilesTaken == \A f \in FileIds : IsFile(f) => f \in taken

\* An upload under way has an id of its own, which is no file yet.
UploadsOwn == \A q \in FileRequests : Uploading(q) =>
    /\ freq[q].op = "init"
    /\ freq[q].by \in Contacts \union {Owner} /\ freq[q].row \in Ids
    /\ freq[q].file \in taken /\ ~IsFile(freq[q].file)
    /\ freq[q].by # Owner => freq[q].file \in foreign
    /\ \A p \in FileRequests \ {q} : freq[p].file # freq[q].file

\* The other requests have a file that there was, and a step fits its request.
WorkFits == \A q \in FileRequests :
    /\ freq[q].step = "idle" => freq[q] = Quiet
    /\ Working(q) => freq[q].op # "init" /\ freq[q].file \in taken
    /\ freq[q].step = "assembled" => freq[q].op = "assemble"
    /\ freq[q].step = "dropped" => freq[q].op = "remove"

\* Who is about to call a file complete, or to share it, is still right.
CompletersRight == \A q \in FileRequests :
    /\ Working(q) /\ IsFile(freq[q].file)
    /\ freq[q].op = "complete" \/ freq[q].step = "assembled"
    => Sound(freq[q].file)

SharersRight == \A q \in FileRequests :
    Working(q) /\ freq[q].op = "share" /\ IsFile(freq[q].file) => file[freq[q].file].status = "complete"

SharedAreComplete == \A f \in FileIds : file[f].shared => file[f].status = "complete"

\* A removal deals with its file and with the children it has seen.
Knowing(q) == freq[q].group \union freq[q].kept

RemoversSaw == \A q \in FileRequests :
    Working(q) /\ freq[q].op = "remove" =>
        /\ freq[q].step = "found" => freq[q].kept = {}
        /\ freq[q].file \in Knowing(q)
        /\ \A f \in FileIds :
              IsFile(f) /\ file[f].parent = freq[q].file => f \in Knowing(q) \union unseen

FilesInv ==
    /\ FilesTypeOK
    /\ FilesTaken /\ UploadsOwn /\ WorkFits
    /\ CompletersRight /\ SharersRight /\ SharedAreComplete /\ RemoversSaw
    /\ CompleteHasObject

\* The owner's files, and the uploads of the owner that have passed the check
\* of their size: only that check adds to them.
OwnFiles == {f \in FileIds \ foreign : IsFile(f)}
Passed == {q \in FileRequests : freq[q].step \in {"checked", "inserted"} /\ freq[q].by = Owner}
Arriving == {freq[q].file : q \in Passed}

StorageInv ==
    /\ tier \in had
    /\ SizeMb * Cardinality(OwnFiles \union Arriving) <= MostMb + SizeMb * (Cardinality(FileRequests) - 1)

-----------------------------------------------------------------------------
(***************************************************************************)
(* Content alone                                                           *)
(***************************************************************************)
\* A step of content and files together is a step of content, or none of it.
LEMMA ContentStep ==
    ASSUME [FilesNext]_allVars
    PROVE  [Next]_vars
<1>1. ASSUME NEW q \in FileRequests, AskFile(q)
      PROVE  UNCHANGED vars
  BY <1>1 DEF AskFile, InitGuard, CompleteSelect, ShareSelect, RevokeSelect, RemoveSelect, FindFile
<1>2. ASSUME NEW q \in FileRequests, FileProceed(q) \/ FileRequestFails(q)
      PROVE  UNCHANGED vars
  BY <1>2 DEF FileProceed, FileRequestFails, InitCheck, InitInsert, InitCommit, CompleteAssemble,
              CompleteCommit, ShareCommit, RevokeCommit, RemoveObjects, RemoveCommit
<1>3. ASSUME NEW f \in FileIds, ClientPuts(f) \/ UrlExpires(f) \/ ShareExpires(f)
      PROVE  UNCHANGED vars
  BY <1>3 DEF ClientPuts, UrlExpires, ShareExpires
<1>4. CASE UNCHANGED allVars
  BY <1>4 DEF allVars
<1>5. QED
  BY <1>1, <1>2, <1>3, <1>4 DEF FilesNext

\* Files only restrict what happens to content: whatever is true of content
\* alone is true of content with files.
THEOREM ContentRefined == FilesSpec => Spec
<1>1. FilesInit => Init
  BY DEF FilesInit
<1>2. [FilesNext]_allVars => [Next]_vars
  BY ContentStep
<1>3. QED
  BY <1>1, <1>2, PTL DEF FilesSpec, Spec

(***************************************************************************)
(* Rows, requests and steps                                                *)
(***************************************************************************)
LEMMA FileRecords ==
    ASSUME FilesTypeOK, FileAssumption, ContentAssumption
    PROVE  /\ Quiet \in FileRequest /\ Quiet.step = "idle" /\ Quiet.op = "init"
           /\ \A r \in FileRow :
                /\ r # NoFile /\ r.row \in Ids /\ r.parent \in FileIds \union {Null}
                /\ r.status \in {"pending", "uploading", "complete"} /\ r.shared \in BOOLEAN
           /\ NoFile.status = "pending" /\ ~NoFile.shared
           /\ \A q \in FileRequests :
                /\ freq[q] \in FileRequest
                /\ freq[q].step \in FileSteps /\ freq[q].op \in FileOps
                /\ freq[q].by \in Contacts \union {Owner, Null}
                /\ freq[q].file \in FileIds \union {Null}
                /\ freq[q].row \in Ids \union {Null} /\ freq[q].parent \in FileIds \union {Null}
                /\ freq[q].group \in SUBSET FileIds /\ freq[q].kept \in SUBSET FileIds
           /\ \A f \in FileIds : file[f] \in FileRow \union {NoFile}
           /\ \A f \in FileIds : IsFile(f) => file[f] \in FileRow
<1>1. Quiet \in FileRequest /\ Quiet.step = "idle" /\ Quiet.op = "init"
  BY DEF Quiet, FileRequest, FileSteps, FileOps
<1>2. \A r \in FileRow :
        /\ r # NoFile /\ r.row \in Ids /\ r.parent \in FileIds \union {Null}
        /\ r.status \in {"pending", "uploading", "complete"} /\ r.shared \in BOOLEAN
  BY DEF FileRow, NoFile, FileAssumption, ContentAssumption
<1>3. NoFile.status = "pending" /\ ~NoFile.shared
  BY DEF NoFile
<1>4. ASSUME NEW q \in FileRequests
      PROVE  /\ freq[q] \in FileRequest
             /\ freq[q].step \in FileSteps /\ freq[q].op \in FileOps
             /\ freq[q].by \in Contacts \union {Owner, Null}
             /\ freq[q].file \in FileIds \union {Null}
             /\ freq[q].row \in Ids \union {Null} /\ freq[q].parent \in FileIds \union {Null}
             /\ freq[q].group \in SUBSET FileIds /\ freq[q].kept \in SUBSET FileIds
  BY DEF FilesTypeOK, FileRequest
<1>5. \A f \in FileIds : file[f] \in FileRow \union {NoFile}
  BY DEF FilesTypeOK
<1>6. QED
  BY <1>1, <1>2, <1>3, <1>4, <1>5 DEF IsFile

\* A request on files moves alone: it begins, advances, or ends.
Begins(q) ==
    \/ \E u \in Contacts \union {Owner}, f \in FileIds :
          \/ \E i \in used, p \in FileIds \union {Null} : InitGuard(q, u, f, i, p)
          \/ CompleteSelect(q, u, f) \/ ShareSelect(q, u, f)
          \/ RevokeSelect(q, u, f) \/ RemoveSelect(q, u, f)

Advances(q) == InitCheck(q) \/ InitInsert(q) \/ CompleteAssemble(q) \/ RemoveObjects(q)

Ends(q) ==
    \/ InitCommit(q) \/ CompleteCommit(q) \/ ShareCommit(q) \/ RevokeCommit(q) \/ RemoveCommit(q)
    \/ FileRequestFails(q)

\* The steps that leave the requests on files alone.
Around ==
    \/ Next /\ RowsCascade
    \/ \E f \in FileIds : ClientPuts(f) \/ UrlExpires(f) \/ ShareExpires(f)
    \/ UNCHANGED allVars

LEMMA OneRequest ==
    ASSUME [FilesNext]_allVars
    PROVE  Around \/ \E q \in FileRequests : Begins(q) \/ Advances(q) \/ Ends(q)
BY DEF FilesNext, AskFile, FileProceed, Around, Begins, Advances, Ends

LEMMA Alone ==
    ASSUME FilesTypeOK, FileAssumption, ContentAssumption
    PROVE  /\ Around => freq' = freq
           /\ \A q \in FileRequests :
                /\ Begins(q) \/ Advances(q) \/ Ends(q) => \A p \in FileRequests \ {q} : freq'[p] = freq[p]
                /\ Ends(q) => freq'[q] = Quiet
                /\ Advances(q) =>
                     /\ freq'[q].op = freq[q].op /\ freq'[q].by = freq[q].by
                     /\ freq'[q].file = freq[q].file /\ freq'[q].row = freq[q].row
                     /\ freq'[q].parent = freq[q].parent
<1>1. Around => freq' = freq
  BY DEF Around, RowsCascade, ClientPuts, UrlExpires, ShareExpires, allVars, fileVars
<1>2. ASSUME NEW q \in FileRequests, Ends(q)
      PROVE  freq'[q] = Quiet /\ \A p \in FileRequests \ {q} : freq'[p] = freq[p]
  <2>1. freq' = [freq EXCEPT ![q] = Quiet]
    BY <1>2 DEF Ends, InitCommit, CompleteCommit, ShareCommit, RevokeCommit, RemoveCommit,
                FileRequestFails, FileFinish
  <2>2. QED  BY <2>1 DEF FilesTypeOK
<1>3. ASSUME NEW q \in FileRequests, Advances(q)
      PROVE  /\ \A p \in FileRequests \ {q} : freq'[p] = freq[p]
             /\ freq'[q].op = freq[q].op /\ freq'[q].by = freq[q].by
             /\ freq'[q].file = freq[q].file /\ freq'[q].row = freq[q].row
             /\ freq'[q].parent = freq[q].parent
  <2>1. freq[q] \in FileRequest
    BY FileRecords
  <2>2. CASE InitCheck(q) \/ InitInsert(q) \/ CompleteAssemble(q)
    BY <2>1, <2>2 DEF InitCheck, InitInsert, CompleteAssemble, FileGoto, FilesTypeOK, FileRequest
  <2>3. CASE RemoveObjects(q)
    BY <2>1, <2>3 DEF RemoveObjects, FilesTypeOK, FileRequest
  <2>4. QED  BY <1>3, <2>2, <2>3 DEF Advances
<1>4. ASSUME NEW q \in FileRequests, Begins(q)
      PROVE  \A p \in FileRequests \ {q} : freq'[p] = freq[p]
  BY <1>4 DEF Begins, InitGuard, CompleteSelect, ShareSelect, RevokeSelect, RemoveSelect, FindFile,
              FilesTypeOK
<1>5. QED
  BY <1>1, <1>2, <1>3, <1>4

\* What begins is an upload of a new id, or is about a file it has found.
LEMMA Beginning ==
    ASSUME TypeOK, FilesTypeOK, FileAssumption, ContentAssumption,
           NEW q \in FileRequests, Begins(q)
    PROVE  /\ freq[q] = Quiet /\ freq'[q] \in FileRequest
           /\ freq'[q].by \in Contacts \union {Owner} /\ freq'[q].file \in FileIds
           /\ UNCHANGED <<file, object, url, lost, unseen>>
           /\ taken \subseteq taken' /\ foreign \subseteq foreign' /\ early \subseteq early'
           /\ taken' \subseteq FileIds /\ foreign' \subseteq FileIds /\ early' \subseteq FileIds
           /\ \/ /\ freq'[q].step = "admitted" /\ freq'[q].op = "init" /\ freq'[q].row \in Ids
                 /\ freq'[q].file \notin taken /\ freq'[q].file \in taken'
                 /\ foreign' \subseteq foreign \union {freq'[q].file}
                 /\ freq'[q].by # Owner => freq'[q].file \in foreign'
              \/ /\ freq'[q].step = "found" /\ freq'[q].op \in FileOps \ {"init"}
                 /\ IsFile(freq'[q].file) /\ UNCHANGED <<taken, foreign>>
                 /\ freq'[q].op = "complete"
                      => object[freq'[q].file] = "stored" \/ freq'[q].file \in early'
                 /\ freq'[q].op = "share" => file[freq'[q].file].status = "complete"
                 /\ freq'[q].kept = {}
                 /\ freq'[q].op = "remove"
                      => freq'[q].group = {freq'[q].file} \union ChildrenOf(freq'[q].file)
<1>1. used \subseteq Ids
  BY DEF TypeOK
<1>2. PICK u \in Contacts \union {Owner}, f \in FileIds :
          \/ \E i \in used, p \in FileIds \union {Null} : InitGuard(q, u, f, i, p)
          \/ CompleteSelect(q, u, f) \/ ShareSelect(q, u, f)
          \/ RevokeSelect(q, u, f) \/ RemoveSelect(q, u, f)
  BY DEF Begins
<1>3. CASE \E i \in used, p \in FileIds \union {Null} : InitGuard(q, u, f, i, p)
  <2>1. PICK i \in used, p \in FileIds \union {Null} : InitGuard(q, u, f, i, p)
    BY <1>3
  <2>2. Upload(u, f, i, p) \in FileRequest
    BY <1>1 DEF Upload, FileRequest, FileSteps, FileOps
  <2>3. freq'[q] = Upload(u, f, i, p) /\ freq[q] = Quiet
    BY <2>1 DEF InitGuard, FilesTypeOK
  <2>4. /\ f \notin taken /\ taken' = taken \union {f}
        /\ foreign' = (IF u = Owner THEN foreign ELSE foreign \union {f})
        /\ UNCHANGED <<file, object, url, early, lost, unseen>>
    BY <2>1 DEF InitGuard
  <2>5. /\ freq'[q].step = "admitted" /\ freq'[q].op = "init" /\ freq'[q].row = i
        /\ freq'[q].by = u /\ freq'[q].file = f
    BY <2>3 DEF Upload
  <2>6. taken \subseteq FileIds /\ foreign \subseteq FileIds /\ early \subseteq FileIds
    BY DEF FilesTypeOK
  <2>7. QED
    BY <1>1, <2>2, <2>3, <2>4, <2>5, <2>6
<1>4. ASSUME NEW op \in FileOps \ {"init"}, FindFile(q, op, u, f)
      PROVE  /\ freq[q] = Quiet /\ freq'[q] = Found(op, u, f) /\ IsFile(f)
             /\ UNCHANGED <<file, object, url, taken, foreign, lost, unseen>>
             /\ Found(op, u, f) \in FileRequest
             /\ Found(op, u, f).step = "found" /\ Found(op, u, f).op = op
             /\ Found(op, u, f).by = u /\ Found(op, u, f).file = f /\ Found(op, u, f).kept = {}
             /\ op = "remove" => Found(op, u, f).group = {f} \union ChildrenOf(f)
  <2>1. ChildrenOf(f) \subseteq FileIds
    BY DEF ChildrenOf
  <2>2. Found(op, u, f) \in FileRequest
    BY <2>1 DEF Found, FileRequest, FileSteps
  <2>3. /\ Found(op, u, f).step = "found" /\ Found(op, u, f).op = op
        /\ Found(op, u, f).by = u /\ Found(op, u, f).file = f /\ Found(op, u, f).kept = {}
        /\ op = "remove" => Found(op, u, f).group = {f} \union ChildrenOf(f)
    BY DEF Found
  <2>4. QED
    BY <1>4, <2>2, <2>3 DEF FindFile, FileRead, FilesTypeOK
<1>5. taken \subseteq FileIds /\ foreign \subseteq FileIds /\ early \subseteq FileIds
  BY DEF FilesTypeOK
<1>6. CASE CompleteSelect(q, u, f)
  <2>1. PICK op \in {"complete", "assemble"} :
          /\ FindFile(q, op, u, f)
          /\ early' = IF op = "complete" /\ object[f] # "stored" THEN early \union {f} ELSE early
    BY <1>6 DEF CompleteSelect
  <2>2. op \in FileOps \ {"init"} /\ early \subseteq early' /\ early' \subseteq FileIds
    BY <1>5, <2>1 DEF FileOps
  <2>3. op = "complete" => object[f] = "stored" \/ f \in early'
    BY <2>1
  <2>4. QED  BY <1>4, <1>5, <2>1, <2>2, <2>3
<1>7. CASE ShareSelect(q, u, f)
  <2>1. UNCHANGED early /\ FindFile(q, "share", u, f) /\ file[f].status = "complete"
    BY <1>7 DEF ShareSelect
  <2>2. QED  BY <1>4, <1>5, <2>1 DEF FileOps
<1>8. CASE RevokeSelect(q, u, f)
  <2>1. UNCHANGED early /\ FindFile(q, "revoke", u, f)
    BY <1>8 DEF RevokeSelect
  <2>2. QED  BY <1>4, <1>5, <2>1 DEF FileOps
<1>9. CASE RemoveSelect(q, u, f)
  <2>1. UNCHANGED early /\ FindFile(q, "remove", u, f)
    BY <1>9 DEF RemoveSelect
  <2>2. QED  BY <1>4, <1>5, <2>1 DEF FileOps
<1>10. QED
  BY <1>2, <1>3, <1>6, <1>7, <1>8, <1>9

\* What becomes of a file's row: it is inserted, it goes, or its status or its
\* link change.
LEMMA FileRows ==
    ASSUME TypeOK, FilesTypeOK, FileAssumption, ContentAssumption, UploadsOwn, [FilesNext]_allVars,
           NEW f \in FileIds
    PROVE  \/ file'[f] = file[f]
           \/ file'[f] = NoFile
           \/ /\ file'[f] \in FileRow /\ file'[f].status # "complete" /\ ~file'[f].shared
              /\ \E q \in FileRequests :
                    /\ InitCommit(q) /\ freq[q].file = f /\ file'[f].parent = freq[q].parent
           \/ /\ file[f] \in FileRow /\ file'[f] \in FileRow
              /\ file'[f].row = file[f].row /\ file'[f].parent = file[f].parent
              /\ \/ file'[f].status = file[f].status
                 \/ /\ file'[f].status = "complete"
                    /\ \E q \in FileRequests : CompleteCommit(q) /\ freq[q].file = f
              /\ \/ file'[f].shared => file[f].shared
                 \/ \E q \in FileRequests : ShareCommit(q) /\ freq[q].file = f
<1> DEFINE Goal ==
           \/ file'[f] = file[f]
           \/ file'[f] = NoFile
           \/ /\ file'[f] \in FileRow /\ file'[f].status # "complete" /\ ~file'[f].shared
              /\ \E q \in FileRequests :
                    /\ InitCommit(q) /\ freq[q].file = f /\ file'[f].parent = freq[q].parent
           \/ /\ file[f] \in FileRow /\ file'[f] \in FileRow
              /\ file'[f].row = file[f].row /\ file'[f].parent = file[f].parent
              /\ \/ file'[f].status = file[f].status
                 \/ /\ file'[f].status = "complete"
                    /\ \E q \in FileRequests : CompleteCommit(q) /\ freq[q].file = f
              /\ \/ file'[f].shared => file[f].shared
                 \/ \E q \in FileRequests : ShareCommit(q) /\ freq[q].file = f
<1>1. file \in [FileIds -> FileRow \union {NoFile}]
  BY DEF FilesTypeOK
<1>2. CASE Around
  <2>1. CASE Next /\ RowsCascade
    BY <2>1 DEF RowsCascade
  <2>2. ASSUME NEW g \in FileIds, ClientPuts(g) \/ UrlExpires(g)
        PROVE  Goal
    BY <2>2 DEF ClientPuts, UrlExpires
  <2>3. ASSUME NEW g \in FileIds, ShareExpires(g)
        PROVE  Goal
    <3>1. file[g] \in FileRow
      BY <2>3, FileRecords DEF ShareExpires
    <3>2. file' = [file EXCEPT ![g] = [file[g] EXCEPT !.shared = FALSE]]
      BY <2>3 DEF ShareExpires
    <3>3. QED
      BY <1>1, <3>1, <3>2 DEF FileRow
  <2>4. CASE UNCHANGED allVars
    BY <2>4 DEF allVars, fileVars
  <2>5. QED  BY <1>2, <2>1, <2>2, <2>3, <2>4 DEF Around
<1>3. ASSUME NEW q \in FileRequests, Begins(q) \/ Advances(q)
      PROVE  Goal
  BY <1>3, Beginning DEF Advances, InitCheck, InitInsert, CompleteAssemble, RemoveObjects
<1>4. ASSUME NEW q \in FileRequests, InitCommit(q)
      PROVE  Goal
  <2> DEFINE new == [row |-> freq[q].row, parent |-> freq[q].parent, shared |-> FALSE,
                     status |-> IF freq[q].file \in Multipart THEN "uploading" ELSE "pending"]
  <2>1. file' = [file EXCEPT ![freq[q].file] = new]
    BY <1>4 DEF InitCommit
  <2>2. freq[q].row \in Ids /\ freq[q].file \in FileIds
    BY <1>4, FileRecords DEF InitCommit, UploadsOwn, Uploading, FilesTypeOK
  <2>3. new \in FileRow /\ new.status # "complete" /\ ~new.shared /\ new.parent = freq[q].parent
    BY <2>2, FileRecords DEF FileRow
  <2> HIDE DEF new
  <2>4. QED
    BY <1>1, <1>4, <2>1, <2>2, <2>3
<1>5. ASSUME NEW q \in FileRequests, NEW status \in {"pending", "uploading", "complete"},
             NEW shared \in BOOLEAN, UpdateFile(q, status, shared)
      PROVE  \/ file'[f] = file[f]
             \/ /\ freq[q].file = f /\ file[f] \in FileRow /\ file'[f] \in FileRow
                /\ file'[f].row = file[f].row /\ file'[f].parent = file[f].parent
                /\ file'[f].status = status /\ file'[f].shared = shared
  <2>1. CASE FileModify(freq[q].by, freq[q].file)
    <3>1. freq[q].file \in FileIds => file[freq[q].file] \in FileRow
      BY <2>1, FileRecords DEF FileModify
    <3>2. file' = [file EXCEPT ![freq[q].file] =
                     [[file[freq[q].file] EXCEPT !.status = status] EXCEPT !.shared = shared]]
      BY <1>1, <1>5, <2>1 DEF UpdateFile
    <3>3. ASSUME freq[q].file = f
          PROVE  /\ file[f] \in FileRow /\ file'[f] \in FileRow
                 /\ file'[f].row = file[f].row /\ file'[f].parent = file[f].parent
                 /\ file'[f].status = status /\ file'[f].shared = shared
      BY <1>1, <3>1, <3>2, <3>3 DEF FileRow
    <3>4. freq[q].file # f => file'[f] = file[f]
      BY <1>1, <3>2
    <3>5. QED  BY <3>3, <3>4
  <2>2. CASE ~FileModify(freq[q].by, freq[q].file)
    BY <1>5, <2>2 DEF UpdateFile
  <2>3. QED  BY <2>1, <2>2
<1>6. ASSUME NEW q \in FileRequests, CompleteCommit(q) \/ ShareCommit(q) \/ RevokeCommit(q)
      PROVE  Goal
  <2>1. CASE freq[q].file \in FileIds /\ IsFile(freq[q].file)
    <3>1. /\ file[freq[q].file].status \in {"pending", "uploading", "complete"}
          /\ file[freq[q].file].shared \in BOOLEAN
      BY <2>1, FileRecords
    <3>2. CASE CompleteCommit(q)
      <4>1. UpdateFile(q, "complete", file[freq[q].file].shared)
        BY <3>2 DEF CompleteCommit
      <4>2. QED  BY <1>5, <3>1, <3>2, <4>1
    <3>3. CASE ShareCommit(q)
      <4>1. UpdateFile(q, file[freq[q].file].status, TRUE)
        BY <3>3 DEF ShareCommit
      <4>2. QED  BY <1>5, <3>1, <3>3, <4>1
    <3>4. CASE RevokeCommit(q)
      <4>1. UpdateFile(q, file[freq[q].file].status, FALSE)
        BY <3>4 DEF RevokeCommit
      <4>2. QED  BY <1>5, <3>1, <3>4, <4>1
    <3>5. QED  BY <1>6, <3>2, <3>3, <3>4
  <2>2. CASE freq[q].file \notin FileIds
    <3>1. file' = file
      BY <1>1, <1>6, <2>2 DEF CompleteCommit, ShareCommit, RevokeCommit, UpdateFile
    <3>2. QED  BY <3>1
  <2>3. CASE freq[q].file \in FileIds /\ ~IsFile(freq[q].file)
    <3>1. file' = file
      BY <1>6, <2>3 DEF CompleteCommit, ShareCommit, RevokeCommit, UpdateFile, FileModify
    <3>2. QED  BY <3>1
  <2>4. QED  BY <2>1, <2>2, <2>3
<1>7. ASSUME NEW q \in FileRequests, RemoveCommit(q) \/ FileRequestFails(q)
      PROVE  Goal
  <2>1. CASE RemoveCommit(q)
    BY <2>1 DEF RemoveCommit
  <2>2. CASE FileRequestFails(q)
    BY <2>2 DEF FileRequestFails
  <2>3. QED  BY <1>7, <2>1, <2>2
<1>8. QED
  BY <1>2, <1>3, <1>4, <1>6, <1>7, OneRequest DEF Ends

\* A file that is sound stays so while it is a file: an object goes only in a
\* removal's first step, and a removal that ends tells what it leaves behind.
LEMMA SoundStays ==
    ASSUME TypeOK, FilesTypeOK, FileAssumption, ContentAssumption, UploadsOwn, [FilesNext]_allVars,
           NEW f \in FileIds, IsFile(f), IsFile(f)', Sound(f)
    PROVE  Sound(f)'
<1>1. CASE Around
  <2>1. freq' = freq
    BY <1>1, Alone
  <2>2. Dropping(f)' <=> Dropping(f)
    BY <2>1 DEF Dropping
  <2>3. CASE \E g \in FileIds : ClientPuts(g)
    BY <2>2, <2>3 DEF ClientPuts, Sound, FilesTypeOK
  <2>4. CASE UNCHANGED <<object, early, lost>>
    BY <2>2, <2>4 DEF Sound
  <2>5. QED
    BY <1>1, <2>3, <2>4 DEF Around, RowsCascade, UrlExpires, ShareExpires, allVars, fileVars
<1>2. ASSUME NEW q \in FileRequests, Begins(q)
      PROVE  Sound(f)'
  <2>1. freq[q] = Quiet /\ UNCHANGED <<object, lost>> /\ early \subseteq early'
    BY <1>2, Beginning
  <2>2. \A p \in FileRequests : freq[p].step = "dropped" => freq'[p] = freq[p]
    BY <1>2, <2>1, Alone DEF Quiet
  <2>3. QED
    BY <2>1, <2>2 DEF Sound, Dropping
<1>3. ASSUME NEW q \in FileRequests, Advances(q)
      PROVE  Sound(f)'
  <2>1. \A p \in FileRequests : freq[p].step = "dropped" => freq'[p] = freq[p]
    BY <1>3, Alone DEF Advances, InitCheck, InitInsert, CompleteAssemble, RemoveObjects
  <2>2. Dropping(f) => Dropping(f)'
    BY <2>1 DEF Dropping
  <2>3. lost' = lost
    BY <1>3 DEF Advances, InitCheck, InitInsert, CompleteAssemble, RemoveObjects
  <2>4. object[f] = "stored" => object'[f] = "stored" \/ Dropping(f)'
    <3>1. CASE InitCheck(q)
      BY <3>1 DEF InitCheck
    <3>2. CASE InitInsert(q)
      <4>1. freq[q].file # f
        BY <3>2 DEF InitInsert, UploadsOwn, Uploading
      <4>2. QED  BY <3>2, <4>1 DEF InitInsert, FilesTypeOK
    <3>3. CASE CompleteAssemble(q)
      BY <3>3 DEF CompleteAssemble, FilesTypeOK
    <3>4. CASE RemoveObjects(q)
      <4>1. PICK done \in SUBSET freq[q].group :
              /\ object' = [g \in FileIds |-> IF g \in done /\ object[g] = "stored" THEN "none"
                                              ELSE object[g]]
              /\ freq' = [freq EXCEPT ![q].step = "dropped", ![q].group = done,
                                      ![q].kept = freq[q].group \ done]
        BY <3>4 DEF RemoveObjects
      <4>2. freq[q] \in FileRequest
        BY FileRecords
      <4>3. freq'[q].step = "dropped" /\ freq'[q].group = done
        BY <4>1, <4>2 DEF FilesTypeOK, FileRequest
      <4>4. QED  BY <4>1, <4>3 DEF Dropping
    <3>5. QED  BY <1>3, <3>1, <3>2, <3>3, <3>4 DEF Advances
  <2>5. f \in early => f \in early' \/ object'[f] = "stored"
    BY <1>3 DEF Advances, InitCheck, InitInsert, CompleteAssemble, RemoveObjects, FilesTypeOK
  <2>6. QED
    BY <2>2, <2>3, <2>4, <2>5 DEF Sound
<1>4. ASSUME NEW q \in FileRequests, Ends(q)
      PROVE  Sound(f)'
  <2>1. object' = object /\ early' = early
    BY <1>4 DEF Ends, InitCommit, CompleteCommit, ShareCommit, RevokeCommit, RemoveCommit,
                FileRequestFails
  <2>2. \A p \in FileRequests \ {q} : freq'[p] = freq[p]
    BY <1>4, Alone
  <2>3. CASE RemoveCommit(q) \/ FileRequestFails(q)
    <3>1. f \in LeftBehind(q) => f \in lost'
      BY <2>3 DEF RemoveCommit, FileRequestFails, IsFile
    <3>2. lost \subseteq LeftBehind(q)
      BY DEF LeftBehind
    <3>3. Dropping(f) => Dropping(f)' \/ f \in LeftBehind(q)
      BY <2>2 DEF Dropping, LeftBehind
    <3>4. QED  BY <2>1, <3>1, <3>2, <3>3 DEF Sound
  <2>4. CASE ~(RemoveCommit(q) \/ FileRequestFails(q))
    <3>1. lost' = lost
      BY <1>4, <2>4 DEF Ends, InitCommit, CompleteCommit, ShareCommit, RevokeCommit
    <3>2. CASE freq[q].step # "dropped"
      <4>1. Dropping(f) => Dropping(f)'
        BY <2>2, <3>2 DEF Dropping
      <4>2. QED  BY <2>1, <3>1, <4>1 DEF Sound
    <3>3. CASE freq[q].step = "dropped"
      BY <1>4, <2>4, <3>3 DEF Ends, InitCommit, CompleteCommit, ShareCommit, RevokeCommit
    <3>4. QED  BY <3>2, <3>3
  <2>5. QED  BY <2>3, <2>4
<1>5. QED
  BY <1>1, <1>2, <1>3, <1>4, OneRequest

\* What goes to the bucket, and what is only observed, has its type.
LEMMA FileTypes ==
    ASSUME TypeOK, FilesTypeOK, FileAssumption, ContentAssumption, UploadsOwn, WorkFits,
           [FilesNext]_allVars
    PROVE  FilesTypeOK'
<1>1. /\ freq \in [FileRequests -> FileRequest]
      /\ object \in [FileIds -> {"none", "parts", "stored"}] /\ url \subseteq FileIds
      /\ taken \subseteq FileIds /\ foreign \subseteq FileIds /\ early \subseteq FileIds
      /\ lost \subseteq FileIds /\ unseen \subseteq FileIds
  BY DEF FilesTypeOK
<1>2. file' \in [FileIds -> FileRow \union {NoFile}]
  <2>1. \A f \in FileIds : file'[f] \in FileRow \union {NoFile}
    BY FileRows, FileRecords
  <2>2. file' = [f \in FileIds |-> file'[f]]
    <3>1. CASE Around
      BY <3>1 DEF Around, RowsCascade, ClientPuts, UrlExpires, ShareExpires, allVars, fileVars,
                  FilesTypeOK
    <3>2. ASSUME NEW q \in FileRequests, Begins(q) \/ Advances(q)
          PROVE  file' = file
      BY <3>2, Beginning DEF Advances, InitCheck, InitInsert, CompleteAssemble, RemoveObjects
    <3>3. ASSUME NEW q \in FileRequests, Ends(q)
          PROVE  file' = [f \in FileIds |-> file'[f]]
      BY <3>3 DEF Ends, InitCommit, CompleteCommit, ShareCommit, RevokeCommit, RemoveCommit,
                  FileRequestFails, UpdateFile, FilesTypeOK
    <3>4. QED
      BY <3>1, <3>2, <3>3, OneRequest DEF FilesTypeOK
  <2> DEFINE g == file'
  <2>3. g = [f \in FileIds |-> g[f]] /\ \A f \in FileIds : g[f] \in FileRow \union {NoFile}
    BY <2>1, <2>2
  <2> HIDE DEF g
  <2>4. g \in [FileIds -> FileRow \union {NoFile}]
    BY <2>3
  <2>5. QED  BY <2>4 DEF g
<1>3. CASE Around
  <2>1. freq' = freq /\ UNCHANGED <<taken, foreign, unseen>>
    BY <1>3, Alone DEF Around, RowsCascade, ClientPuts, UrlExpires, ShareExpires, allVars, fileVars
  <2>2. /\ object' \in [FileIds -> {"none", "parts", "stored"}] /\ url' \subseteq FileIds
        /\ early' \subseteq FileIds /\ lost' \subseteq FileIds
    BY <1>1, <1>3 DEF Around, RowsCascade, ClientPuts, UrlExpires, ShareExpires, allVars, fileVars
  <2>3. QED
    BY <1>1, <1>2, <2>1, <2>2 DEF FilesTypeOK
<1>4. ASSUME NEW q \in FileRequests, Begins(q)
      PROVE  FilesTypeOK'
  <2>1. freq' = [freq EXCEPT ![q] = freq'[q]]
    BY <1>1, <1>4 DEF Begins, InitGuard, CompleteSelect, ShareSelect, RevokeSelect, RemoveSelect,
                      FindFile
  <2>2. freq'[q] \in FileRequest
    BY <1>4, Beginning
  <2>3. freq' \in [FileRequests -> FileRequest]
    BY <1>1, <2>1, <2>2
  <2>4. QED
    BY <1>1, <1>2, <1>4, <2>3, Beginning DEF FilesTypeOK
<1>5. ASSUME NEW q \in FileRequests, Advances(q)
      PROVE  FilesTypeOK'
  <2>1. freq[q] \in FileRequest
    BY <1>1
  <2>2. freq' \in [FileRequests -> FileRequest]
    <3>1. CASE InitCheck(q) \/ InitInsert(q) \/ CompleteAssemble(q)
      <4>1. PICK step \in FileSteps : freq' = [freq EXCEPT ![q] = [freq[q] EXCEPT !.step = step]]
        BY <1>1, <3>1 DEF InitCheck, InitInsert, CompleteAssemble, FileGoto, FileSteps
      <4>2. [freq[q] EXCEPT !.step = step] \in FileRequest
        BY <2>1 DEF FileRequest
      <4>3. QED  BY <1>1, <4>1, <4>2
    <3>2. CASE RemoveObjects(q)
      <4>1. PICK done \in SUBSET freq[q].group :
              freq' = [freq EXCEPT ![q] = [[[freq[q] EXCEPT !.step = "dropped"] EXCEPT !.group = done]
                                              EXCEPT !.kept = freq[q].group \ done]]
        BY <1>1, <3>2 DEF RemoveObjects
      <4>2. [[[freq[q] EXCEPT !.step = "dropped"] EXCEPT !.group = done]
                EXCEPT !.kept = freq[q].group \ done] \in FileRequest
        BY <2>1 DEF FileRequest, FileSteps
      <4>3. QED  BY <1>1, <4>1, <4>2
    <3>3. QED  BY <1>5, <3>1, <3>2 DEF Advances
  <2>3. /\ object' \in [FileIds -> {"none", "parts", "stored"}]
        /\ UNCHANGED <<url, taken, foreign, lost, unseen>> /\ early' \subseteq FileIds
    BY <1>1, <1>5 DEF Advances, InitCheck, InitInsert, CompleteAssemble, RemoveObjects
  <2>4. QED
    BY <1>1, <1>2, <2>2, <2>3 DEF FilesTypeOK
<1>6. ASSUME NEW q \in FileRequests, Ends(q)
      PROVE  FilesTypeOK'
  <2>1. freq' \in [FileRequests -> FileRequest]
    BY <1>1, <1>6, FileRecords DEF Ends, InitCommit, CompleteCommit, ShareCommit, RevokeCommit,
                                   RemoveCommit, FileRequestFails, FileFinish
  <2>2. LeftBehind(q) \subseteq FileIds
    BY <1>1 DEF LeftBehind, FileRequest
  <2>3. InitCommit(q) => freq[q].file \in FileIds
    BY <1>1 DEF InitCommit, UploadsOwn, Uploading
  <2>4. /\ url' \subseteq FileIds /\ lost' \subseteq FileIds /\ unseen' \subseteq FileIds
        /\ UNCHANGED <<object, taken, foreign, early>>
    BY <1>1, <1>6, <2>2, <2>3 DEF Ends, InitCommit, CompleteCommit, ShareCommit, RevokeCommit,
                                  RemoveCommit, FileRequestFails
  <2>5. QED
    BY <1>1, <1>2, <2>1, <2>4 DEF FilesTypeOK
<1>7. QED
  BY <1>3, <1>4, <1>5, <1>6, OneRequest

(***************************************************************************)
(* The invariant                                                           *)
(***************************************************************************)
\* Ids that were given out stay so, and those of an upload go with it.
LEMMA TakenGrows ==
    ASSUME TypeOK, FilesTypeOK, FileAssumption, ContentAssumption, UploadsOwn, [FilesNext]_allVars
    PROVE  /\ taken \subseteq taken' /\ unseen \subseteq unseen'
           /\ \A f \in FileIds : f \notin taken => f \notin foreign' \ foreign \/ f \in taken'
           /\ foreign \subseteq foreign'
<1>1. CASE Around
  BY <1>1 DEF Around, RowsCascade, ClientPuts, UrlExpires, ShareExpires, allVars, fileVars
<1>2. ASSUME NEW q \in FileRequests, Begins(q)
      PROVE  /\ taken \subseteq taken' /\ unseen \subseteq unseen'
             /\ \A f \in FileIds : f \notin taken => f \notin foreign' \ foreign \/ f \in taken'
             /\ foreign \subseteq foreign'
  BY <1>2, Beginning
<1>3. ASSUME NEW q \in FileRequests, Advances(q) \/ Ends(q)
      PROVE  UNCHANGED <<taken, foreign>> /\ unseen \subseteq unseen'
  BY <1>3 DEF Advances, Ends, InitCheck, InitInsert, CompleteAssemble, RemoveObjects, InitCommit,
              CompleteCommit, ShareCommit, RevokeCommit, RemoveCommit, FileRequestFails
<1>4. QED
  BY <1>1, <1>2, <1>3, OneRequest

\* A new file is the one its upload's request has named.
LEMMA NewFiles ==
    ASSUME TypeOK, FilesTypeOK, FileAssumption, ContentAssumption, UploadsOwn, [FilesNext]_allVars,
           NEW f \in FileIds, ~IsFile(f), IsFile(f)'
    PROVE  \E q \in FileRequests :
              /\ InitCommit(q) /\ freq[q].file = f /\ Uploading(q) /\ freq'[q] = Quiet
              /\ file'[f] \in FileRow /\ file'[f].parent = freq[q].parent
              /\ file'[f].status # "complete" /\ ~file'[f].shared
<1>1. PICK q \in FileRequests :
        /\ InitCommit(q) /\ freq[q].file = f
        /\ file'[f] \in FileRow /\ file'[f].parent = freq[q].parent
        /\ file'[f].status # "complete" /\ ~file'[f].shared
  BY FileRows, FileRecords DEF IsFile
<1>2. freq'[q] = Quiet
  BY <1>1, Alone DEF Ends
<1>3. QED
  BY <1>1, <1>2 DEF Uploading, InitCommit

LEMMA TakenKeeps ==
    ASSUME TypeOK, FilesInv, FileAssumption, ContentAssumption, [FilesNext]_allVars
    PROVE  FilesTaken'
<1> SUFFICES ASSUME NEW f \in FileIds, IsFile(f)'
             PROVE  f \in taken'
  BY DEF FilesTaken
<1>1. CASE IsFile(f)
  BY <1>1, TakenGrows DEF FilesInv, FilesTaken
<1>2. CASE ~IsFile(f)
  BY <1>2, NewFiles, TakenGrows DEF FilesInv, UploadsOwn
<1>3. QED  BY <1>1, <1>2

LEMMA UploadsKeep ==
    ASSUME TypeOK, FilesInv, FileAssumption, ContentAssumption, [FilesNext]_allVars
    PROVE  UploadsOwn'
<1> DEFINE Own(r, q) ==
      /\ r[q].op = "init" /\ r[q].by \in Contacts \union {Owner} /\ r[q].row \in Ids
      /\ \A p \in FileRequests \ {q} : r[p].file # r[q].file
<1> USE DEF FilesInv
<1>1. ASSUME NEW q \in FileRequests, Uploading(q), Uploading(q)', freq'[q].file = freq[q].file
      PROVE  ~IsFile(freq[q].file)' /\ freq'[q].file \in taken'
  <2>1. freq[q].file \in taken /\ ~IsFile(freq[q].file) /\ freq[q].file \in FileIds
    BY <1>1 DEF UploadsOwn, FilesTypeOK
  <2>2. freq'[q] # Quiet
    BY <1>1 DEF Uploading, Quiet
  <2>3. ~IsFile(freq[q].file)'
    BY <1>1, <2>1, <2>2, NewFiles DEF UploadsOwn, Uploading
  <2>4. QED  BY <1>1, <2>1, <2>3, TakenGrows
<1>2. ASSUME NEW q \in FileRequests, Begins(q), freq'[q].step = "admitted",
             NEW p \in FileRequests, p # q
      PROVE  freq[p].file # freq'[q].file
  <2>1. freq'[q].file \notin taken /\ freq'[q].file \in FileIds
    BY <1>2, Beginning
  <2>2. freq[p].step = "idle" => freq[p].file = Null
    BY DEF WorkFits, Quiet
  <2>3. freq[p].step # "idle" => freq[p].file \in taken
    BY FileRecords DEF UploadsOwn, WorkFits, Uploading, Working, FileSteps
  <2>4. QED  BY <2>1, <2>2, <2>3 DEF FileAssumption
<1>3. ASSUME NEW q \in FileRequests, Begins(q), freq'[q].step = "found",
             NEW p \in FileRequests, Uploading(p)
      PROVE  freq[p].file # freq'[q].file
  BY <1>3, Beginning DEF UploadsOwn
<1>4. ASSUME NEW q \in FileRequests, NEW p \in FileRequests, Uploading(p)', freq'[p] # freq[p],
             Begins(q) \/ Advances(q) \/ Ends(q)
      PROVE  /\ p = q
             /\ \/ Begins(q) /\ freq'[q].step = "admitted"
                \/ /\ Advances(q) /\ Uploading(q)
                   /\ freq'[q].op = freq[q].op /\ freq'[q].by = freq[q].by
                   /\ freq'[q].file = freq[q].file /\ freq'[q].row = freq[q].row
  <2>1. p = q
    BY <1>4, Alone
  <2>2. ~Ends(q)
    BY <1>4, <2>1, Alone DEF Uploading, Quiet
  <2>3. CASE Begins(q)
    BY <1>4, <2>1, <2>3, Beginning DEF Uploading
  <2>4. CASE Advances(q)
    <3>1. freq[q] \in FileRequest
      BY FileRecords
    <3>2. Uploading(q)
      <4>1. CASE InitCheck(q) \/ InitInsert(q)
        BY <4>1 DEF InitCheck, InitInsert, Uploading
      <4>2. CASE CompleteAssemble(q)
        <5>1. freq'[q].step = "assembled"
          BY <3>1, <4>2 DEF CompleteAssemble, FileGoto, FilesTypeOK, FileRequest
        <5>2. QED  BY <1>4, <2>1, <5>1 DEF Uploading
      <4>3. CASE RemoveObjects(q)
        <5>1. freq'[q].step = "dropped"
          BY <3>1, <4>3 DEF RemoveObjects, FilesTypeOK, FileRequest
        <5>2. QED  BY <1>4, <2>1, <5>1 DEF Uploading
      <4>4. QED  BY <2>4, <4>1, <4>2, <4>3 DEF Advances
    <3>3. QED  BY <2>1, <2>4, <3>2, Alone
  <2>5. QED  BY <1>4, <2>2, <2>3, <2>4
<1>5. ASSUME NEW p \in FileRequests, Uploading(p)', freq'[p] = freq[p]
      PROVE  /\ Own(freq, p) /\ Uploading(p)
             /\ freq'[p].by # Owner => freq'[p].file \in foreign'
             /\ freq'[p].file \in taken' /\ ~IsFile(freq[p].file)'
  BY <1>1, <1>5, TakenGrows DEF UploadsOwn, Uploading
<1>6. ASSUME NEW p \in FileRequests, Uploading(p)'
      PROVE  /\ Own(freq', p)
             /\ freq'[p].by # Owner => freq'[p].file \in foreign'
             /\ freq'[p].file \in taken' /\ ~IsFile(freq[p].file)'
  <2>1. CASE Around
    BY <1>5, <1>6, <2>1, Alone
  <2>2. ASSUME NEW q \in FileRequests, Ends(q)
        PROVE  /\ Own(freq', p)
               /\ freq'[p].by # Owner => freq'[p].file \in foreign'
               /\ freq'[p].file \in taken' /\ ~IsFile(freq[p].file)'
    <3>1. freq'[p] = freq[p] /\ p # q
      BY <1>4, <1>6, <2>2, Alone DEF Uploading, Quiet
    <3>2. freq[p].file # Null
      BY <1>5, <1>6, <3>1, FileAssumption DEF UploadsOwn, FilesTypeOK
    <3>3. \A o \in FileRequests : freq'[o] = freq[o] \/ freq'[o].file = Null
      BY <2>2, Alone DEF Quiet
    <3>4. QED
      BY <1>5, <1>6, <3>1, <3>2, <3>3
  <2>3. ASSUME NEW q \in FileRequests, Advances(q)
        PROVE  /\ Own(freq', p)
               /\ freq'[p].by # Owner => freq'[p].file \in foreign'
               /\ freq'[p].file \in taken' /\ ~IsFile(freq[p].file)'
    <3>1. /\ Uploading(p) /\ freq'[p].op = freq[p].op /\ freq'[p].by = freq[p].by
          /\ freq'[p].row = freq[p].row
      <4>1. CASE freq'[p] = freq[p]
        BY <1>6, <4>1 DEF Uploading
      <4>2. CASE freq'[p] # freq[p]
        <5>1. ~Begins(p) \/ freq'[p].step # "admitted" \/ freq[p].file # freq'[p].file
          BY Beginning DEF Quiet, FileAssumption
        <5>2. p = q /\ freq'[q].file = freq[q].file
          BY <1>4, <1>6, <2>3, <4>2, Alone
        <5>3. QED  BY <1>4, <1>6, <2>3, <4>2, <5>1, <5>2
      <4>3. QED  BY <4>1, <4>2
    <3>2. \A o \in FileRequests : freq'[o].file = freq[o].file
      BY <2>3, Alone
    <3>3. freq'[p].file \in taken' /\ ~IsFile(freq[p].file)'
      BY <1>1, <1>6, <3>1, <3>2
    <3>4. QED
      BY <3>1, <3>2, <3>3, TakenGrows DEF UploadsOwn
  <2>4. ASSUME NEW q \in FileRequests, Begins(q)
        PROVE  /\ Own(freq', p)
               /\ freq'[p].by # Owner => freq'[p].file \in foreign'
               /\ freq'[p].file \in taken' /\ ~IsFile(freq[p].file)'
    <3>1. CASE p = q
      <4>1. freq'[q].step # "found"
        BY <1>6, <3>1 DEF Uploading
      <4>2. /\ freq'[q].step = "admitted" /\ freq'[q].op = "init" /\ freq'[q].row \in Ids
            /\ freq'[q].by \in Contacts \union {Owner} /\ freq'[q].file \in FileIds
            /\ freq'[q].file \notin taken /\ freq'[q].file \in taken'
            /\ freq'[q].by # Owner => freq'[q].file \in foreign'
            /\ file' = file
        BY <2>4, <4>1, Beginning
      <4>3. ~IsFile(freq[q].file)'
        BY <4>2 DEF FilesTaken, IsFile
      <4>4. \A o \in FileRequests \ {q} : freq'[o].file # freq'[q].file
        BY <1>2, <2>4, <4>2, Alone
      <4>5. QED
        BY <3>1, <4>2, <4>3, <4>4
    <3>2. CASE p # q
      <4>1. freq'[p] = freq[p] /\ Uploading(p)
        BY <1>6, <2>4, <3>2, Alone DEF Uploading
      <4>2. freq'[q].step = "admitted" \/ freq'[q].step = "found"
        BY <2>4, Beginning
      <4>3. freq'[q].file # freq[p].file
        BY <1>2, <1>3, <2>4, <3>2, <4>1, <4>2
      <4>4. \A o \in FileRequests \ {q} : freq'[o] = freq[o]
        BY <2>4, Alone
      <4>5. QED
        BY <1>5, <1>6, <4>1, <4>3, <4>4
    <3>3. QED  BY <3>1, <3>2
  <2>5. QED
    BY <2>1, <2>2, <2>3, <2>4, OneRequest
<1>7. QED
  BY <1>6 DEF UploadsOwn

\* A request at work on a file began so, or has advanced.
LEMMA WorkKeeps ==
    ASSUME TypeOK, FilesInv, FileAssumption, ContentAssumption, [FilesNext]_allVars
    PROVE  WorkFits'
<1> USE DEF FilesInv
<1> SUFFICES ASSUME NEW p \in FileRequests
             PROVE  /\ freq'[p].step = "idle" => freq'[p] = Quiet
                    /\ Working(p)' => freq'[p].op # "init" /\ freq'[p].file \in taken'
                    /\ freq'[p].step = "assembled" => freq'[p].op = "assemble"
                    /\ freq'[p].step = "dropped" => freq'[p].op = "remove"
  BY DEF WorkFits
<1>1. CASE freq'[p] = freq[p]
  BY <1>1, TakenGrows DEF WorkFits, Working
<1>2. CASE freq'[p] = Quiet
  BY <1>2 DEF Quiet, Working
<1>3. CASE Begins(p)
  <2>1. CASE freq'[p].step = "admitted"
    BY <2>1 DEF Working
  <2>2. CASE freq'[p].step = "found"
    BY <1>3, <2>2, Beginning DEF FilesTaken
  <2>3. QED  BY <1>3, <2>1, <2>2, Beginning
<1>4. CASE Advances(p)
  <2>1. freq[p] \in FileRequest /\ taken' = taken
    BY <1>4, FileRecords DEF Advances, InitCheck, InitInsert, CompleteAssemble, RemoveObjects
  <2>2. /\ freq'[p].op = freq[p].op /\ freq'[p].file = freq[p].file
    BY <1>4, Alone
  <2>3. CASE InitCheck(p) \/ InitInsert(p)
    <3>1. freq'[p].step \in {"checked", "inserted"}
      BY <2>1, <2>3 DEF InitCheck, InitInsert, FileGoto, FilesTypeOK, FileRequest
    <3>2. QED  BY <3>1 DEF Working
  <2>4. CASE CompleteAssemble(p)
    <3>1. freq'[p].step = "assembled" /\ freq[p].step = "found" /\ freq[p].op = "assemble"
      BY <2>1, <2>4 DEF CompleteAssemble, FileGoto, FilesTypeOK, FileRequest
    <3>2. QED  BY <2>1, <2>2, <3>1 DEF WorkFits, Working
  <2>5. CASE RemoveObjects(p)
    <3>1. freq'[p].step = "dropped" /\ freq[p].step = "found" /\ freq[p].op = "remove"
      BY <2>1, <2>5 DEF RemoveObjects, FilesTypeOK, FileRequest
    <3>2. QED  BY <2>1, <2>2, <3>1 DEF WorkFits, Working
  <2>6. QED  BY <1>4, <2>3, <2>4, <2>5 DEF Advances
<1>5. QED
  BY <1>1, <1>2, <1>3, <1>4, OneRequest, Alone

\* What one request does in a step.
LEMMA OneRequestMoves ==
    ASSUME TypeOK, FilesTypeOK, FileAssumption, ContentAssumption, [FilesNext]_allVars,
           NEW p \in FileRequests
    PROVE  freq'[p] = freq[p] \/ freq'[p] = Quiet \/ Begins(p) \/ Advances(p)
BY OneRequest, Alone

\* A request at work sees no new file where its own was.
LEMMA WorkersFile ==
    ASSUME TypeOK, FilesInv, FileAssumption, ContentAssumption, [FilesNext]_allVars,
           NEW p \in FileRequests, Working(p), IsFile(freq[p].file)'
    PROVE  freq[p].file \in FileIds /\ (freq'[p] = freq[p] => IsFile(freq[p].file))
<1>1. freq[p].file \in FileIds
  BY DEF FilesInv, WorkFits, FilesTypeOK
<1>2. ASSUME freq'[p] = freq[p], ~IsFile(freq[p].file)
      PROVE  FALSE
  <2>1. IsFile(freq[p].file)' /\ freq[p].file = freq'[p].file
    BY <1>2
  <2>2. PICK q \in FileRequests : InitCommit(q) /\ freq[q].file = freq[p].file /\ Uploading(q)
    <3> DEFINE f == freq[p].file
    <3>1. f \in FileIds /\ ~IsFile(f) /\ file'[f] # NoFile
      BY <1>1, <1>2, <2>1 DEF IsFile
    <3> HIDE DEF f
    <3>2. \E q \in FileRequests : InitCommit(q) /\ freq[q].file = f /\ Uploading(q)
      BY <3>1, NewFiles DEF FilesInv, IsFile
    <3>3. QED  BY <3>2 DEF f
  <2>3. p = q
    BY <2>2 DEF FilesInv, UploadsOwn
  <2>4. QED  BY <2>2, <2>3 DEF Working, Uploading
<1>3. QED  BY <1>1, <1>2

\* A file keeps its row and its parent, and once complete it stays so.
LEMMA FileLasts ==
    ASSUME TypeOK, FilesInv, FileAssumption, ContentAssumption, [FilesNext]_allVars,
           NEW f \in FileIds, IsFile(f), IsFile(f)'
    PROVE  /\ file'[f].parent = file[f].parent /\ file'[f].row = file[f].row
           /\ file[f].status = "complete" => file'[f].status = "complete"
<1>1. ~ \E q \in FileRequests : InitCommit(q) /\ freq[q].file = f
  BY DEF FilesInv, UploadsOwn, Uploading, InitCommit
<1>2. file'[f] # NoFile
  BY DEF IsFile
<1>3. QED
  BY <1>1, <1>2, FileRows DEF FilesInv

LEMMA CompleteKeeps ==
    ASSUME TypeOK, FilesInv, FileAssumption, ContentAssumption, [FilesNext]_allVars
    PROVE  CompleteHasObject'
<1> SUFFICES ASSUME NEW f \in FileIds, file'[f].status = "complete"
             PROVE  Sound(f)'
  BY DEF CompleteHasObject, Sound
<1>1. IsFile(f)'
  BY FileRecords DEF IsFile, NoFile
<1>2. file'[f] # NoFile
  BY <1>1 DEF IsFile
<1>3. CASE file[f].status = "complete"
  <2>1. IsFile(f) /\ Sound(f)
    BY <1>3 DEF IsFile, NoFile, FilesInv, CompleteHasObject, Sound
  <2>2. QED  BY <1>1, <2>1, SoundStays DEF FilesInv
<1>4. CASE file[f].status # "complete"
  <2>1. PICK q \in FileRequests : CompleteCommit(q) /\ freq[q].file = f /\ file[f] \in FileRow
    BY <1>2, <1>4, FileRows DEF FilesInv
  <2>2. IsFile(f)
    BY <2>1, FileRecords DEF IsFile, FilesInv
  <2>3. Sound(f)
    BY <2>1, <2>2 DEF CompleteCommit, FilesInv, CompletersRight, Working
  <2>4. QED  BY <1>1, <2>2, <2>3, SoundStays DEF FilesInv
<1>5. QED  BY <1>3, <1>4

LEMMA SharedKeeps ==
    ASSUME TypeOK, FilesInv, FileAssumption, ContentAssumption, [FilesNext]_allVars
    PROVE  SharedAreComplete'
<1> SUFFICES ASSUME NEW f \in FileIds, file'[f].shared
             PROVE  file'[f].status = "complete"
  BY DEF SharedAreComplete
<1>1. file'[f] # NoFile
  BY DEF NoFile
<1>2. file[f].shared => file[f].status = "complete"
  BY DEF FilesInv, SharedAreComplete
<1>3. CASE file[f].status = "complete"
  <2>1. IsFile(f) /\ IsFile(f)'
    BY <1>1, <1>3 DEF IsFile, NoFile
  <2>2. QED  BY <1>3, <2>1, FileLasts
<1>4. CASE file[f].status # "complete"
  <2>1. PICK q \in FileRequests : ShareCommit(q) /\ freq[q].file = f /\ file[f] \in FileRow
    BY <1>1, <1>2, <1>4, FileRows DEF FilesInv
  <2>2. IsFile(f)
    BY <2>1, FileRecords DEF IsFile, FilesInv
  <2>3. QED
    BY <1>4, <2>1, <2>2 DEF ShareCommit, FilesInv, SharersRight, Working
<1>5. QED  BY <1>3, <1>4

\* The steps in which a request at work advances.
LEMMA WorkAdvances ==
    ASSUME FilesInv, FileAssumption, ContentAssumption,
           NEW p \in FileRequests, Advances(p), Working(p)'
    PROVE  /\ Working(p) /\ file' = file /\ unseen' = unseen
           /\ \/ CompleteAssemble(p) /\ freq[p].op = "assemble"
              \/ RemoveObjects(p) /\ freq[p].op = "remove"
<1>1. freq[p] \in FileRequest
  BY FileRecords DEF FilesInv
<1>2. CASE InitCheck(p) \/ InitInsert(p)
  <2>1. freq'[p].step \in {"checked", "inserted"}
    BY <1>1, <1>2 DEF InitCheck, InitInsert, FileGoto, FilesInv, FilesTypeOK, FileRequest
  <2>2. QED  BY <2>1 DEF Working
<1>3. CASE CompleteAssemble(p)
  BY <1>3 DEF CompleteAssemble, Working
<1>4. CASE RemoveObjects(p)
  BY <1>4 DEF RemoveObjects, Working
<1>5. QED  BY <1>2, <1>3, <1>4 DEF Advances

LEMMA CompletersKeep ==
    ASSUME TypeOK, FilesInv, FileAssumption, ContentAssumption, [FilesNext]_allVars
    PROVE  CompletersRight'
<1> SUFFICES ASSUME NEW p \in FileRequests, Working(p)', IsFile(freq[p].file)',
                    freq'[p].op = "complete" \/ freq'[p].step = "assembled"
             PROVE  Sound(freq[p].file)'
  BY DEF CompletersRight
<1>1. CASE freq'[p] = freq[p]
  <2>1. Working(p) /\ file'[freq[p].file] # NoFile
    BY <1>1 DEF Working, IsFile
  <2>2. PICK f \in FileIds : f = freq[p].file /\ IsFile(f) /\ Sound(f)
    BY <1>1, <2>1, WorkersFile DEF FilesInv, CompletersRight, IsFile
  <2>3. Sound(f)'
    BY <2>1, <2>2, SoundStays DEF FilesInv, IsFile
  <2>4. QED  BY <1>1, <2>2, <2>3 DEF Sound, Dropping
<1>2. CASE freq'[p] = Quiet
  BY <1>2 DEF Quiet, Working
<1>3. CASE Begins(p)
  BY <1>3, Beginning DEF FilesInv, Working, Sound
<1>4. CASE Advances(p)
  <2>1. CompleteAssemble(p) /\ Working(p) /\ freq'[p].file = freq[p].file
    <3>1. freq'[p].op = freq[p].op /\ freq'[p].file = freq[p].file
      BY <1>4, Alone DEF FilesInv
    <3>2. ~(RemoveObjects(p) /\ freq[p].op = "remove")
      <4>1. RemoveObjects(p) => freq'[p].step = "dropped"
        BY FileRecords DEF RemoveObjects, FilesInv, FilesTypeOK, FileRequest
      <4>2. QED  BY <3>1, <4>1
    <3>3. QED  BY <1>4, <3>1, <3>2, WorkAdvances DEF FilesInv
  <2>2. freq[p].file \in FileIds
    BY <2>1 DEF FilesInv, WorkFits, FilesTypeOK
  <2>3. object'[freq[p].file] = "stored"
    BY <2>1, <2>2 DEF CompleteAssemble, FilesInv, FilesTypeOK
  <2>4. QED  BY <2>1, <2>3 DEF Sound
<1>5. QED  BY <1>1, <1>2, <1>3, <1>4, OneRequestMoves DEF FilesInv

LEMMA SharersKeep ==
    ASSUME TypeOK, FilesInv, FileAssumption, ContentAssumption, [FilesNext]_allVars
    PROVE  SharersRight'
<1> SUFFICES ASSUME NEW p \in FileRequests, Working(p)', freq'[p].op = "share",
                    IsFile(freq[p].file)'
             PROVE  file'[freq'[p].file].status = "complete"
  BY DEF SharersRight
<1>1. CASE freq'[p] = freq[p]
  <2>1. Working(p) /\ file'[freq[p].file] # NoFile
    BY <1>1 DEF Working, IsFile
  <2>2. freq[p].file \in FileIds /\ IsFile(freq[p].file) /\ file[freq[p].file].status = "complete"
    BY <1>1, <2>1, WorkersFile DEF FilesInv, SharersRight, IsFile
  <2> DEFINE f == freq[p].file
  <2>3. f \in FileIds /\ IsFile(f) /\ file'[f] # NoFile /\ file[f].status = "complete"
    BY <2>1, <2>2
  <2> HIDE DEF f
  <2>4. file'[f].status = "complete"
    BY <2>3, FileLasts DEF IsFile
  <2>5. QED  BY <1>1, <2>4 DEF f
<1>2. CASE freq'[p] = Quiet
  BY <1>2 DEF Quiet, Working
<1>3. CASE Begins(p)
  BY <1>3, Beginning DEF FilesInv, Working
<1>4. CASE Advances(p)
  BY <1>4, WorkAdvances, Alone DEF FilesInv
<1>5. QED  BY <1>1, <1>2, <1>3, <1>4, OneRequestMoves DEF FilesInv

LEMMA RemoversKeep ==
    ASSUME TypeOK, FilesInv, FileAssumption, ContentAssumption, [FilesNext]_allVars
    PROVE  RemoversSaw'
<1> SUFFICES ASSUME NEW p \in FileRequests, Working(p)', freq'[p].op = "remove"
             PROVE  /\ freq'[p].step = "found" => freq'[p].kept = {}
                    /\ freq'[p].file \in Knowing(p)'
                    /\ \A f \in FileIds :
                          IsFile(f)' /\ file'[f].parent = freq'[p].file
                            => f \in Knowing(p)' \union unseen'
  BY DEF RemoversSaw
<1>1. CASE freq'[p] = freq[p]
  <2>1. /\ freq[p].step = "found" => freq[p].kept = {}
        /\ freq[p].file \in Knowing(p)
        /\ \A f \in FileIds : IsFile(f) /\ file[f].parent = freq[p].file => f \in Knowing(p) \union unseen
    BY <1>1 DEF FilesInv, RemoversSaw, Working
  <2>2. Knowing(p)' = Knowing(p)
    BY <1>1 DEF Knowing
  <2>3. ASSUME NEW f \in FileIds, IsFile(f)', file'[f].parent = freq[p].file
        PROVE  f \in Knowing(p) \union unseen'
    <3>1. CASE IsFile(f)
      BY <2>1, <2>3, <3>1, FileLasts, TakenGrows DEF FilesInv
    <3>2. CASE ~IsFile(f)
      <4>1. PICK q \in FileRequests :
              InitCommit(q) /\ freq[q].file = f /\ file'[f].parent = freq[q].parent
        BY <2>3, <3>2, NewFiles DEF FilesInv
      <4>2. freq[p].op = "remove" /\ freq[p].file = freq[q].parent
        BY <1>1, <2>3, <4>1
      <4>3. QED  BY <4>1, <4>2 DEF InitCommit
    <3>3. QED  BY <3>1, <3>2
  <2>4. QED  BY <1>1, <2>1, <2>2, <2>3
<1>2. CASE freq'[p] = Quiet
  BY <1>2 DEF Quiet, Working
<1>3. CASE Begins(p)
  <2>1. /\ freq'[p].kept = {} /\ UNCHANGED <<file, unseen>>
        /\ freq'[p].group = {freq'[p].file} \union ChildrenOf(freq'[p].file)
    BY <1>3, Beginning DEF FilesInv, Working
  <2>2. QED  BY <2>1 DEF Knowing, ChildrenOf, IsFile
<1>4. CASE Advances(p)
  <2>1. /\ RemoveObjects(p) /\ Working(p) /\ file' = file /\ unseen' = unseen
        /\ freq'[p].file = freq[p].file /\ freq[p].op = "remove"
    BY <1>4, WorkAdvances, Alone DEF FilesInv
  <2>2. PICK done \in SUBSET freq[p].group :
          freq' = [freq EXCEPT ![p].step = "dropped", ![p].group = done,
                               ![p].kept = freq[p].group \ done]
    BY <2>1 DEF RemoveObjects
  <2>3. freq[p] \in FileRequest
    BY FileRecords DEF FilesInv
  <2>4. /\ freq'[p].step = "dropped" /\ freq'[p].group = done
        /\ freq'[p].kept = freq[p].group \ done
    BY <2>2, <2>3 DEF FilesInv, FilesTypeOK, FileRequest
  <2>5. freq[p].kept = {} /\ freq[p].step = "found"
    BY <2>1 DEF RemoveObjects, FilesInv, RemoversSaw
  <2>6. Knowing(p)' = Knowing(p)
    BY <2>2, <2>4, <2>5 DEF Knowing
  <2>7. QED
    BY <2>1, <2>4, <2>6 DEF FilesInv, RemoversSaw, IsFile
<1>5. QED  BY <1>1, <1>2, <1>3, <1>4, OneRequestMoves DEF FilesInv

LEMMA InitFiles ==
    ASSUME FilesInit, FileAssumption, ContentAssumption
    PROVE  FilesInv
<1>1. /\ file = [f \in FileIds |-> NoFile] /\ object = [f \in FileIds |-> "none"] /\ url = {}
      /\ freq = [q \in FileRequests |-> Quiet]
      /\ taken = {} /\ foreign = {} /\ early = {} /\ lost = {} /\ unseen = {}
  BY DEF FilesInit
<1>2. Quiet \in FileRequest
  BY DEF Quiet, FileRequest, FileSteps, FileOps
<1>3. FilesTypeOK
  BY <1>1, <1>2 DEF FilesTypeOK
<1>4. \A q \in FileRequests : freq[q] = Quiet /\ ~Uploading(q) /\ ~Working(q)
  BY <1>1 DEF Quiet, Uploading, Working
<1>5. \A f \in FileIds : ~IsFile(f) /\ file[f].status # "complete" /\ ~file[f].shared
  BY <1>1 DEF IsFile, NoFile
<1>6. FilesTaken /\ UploadsOwn /\ WorkFits
  <2>1. FilesTaken /\ UploadsOwn
    BY <1>4, <1>5 DEF FilesTaken, UploadsOwn
  <2>2. Quiet.step = "idle"
    BY DEF Quiet
  <2>3. WorkFits
    BY <1>4, <2>2 DEF WorkFits
  <2>4. QED  BY <2>1, <2>3
<1>7. CompletersRight /\ SharersRight /\ SharedAreComplete /\ RemoversSaw /\ CompleteHasObject
  BY <1>4, <1>5 DEF CompletersRight, SharersRight, SharedAreComplete, RemoversSaw, CompleteHasObject
<1>8. QED
  BY <1>3, <1>6, <1>7 DEF FilesInv

LEMMA NextFiles ==
    ASSUME TypeOK, FilesInv, FileAssumption, ContentAssumption, [FilesNext]_allVars
    PROVE  FilesInv'
<1>1. FilesTypeOK'
  BY FileTypes DEF FilesInv
<1>2. FilesTaken' /\ UploadsOwn' /\ WorkFits'
  BY TakenKeeps, UploadsKeep, WorkKeeps
<1>3. CompletersRight' /\ SharersRight' /\ SharedAreComplete' /\ RemoversSaw' /\ CompleteHasObject'
  BY CompletersKeep, SharersKeep, SharedKeeps, RemoversKeep, CompleteKeeps
<1>4. QED
  BY <1>1, <1>2, <1>3 DEF FilesInv

\* Content has its types also when it has files.
THEOREM ContentTypesWithFiles == FilesSpec => []TypeOK
BY ContentRefined, ContentTypes, PTL

\* What is proved of content alone is true of content with files: its log, its
\* quota, who edits, and what becomes of metadata.
THEOREM ContentWithFiles ==
    FilesSpec => [](LogIsTrue /\ QuotaOvershoot) /\ EditsByEditors /\ UntouchedKeysStay
BY ContentRefined, LogTruth, Overshoot, EditorsOnly, KeysStay, PTL

\* The invariant holds: content's types, which it needs, come from content alone.
THEOREM FilesInvariance == FilesSpec => []FilesInv
<1>1. FilesInit => FilesInv
  BY InitFiles, FileAssumption, ContentAssumption
<1>2. TypeOK /\ FilesInv /\ [FilesNext]_allVars => FilesInv'
  BY NextFiles, FileAssumption, ContentAssumption
<1>3. QED
  BY <1>1, <1>2, ContentTypesWithFiles, PTL DEF FilesSpec

\* The tables, the bucket and the requests have their types.
THEOREM FileTypesTheorem == FilesSpec => []FilesTypeOK
<1>1. FilesInv => FilesTypeOK
  BY DEF FilesInv
<1>2. QED
  BY <1>1, FilesInvariance, PTL

\* However uploads, removals and requests that fail overlap: a complete file
\* has its object, unless a removal is, or ended, between its two stores, or a
\* completion that names no parts came before the object.
THEOREM CompleteFiles == FilesSpec => []CompleteHasObject
<1>1. FilesInv => CompleteHasObject
  BY DEF FilesInv
<1>2. QED
  BY <1>1, FilesInvariance, PTL

\* A link is made of a complete file only, and so leads to an object, with the
\* same exceptions.
THEOREM LinksLead == FilesSpec => []LinksLeadToObjects
<1>1. FilesInv => LinksLeadToObjects
  BY DEF FilesInv, SharedAreComplete, CompleteHasObject, LinksLeadToObjects
<1>2. QED
  BY <1>1, FilesInvariance, PTL

-----------------------------------------------------------------------------
(***************************************************************************)
(* Removals                                                                *)
(***************************************************************************)
\* A file goes with its content, or in a removal's second step.
LEMMA FileGoes ==
    ASSUME TypeOK, FilesInv, FileAssumption, ContentAssumption, [FilesNext]_allVars,
           NEW f \in FileIds, IsFile(f), file'[f] = NoFile
    PROVE  \/ ~row'[file[f].row].there
           \/ \E q \in FileRequests : freq[q].step = "dropped" /\ freq[q].op = "remove"
<1>1. file[f] # NoFile
  BY DEF IsFile
<1>2. CASE Around
  <2>1. CASE Next /\ RowsCascade
    BY <1>1, <2>1 DEF RowsCascade
  <2>2. CASE \E g \in FileIds : ShareExpires(g)
    <3>1. PICK g \in FileIds : ShareExpires(g)
      BY <2>2
    <3>2. g = f => file'[f].status = file[f].status /\ file'[f] \in FileRow
      <4>1. file[f] \in FileRow
        BY FileRecords DEF FilesInv
      <4>2. g = f => file'[f] = [file[f] EXCEPT !.shared = FALSE]
        BY <3>1 DEF ShareExpires, FilesInv, FilesTypeOK
      <4>3. QED  BY <4>1, <4>2 DEF FileRow
    <3>3. g # f => file'[f] = file[f]
      BY <3>1 DEF ShareExpires, FilesInv, FilesTypeOK
    <3>4. QED
      BY <1>1, <3>2, <3>3, FileRecords DEF FilesInv
  <2>3. CASE UNCHANGED file
    BY <1>1, <2>3
  <2>4. QED
    BY <1>2, <2>1, <2>2, <2>3 DEF Around, ClientPuts, UrlExpires, allVars, fileVars
<1>3. ASSUME NEW q \in FileRequests, Begins(q) \/ Advances(q) \/ FileRequestFails(q)
      PROVE  FALSE
  <2>1. file' = file
    BY <1>3, Beginning DEF FilesInv, Advances, InitCheck, InitInsert, CompleteAssemble,
                           RemoveObjects, FileRequestFails
  <2>2. QED  BY <1>1, <2>1
<1>4. ASSUME NEW q \in FileRequests,
             InitCommit(q) \/ CompleteCommit(q) \/ ShareCommit(q) \/ RevokeCommit(q)
      PROVE  FALSE
  <2>1. CASE InitCommit(q)
    <3>1. freq[q].file # f
      BY <2>1 DEF FilesInv, UploadsOwn, Uploading, InitCommit
    <3>2. file'[f] = file[f]
      BY <2>1, <3>1 DEF InitCommit, FilesInv, FilesTypeOK
    <3>3. QED  BY <1>1, <3>2
  <2>2. ASSUME NEW status, NEW shared, UpdateFile(q, status, shared)
        PROVE  FALSE
    <3>1. file[f] \in FileRow /\ NoFile.row = Null /\ Null \notin Ids
      BY FileRecords DEF FilesInv, NoFile, ContentAssumption
    <3>2. file'[f].row = file[f].row
      BY <2>2, <3>1 DEF UpdateFile, FilesInv, FilesTypeOK, FileRow
    <3>3. QED  BY <3>1, <3>2 DEF FileRow
  <2>3. QED
    BY <1>4, <2>1, <2>2 DEF CompleteCommit, ShareCommit, RevokeCommit
<1>5. ASSUME NEW q \in FileRequests, RemoveCommit(q)
      PROVE  freq[q].step = "dropped" /\ freq[q].op = "remove"
  BY <1>5 DEF RemoveCommit, FilesInv, WorkFits
<1>6. QED
  BY <1>2, <1>3, <1>4, <1>5, OneRequest DEF Ends

\* When a file's row goes its object is gone, or there is a reason it is not:
\* the removal knew the file, or the file came under it unseen.
THEOREM Removed == FilesSpec => RemovedIsGone
<1>1. ASSUME TypeOK, FilesInv, [FilesNext]_allVars,
             NEW f \in FileIds, IsFile(f), file'[f] = NoFile, object'[f] = "stored"
      PROVE  \/ ~row'[file[f].row].there
             \/ \E q \in FileRequests :
                  /\ freq[q].step = "dropped"
                  /\ \/ f \in freq[q].group \union freq[q].kept
                     \/ f \in unseen
                     \/ file[f].parent # freq[q].file
  <2>1. CASE ~row'[file[f].row].there
    BY <2>1
  <2>2. CASE row'[file[f].row].there
    <3>1. PICK q \in FileRequests : freq[q].step = "dropped" /\ freq[q].op = "remove"
      BY <1>1, <2>2, FileGoes, FileAssumption, ContentAssumption
    <3>2. file[f].parent = freq[q].file => f \in freq[q].group \union freq[q].kept \union unseen
      BY <1>1, <3>1 DEF FilesInv, RemoversSaw, Working, Knowing
    <3>3. QED  BY <3>1, <3>2
  <2>3. QED  BY <2>1, <2>2
<1>2. TypeOK /\ FilesInv /\ [FilesNext]_allVars =>
        \A f \in FileIds : IsFile(f) /\ file'[f] = NoFile /\ object'[f] = "stored" =>
          \/ ~row'[file[f].row].there
          \/ \E q \in FileRequests :
               /\ freq[q].step = "dropped"
               /\ \/ f \in freq[q].group \union freq[q].kept
                  \/ f \in unseen
                  \/ file[f].parent # freq[q].file
  BY <1>1
<1>3. QED
  BY <1>2, ContentTypesWithFiles, FilesInvariance, PTL DEF FilesSpec, RemovedIsGone

-----------------------------------------------------------------------------
(***************************************************************************)
(* Storage                                                                 *)
(***************************************************************************)
LEMMA TimesMonotone ==
    ASSUME NEW k \in Nat, NEW m \in Nat, NEW n \in Nat, m <= n
    PROVE  k * m \in Nat /\ k * n \in Nat /\ k * m <= k * n
<1>1. PICK d \in Nat : n = m + d
  <2>1. n - m \in Nat /\ n = m + (n - m)
    OBVIOUS
  <2>2. QED  BY <2>1
<1>2. k * n = k * m + k * d
  BY <1>1
<1>3. k * m \in Nat /\ k * d \in Nat
  OBVIOUS
<1>4. QED
  BY <1>2, <1>3

\* One more number, and there is still a largest one.
LEMMA LargestOfMore ==
    ASSUME NEW T \in SUBSET Nat, NEW a \in Nat,
           \A S \in SUBSET T : S # {} => \E m \in S : \A n \in S : m >= n
    PROVE  \A S \in SUBSET (T \union {a}) : S # {} => \E m \in S : \A n \in S : m >= n
<1> SUFFICES ASSUME NEW S \in SUBSET (T \union {a}), S # {}
             PROVE  \E m \in S : \A n \in S : m >= n
  OBVIOUS
<1>1. CASE a \notin S
  BY <1>1
<1>2. CASE a \in S /\ S \ {a} = {}
  BY <1>2
<1>3. CASE a \in S /\ S \ {a} # {}
  <2>1. S \ {a} \in SUBSET T
    OBVIOUS
  <2>2. PICK m \in S \ {a} : \A n \in S \ {a} : m >= n
    BY <1>3, <2>1
  <2>3. CASE a >= m
    BY <1>3, <2>1, <2>2, <2>3
  <2>4. CASE ~(a >= m)
    BY <1>3, <2>1, <2>2, <2>4
  <2>5. QED  BY <2>3, <2>4
<1>4. QED  BY <1>1, <1>2, <1>3

\* Four tiers have a largest storage, so those the owner has had do.
LEMMA MostOfTiers ==
    ASSUME LimitAssumption, NEW H \in SUBSET Tiers, NEW t \in H
    PROVE  LET storage == {TierConfig[s].quotas.storage_mb : s \in H}
           IN  /\ Max(storage) \in Nat
               /\ Max(storage) \in storage
               /\ \A s \in H : TierConfig[s].quotas.storage_mb <= Max(storage)
<1> DEFINE mb(s) == TierConfig[s].quotas.storage_mb
           storage == {mb(s) : s \in H}
<1>1. \A s \in Tiers : mb(s) \in Nat
  BY LimitAssumption DEF TierConfig
<1> HIDE DEF mb
<1> DEFINE Large(T) == \A S \in SUBSET T : S # {} => \E m \in S : \A n \in S : m >= n
<1>2. /\ mb("free") \in Nat /\ mb("individual") \in Nat
      /\ mb("family") \in Nat /\ mb("lifetime") \in Nat
  BY <1>1 DEF Tiers
<1>3. Large({})
  OBVIOUS
<1>4. Large({} \union {mb("free")})
  BY <1>2, <1>3, LargestOfMore
<1>5. Large({mb("free")} \union {mb("individual")})
  BY <1>2, <1>4, LargestOfMore
<1>6. Large({mb("free"), mb("individual")} \union {mb("family")})
  BY <1>2, <1>5, LargestOfMore
<1>7. Large({mb("free"), mb("individual"), mb("family")} \union {mb("lifetime")})
  BY <1>2, <1>6, LargestOfMore
<1>8. storage \in SUBSET {mb("free"), mb("individual"), mb("family"), mb("lifetime")}
  BY DEF Tiers
<1>9. storage # {}
  OBVIOUS
<1>10. \E m \in storage : \A n \in storage : m >= n
  BY <1>7, <1>8, <1>9
<1>11. Max(storage) \in storage /\ \A n \in storage : Max(storage) >= n
  BY <1>10 DEF Max
<1>12. storage \in SUBSET Nat
  BY <1>1
<1>13. \A s \in H : mb(s) \in storage
  OBVIOUS
<1>14. \A s \in H : mb(s) <= Max(storage)
  BY <1>11, <1>12, <1>13
<1>15. Max(storage) \in Nat
  BY <1>11, <1>12
<1>16. QED
  BY <1>11, <1>14, <1>15 DEF mb

\* Tiers are only added to those the owner has had.
LEMMA HadGrows ==
    ASSUME TypeOK, tier \in had, [Next]_vars
    PROVE  tier' \in had' /\ had \subseteq had'
<1>1. ASSUME NEW q \in Requests, Begin(q) \/ Proceed(q) \/ RequestFails(q)
      PROVE  UNCHANGED <<tier, had>>
  BY <1>1 DEF Begin, PlanAccess, Proceed, Entitled, CheckEntitlements, Insert, FindOne, Write,
              CommitCreate, CommitUpdate, CommitDelete, RequestFails
<1>2. ASSUME NEW c \in Contacts, NEW l \in Levels \union {"none"}, ChangeLevel(c, l)
      PROVE  UNCHANGED <<tier, had>>
  BY <1>2 DEF ChangeLevel
<1>3. ASSUME NEW t \in TiersSeen, ChangeTier(t)
      PROVE  tier' \in had' /\ had \subseteq had'
  BY <1>3 DEF ChangeTier
<1>4. QED
  BY <1>1, <1>2, <1>3 DEF Next, vars

LEMMA MostMbGrows ==
    ASSUME TypeOK, TypeOK', tier \in had, [Next]_vars, LimitAssumption
    PROVE  MostMb \in Nat /\ MostMb' \in Nat /\ MostMb <= MostMb'
<1>1. had \in SUBSET Tiers /\ tier \in had /\ had' \in SUBSET Tiers /\ tier' \in had' /\ had \subseteq had'
  BY HadGrows DEF TypeOK
<1>2. MostMb \in Nat /\ MostMb \in {TierConfig[s].quotas.storage_mb : s \in had}
  BY <1>1, MostOfTiers DEF MostMb
<1>3. MostMb' \in Nat /\ \A s \in had' : TierConfig[s].quotas.storage_mb <= MostMb'
  BY <1>1, MostOfTiers DEF MostMb
<1>4. QED
  BY <1>1, <1>2, <1>3

\* At most one file per request.
LEMMA FileOfEach ==
    ASSUME FileAssumption, NEW P \in SUBSET FileRequests, NEW r
    PROVE  /\ IsFiniteSet({r[q].file : q \in P})
           /\ Cardinality({r[q].file : q \in P}) \in Nat
           /\ Cardinality({r[q].file : q \in P}) <= Cardinality(FileRequests)
           /\ Cardinality(FileRequests) \in Nat /\ Cardinality(FileRequests) >= 1
<1> DEFINE T == {r[q].file : q \in P}
           f == [q \in P |-> r[q].file]
<1>1. IsFiniteSet(P) /\ Cardinality(P) <= Cardinality(FileRequests)
  BY FS_Subset DEF FileAssumption
<1>2. f \in Surjection(P, T)
  BY DEF Surjection
<1>3. IsFiniteSet(T) /\ Cardinality(T) <= Cardinality(P)
  BY <1>1, <1>2, FS_Surjection
<1>4. Cardinality(FileRequests) \in Nat /\ Cardinality(FileRequests) # 0
  BY FS_CardinalityType, FS_EmptySet DEF FileAssumption
<1>5. Cardinality(T) \in Nat /\ Cardinality(P) \in Nat
  BY <1>1, <1>3, FS_CardinalityType
<1>6. QED
  BY <1>1, <1>3, <1>4, <1>5

\* Files and uploads are finitely many.
LEMMA FewFiles ==
    ASSUME FilesInv, FileAssumption
    PROVE  /\ OwnFiles \union Arriving \in SUBSET FileIds
           /\ IsFiniteSet(OwnFiles) /\ IsFiniteSet(Arriving) /\ IsFiniteSet(OwnFiles \union Arriving)
<1>1. OwnFiles \subseteq FileIds
  BY DEF OwnFiles
<1>2. Arriving \subseteq FileIds
  BY DEF Arriving, Passed, FilesInv, UploadsOwn, Uploading, FilesTypeOK
<1>3. QED
  BY <1>1, <1>2, FS_Subset DEF FileAssumption

\* Only the check of its size lets a file of the owner in.
LEMMA OwnFilesGrow ==
    ASSUME TypeOK, FilesInv, FileAssumption, ContentAssumption, [FilesNext]_allVars,
           ~ \E q \in FileRequests : InitCheck(q) /\ freq[q].by = Owner
    PROVE  (OwnFiles \union Arriving)' \subseteq OwnFiles \union Arriving
<1>1. ASSUME NEW f \in FileIds, f \notin foreign', IsFile(f)'
      PROVE  f \in OwnFiles \union Arriving
  <2>1. f \notin foreign
    BY <1>1, TakenGrows DEF FilesInv
  <2>2. CASE IsFile(f)
    BY <2>1, <2>2 DEF OwnFiles
  <2>3. CASE ~IsFile(f)
    <3>1. PICK q \in FileRequests : InitCommit(q) /\ freq[q].file = f /\ Uploading(q)
      BY <1>1, <2>3, NewFiles DEF FilesInv
    <3>2. q \in Passed
      BY <2>1, <3>1 DEF Passed, InitCommit, FilesInv, UploadsOwn
    <3>3. QED  BY <3>1, <3>2 DEF Arriving
  <2>4. QED  BY <2>2, <2>3
<1>2. ASSUME NEW p \in FileRequests, freq'[p].step \in {"checked", "inserted"}, freq'[p].by = Owner
      PROVE  p \in Passed /\ freq'[p].file = freq[p].file
  <2>1. CASE freq'[p] = freq[p]
    BY <1>2, <2>1 DEF Passed
  <2>2. CASE freq'[p] = Quiet
    BY <1>2, <2>2 DEF Quiet
  <2>3. CASE Begins(p)
    BY <1>2, <2>3, Beginning DEF FilesInv
  <2>4. CASE Advances(p)
    <3>1. freq'[p].by = freq[p].by /\ freq'[p].file = freq[p].file /\ freq[p] \in FileRequest
      BY <2>4, Alone, FileRecords DEF FilesInv
    <3>2. CASE InitCheck(p)
      BY <1>2, <3>1, <3>2
    <3>3. CASE InitInsert(p)
      BY <1>2, <3>1, <3>3 DEF InitInsert, Passed
    <3>4. CASE CompleteAssemble(p) \/ RemoveObjects(p)
      <4>1. freq'[p].step \in {"assembled", "dropped"}
        <5>1. CompleteAssemble(p) => freq'[p].step = "assembled"
          BY <3>1 DEF CompleteAssemble, FileGoto, FilesInv, FilesTypeOK, FileRequest
        <5>2. RemoveObjects(p) => freq'[p].step = "dropped"
          BY <3>1 DEF RemoveObjects, FilesInv, FilesTypeOK, FileRequest
        <5>3. QED  BY <3>4, <5>1, <5>2
      <4>2. QED  BY <1>2, <4>1
    <3>5. QED  BY <2>4, <3>2, <3>3, <3>4 DEF Advances
  <2>5. QED  BY <2>1, <2>2, <2>3, <2>4, OneRequestMoves DEF FilesInv
<1>3. OwnFiles' \subseteq OwnFiles \union Arriving
  BY <1>1 DEF OwnFiles
<1>4. Arriving' \subseteq Arriving
  BY <1>2 DEF Arriving, Passed
<1>5. QED  BY <1>3, <1>4

\* An upload of the owner passes when all files and its own fit the tier.
LEMMA CheckFits ==
    ASSUME TypeOK, TypeOK', FilesInv, FilesInv', StorageInv, FileAssumption, LimitAssumption,
           [FilesNext]_allVars,
           NEW q \in FileRequests, InitCheck(q), freq[q].by = Owner
    PROVE  StorageInv'
<1> DEFINE N == Cardinality(FileRequests)
<1>1. tier \in had /\ [Next]_vars
  BY ContentStep DEF StorageInv
<1>2. /\ OwnFiles' = OwnFiles /\ UsageMb' = UsageMb
  BY DEF InitCheck, OwnFiles, UsageMb, IsFile
<1>3. UsageMb + SizeMb <= TierConfig[tier].quotas.storage_mb
  <2>1. TierConfig[tier].quotas.storage_mb \in Nat
    BY LimitAssumption DEF TypeOK, TierConfig
  <2>2. TierConfig[tier].quotas.storage_mb # Unlimited
    BY <2>1 DEF Unlimited
  <2>3. QED  BY <2>2 DEF InitCheck, SizeFits, CanUploadFileSize
<1>4. TierConfig[tier].quotas.storage_mb <= MostMb
  BY <1>1, MostOfTiers, LimitAssumption DEF MostMb, TypeOK
<1>5. MostMb \in Nat /\ MostMb' \in Nat /\ MostMb <= MostMb' /\ TierConfig[tier].quotas.storage_mb \in Nat
  BY <1>1, MostMbGrows, LimitAssumption DEF TypeOK, TierConfig
<1>6. /\ Cardinality(OwnFiles) \in Nat
      /\ Cardinality(OwnFiles) <= Cardinality({f \in FileIds : IsFile(f)})
      /\ Cardinality({f \in FileIds : IsFile(f)}) \in Nat
  <2>1. OwnFiles \in SUBSET {f \in FileIds : IsFile(f)} /\ {f \in FileIds : IsFile(f)} \in SUBSET FileIds
    BY DEF OwnFiles
  <2>2. IsFiniteSet({f \in FileIds : IsFile(f)})
    BY <2>1, FS_Subset DEF FileAssumption
  <2>3. QED
    BY <2>1, <2>2, FS_Subset, FS_CardinalityType
<1>7. SizeMb * Cardinality(OwnFiles) <= UsageMb /\ SizeMb * Cardinality(OwnFiles) \in Nat /\ UsageMb \in Nat
  BY <1>6, TimesMonotone DEF UsageMb, FileAssumption
<1>8. /\ IsFiniteSet(OwnFiles') /\ IsFiniteSet(Arriving') /\ Cardinality(Arriving') <= N
      /\ N \in Nat /\ N >= 1
  <2>1. IsFiniteSet(OwnFiles')
    BY <1>2, FewFiles, FileAssumption
  <2>2. Passed' \in SUBSET FileRequests
    BY DEF Passed
  <2>3. QED
    BY <2>1, <2>2, FileOfEach, FileAssumption DEF Arriving
<1>9. /\ Cardinality(Arriving') \in Nat /\ Cardinality(OwnFiles' \union Arriving') \in Nat
      /\ Cardinality(OwnFiles' \union Arriving') <= Cardinality(OwnFiles) + N
  <2>1. /\ Cardinality(Arriving') \in Nat /\ Cardinality(OwnFiles') \in Nat
        /\ IsFiniteSet(OwnFiles' \union Arriving') /\ IsFiniteSet(OwnFiles' \cap Arriving')
        /\ Cardinality(OwnFiles' \union Arriving')
             = Cardinality(OwnFiles') + Cardinality(Arriving') - Cardinality(OwnFiles' \cap Arriving')
    BY <1>8, FS_Union, FS_Intersection, FS_CardinalityType
  <2>2. Cardinality(OwnFiles' \cap Arriving') \in Nat /\ Cardinality(OwnFiles' \union Arriving') \in Nat
    BY <2>1, FS_CardinalityType
  <2>3. QED  BY <1>2, <1>8, <2>1, <2>2
<1>10. SizeMb * Cardinality(OwnFiles' \union Arriving') <= SizeMb * (Cardinality(OwnFiles) + N)
  BY <1>6, <1>8, <1>9, TimesMonotone DEF FileAssumption
<1>11. /\ SizeMb * (Cardinality(OwnFiles) + N) = SizeMb * Cardinality(OwnFiles) + SizeMb * N
       /\ SizeMb * (N - 1) = SizeMb * N - SizeMb
       /\ SizeMb * N \in Nat /\ SizeMb * Cardinality(OwnFiles' \union Arriving') \in Nat
  BY <1>6, <1>8, <1>9 DEF FileAssumption
<1>12. SizeMb * Cardinality(OwnFiles' \union Arriving') <= MostMb' + SizeMb * (N - 1)
  <2>1. SizeMb * Cardinality(OwnFiles' \union Arriving') <= UsageMb + SizeMb * N
    BY <1>7, <1>10, <1>11
  <2>2. UsageMb + SizeMb <= MostMb'
    BY <1>3, <1>4, <1>5, <1>7 DEF FileAssumption
  <2>3. QED
    BY <1>5, <1>7, <1>11, <2>1, <2>2 DEF FileAssumption
<1>13. QED
  BY <1>1, <1>12, HadGrows DEF StorageInv

LEMMA InitStorage ==
    ASSUME FilesInit, LimitAssumption, FileAssumption, ContentAssumption
    PROVE  StorageInv
<1>1. tier \in had /\ had \in SUBSET Tiers
  BY DEF FilesInit, Init, ContentAssumption
<1>2. \A q \in FileRequests : freq[q].step = "idle"
  BY DEF FilesInit, Quiet
<1>3. OwnFiles = {} /\ Passed = {}
  BY <1>2 DEF FilesInit, OwnFiles, Passed, IsFile
<1>4. Cardinality(OwnFiles \union Arriving) = 0
  BY <1>3, FS_EmptySet DEF Arriving
<1>5. MostMb \in Nat
  BY <1>1, MostOfTiers, LimitAssumption DEF MostMb
<1>6. Cardinality(FileRequests) \in Nat /\ Cardinality(FileRequests) >= 1
  BY FileOfEach, FileAssumption
<1>7. SizeMb * (Cardinality(FileRequests) - 1) \in Nat /\ SizeMb * 0 = 0
  <2>1. Cardinality(FileRequests) - 1 \in Nat /\ SizeMb \in Nat
    BY <1>6 DEF FileAssumption
  <2>2. QED  BY <2>1, TimesMonotone
<1>8. QED
  BY <1>1, <1>4, <1>5, <1>7 DEF StorageInv

LEMMA NextStorage ==
    ASSUME TypeOK, TypeOK', FilesInv, FilesInv', StorageInv,
           LimitAssumption, FileAssumption, ContentAssumption, [FilesNext]_allVars
    PROVE  StorageInv'
<1> DEFINE A == OwnFiles \union Arriving
           N == Cardinality(FileRequests)
<1>1. CASE \E q \in FileRequests : InitCheck(q) /\ freq[q].by = Owner
  BY <1>1, CheckFits
<1>2. CASE ~ \E q \in FileRequests : InitCheck(q) /\ freq[q].by = Owner
  <2>1. tier \in had /\ [Next]_vars
    BY ContentStep DEF StorageInv
  <2>2. MostMb \in Nat /\ MostMb' \in Nat /\ MostMb <= MostMb'
    BY <2>1, MostMbGrows
  <2>3. IsFiniteSet(A) /\ A' \in SUBSET A
    BY <1>2, OwnFilesGrow, FewFiles
  <2>4. Cardinality(A) \in Nat /\ Cardinality(A') \in Nat /\ Cardinality(A') <= Cardinality(A)
    BY <2>3, FS_Subset, FS_CardinalityType
  <2>5. /\ SizeMb * Cardinality(A) \in Nat /\ SizeMb * Cardinality(A') \in Nat
        /\ SizeMb * Cardinality(A') <= SizeMb * Cardinality(A)
    BY <2>4, TimesMonotone DEF FileAssumption
  <2>6. SizeMb * (N - 1) \in Nat
    <3>1. N \in Nat /\ N >= 1
      BY FileOfEach
    <3>2. N - 1 \in Nat /\ SizeMb \in Nat
      BY <3>1 DEF FileAssumption
    <3>3. QED  BY <3>2, TimesMonotone
  <2>7. SizeMb * Cardinality(A) <= MostMb + SizeMb * (N - 1)
    BY DEF StorageInv
  <2> HIDE DEF A, N
  <2>8. SizeMb * Cardinality(A') <= MostMb' + SizeMb * (N - 1)
    BY <2>2, <2>5, <2>6, <2>7
  <2>9. tier' \in had'
    BY <2>1, HadGrows
  <2>10. QED  BY <2>8, <2>9 DEF StorageInv, A, N
<1>3. QED  BY <1>1, <1>2

\* Uploads that overlap exceed the owner's storage by less than what the
\* requests in flight add, however the owner's tier changes meanwhile.
THEOREM StorageBound == FilesSpec => []StorageBounded
<1>1. FilesInit => StorageInv
  BY InitStorage, LimitAssumption, FileAssumption, ContentAssumption
<1>2. TypeOK /\ TypeOK' /\ FilesInv /\ FilesInv' /\ StorageInv /\ [FilesNext]_allVars => StorageInv'
  BY NextStorage, LimitAssumption, FileAssumption, ContentAssumption
<1>3. ASSUME TypeOK, FilesInv, StorageInv
      PROVE  StorageBounded
  <2> DEFINE N == Cardinality(FileRequests)
  <2>1. IsFiniteSet(OwnFiles \union Arriving) /\ OwnFiles \in SUBSET (OwnFiles \union Arriving)
    BY <1>3, FewFiles, FileAssumption
  <2>2. /\ Cardinality(OwnFiles) \in Nat /\ Cardinality(OwnFiles \union Arriving) \in Nat
        /\ Cardinality(OwnFiles) <= Cardinality(OwnFiles \union Arriving)
    BY <2>1, FS_Subset, FS_CardinalityType
  <2>3. /\ SizeMb * Cardinality(OwnFiles) <= SizeMb * Cardinality(OwnFiles \union Arriving)
        /\ SizeMb * Cardinality(OwnFiles) \in Nat /\ SizeMb * Cardinality(OwnFiles \union Arriving) \in Nat
    BY <2>2, TimesMonotone, FileAssumption DEF FileAssumption
  <2>4. MostMb \in Nat
    BY <1>3, MostOfTiers, LimitAssumption DEF MostMb, StorageInv, TypeOK
  <2>5. SizeMb * (N - 1) \in Nat
    <3>1. N \in Nat /\ N >= 1
      BY FileOfEach, FileAssumption
    <3>2. N - 1 \in Nat /\ SizeMb \in Nat
      BY <3>1, FileAssumption DEF FileAssumption
    <3>3. QED  BY <3>2, TimesMonotone
  <2>6. SizeMb * Cardinality(OwnFiles \union Arriving) <= MostMb + SizeMb * (N - 1)
    BY <1>3 DEF StorageInv
  <2> HIDE DEF N
  <2>7. SizeMb * Cardinality(OwnFiles) <= MostMb + SizeMb * (N - 1)
    BY <2>3, <2>4, <2>5, <2>6
  <2>8. QED  BY <2>7 DEF StorageBounded, OwnFiles, N
<1>4. QED
  BY <1>1, <1>2, <1>3, ContentTypesWithFiles, FilesInvariance, PTL DEF FilesSpec
=============================================================================
