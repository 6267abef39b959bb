------------------------------ MODULE MCFiles ------------------------------
(* Instances of PlanContent and Files for TLC.  What is asked within one   *)
(* behaviour is limited to one scenario:                                   *)
(*   quota    entries are created and deleted on a plan with a quota       *)
(*   edit     one message is created, updated and deleted                  *)
(*   uploads  files are attached to an entry                               *)
(*   links    one file is uploaded, shared and removed                     *)
(*   removals files of an entry, one under another, are removed            *)
EXTENDS Files, TLC

CONSTANTS e1, e2, e3, m1, f1, f2, f3

VARIABLE scenario

Entries == {e1, e2, e3}
KindOfId == [i \in Ids |-> IF i \in Entries THEN "entry" ELSE "message"]
Storage == [t \in Tiers \ {"free"} |-> IF t = "family" THEN 4 ELSE 3]

LevelsSeen ==
    CASE scenario = "edit" -> Levels \union {"none"}
      [] scenario = "quota" -> {"none", "full_edit"}
      [] scenario = "removals" -> {"none"}
      [] OTHER -> {"full_edit", "full_view"}

Symmetry == Permutations(Requests) \union Permutations(FileRequests)

MCInit ==
    /\ FilesInit
    /\ scenario \in {"quota", "edit", "uploads", "links", "removals"}
    /\ scenario = "quota" => tier = "free"
    /\ tier = "family" <=> scenario \in {"links", "removals"}

Asks(q, op, u, i) ==
    CASE scenario = "quota" -> i \in Entries /\ op # "update" /\ (op = "delete" => u = Owner)
      [] scenario = "edit" -> i = m1
      [] scenario = "uploads" -> i = e1 /\ op = "create" /\ u = Owner
      [] OTHER -> i = e1 /\ op # "update" /\ u = Owner /\ \A p \in Requests \ {q} : req[p] = Idle

\* New ids are alike: they are used in this order.
InTurn(i) ==
    LET before == used \union {req'[q].id : q \in Requests}
    IN  (i = e2 => e1 \in before) /\ (i = e3 => e2 \in before)

AskContent(q) ==
    \E op \in Ops, u \in Contacts \union {Owner}, i \in Ids :
        /\ Asks(q, op, u, i)
        /\ op = "create" => Spare(KindOf[i])
        /\ \E p \in Patches : PlanAccess(q, op, u, i, p)
        /\ InTurn(i)

AskUpload(q) ==
    \E u \in Contacts \union {Owner}, f \in FileIds :
        \/ /\ scenario = "uploads"
           /\ e1 \in used /\ InitGuard(q, u, f, e1, Null)
        \/ /\ scenario = "links" /\ f \in {f1, f2} /\ taken \subseteq {f}
           /\ \/ e1 \in used /\ InitGuard(q, u, f, e1, Null)
              \/ CompleteSelect(q, u, f)
              \/ ShareSelect(q, u, f)
              \/ RevokeSelect(q, u, f)
              \/ RemoveSelect(q, u, f)
        \/ /\ scenario = "removals" /\ f \in {f1, f2} /\ u = Owner
           /\ \/ \E p \in {Null} \union (IF f = f1 THEN {f2} ELSE {}) :
                    e1 \in used /\ InitGuard(q, u, f, e1, p)
              \/ CompleteSelect(q, u, f)
              \/ RemoveSelect(q, u, f)

Change ==
    \/ \E c \in Contacts, l \in LevelsSeen : ChangeLevel(c, l)
    \/ scenario \in {"edit", "uploads"} /\ \E t \in {"free", "individual"} : ChangeTier(t)

ContentStep == RowsCascade /\ UNCHANGED scenario
FileStep == UNCHANGED scenario

MCNext ==
    \/ \E q \in Requests :
        \/ AskContent(q) /\ ContentStep
        \/ Entitled(q) /\ ContentStep
        \/ Insert(q) /\ ContentStep
        \/ FindOne(q) /\ ContentStep
        \/ Write(q) /\ ContentStep
        \/ CommitCreate(q) /\ ContentStep
        \/ CommitUpdate(q) /\ ContentStep
        \/ CommitDelete(q) /\ ContentStep
        \/ RequestFails(q) /\ ContentStep
    \/ Change /\ ContentStep
    \/ \E q \in FileRequests :
        \/ AskUpload(q) /\ FileStep
        \/ InitCheck(q) /\ FileStep
        \/ InitInsert(q) /\ FileStep
        \/ InitCommit(q) /\ FileStep
        \/ CompleteAssemble(q) /\ FileStep
        \/ CompleteCommit(q) /\ FileStep
        \/ ShareCommit(q) /\ FileStep
        \/ RevokeCommit(q) /\ FileStep
        \/ RemoveObjects(q) /\ FileStep
        \/ RemoveCommit(q) /\ FileStep
        \/ FileRequestFails(q) /\ FileStep
    \/ \E f \in FileIds :
        \/ ClientPuts(f) /\ FileStep
        \/ UrlExpires(f) /\ scenario = "links" /\ FileStep
        \/ ShareExpires(f) /\ FileStep

MCSpec == MCInit /\ [][MCNext]_<<allVars, scenario>>
=============================================================================
