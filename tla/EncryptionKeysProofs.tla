------------------------ MODULE EncryptionKeysProofs ------------------------
(* Theorems about EncryptionKeys, for any accounts, bounds and requests. *)
EXTENDS EncryptionKeys, TLAPS

(***************************************************************************)
(* Type correctness.  What a request holds fits the stage it is at: the    *)
(* account whose keys it changes, and copies with a slot each.             *)
(***************************************************************************)
RequestFits(r) ==
    /\ r.op \in {"setup", "register", "numbering", "deactivate"} => r.user \in Accounts
    /\ r.op \in {"register", "numbering"} => r.type \in KeyTypes
    /\ SlotsUnique(r.wraps)

RequestsFit == \A q \in Requests : RequestFits(req[q])

TypeInv == TypeOK /\ RequestsFit

\* Idle is a request that fits.
LEMMA IdleFits == Idle \in Request /\ RequestFits(Idle)
  BY DEF Idle, Asked, Request, RequestFits, SlotsUnique

\* A row is written in place.
LEMMA RowWritten ==
    ASSUME TypeOK, NEW u \in Accounts, NEW v \in Versions, NEW r \in KeyRow
    PROVE  [key EXCEPT ![u][v] = r] \in [Accounts -> [Versions -> KeyRow]]
  BY DEF TypeOK

\* A request at another stage, or answered, leaves the others as they were.
LEMMA RequestWritten ==
    ASSUME TypeInv, NEW q \in Requests, NEW r \in Request, RequestFits(r),
           req' = [req EXCEPT ![q] = r]
    PROVE  req' \in [Requests -> Request] /\ RequestsFit'
  <1>1. req' \in [Requests -> Request]
    BY DEF TypeInv, TypeOK
  <1>2. ASSUME NEW p \in Requests PROVE RequestFits(req'[p])
    <2>1. CASE p = q
      BY <2>1 DEF TypeInv, TypeOK
    <2>2. CASE p # q
      <3>1. req'[p] = req[p]
        BY <2>2 DEF TypeInv, TypeOK
      <3> QED  BY <3>1 DEF TypeInv, RequestsFit
    <2> QED  BY <2>1, <2>2
  <1>3. RequestsFit'
    BY <1>2 DEF RequestsFit, RequestFits, SlotsUnique, SameSlot
  <1> QED  BY <1>1, <1>3

\* The row of a key that is taken out of use.
LEMMA RowsTakenOut ==
    ASSUME TypeOK, NEW u \in Accounts, NEW v \in Versions
    PROVE  /\ [key[u][v] EXCEPT !.active = FALSE] \in KeyRow
           /\ [key[u][v] EXCEPT !.type = "none", !.active = FALSE] \in KeyRow
  <1>1. key[u][v] \in KeyRow
    BY DEF TypeOK
  <1> QED  BY <1>1 DEF KeyRow, KeyTypes

\* The row of a new key.
LEMMA RowInserted ==
    ASSUME TypeOK, NEW u \in Accounts, NEW v \in Versions, NEW t \in KeyTypes,
           InsertKey(u, v, t)
    PROVE  key' \in [Accounts -> [Versions -> KeyRow]]
  <1>1. key[u][v] \in KeyRow
    BY DEF TypeOK
  <1>2. [type |-> t, active |-> TRUE, nth |-> key[u][v].nth + 1] \in KeyRow
    BY <1>1 DEF KeyRow, KeyTypes
  <1>3. key' = [key EXCEPT ![u][v] = [type |-> t, active |-> TRUE, nth |-> key[u][v].nth + 1]]
    BY DEF InsertKey, TypeOK
  <1> QED  BY <1>2, <1>3, RowWritten

\* What a SELECT of an account's keys returns.
LEMMA KeysOfType ==
    ASSUME TypeOK, NEW u \in Accounts
    PROVE  KeysOf(u) \in SUBSET (Versions \X Nat)
  BY DEF TypeOK, KeysOf, KeyRow

\* A copy made for an active key.
LEMMA WrapType ==
    ASSUME TypeOK, NEW u \in Accounts, NEW v \in Versions, NEW g \in 1..MaxGen,
           key[u][v].active
    PROVE  Wrap(u, v, g) \in Copy
  <1>1. key[u][v] \in KeyRow
    BY DEF TypeOK
  <1> QED  BY <1>1 DEF KeyRow, KeyTypes, Wrap, Copy

LEMMA InitType == Init => TypeInv
  <1> SUFFICES ASSUME Init PROVE TypeInv
    OBVIOUS
  <1>1. key \in [Accounts -> [Versions -> KeyRow]]
    BY DEF Init, KeyRow, KeyTypes
  <1>2. req \in [Requests -> Request] /\ RequestsFit
    BY IdleFits DEF Init, RequestsFit
  <1>3. copies \subseteq Copy /\ SlotsUnique(copies) /\ overtaken \subseteq Requests
    BY DEF Init, SlotsUnique
  <1>4. made \in 0..MaxGen
    BY BoundAssumption DEF Init
  <1>5. mixed \in BOOLEAN
    BY DEF Init
  <1> QED  BY <1>1, <1>2, <1>3, <1>4, <1>5 DEF TypeInv, TypeOK

\* Any subset of the copies will do.
LEMMA FewerCopies ==
    ASSUME TypeOK, NEW S \in SUBSET copies
    PROVE  S \subseteq Copy /\ SlotsUnique(S)
  BY DEF TypeOK, SlotsUnique

\* A request that begins, reading only.
LEMMA TypeBegin ==
    ASSUME TypeInv, NEW q \in Requests, NEW r \in Request, RequestFits(r),
           made' \in 0..MaxGen, Begin(q, r)
    PROVE  TypeInv'
  <1>1. req' \in [Requests -> Request] /\ RequestsFit'
    BY RequestWritten DEF Begin
  <1>2. UNCHANGED <<key, copies, overtaken, mixed>>
    BY DEF Begin
  <1> QED  BY <1>1, <1>2 DEF TypeInv, TypeOK, SlotsUnique, SameSlot

LEMMA TypeGoto ==
    ASSUME TypeInv, NEW q \in Requests, NEW r \in Request, RequestFits(r), Goto(q, r)
    PROVE  TypeInv'
  <1>1. req' \in [Requests -> Request] /\ RequestsFit'
    BY RequestWritten DEF Goto
  <1>2. UNCHANGED <<key, copies, made, overtaken, mixed>>
    BY DEF Goto
  <1> QED  BY <1>1, <1>2 DEF TypeInv, TypeOK, SlotsUnique, SameSlot

\* A request that is answered, whatever it wrote.
LEMMA TypeAnswered ==
    ASSUME TypeInv, NEW q \in Requests, req' = [req EXCEPT ![q] = Idle],
           key' \in [Accounts -> [Versions -> KeyRow]],
           copies' \subseteq Copy, SlotsUnique(copies'), made' \in 0..MaxGen,
           overtaken' \subseteq Requests, mixed' \in BOOLEAN
    PROVE  TypeInv'
  <1>1. req' \in [Requests -> Request] /\ RequestsFit'
    BY IdleFits, RequestWritten
  <1>2. SlotsUnique(copies)'
    BY DEF SlotsUnique, SameSlot
  <1> QED  BY <1>1, <1>2 DEF TypeInv, TypeOK

LEMMA TypeSetupSelect ==
    ASSUME TypeInv, NEW q \in Requests, NEW u \in Accounts, SetupSelect(q, u)
    PROVE  TypeInv'
  <1> DEFINE c == [user |-> u, type |-> "device", version |-> 1,
                   nth |-> key[u][1].nth + 1, gen |-> made + 1]
  <1>1. CASE u = Owner /\ made < MaxGen /\ made' = made + 1
             /\ Begin(q, Asked("setup", u, "none", {}, {c}))
    <2>1. made \in Nat /\ made + 1 \in 1..MaxGen /\ made' \in 0..MaxGen /\ 1 \in Versions
      BY <1>1, BoundAssumption DEF TypeInv, TypeOK, Versions
    <2>2. key[u][1] \in KeyRow
      BY <2>1 DEF TypeInv, TypeOK
    <2>3. c \in Copy
      BY <2>1, <2>2 DEF Copy, KeyTypes, KeyRow
    <2> HIDE DEF c
    <2>4. Asked("setup", u, "none", {}, {c}) \in Request
          /\ RequestFits(Asked("setup", u, "none", {}, {c}))
      BY <2>3 DEF Asked, Request, RequestFits, SlotsUnique
    <2> QED  BY <1>1, <2>1, <2>4, TypeBegin
  <1>2. CASE UNCHANGED made /\ Begin(q, Asked("setup", u, "none", {}, {}))
    <2>1. Asked("setup", u, "none", {}, {}) \in Request
          /\ RequestFits(Asked("setup", u, "none", {}, {}))
      BY DEF Asked, Request, RequestFits, SlotsUnique
    <2>2. made' \in 0..MaxGen
      BY <1>2 DEF TypeInv, TypeOK
    <2> QED  BY <1>2, <2>1, <2>2, TypeBegin
  <1> QED  BY <1>1, <1>2 DEF SetupSelect

LEMMA TypeSetupCommit ==
    ASSUME TypeInv, NEW q \in Requests, SetupCommit(q)
    PROVE  TypeInv'
  <1> DEFINE u == req[q].user
             n == key[u][1].nth + 1
             W == {[c EXCEPT !.nth = n] : c \in req[q].wraps}
  <1>1. u \in Accounts /\ req[q].wraps \subseteq Copy /\ SlotsUnique(req[q].wraps)
    BY DEF SetupCommit, TypeInv, TypeOK, Request, RequestsFit, RequestFits
  <1>2. 1 \in Versions
    BY BoundAssumption DEF Versions
  <1>3. key' \in [Accounts -> [Versions -> KeyRow]]
    BY <1>1, <1>2, RowInserted DEF SetupCommit, TypeInv, KeyTypes
  <1>4. n \in Nat
    BY <1>1, <1>2 DEF TypeInv, TypeOK, KeyRow
  <1> HIDE DEF n
  <1>5. \A c \in req[q].wraps : [c EXCEPT !.nth = n] \in Copy /\ SameSlot([c EXCEPT !.nth = n], c)
    BY <1>1, <1>4 DEF Copy, SameSlot
  <1>6. W \subseteq Copy
    BY <1>5
  <1>7. copies' = copies \union W
    BY DEF SetupCommit, n
  <1>8. \A c \in W : \E e \in req[q].wraps : c = [e EXCEPT !.nth = n] /\ SameSlot(c, e)
    BY <1>5
  <1> HIDE DEF W
  <1>9. ASSUME NEW c \in W, NEW d \in copies PROVE ~SameSlot(c, d) /\ ~SameSlot(d, c)
    <2>1. PICK e \in req[q].wraps : SameSlot(c, e)
      BY <1>8
    <2>2. ~SameSlot(e, d)
      BY DEF SetupCommit
    <2> QED  BY <2>1, <2>2 DEF SameSlot
  <1>10. ASSUME NEW c \in W, NEW d \in W, SameSlot(c, d) PROVE c = d
    <2>1. PICK e \in req[q].wraps : c = [e EXCEPT !.nth = n] /\ SameSlot(c, e)
      BY <1>8
    <2>2. PICK f \in req[q].wraps : d = [f EXCEPT !.nth = n] /\ SameSlot(d, f)
      BY <1>8
    <2>3. SameSlot(e, f)
      BY <1>10, <2>1, <2>2 DEF SameSlot
    <2>4. e = f
      BY <1>1, <2>3 DEF SlotsUnique
    <2> QED  BY <2>1, <2>2, <2>4
  <1>11. SlotsUnique(copies')
    <2>1. SlotsUnique(copies)
      BY DEF TypeInv, TypeOK
    <2> QED  BY <1>7, <1>9, <1>10, <2>1 DEF SlotsUnique
  <1>12. copies' \subseteq Copy /\ made' \in 0..MaxGen
    BY <1>6, <1>7 DEF SetupCommit, TypeInv, TypeOK
  <1>13. req' = [req EXCEPT ![q] = Idle] /\ overtaken' \subseteq Requests /\ mixed' \in BOOLEAN
    BY DEF SetupCommit, Overtakes, TypeInv, TypeOK
  <1> QED  BY <1>3, <1>11, <1>12, <1>13, TypeAnswered

LEMMA TypeRegisterSelect ==
    ASSUME TypeInv, NEW q \in Requests, NEW u \in Accounts, NEW t \in KeyTypes,
           RegisterSelect(q, u, t)
    PROVE  TypeInv'
  <1> DEFINE r == Asked("register", u, t, KeysOf(u), {})
  <1>1. r \in Request /\ RequestFits(r)
    BY KeysOfType DEF TypeInv, Asked, Request, RequestFits, SlotsUnique
  <1>2. made' \in 0..MaxGen /\ Begin(q, r)
    BY DEF RegisterSelect, TypeInv, TypeOK
  <1> QED  BY <1>1, <1>2, TypeBegin

LEMMA TypeRegisterLock ==
    ASSUME TypeInv, NEW q \in Requests, RegisterLock(q)
    PROVE  TypeInv'
  <1> DEFINE r == [req[q] EXCEPT !.op = "numbering", !.seen = @ \intersect KeysOf(req[q].user)]
  <1>1. req[q] \in Request /\ RequestFits(req[q]) /\ req[q].op = "register"
    BY DEF TypeInv, TypeOK, RequestsFit, RegisterLock
  <1>2. r \in Request /\ RequestFits(r)
    BY <1>1 DEF Request, RequestFits
  <1>3. Goto(q, r)
    BY DEF RegisterLock
  <1> QED  BY <1>2, <1>3, TypeGoto

LEMMA TypeRegisterInsert ==
    ASSUME TypeInv, NEW q \in Requests, RegisterInsert(q)
    PROVE  TypeInv'
  <1>1. req[q].user \in Accounts /\ req[q].type \in KeyTypes
    BY DEF RegisterInsert, TypeInv, RequestsFit, RequestFits
  <1>2. key' \in [Accounts -> [Versions -> KeyRow]]
    BY <1>1, RowInserted DEF RegisterInsert, TypeInv
  <1>3. copies' \subseteq Copy /\ SlotsUnique(copies') /\ made' \in 0..MaxGen
    BY DEF RegisterInsert, TypeInv, TypeOK
  <1>4. req' = [req EXCEPT ![q] = Idle] /\ overtaken' \subseteq Requests /\ mixed' \in BOOLEAN
    BY DEF RegisterInsert, Finish, TypeInv, TypeOK
  <1> QED  BY <1>2, <1>3, <1>4, TypeAnswered

LEMMA TypeDeleteKey ==
    ASSUME TypeInv, NEW u \in Accounts, NEW v \in Versions, DeleteKey(u, v)
    PROVE  TypeInv'
  <1>1. key' \in [Accounts -> [Versions -> KeyRow]]
    BY RowsTakenOut, RowWritten DEF DeleteKey, TypeInv, TypeOK
  <1>2. copies' \in SUBSET copies
    BY DEF DeleteKey, DropCopies
  <1>3. copies' \subseteq Copy /\ SlotsUnique(copies)'
    BY <1>2, FewerCopies DEF TypeInv, SlotsUnique, SameSlot
  <1> QED  BY <1>1, <1>3 DEF DeleteKey, TypeInv, TypeOK, RequestsFit, RequestFits, SlotsUnique, SameSlot

LEMMA TypeDeactivateSelect ==
    ASSUME TypeInv, NEW q \in Requests, NEW u \in Accounts, NEW v \in Versions,
           DeactivateSelect(q, u, v)
    PROVE  TypeInv'
  <1> DEFINE n == key[u][v].nth
             r == Asked("deactivate", u, "none", {<<v, n>>}, {})
  <1>1. n \in Nat
    BY DEF TypeInv, TypeOK, KeyRow
  <1>2. made' \in 0..MaxGen /\ Begin(q, r)
    BY DEF DeactivateSelect, TypeInv, TypeOK
  <1> HIDE DEF n
  <1>3. r \in Request /\ RequestFits(r)
    BY <1>1 DEF Asked, Request, RequestFits, SlotsUnique
  <1> QED  BY <1>2, <1>3, TypeBegin

LEMMA TypeDeactivateCommit ==
    ASSUME TypeInv, NEW q \in Requests, DeactivateCommit(q)
    PROVE  TypeInv'
  <1>1. req[q].user \in Accounts /\ req[q].seen \subseteq Versions \X Nat
    BY DEF DeactivateCommit, TypeInv, TypeOK, Request, RequestsFit, RequestFits
  <1>2. PICK s \in req[q].seen :
           /\ key' = [key EXCEPT ![req[q].user][s[1]] = [@ EXCEPT !.active = FALSE]]
           /\ DropCopies(req[q].user, s[1])
    BY DEF DeactivateCommit
  <1>3. s[1] \in Versions
    BY <1>1
  <1>4. key' \in [Accounts -> [Versions -> KeyRow]]
    BY <1>1, <1>2, <1>3, RowsTakenOut, RowWritten DEF TypeInv, TypeOK
  <1>5. copies' \in SUBSET copies
    BY <1>2 DEF DropCopies
  <1>6. copies' \subseteq Copy /\ SlotsUnique(copies')
    BY <1>5, FewerCopies DEF TypeInv
  <1>7. made' \in 0..MaxGen
    BY DEF DeactivateCommit, TypeInv, TypeOK
  <1>8. req' = [req EXCEPT ![q] = Idle] /\ overtaken' \subseteq Requests /\ mixed' \in BOOLEAN
    BY DEF DeactivateCommit, Finish, TypeInv, TypeOK
  <1> QED  BY <1>4, <1>6, <1>7, <1>8, TypeAnswered

LEMMA TypeStoreRead ==
    ASSUME TypeInv, NEW q \in Requests, NEW u \in Accounts, NEW v \in Versions,
           StoreRead(q, u, v)
    PROVE  TypeInv'
  <1>1. PICK g \in HeldByOwner : Begin(q, Asked("store", Null, "none", {}, {Wrap(u, v, g)}))
    BY DEF StoreRead
  <1>2. g \in 1..MaxGen
    BY DEF HeldByOwner, Copy, TypeInv, TypeOK
  <1>3. Wrap(u, v, g) \in Copy
    BY <1>2, WrapType DEF StoreRead, TypeInv
  <1> DEFINE r == Asked("store", Null, "none", {}, {Wrap(u, v, g)})
  <1>4. r \in Request /\ RequestFits(r)
    BY <1>3 DEF Asked, Request, RequestFits, SlotsUnique
  <1>5. made' \in 0..MaxGen
    BY DEF StoreRead, TypeInv, TypeOK
  <1> QED  BY <1>1, <1>4, <1>5, TypeBegin

LEMMA TypeStoreCommit ==
    ASSUME TypeInv, NEW q \in Requests, StoreCommit(q)
    PROVE  TypeInv'
  <1> DEFINE W == req[q].wraps
             K == {d \in copies : \A c \in W : ~SameSlot(c, d)}
  <1>1. W \subseteq Copy /\ SlotsUnique(W)
    BY DEF TypeInv, TypeOK, Request, RequestsFit, RequestFits
  <1>2. K \subseteq Copy /\ SlotsUnique(K)
    BY FewerCopies DEF TypeInv
  <1>3. \A c \in W, d \in K : ~SameSlot(c, d) /\ ~SameSlot(d, c)
    BY DEF SameSlot
  <1>4. copies' = K \union W
    BY DEF StoreCommit
  <1> HIDE DEF K, W
  <1>5. copies' \subseteq Copy /\ SlotsUnique(copies')
    BY <1>1, <1>2, <1>3, <1>4 DEF SlotsUnique
  <1>6. key' \in [Accounts -> [Versions -> KeyRow]] /\ made' \in 0..MaxGen
    BY DEF StoreCommit, TypeInv, TypeOK
  <1>7. req' = [req EXCEPT ![q] = Idle] /\ overtaken' \subseteq Requests /\ mixed' \in BOOLEAN
    BY DEF StoreCommit, Overtakes, TypeInv, TypeOK
  <1> QED  BY <1>5, <1>6, <1>7, TypeAnswered

LEMMA TypeRotateRead ==
    ASSUME TypeInv, NEW q \in Requests, NEW A \in SUBSET Accounts, RotateRead(q, A)
    PROVE  TypeInv'
  <1> DEFINE for == {p \in A \X Versions : key[p[1]][p[2]].active}
             W == {Wrap(p[1], p[2], made + 1) : p \in for}
             r == Asked("rotate", Null, "none", {}, W)
  <1>1. made + 1 \in 1..MaxGen /\ made' \in 0..MaxGen
    BY BoundAssumption DEF RotateRead, TypeInv, TypeOK
  <1>2. W \subseteq Copy
    BY <1>1, WrapType DEF TypeInv
  <1>3. SlotsUnique(W)
    BY DEF SlotsUnique, SameSlot, Wrap
  <1>4. Begin(q, r)
    BY DEF RotateRead
  <1> HIDE DEF W
  <1>5. r \in Request /\ RequestFits(r)
    BY <1>2, <1>3 DEF Asked, Request, RequestFits
  <1> QED  BY <1>1, <1>4, <1>5, TypeBegin

LEMMA TypeRotateCheck ==
    ASSUME TypeInv, NEW q \in Requests, RotateCheck(q)
    PROVE  TypeInv'
  <1> DEFINE r == [req[q] EXCEPT !.op = "checked"]
  <1>1. req[q] \in Request /\ RequestFits(req[q])
    BY DEF TypeInv, TypeOK, RequestsFit
  <1>2. r \in Request /\ RequestFits(r)
    BY <1>1 DEF Request, RequestFits
  <1>3. Goto(q, r)
    BY DEF RotateCheck
  <1> QED  BY <1>2, <1>3, TypeGoto

LEMMA TypeRotateDelete ==
    ASSUME TypeInv, NEW q \in Requests, RotateDelete(q)
    PROVE  TypeInv'
  <1> DEFINE r == [req[q] EXCEPT !.op = "rotating", !.old = copies]
  <1>1. req[q] \in Request /\ RequestFits(req[q]) /\ copies \subseteq Copy
    BY DEF TypeInv, TypeOK, RequestsFit
  <1>2. r \in Request /\ RequestFits(r)
    BY <1>1 DEF Request, RequestFits
  <1>3. Goto(q, r)
    BY DEF RotateDelete
  <1> QED  BY <1>2, <1>3, TypeGoto

LEMMA TypeRotateCommit ==
    ASSUME TypeInv, NEW q \in Requests, RotateCommit(q)
    PROVE  TypeInv'
  <1> DEFINE W == req[q].wraps
             K == copies \ req[q].old
  <1>1. W \subseteq Copy /\ SlotsUnique(W)
    BY DEF TypeInv, TypeOK, Request, RequestsFit, RequestFits
  <1>2. K \subseteq Copy /\ SlotsUnique(K)
    BY FewerCopies DEF TypeInv
  <1>3. \A c \in W, d \in K : ~SameSlot(c, d) /\ ~SameSlot(d, c)
    BY DEF RotateCommit, SameSlot
  <1>4. copies' = K \union W
    BY DEF RotateCommit
  <1> HIDE DEF K, W
  <1>5. copies' \subseteq Copy /\ SlotsUnique(copies')
    BY <1>1, <1>2, <1>3, <1>4 DEF SlotsUnique
  <1>6. key' \in [Accounts -> [Versions -> KeyRow]] /\ made' \in 0..MaxGen
    BY DEF RotateCommit, TypeInv, TypeOK
  <1>7. req' = [req EXCEPT ![q] = Idle] /\ overtaken' \subseteq Requests /\ mixed' \in BOOLEAN
    BY DEF RotateCommit, Overtakes, TypeInv, TypeOK
  <1> QED  BY <1>5, <1>6, <1>7, TypeAnswered

LEMMA TypeDeleteDeks ==
    ASSUME TypeInv, NEW c \in copies, DeleteDeks(c)
    PROVE  TypeInv'
  <1>1. copies' \in SUBSET copies
    BY DEF DeleteDeks
  <1>2. copies' \subseteq Copy /\ SlotsUnique(copies)'
    BY <1>1, FewerCopies DEF TypeInv, SlotsUnique, SameSlot
  <1> QED  BY <1>2 DEF DeleteDeks, TypeInv, TypeOK, RequestsFit, RequestFits, SlotsUnique, SameSlot

\* Refused and RequestFails.
LEMMA TypeGivenUp ==
    ASSUME TypeInv, NEW q \in Requests, Finish(q), UNCHANGED <<key, copies, made, mixed>>
    PROVE  TypeInv'
  <1>1. overtaken' \subseteq Requests /\ req' = [req EXCEPT ![q] = Idle]
    BY DEF Finish, TypeInv, TypeOK
  <1> QED  BY <1>1, TypeAnswered DEF TypeInv, TypeOK

LEMMA TypeStuttering ==
    ASSUME TypeInv, UNCHANGED vars
    PROVE  TypeInv'
  BY DEF vars, TypeInv, TypeOK, RequestsFit, RequestFits, SlotsUnique, SameSlot

LEMMA TypeStep == TypeInv /\ [Next]_vars => TypeInv'
  <1> SUFFICES ASSUME TypeInv, [Next]_vars PROVE TypeInv'
    OBVIOUS
  <1>1. ASSUME NEW q \in Requests, Start(q) PROVE TypeInv'
    BY <1>1, TypeSetupSelect, TypeRegisterSelect, TypeDeactivateSelect, TypeStoreRead,
       TypeRotateRead DEF Start
  <1>2. ASSUME NEW q \in Requests, Proceed(q) PROVE TypeInv'
    BY <1>2, TypeSetupCommit, TypeRegisterLock, TypeRegisterInsert, TypeDeactivateCommit,
       TypeStoreCommit, TypeRotateCheck, TypeRotateDelete, TypeRotateCommit, TypeGivenUp
       DEF Proceed, Refused
  <1>3. ASSUME NEW q \in Requests, RequestFails(q) PROVE TypeInv'
    BY <1>3, TypeGivenUp DEF RequestFails
  <1> QED  BY <1>1, <1>2, <1>3, TypeDeleteKey, TypeDeleteDeks, TypeStuttering DEF Next

LEMMA TypeInvariance == Spec => []TypeInv
  BY InitType, TypeStep, PTL DEF Spec

\* The type invariant: every row, copy and request has its type, and no two
\* copies share a slot of the unique index.
THEOREM TypeCorrect == Spec => []TypeOK
  <1>1. TypeInv => TypeOK
    BY DEF TypeInv
  <1> QED  BY <1>1, TypeInvariance, PTL

(***************************************************************************)
(* Own copies and their keys.  A new key takes a version that no key has,  *)
(* so that no copy fitted it before; a key that goes takes them along.     *)
(***************************************************************************)
KeepsOwn == \A c \in copies \intersect copies' : c.user = Owner /\ Fits(c) => Fits(c)'

LEMMA SameRowFits ==
    ASSUME NEW c, Fits(c), key'[c.user][c.version] = key[c.user][c.version]
    PROVE  Fits(c)'
  BY DEF Fits

LEMMA NewKeyKeepsOwn ==
    ASSUME TypeInv, NEW u \in Accounts, NEW v \in Versions, NEW t,
           ~KeyExists(u, v), InsertKey(u, v, t)
    PROVE  KeepsOwn
  <1> SUFFICES ASSUME NEW c \in copies, Fits(c) PROVE Fits(c)'
    BY DEF KeepsOwn
  <1>1. c.user \in Accounts /\ c.version \in Versions
    BY DEF TypeInv, TypeOK, Copy
  <1>2. ~key[u][v].active
    BY DEF TypeInv, TypeOK, KeyRow, KeyExists
  <1>3. ~(c.user = u /\ c.version = v)
    BY <1>2 DEF Fits
  <1>4. key'[c.user][c.version] = key[c.user][c.version]
    BY <1>1, <1>3 DEF InsertKey, TypeInv, TypeOK
  <1> QED  BY <1>4, SameRowFits

LEMMA LostKeyKeepsOwn ==
    ASSUME TypeInv, NEW u \in Accounts, NEW v \in Versions, NEW r,
           key' = [key EXCEPT ![u][v] = r], DropCopies(u, v)
    PROVE  KeepsOwn
  <1> SUFFICES ASSUME NEW c \in copies \intersect copies', c.user = Owner, Fits(c)
               PROVE  Fits(c)'
    BY DEF KeepsOwn
  <1>1. c.user \in Accounts /\ c.version \in Versions
    BY DEF TypeInv, TypeOK, Copy
  <1>2. ~(c.user = u /\ c.version = v)
    BY DEF DropCopies
  <1>3. key'[c.user][c.version] = key[c.user][c.version]
    BY <1>1, <1>2 DEF TypeInv, TypeOK
  <1> QED  BY <1>3, SameRowFits

LEMMA KeepsOwnStep == TypeInv /\ [Next]_vars => KeepsOwn
  <1> SUFFICES ASSUME TypeInv, [Next]_vars PROVE KeepsOwn
    OBVIOUS
  <1>1. CASE UNCHANGED key
    BY <1>1, SameRowFits DEF KeepsOwn
  <1>2. ASSUME NEW q \in Requests, SetupCommit(q) PROVE KeepsOwn
    <2>1. req[q].user \in Accounts /\ 1 \in Versions
      BY <1>2, BoundAssumption DEF SetupCommit, TypeInv, RequestsFit, RequestFits, Versions
    <2> QED  BY <1>2, <2>1, NewKeyKeepsOwn DEF SetupCommit
  <1>3. ASSUME NEW q \in Requests, RegisterInsert(q) PROVE KeepsOwn
    <2>1. req[q].user \in Accounts
      BY <1>3 DEF RegisterInsert, TypeInv, RequestsFit, RequestFits
    <2> QED  BY <1>3, <2>1, NewKeyKeepsOwn DEF RegisterInsert
  <1>4. ASSUME NEW q \in Requests, DeactivateCommit(q) PROVE KeepsOwn
    <2>1. req[q].user \in Accounts /\ req[q].seen \subseteq Versions \X Nat
      BY <1>4 DEF DeactivateCommit, TypeInv, TypeOK, Request, RequestsFit, RequestFits
    <2>2. PICK s \in req[q].seen :
             /\ key' = [key EXCEPT ![req[q].user][s[1]] = [@ EXCEPT !.active = FALSE]]
             /\ DropCopies(req[q].user, s[1])
      BY <1>4 DEF DeactivateCommit
    <2> DEFINE r == [key[req[q].user][s[1]] EXCEPT !.active = FALSE]
    <2>3. s[1] \in Versions
      BY <2>1
    <2>4. key' = [key EXCEPT ![req[q].user][s[1]] = r]
      BY <2>1, <2>2, <2>3 DEF TypeInv, TypeOK
    <2> HIDE DEF r
    <2> QED  BY <2>1, <2>2, <2>3, <2>4, LostKeyKeepsOwn
  <1>5. ASSUME NEW u \in Accounts, NEW v \in Versions, DeleteKey(u, v) PROVE KeepsOwn
    <2> DEFINE r == [key[u][v] EXCEPT !.type = "none", !.active = FALSE]
    <2>1. key' = [key EXCEPT ![u][v] = r]
      BY <1>5 DEF DeleteKey, TypeInv, TypeOK
    <2> HIDE DEF r
    <2> QED  BY <1>5, <2>1, LostKeyKeepsOwn DEF DeleteKey
  <1>6. ASSUME NEW q \in Requests, Start(q) PROVE UNCHANGED key
    BY <1>6 DEF Start, SetupSelect, RegisterSelect, DeactivateSelect, StoreRead, RotateRead, Begin
  <1>7. ASSUME NEW q \in Requests, Proceed(q) PROVE UNCHANGED key \/ KeepsOwn
    BY <1>2, <1>3, <1>4, <1>7
       DEF Proceed, RegisterLock, StoreCommit, RotateCheck, RotateDelete, RotateCommit, Refused, Goto
  <1>8. ASSUME NEW c \in copies, DeleteDeks(c) PROVE UNCHANGED key
    BY <1>8 DEF DeleteDeks
  <1> QED  BY <1>1, <1>5, <1>6, <1>7, <1>8 DEF Next, RequestFails, vars

\* deleteKey and deactivateKey: no copy an owner made for a key of their own
\* is left behind when that key is deleted or deactivated, in any interleaving
\* of any number of requests.
THEOREM OwnCopiesNeverLeft == Spec => OwnCopiesFollowKeys
  <1>1. TypeInv /\ [Next]_vars => KeepsOwn
    BY KeepsOwnStep
  <1>2. Spec => [][KeepsOwn]_vars
    BY <1>1, TypeInvariance, PTL DEF Spec
  <1> QED  BY <1>2 DEF OwnCopiesFollowKeys, KeepsOwn

(***************************************************************************)
(* One data key.  While nothing is mixed there is one generation g that    *)
(* the copies have, and the stores under way that were not overtaken.  A   *)
(* rotation not overtaken has deleted every copy there is.                 *)
(***************************************************************************)
HaveGen(S, g) == \A c \in S : c.gen = g
OneGen(S) == \A c, d \in S : c.gen = d.gen

Agrees(r, over, g) ==
    /\ OneGen(r.wraps)
    /\ r.op = "setup" /\ r.user # Owner => r.wraps = {}
    /\ r.op = "store" /\ ~over /\ ~mixed => HaveGen(r.wraps, g)
    /\ r.op = "rotating" /\ ~over => copies \subseteq r.old

GenInvFor(g) ==
    /\ ~mixed => HaveGen(copies, g)
    /\ \A q \in Requests : Agrees(req[q], q \in overtaken, g)

GenInv == \E g \in Nat : GenInvFor(g)

LEMMA InitGen == Init => GenInv
  <1> SUFFICES ASSUME Init PROVE GenInvFor(0)
    BY DEF GenInv
  <1> QED  BY DEF Init, GenInvFor, HaveGen, OneGen, Agrees, Idle, Asked

\* A generation for copies that have one.
LEMMA GenOf ==
    ASSUME NEW S \in SUBSET Copy, OneGen(S)
    PROVE  \E g \in Nat : HaveGen(S, g)
  <1>1. CASE S = {}
    BY <1>1 DEF HaveGen
  <1>2. CASE S # {}
    <2>1. PICK d \in S : TRUE
      BY <1>2
    <2>2. d.gen \in Nat
      BY BoundAssumption DEF Copy
    <2> QED  BY <2>1, <2>2 DEF HaveGen, OneGen
  <1> QED  BY <1>1, <1>2

\* A new or changed request that agrees, and no copy written.
LEMMA GenReads ==
    ASSUME TypeInv, NEW g \in Nat, GenInvFor(g), NEW q \in Requests, NEW r,
           req' = [req EXCEPT ![q] = r], Agrees(r, q \in overtaken, g),
           UNCHANGED <<copies, overtaken, mixed>>
    PROVE  GenInv'
  <1>1. ASSUME NEW p \in Requests PROVE Agrees(req'[p], p \in overtaken, g)
    BY DEF GenInvFor, TypeInv, TypeOK
  <1>2. GenInvFor(g)'
    BY <1>1 DEF GenInvFor, HaveGen, OneGen, Agrees
  <1> QED  BY <1>2 DEF GenInv

\* An answered request, and copies only deleted.
LEMMA GenAnswered ==
    ASSUME TypeInv, GenInv, NEW q \in Requests, Finish(q), copies' \subseteq copies,
           UNCHANGED mixed
    PROVE  GenInv'
  <1>1. PICK g \in Nat : GenInvFor(g)
    BY DEF GenInv
  <1>2. ASSUME NEW p \in Requests PROVE Agrees(req[p], p \in overtaken, g)'
    <2>1. CASE p = q
      <3>1. req'[p] = Idle
        BY <2>1 DEF Finish, TypeInv, TypeOK
      <3> QED  BY <3>1 DEF Agrees, OneGen, Idle, Asked
    <2>2. CASE p # q
      <3>1. req'[p] = req[p] /\ (p \in overtaken' <=> p \in overtaken)
        BY <2>2 DEF Finish, TypeInv, TypeOK
      <3>2. Agrees(req[p], p \in overtaken, g)
        BY <1>1 DEF GenInvFor
      <3> QED  BY <3>1, <3>2 DEF Agrees, OneGen, HaveGen
    <2> QED  BY <2>1, <2>2
  <1>3. ~mixed' => HaveGen(copies, g)'
    BY <1>1 DEF GenInvFor, HaveGen
  <1> QED  BY <1>2, <1>3 DEF GenInv, GenInvFor

LEMMA GenDeletes ==
    ASSUME GenInv, copies' \subseteq copies, UNCHANGED <<req, overtaken, mixed>>
    PROVE  GenInv'
  <1>1. PICK g \in Nat : GenInvFor(g)
    BY DEF GenInv
  <1>2. GenInvFor(g)'
    BY <1>1 DEF GenInvFor, Agrees, OneGen, HaveGen
  <1> QED  BY <1>2 DEF GenInv

\* Copies of one generation, with every store and rotation overtaken.
LEMMA GenAnew ==
    ASSUME TypeInv, GenInv, NEW q \in Requests, Overtakes(q, {"store", "rotating"}),
           NEW g \in Nat, ~mixed' => HaveGen(copies', g)
    PROVE  GenInv'
  <1>1. ASSUME NEW p \in Requests PROVE Agrees(req[p], p \in overtaken, g)'
    <2>1. CASE p = q
      <3>1. req'[p] = Idle
        BY <2>1 DEF Overtakes, TypeInv, TypeOK
      <3> QED  BY <3>1 DEF Agrees, OneGen, Idle, Asked
    <2>2. CASE p # q
      <3>1. req'[p] = req[p] /\ (req[p].op \in {"store", "rotating"} => p \in overtaken')
        BY <2>2 DEF Overtakes, TypeInv, TypeOK
      <3>2. OneGen(req[p].wraps) /\ (req[p].op = "setup" /\ req[p].user # Owner => req[p].wraps = {})
        BY DEF GenInv, GenInvFor, Agrees
      <3> QED  BY <3>1, <3>2 DEF Agrees, OneGen
    <2> QED  BY <2>1, <2>2
  <1>2. ~mixed' => HaveGen(copies, g)'
    BY DEF HaveGen
  <1> QED  BY <1>1, <1>2 DEF GenInv, GenInvFor

\* A setup by another account writes no copy; the owner's starts from none,
\* or is recorded as mixed.
LEMMA GenSetupCommit ==
    ASSUME TypeInv, GenInv, NEW q \in Requests, SetupCommit(q)
    PROVE  GenInv'
  <1> DEFINE W == {[c EXCEPT !.nth = key[req[q].user][1].nth + 1] : c \in req[q].wraps}
  <1>1. req[q].wraps \subseteq Copy /\ OneGen(req[q].wraps)
    BY DEF TypeInv, TypeOK, Request, GenInv, GenInvFor, Agrees
  <1>2. PICK g \in Nat : HaveGen(req[q].wraps, g)
    BY <1>1, GenOf
  <1>3. HaveGen(W, g)
    BY <1>1, <1>2 DEF HaveGen, Copy
  <1>4. copies' = copies \union W
    BY DEF SetupCommit
  <1>5. CASE req[q].user # Owner
    <2>1. req[q].wraps = {}
      BY <1>5 DEF GenInv, GenInvFor, Agrees, SetupCommit
    <2>2. copies' = copies
      BY <1>4, <2>1
    <2>3. UNCHANGED mixed
      BY <1>5 DEF SetupCommit, TypeInv, TypeOK
    <2>4. Finish(q)
      BY <1>5 DEF SetupCommit, Overtakes, Finish
    <2> QED  BY <2>2, <2>3, <2>4, GenAnswered
  <1>6. CASE req[q].user = Owner
    <2>1. ~mixed' => copies = {}
      BY <1>6 DEF SetupCommit
    <2>2. Overtakes(q, {"store", "rotating"})
      BY <1>6 DEF SetupCommit
    <2> HIDE DEF W
    <2>3. ~mixed' => HaveGen(copies', g)
      BY <1>3, <1>4, <2>1
    <2> QED  BY <2>2, <2>3, GenAnew
  <1> QED  BY <1>5, <1>6

LEMMA GenStoreCommit ==
    ASSUME TypeInv, GenInv, NEW q \in Requests, StoreCommit(q)
    PROVE  GenInv'
  <1>1. PICK g \in Nat : GenInvFor(g)
    BY DEF GenInv
  <1>2. ~mixed' => q \notin overtaken /\ ~mixed
    BY DEF StoreCommit
  <1>3. ~mixed' => HaveGen(copies, g) /\ HaveGen(req[q].wraps, g)
    BY <1>1, <1>2 DEF GenInvFor, Agrees, StoreCommit
  <1>4. ~mixed' => HaveGen(copies', g)
    BY <1>3 DEF StoreCommit, HaveGen
  <1>5. ASSUME NEW p \in Requests PROVE Agrees(req[p], p \in overtaken, g)'
    <2>1. CASE p = q
      <3>1. req'[p] = Idle
        BY <2>1 DEF StoreCommit, Overtakes, TypeInv, TypeOK
      <3> QED  BY <3>1 DEF Agrees, OneGen, Idle, Asked
    <2>2. CASE p # q
      <3>1. /\ req'[p] = req[p]
            /\ req[p].op = "rotating" => p \in overtaken'
            /\ p \in overtaken => p \in overtaken'
        BY <2>2 DEF StoreCommit, Overtakes, TypeInv, TypeOK
      <3>2. Agrees(req[p], p \in overtaken, g)
        BY <1>1 DEF GenInvFor
      <3> QED  BY <1>2, <3>1, <3>2 DEF Agrees, OneGen, HaveGen
    <2> QED  BY <2>1, <2>2
  <1>6. ~mixed' => HaveGen(copies, g)'
    BY <1>4 DEF HaveGen
  <1> QED  BY <1>5, <1>6 DEF GenInv, GenInvFor

LEMMA GenRotateCommit ==
    ASSUME TypeInv, GenInv, NEW q \in Requests, RotateCommit(q)
    PROVE  GenInv'
  <1>1. req[q].wraps \subseteq Copy /\ OneGen(req[q].wraps)
    BY DEF TypeInv, TypeOK, Request, GenInv, GenInvFor, Agrees
  <1>2. PICK g \in Nat : HaveGen(req[q].wraps, g)
    BY <1>1, GenOf
  <1>3. ~mixed' => copies \subseteq req[q].old
    BY DEF RotateCommit, GenInv, GenInvFor, Agrees
  <1>4. ~mixed' => HaveGen(copies', g)
    BY <1>2, <1>3 DEF RotateCommit, HaveGen
  <1> QED  BY <1>4, GenAnew DEF RotateCommit

\* A store encrypts the data key of a copy that the owner reads.
LEMMA GenStoreRead ==
    ASSUME TypeInv, GenInv, NEW q \in Requests, NEW u \in Accounts, NEW v \in Versions,
           StoreRead(q, u, v)
    PROVE  GenInv'
  <1>1. PICK g \in Nat : GenInvFor(g)
    BY DEF GenInv
  <1>2. PICK h \in HeldByOwner : Begin(q, Asked("store", Null, "none", {}, {Wrap(u, v, h)}))
    BY DEF StoreRead
  <1>3. \E c \in copies : c.gen = h
    BY DEF HeldByOwner
  <1>4. ~mixed => h = g
    BY <1>1, <1>3 DEF GenInvFor, HaveGen
  <1> DEFINE r == Asked("store", Null, "none", {}, {Wrap(u, v, h)})
  <1>5. Agrees(r, q \in overtaken, g)
    BY <1>4 DEF Asked, Agrees, OneGen, HaveGen, Wrap
  <1> HIDE DEF r
  <1> QED  BY <1>1, <1>2, <1>5, GenReads DEF Begin, r

LEMMA GenStart ==
    ASSUME TypeInv, GenInv, NEW q \in Requests, Start(q)
    PROVE  GenInv'
  <1>1. PICK g \in Nat : GenInvFor(g)
    BY DEF GenInv
  <1>2. ASSUME NEW r, Begin(q, r), Agrees(r, q \in overtaken, g) PROVE GenInv'
    BY <1>1, <1>2, GenReads DEF Begin
  <1>3. ASSUME NEW u \in Accounts, SetupSelect(q, u) PROVE GenInv'
    <2>1. CASE u = Owner
      <3> DEFINE c == [user |-> u, type |-> "device", version |-> 1,
                       nth |-> key[u][1].nth + 1, gen |-> made + 1]
      <3>1. Begin(q, Asked("setup", u, "none", {}, {c}))
        BY <1>3, <2>1 DEF SetupSelect
      <3> HIDE DEF c
      <3>2. Agrees(Asked("setup", u, "none", {}, {c}), q \in overtaken, g)
        BY <2>1 DEF Agrees, Asked, OneGen
      <3> QED  BY <3>1, <3>2, <1>2
    <2>2. CASE u # Owner
      <3>1. Begin(q, Asked("setup", u, "none", {}, {}))
        BY <1>3, <2>2 DEF SetupSelect
      <3>2. Agrees(Asked("setup", u, "none", {}, {}), q \in overtaken, g)
        BY DEF Agrees, Asked, OneGen
      <3> QED  BY <3>1, <3>2, <1>2
    <2> QED  BY <2>1, <2>2
  <1>4. ASSUME NEW u \in Accounts, NEW t \in KeyTypes, RegisterSelect(q, u, t) PROVE GenInv'
    <2>1. Agrees(Asked("register", u, t, KeysOf(u), {}), q \in overtaken, g)
      BY DEF Agrees, Asked, OneGen
    <2> QED  BY <1>2, <1>4, <2>1 DEF RegisterSelect
  <1>5. ASSUME NEW u \in Accounts, NEW v \in Versions, DeactivateSelect(q, u, v) PROVE GenInv'
    <2>1. Agrees(Asked("deactivate", u, "none", {<<v, key[u][v].nth>>}, {}), q \in overtaken, g)
      BY DEF Agrees, Asked, OneGen
    <2> QED  BY <1>2, <1>5, <2>1 DEF DeactivateSelect
  <1>6. ASSUME NEW A \in SUBSET Accounts, RotateRead(q, A) PROVE GenInv'
    <2> DEFINE for == {p \in A \X Versions : key[p[1]][p[2]].active}
               W == {Wrap(p[1], p[2], made + 1) : p \in for}
    <2>1. OneGen(W)
      BY DEF OneGen, Wrap
    <2>2. Begin(q, Asked("rotate", Null, "none", {}, W))
      BY <1>6 DEF RotateRead
    <2> HIDE DEF W
    <2>3. Agrees(Asked("rotate", Null, "none", {}, W), q \in overtaken, g)
      BY <2>1 DEF Agrees, Asked
    <2> QED  BY <1>2, <2>2, <2>3
  <1> QED  BY <1>3, <1>4, <1>5, <1>6, GenStoreRead DEF Start

LEMMA GenProceed ==
    ASSUME TypeInv, GenInv, NEW q \in Requests, Proceed(q)
    PROVE  GenInv'
  <1>1. PICK g \in Nat : GenInvFor(g)
    BY DEF GenInv
  <1>2. Agrees(req[q], q \in overtaken, g) /\ req[q] \in Request
    BY <1>1 DEF GenInvFor, TypeInv, TypeOK
  <1>3. ASSUME NEW r, Goto(q, r), Agrees(r, q \in overtaken, g) PROVE GenInv'
    BY <1>1, <1>3, GenReads DEF Goto
  <1>4. ASSUME RegisterLock(q) PROVE GenInv'
    <2> DEFINE r == [req[q] EXCEPT !.op = "numbering", !.seen = @ \intersect KeysOf(req[q].user)]
    <2>1. Agrees(r, q \in overtaken, g)
      BY <1>2 DEF Agrees, Request
    <2> QED  BY <1>3, <1>4, <2>1 DEF RegisterLock
  <1>5. ASSUME RotateCheck(q) PROVE GenInv'
    <2>1. Agrees([req[q] EXCEPT !.op = "checked"], q \in overtaken, g)
      BY <1>2 DEF Agrees, Request
    <2> QED  BY <1>3, <1>5, <2>1 DEF RotateCheck
  <1>6. ASSUME RotateDelete(q) PROVE GenInv'
    <2>1. Agrees([req[q] EXCEPT !.op = "rotating", !.old = copies], q \in overtaken, g)
      BY <1>2 DEF Agrees, Request
    <2> QED  BY <1>3, <1>6, <2>1 DEF RotateDelete
  <1>7. ASSUME RegisterInsert(q) PROVE GenInv'
    BY <1>7, GenAnswered DEF RegisterInsert
  <1>8. ASSUME DeactivateCommit(q) PROVE GenInv'
    BY <1>8, GenAnswered DEF DeactivateCommit, DropCopies
  <1>9. ASSUME Refused(q) PROVE GenInv'
    BY <1>9, GenAnswered DEF Refused
  <1> QED  BY <1>4, <1>5, <1>6, <1>7, <1>8, <1>9, GenSetupCommit, GenStoreCommit, GenRotateCommit
           DEF Proceed

LEMMA GenStep == TypeInv /\ GenInv /\ [Next]_vars => GenInv'
  <1> SUFFICES ASSUME TypeInv, GenInv, [Next]_vars PROVE GenInv'
    OBVIOUS
  <1>1. ASSUME NEW q \in Requests, RequestFails(q) PROVE GenInv'
    BY <1>1, GenAnswered DEF RequestFails
  <1>2. ASSUME NEW u \in Accounts, NEW v \in Versions, DeleteKey(u, v) PROVE GenInv'
    BY <1>2, GenDeletes DEF DeleteKey, DropCopies
  <1>3. ASSUME NEW c \in copies, DeleteDeks(c) PROVE GenInv'
    BY <1>3, GenDeletes DEF DeleteDeks
  <1>4. CASE UNCHANGED vars
    BY <1>4, GenDeletes DEF vars
  <1> QED  BY <1>1, <1>2, <1>3, <1>4, GenStart, GenProceed DEF Next

\* rotateDeks: copies of two data keys lie side by side only after a write of
\* copies that overlapped a rotation, or a setup over copies that were left.
THEOREM NeverMixedUnnoticed == Spec => []OneDataKey
  <1>1. Init => TypeInv /\ GenInv
    BY InitType, InitGen
  <1>2. TypeInv /\ GenInv /\ [Next]_vars => (TypeInv /\ GenInv)'
    BY TypeStep, GenStep
  <1>3. TypeInv /\ GenInv => OneDataKey
    BY DEF GenInv, GenInvFor, HaveGen, OneDataKey
  <1> QED  BY <1>1, <1>2, <1>3, PTL DEF Spec
=============================================================================
