--------------------------- MODULE EncryptionKeys ---------------------------
(***************************************************************************)
(* Public keys of accounts, and the encrypted copies of one plan's data    *)
(* key (DEK) stored for them by the plan's owner.  A copy names its key by *)
(* the account and the version number the server gave the key.            *)
(*                                                                         *)
(* An action is one statement that another transaction can come between,  *)
(* or the rest of its transaction; writes appear at the commit.  A DELETE  *)
(* of copies that waits for a rotation under way skips the rows it waited  *)
(* for and does not see the ones inserted meanwhile, so it has the effect  *)
(* of a DELETE that went first, which is how it is modelled.               *)
(*                                                                         *)
(* Left out: the audit rows written in these transactions (nothing here   *)
(* reads them), escrow copies (no key version; rotation and deletion spare *)
(* them), and who is a contact of the plan (module TrustedContacts).       *)
(***************************************************************************)
EXTENDS Naturals, FiniteSets

CONSTANTS
    Accounts,   \* accounts with keys
    Owner,      \* the owner of the plan
    MaxVersion, \* bound: key versions
    Devices,    \* bound: the highest version an account registers
    MaxKeys,    \* bound: keys one version number of an account is given to
    MaxGen,     \* bound: data keys made for the plan
    Requests,   \* requests in flight at once
    Null

ASSUME OwnerAssumption == Owner \in Accounts /\ Null \notin Accounts
ASSUME BoundAssumption ==
    /\ MaxVersion \in Nat \ {0} /\ MaxGen \in Nat \ {0}
    /\ Devices \in [Accounts -> 1..MaxVersion]
    /\ MaxKeys \in [Accounts -> Nat]

VARIABLES
    key,        \* user_keys: by account and version
    copies,     \* encrypted_deks of the plan, escrow aside
    made,       \* data keys the owner's clients have made for the plan
    req,        \* the requests in flight
    \* Observation only: no action's guard reads these
    overtaken,  \* requests whose copies another write has made out of date
    mixed       \* an overtaken request wrote copies

vars == <<key, copies, made, req, overtaken, mixed>>

(***************************************************************************)
(* Rows                                                                    *)
(***************************************************************************)
Versions == 1..MaxVersion
KeyTypes == {"device", "recovery"}

\* nth tells apart the keys that have had one version number; the row of a
\* deleted key keeps it, for the next.
KeyRow ==
    {k \in [type : KeyTypes \union {"none"}, active : BOOLEAN, nth : Nat] :
        k.type = "none" => ~k.active}

\* The generation of the data key and the public key it is encrypted with are
\* in the ciphertext; the server sees neither.
Copy == [user : Accounts, type : KeyTypes \union {"contact"}, version : Versions,
         nth : Nat, gen : 1..MaxGen]

\* The unique index on (plan, owner, recipient, key version, type).
SameSlot(c, d) == c.user = d.user /\ c.version = d.version /\ c.type = d.type
SlotsUnique(S) == \A c, d \in S : SameSlot(c, d) => c = d

KeyExists(u, v) == key[u][v].type # "none"
KeysOf(u) == {<<v, key[u][v].nth>> : v \in {w \in Versions : KeyExists(u, w)}}

\* The key a copy was encrypted with is the one its version now names.
Fits(c) == key[c.user][c.version].active /\ key[c.user][c.version].nth = c.nth

(***************************************************************************)
(* Requests                                                                *)
(*   setup      no key of the account was found                            *)
(*   register   its SELECT ... FOR UPDATE has begun and may wait           *)
(*   numbering  its keys are read and locked                               *)
(*   deactivate an active device key was read                              *)
(*   store      the client has read a public key and encrypted             *)
(*   rotate     the client has read public keys and encrypted              *)
(*   rotating   the old copies are deleted, and locked                     *)
(* checked is a rotation whose key versions were found active.             *)
(***************************************************************************)
Request ==
    [op : {"idle", "setup", "register", "numbering", "deactivate", "store",
           "rotate", "checked", "rotating"},
     user : Accounts \union {Null},
     type : KeyTypes \union {"none"},
     seen : SUBSET (Versions \X Nat),   \* keys its SELECT returned
     wraps : SUBSET Copy,                        \* copies the client sends
     old : SUBSET Copy]                          \* copies its DELETE has found

Asked(op, u, type, seen, wraps) ==
    [op |-> op, user |-> u, type |-> type, seen |-> seen, wraps |-> wraps, old |-> {}]

Idle == Asked("idle", Null, "none", {}, {})

TypeOK ==
    /\ key \in [Accounts -> [Versions -> KeyRow]]
    /\ copies \subseteq Copy
    /\ SlotsUnique(copies)
    /\ made \in 0..MaxGen
    /\ req \in [Requests -> Request]
    /\ overtaken \subseteq Requests
    /\ mixed \in BOOLEAN

Init ==
    /\ key = [u \in Accounts |-> [v \in Versions |->
                 [type |-> "none", active |-> FALSE, nth |-> 0]]]
    /\ copies = {}
    /\ made = 0
    /\ req = [q \in Requests |-> Idle]
    /\ overtaken = {}
    /\ mixed = FALSE

Begin(q, r) ==
    /\ req[q] = Idle
    /\ req' = [req EXCEPT ![q] = r]
    /\ UNCHANGED <<key, copies, overtaken, mixed>>

Goto(q, r) ==
    /\ req' = [req EXCEPT ![q] = r]
    /\ UNCHANGED <<key, copies, made, overtaken, mixed>>

Finish(q) ==
    /\ req' = [req EXCEPT ![q] = Idle]
    /\ overtaken' = overtaken \ {q}

\* Observation: q writes copies; the requests that another rotation leaves out
\* of date, and the rotations that do not see these copies, are overtaken.
Overtakes(q, stages) ==
    /\ req' = [req EXCEPT ![q] = Idle]
    /\ overtaken' = (overtaken \ {q}) \union {p \in Requests \ {q} : req[p].op \in stages}

\* INSERT INTO user_keys.  MaxKeys is the bound on the keys of one version.
InsertKey(u, v, type) ==
    /\ key[u][v].nth < MaxKeys[u]
    /\ key' = [key EXCEPT ![u][v] = [type |-> type, active |-> TRUE, nth |-> @.nth + 1]]

\* Rows of user_keys locked by another request's SELECT ... FOR UPDATE, and
\* copies locked by another's rotation.
KeyLocked(u, v, q) ==
    \E p \in Requests \ {q} :
        req[p].op = "numbering" /\ req[p].user = u /\ \E s \in req[p].seen : s[1] = v
CopyLocked(c, q) ==
    \E p \in Requests \ {q} :
        req[p].op = "rotating" /\ \E d \in req[p].old : SameSlot(c, d)

(***************************************************************************)
(* Keys: setupEncryption, registerPublicKey, deleteKey, deactivateKey      *)
(***************************************************************************)
\* The client of the plan's owner has made a data key and encrypted it for the
\* key it sends; another account sets up a plan of its own.
SetupSelect(q, u) ==
    /\ KeysOf(u) = {}
    /\ key[u][1].nth < MaxKeys[u]
    /\ \/ /\ u = Owner
          /\ made < MaxGen
          /\ made' = made + 1
          /\ Begin(q, Asked("setup", u, "none", {},
                             {[user |-> u, type |-> "device", version |-> 1,
                               nth |-> key[u][1].nth + 1, gen |-> made + 1]}))
       \/ /\ u # Owner
          /\ UNCHANGED made
          /\ Begin(q, Asked("setup", u, "none", {}, {}))

SetupCommit(q) ==
    LET u == req[q].user
    IN  /\ req[q].op = "setup"
        /\ ~KeyExists(u, 1)
        /\ \A c \in req[q].wraps, d \in copies : ~SameSlot(c, d)
        /\ InsertKey(u, 1, "device")
        /\ copies' = copies \union
              {[c EXCEPT !.nth = key[u][1].nth + 1] : c \in req[q].wraps}
        /\ mixed' = (mixed \/ (u = Owner /\ copies # {}))
        /\ Overtakes(q, IF u = Owner THEN {"store", "rotating"} ELSE {})
        /\ UNCHANGED made

\* The second conjunct is the bound on versions.
RegisterSelect(q, u, type) ==
    /\ KeysOf(u) # {}
    /\ \A s \in KeysOf(u) : s[1] < Devices[u]
    /\ Begin(q, Asked("register", u, type, KeysOf(u), {}))
    /\ UNCHANGED made

\* The rows of the snapshot that still exist are locked, one request at a time;
\* rows inserted since are not among them.
RegisterLock(q) ==
    /\ req[q].op = "register"
    /\ \A s \in req[q].seen : ~KeyLocked(req[q].user, s[1], q)
    /\ Goto(q, [req[q] EXCEPT !.op = "numbering",
                              !.seen = @ \intersect KeysOf(req[q].user)])

\* The highest version read, plus one.
NextVersion(seen, v) == \E s \in seen : v = s[1] + 1 /\ \A t \in seen : t[1] <= s[1]

RegisterInsert(q) ==
    /\ req[q].op = "numbering"
    /\ \E v \in Versions :
          /\ NextVersion(req[q].seen, v)
          /\ ~KeyExists(req[q].user, v)
          /\ InsertKey(req[q].user, v, req[q].type)
    /\ Finish(q)
    /\ UNCHANGED <<copies, made, mixed>>

\* The row-level policy on encrypted_deks lets an account delete only copies
\* it owns; those that other owners stored for it stay.
DropCopies(u, v) ==
    copies' = {c \in copies : ~(c.user = u /\ c.version = v /\ u = Owner)}

\* The key without its copies.
DeleteKeyOnly(u, v) ==
    /\ key[u][v].type = "device"
    /\ \A q \in Requests : ~KeyLocked(u, v, q)
    /\ key' = [key EXCEPT ![u][v] = [@ EXCEPT !.type = "none", !.active = FALSE]]
    /\ UNCHANGED <<copies, made, req, overtaken, mixed>>

DeleteKey(u, v) ==
    /\ key[u][v].type = "device"
    /\ \A q \in Requests : ~KeyLocked(u, v, q)
    /\ key' = [key EXCEPT ![u][v] = [@ EXCEPT !.type = "none", !.active = FALSE]]
    /\ DropCopies(u, v)
    /\ UNCHANGED <<made, req, overtaken, mixed>>

DeactivateSelect(q, u, v) ==
    /\ key[u][v].active
    /\ key[u][v].type = "device"
    /\ Begin(q, Asked("deactivate", u, "none", {<<v, key[u][v].nth>>}, {}))
    /\ UNCHANGED made

\* UPDATE by version: no row is no error, and its type is not looked at again.
DeactivateCommit(q) ==
    LET u == req[q].user
    IN  /\ req[q].op = "deactivate"
        /\ \E s \in req[q].seen :
              /\ ~KeyLocked(u, s[1], q)
              /\ key' = [key EXCEPT ![u][s[1]] = [@ EXCEPT !.active = FALSE]]
              /\ DropCopies(u, s[1])
        /\ Finish(q)
        /\ UNCHANGED <<made, mixed>>

(***************************************************************************)
(* Copies: storeEncryptedDek, rotateDeks, deleteDeks                       *)
(***************************************************************************)
\* An owner's client encrypts data key g for the active key v of u.
Wrap(u, v, g) ==
    [user |-> u, type |-> IF u = Owner THEN key[u][v].type ELSE "contact",
     version |-> v, nth |-> key[u][v].nth, gen |-> g]

\* Data keys a client of the owner can decrypt.
HeldByOwner == {c.gen : c \in {d \in copies : d.user = Owner /\ Fits(d)}}

StoreRead(q, u, v) ==
    /\ key[u][v].active
    /\ \E g \in HeldByOwner :
          Begin(q, Asked("store", Null, "none", {}, {Wrap(u, v, g)}))
    /\ UNCHANGED made

\* An INSERT beside the copy that is there.
StoreInsert(q) ==
    /\ req[q].op = "store"
    /\ \A c \in req[q].wraps : ~CopyLocked(c, q)
    /\ copies' = copies \union req[q].wraps
    /\ mixed' = (mixed \/ q \in overtaken)
    /\ Overtakes(q, {"rotating"})
    /\ UNCHANGED <<key, made>>

\* INSERT ... ON CONFLICT DO UPDATE; that the key still exists is not checked.
StoreCommit(q) ==
    /\ req[q].op = "store"
    /\ \A c \in req[q].wraps : ~CopyLocked(c, q)
    /\ copies' = {d \in copies : \A c \in req[q].wraps : ~SameSlot(c, d)} \union req[q].wraps
    /\ mixed' = (mixed \/ q \in overtaken)
    /\ Overtakes(q, {"rotating"})
    /\ UNCHANGED <<key, made>>

\* A new data key for every active key of the owner and of the accounts A.
RotateRead(q, A) ==
    /\ HeldByOwner # {}
    /\ made < MaxGen
    /\ made' = made + 1
    /\ LET for == {p \in A \X Versions : key[p[1]][p[2]].active}
       IN  Begin(q, Asked("rotate", Null, "none", {},
                            {Wrap(p[1], p[2], made + 1) : p \in for}))

\* Each recipient has an active key at the version; which key is not seen.
RotateCheck(q) ==
    /\ req[q].op = "rotate"
    /\ \A c \in req[q].wraps : key[c.user][c.version].active
    /\ Goto(q, [req[q] EXCEPT !.op = "checked"])

\* Only the owner's own copies.
RotateDeleteOwn(q) ==
    /\ req[q].op = "checked"
    /\ Goto(q, [req[q] EXCEPT !.op = "rotating", !.old = {c \in copies : c.user = Owner}])

RotateDelete(q) ==
    /\ req[q].op = "checked"
    /\ Goto(q, [req[q] EXCEPT !.op = "rotating", !.old = copies])

RotateCommit(q) ==
    LET left == copies \ req[q].old
    IN  /\ req[q].op = "rotating"
        /\ \A c \in req[q].wraps, d \in left : ~SameSlot(c, d)
        /\ copies' = left \union req[q].wraps
        /\ mixed' = (q \in overtaken)
        /\ Overtakes(q, {"store", "rotating"})
        /\ UNCHANGED <<key, made>>

\* By type, or by type and one key; c is a copy that the conditions name.
DeleteDeks(c) ==
    /\ copies' \in {{d \in copies : d.type # c.type}, {d \in copies : ~SameSlot(c, d)}}
    /\ UNCHANGED <<key, made, req, overtaken, mixed>>

-----------------------------------------------------------------------------
\* No row where one is needed, or a unique index violated: the request is
\* answered with an error.
Refused(q) ==
    /\ \/ /\ req[q].op = "setup"
          /\ \/ KeyExists(req[q].user, 1)
             \/ \E c \in req[q].wraps, d \in copies : SameSlot(c, d)
       \/ /\ req[q].op = "numbering"
          /\ \/ req[q].seen = {}
             \/ \E v \in Versions : NextVersion(req[q].seen, v) /\ KeyExists(req[q].user, v)
       \/ /\ req[q].op = "rotate"
          /\ \E c \in req[q].wraps : ~key[c.user][c.version].active
       \/ /\ req[q].op = "rotating"
          /\ \E c \in req[q].wraps, d \in copies \ req[q].old : SameSlot(c, d)
    /\ Finish(q)
    /\ UNCHANGED <<key, copies, made, mixed>>

\* The transaction fails, the process dies, or the client gives up.
RequestFails(q) ==
    /\ req[q] # Idle
    /\ Finish(q)
    /\ UNCHANGED <<key, copies, made, mixed>>

Start(q) ==
    \/ \E u \in Accounts : SetupSelect(q, u)
    \/ \E u \in Accounts, type \in KeyTypes : RegisterSelect(q, u, type)
    \/ \E u \in Accounts, v \in Versions : DeactivateSelect(q, u, v) \/ StoreRead(q, u, v)
    \/ \E A \in SUBSET Accounts : Owner \in A /\ RotateRead(q, A)

Proceed(q) ==
    \/ SetupCommit(q) \/ RegisterLock(q) \/ RegisterInsert(q) \/ DeactivateCommit(q)
    \/ StoreCommit(q)
    \/ RotateCheck(q) \/ RotateDelete(q) \/ RotateCommit(q)
    \/ Refused(q)

Next ==
    \/ \E q \in Requests : Start(q) \/ Proceed(q) \/ RequestFails(q)
    \/ \E u \in Accounts, v \in Versions : DeleteKey(u, v)
    \/ \E c \in copies : DeleteDeks(c)

Spec == Init /\ [][Next]_vars

(***************************************************************************)
(* Safety                                                                  *)
(***************************************************************************)

\* deleteKey and deactivateKey: an owner's copy that was good for its key does
\* not outlive it, whatever key gets the version number next, and whatever
\* registrations, stores and rotations are under way.
OwnCopiesFollowKeys ==
    [][\A c \in copies \intersect copies' : c.user = Owner /\ Fits(c) => Fits(c)']_vars

\* rotateDeks: copies of two data keys are never stored side by side, unless a
\* write of copies overlapped a rotation, or encryption was set up anew over
\* copies that were left.
OneDataKey == ~mixed => \A c, d \in copies : c.gen = d.gen

\* What the comment on deleteKey says: it "also deletes all encrypted DEK
\* copies for this key version in the same transaction".
CopiesFollowKeys ==
    [][\A c \in copies \intersect copies' : Fits(c) => Fits(c)']_vars
=============================================================================
