--------------------------- MODULE MdbStoreProofs ---------------------------
(***************************************************************************)
(* The store on LMDB implements KVStore, for any number of goroutines,     *)
(* keys and values.                                                        *)
(***************************************************************************)
EXTENDS MdbStore, TLAPS

USE DEF Writing

(* What a cursor has passed has been read, and does not match what Find    *)
(* looks for.                                                              *)
ReadOK(l) ==
    /\ l.pc \in {"begin"} \cup Writing => l.found = Nothing /\ l.pos = 0
    /\ l.pc = "read" =>
         /\ l.req.op \in {"Get", "ForEach", "Find"}
         /\ l.req.op = "ForEach" =>
                l.found = Only(l.snap, {k \in Keys : k <= l.pos})
         /\ l.req.op # "ForEach" => l.found = Nothing
         /\ l.req.op = "Find" =>
                \A k \in DOMAIN l.snap :
                    k <= l.pos => l.snap[k] \notin l.req.matching

(* A write transaction sees what is committed and its own change.          *)
WriteOK(l) ==
    /\ l.pc \in {"open", "write"} =>
         l.req.op \in {"Set", "Delete"} /\ dirty = db
    /\ l.pc = "commit" =>
         \/ /\ l.req.op = "Set"
            /\ dirty = Update(db, l.req.key, l.req.value)
         \/ /\ l.req.op = "Delete" /\ l.req.key \in DOMAIN db
            /\ dirty = Remove(db, l.req.key)

Inv == TypeOK /\ \A c \in Clients : ReadOK(local[c]) /\ WriteOK(local[c])

-----------------------------------------------------------------------------
(* The operators on contents.                                              *)

LEMMA ContentsOK ==
    /\ Nothing \in Contents
    /\ \A s \in Contents :
         /\ DOMAIN s \in SUBSET Keys
         /\ \A k \in DOMAIN s : s[k] \in Values
<1>1. Nothing \in [{} -> Values]
  BY DEF Nothing
<1>2. QED  BY <1>1 DEF Contents

LEMMA KeysOK ==
    /\ Keys \subseteq Nat
    /\ \A p \in Keys \cup {0} : p \in Nat
    /\ \A s \in Contents : DOMAIN s \subseteq Keys /\ DOMAIN s \subseteq Nat
<1>1. Keys \subseteq Nat
  BY StoreAssumption
<1>2. ASSUME NEW s \in Contents
      PROVE  DOMAIN s \subseteq Keys
  <2>1. DOMAIN s \in SUBSET Keys
    BY ContentsOK
  <2>2. QED  BY <2>1
<1>3. \A p \in Keys \cup {0} : p \in Nat
  BY <1>1
<1>4. \A s \in Contents : DOMAIN s \subseteq Nat
  BY <1>1, <1>2
<1>5. QED  BY <1>1, <1>2, <1>3, <1>4

LEMMA IsContents ==
    ASSUME NEW ks \in SUBSET Keys, NEW s \in [ks -> Values]
    PROVE  s \in Contents
  BY DEF Contents

LEMMA OnlyOK == \A s \in Contents : \A ks : Only(s, ks) \in Contents
<1> SUFFICES ASSUME NEW s \in Contents, NEW ks PROVE Only(s, ks) \in Contents
  OBVIOUS
<1>1. DOMAIN s \cap ks \in SUBSET Keys
  BY ContentsOK
<1>2. Only(s, ks) \in [DOMAIN s \cap ks -> Values]
  BY ContentsOK DEF Only
<1>3. QED  BY <1>1, <1>2, IsContents

LEMMA UpdateOK ==
    \A s \in Contents, k \in Keys, v \in Values : Update(s, k, v) \in Contents
<1> SUFFICES ASSUME NEW s \in Contents, NEW k \in Keys, NEW v \in Values
             PROVE  Update(s, k, v) \in Contents
  OBVIOUS
<1>1. DOMAIN s \cup {k} \in SUBSET Keys
  BY ContentsOK
<1>2. Update(s, k, v) \in [DOMAIN s \cup {k} -> Values]
  BY ContentsOK DEF Update
<1>3. QED  BY <1>1, <1>2, IsContents

LEMMA RemoveOK == \A s \in Contents : \A k : Remove(s, k) \in Contents
<1> SUFFICES ASSUME NEW s \in Contents, NEW k PROVE Remove(s, k) \in Contents
  OBVIOUS
<1>1. DOMAIN s \ {k} \in SUBSET Keys
  BY ContentsOK
<1>2. Remove(s, k) \in [DOMAIN s \ {k} -> Values]
  BY ContentsOK DEF Remove
<1>3. QED  BY <1>1, <1>2, IsContents

LEMMA RequestsOK ==
    ASSUME NEW r \in Requests
    PROVE  /\ r.op \in {"Get", "Delete", "Set", "ForEach", "Find"}
           /\ r.op \in {"Get", "Delete", "Set"} => r.key \in Keys
           /\ r.op = "Set" => r.value \in Values
  BY DEF Requests

LEMMA LocallyOK ==
    ASSUME NEW pc \in {"idle", "begin", "return"},
           NEW r \in Requests, NEW found \in Contents, NEW ok \in BOOLEAN,
           pc = "begin" => found = Nothing
    PROVE  /\ Locally(pc, r, found, ok) \in Locals
           /\ Locally(pc, r, found, ok).pc = pc
           /\ ReadOK(Locally(pc, r, found, ok))
           /\ WriteOK(Locally(pc, r, found, ok))
<1>1. Locally(pc, r, found, ok) \in Locals
  BY ContentsOK DEF Locally, Locals
<1>2. QED  BY <1>1 DEF Locally, ReadOK, WriteOK

LEMMA IdleOK ==
    Idle \in Locals /\ Idle.pc = "idle" /\ ReadOK(Idle) /\ WriteOK(Idle)
<1>1. [op |-> "ForEach"] \in Requests
  BY DEF Requests
<1>2. QED  BY <1>1, ContentsOK, LocallyOK DEF Idle

LEMMA NothingBefore ==
    ASSUME NEW s \in Contents
    PROVE  /\ Only(s, {k \in Keys : k <= 0}) = Nothing
           /\ \A k \in DOMAIN s : ~(k <= 0)
<1>1. \A k \in Keys : ~(k <= 0)
  BY StoreAssumption
<1>2. {k \in Keys : k <= 0} = {}
  BY <1>1
<1>3. QED  BY <1>1, <1>2, KeysOK DEF Only, Nothing

(* A cursor that moves on has read one key more, and at the end all.       *)
LEMMA CursorMoves ==
    ASSUME NEW s \in Contents, NEW p \in Keys \cup {0}, NEW k \in DOMAIN s,
           IsNext(k, s, p)
    PROVE  Update(Only(s, {j \in Keys : j <= p}), k, s[k])
               = Only(s, {j \in Keys : j <= k})
<1>1. DOMAIN s \subseteq Keys /\ DOMAIN s \subseteq Nat /\ p \in Nat
  BY KeysOK
<1>2. ASSUME NEW j \in DOMAIN s PROVE j <= k <=> j <= p \/ j = k
  <2>1. j \in Nat /\ k \in Nat
    BY <1>1
  <2>2. QED  BY <1>1, <2>1 DEF IsNext
<1>3. (DOMAIN s \cap {j \in Keys : j <= p}) \cup {k}
          = DOMAIN s \cap {j \in Keys : j <= k}
  BY <1>1, <1>2
<1>4. QED  BY <1>3 DEF Update, Only

LEMMA CursorAtEnd ==
    ASSUME NEW s \in Contents, NEW p, \A k \in DOMAIN s : k <= p
    PROVE  Only(s, {k \in Keys : k <= p}) = s
<1>1. PICK ks \in SUBSET Keys : s \in [ks -> Values]
  BY DEF Contents
<1>2. DOMAIN s \cap {k \in Keys : k <= p} = DOMAIN s
  BY <1>1
<1>3. s = [k \in DOMAIN s |-> s[k]]
  BY <1>1
<1>4. QED  BY <1>2, <1>3 DEF Only

(* The first key that Find's cursor meets is the first match; when it      *)
(* meets none, there is none.                                              *)
LEMMA FindsFirst ==
    ASSUME NEW s \in Contents, NEW p \in Keys \cup {0}, NEW k \in DOMAIN s,
           NEW r, IsNext(k, s, p), s[k] \in r.matching,
           \A j \in DOMAIN s : j <= p => s[j] \notin r.matching
    PROVE  FirstMatch(s, r) = {k}
<1>1. DOMAIN s \subseteq Nat /\ p \in Nat
  BY KeysOK
<1>2. k \in Matches(s, r) /\ \A j \in Matches(s, r) : k <= j
  BY <1>1 DEF Matches, IsNext
<1>3. Matches(s, r) \subseteq Nat
  BY <1>1 DEF Matches
<1>4. QED  BY <1>2, <1>3 DEF FirstMatch

LEMMA FindsNothing ==
    ASSUME NEW s, NEW r, \A j \in DOMAIN s : s[j] \notin r.matching
    PROVE  Only(s, FirstMatch(s, r)) = Nothing
<1>1. FirstMatch(s, r) = {}
  BY DEF FirstMatch, Matches
<1>2. QED  BY <1>1 DEF Only, Nothing

-----------------------------------------------------------------------------
(* Every action preserves the invariant: one step per action.              *)
LEMMA InvStep == Inv /\ [Next]_vars => Inv'
<1> SUFFICES ASSUME Inv, [Next]_vars PROVE Inv'
  OBVIOUS
<1>0. /\ db \in Contents /\ dirty \in Contents
      /\ writer \in Clients \cup {None}
      /\ local \in [Clients -> Locals]
      /\ \A c \in Clients : /\ local[c].pc \in Writing => writer = c
                            /\ ReadOK(local[c]) /\ WriteOK(local[c])
  BY DEF Inv, TypeOK
(* A step that leaves the database alone and whose client is not in a      *)
(* write transaction afterwards.                                           *)
<1>R. ASSUME NEW c \in Clients, NEW l \in Locals,
             local' = [local EXCEPT ![c] = l], UNCHANGED <<db, writer, dirty>>,
             l.pc \notin Writing, ReadOK(l)
      PROVE  Inv'
  <2>1. \A d \in Clients : local'[d] = IF d = c THEN l ELSE local[d]
    BY <1>0, <1>R
  <2>2. TypeOK'
    BY <1>0, <1>R, <2>1 DEF TypeOK
  <2>3. ASSUME NEW d \in Clients PROVE ReadOK(local[d])'
    <3>1. CASE d = c
      <4>1. local'[d] = l
        BY <2>1, <3>1
      <4>2. QED  BY <1>R, <4>1 DEF ReadOK
    <3>2. CASE d # c
      <4>1. local'[d] = local[d] /\ ReadOK(local[d])
        BY <1>0, <2>1, <3>2
      <4>2. QED  BY <4>1 DEF ReadOK
    <3>3. QED  BY <3>1, <3>2
  <2>4. \A d \in Clients : WriteOK(local[d])'
    BY <1>0, <1>R, <2>1 DEF WriteOK
  <2>5. QED  BY <2>2, <2>3, <2>4 DEF Inv
(* The writer takes a step; no other client is in a write transaction.     *)
<1>W. ASSUME NEW c \in Clients, NEW l \in Locals,
             local' = [local EXCEPT ![c] = l],
             db' \in Contents, dirty' \in Contents,
             writer \in {c, None}, writer' \in {c, None},
             l.pc \in Writing => writer' = c,
             ReadOK(l), WriteOK(l)'
      PROVE  Inv'
  <2>1. \A d \in Clients : local'[d] = IF d = c THEN l ELSE local[d]
    BY <1>0, <1>W
  <2>2. \A d \in Clients : d # c => local[d].pc \notin Writing
    BY <1>0, <1>W, StoreAssumption
  <2>3. TypeOK'
    <3>1. writer' \in Clients \cup {None}
      BY <1>W
    <3>2. local' \in [Clients -> Locals]
      BY <1>0, <1>W
    <3>3. \A d \in Clients : local'[d].pc \in Writing => writer' = d
      BY <1>W, <2>1, <2>2
    <3>4. QED  BY <1>W, <3>1, <3>2, <3>3 DEF TypeOK
  <2>4. ASSUME NEW d \in Clients PROVE ReadOK(local[d])'
    <3>1. CASE d = c
      <4>1. local'[d] = l
        BY <2>1, <3>1
      <4>2. QED  BY <1>W, <4>1 DEF ReadOK
    <3>2. CASE d # c
      <4>1. local'[d] = local[d] /\ ReadOK(local[d])
        BY <1>0, <2>1, <3>2
      <4>2. QED  BY <4>1 DEF ReadOK
    <3>3. QED  BY <3>1, <3>2
  <2>5. \A d \in Clients : WriteOK(local[d])'
    BY <1>W, <2>1, <2>2 DEF WriteOK
  <2>6. QED  BY <2>3, <2>4, <2>5 DEF Inv
<1>S. \A c \in Clients :
        /\ local[c] \in Locals /\ local[c].req \in Requests
        /\ local[c].found \in Contents /\ local[c].snap \in Contents
        /\ local[c].pos \in Keys \cup {0}
  BY <1>0 DEF Locals
<1>1. ASSUME NEW c \in Clients, NEW r \in Requests, Invoke(c, r)
      PROVE  Inv'
  BY <1>1, <1>R, ContentsOK, LocallyOK DEF Invoke
<1>2. ASSUME NEW c \in Clients, BeginRead(c)
      PROVE  Inv'
  <2>1. PICK l \in Locals :
          /\ local' = [local EXCEPT ![c] = l]
          /\ l.pc = "read" /\ l.snap = db /\ l.req = local[c].req
          /\ l.found = local[c].found /\ l.pos = local[c].pos
    <3> DEFINE m == [local[c] EXCEPT !.pc = "read", !.snap = db]
    <3>1. m \in Locals
      BY <1>0, <1>S DEF Locals
    <3>2. /\ m.pc = "read" /\ m.snap = db /\ m.req = local[c].req
          /\ m.found = local[c].found /\ m.pos = local[c].pos
      BY <1>S DEF Locals
    <3>3. local' = [local EXCEPT ![c] = m]
      BY <1>2 DEF BeginRead
    <3> HIDE DEF m
    <3>4. QED  BY <3>1, <3>2, <3>3
  <2>2. local[c].found = Nothing /\ local[c].pos = 0
    BY <1>0, <1>2 DEF BeginRead, At, ReadOK
  <2>3. ReadOK(l)
    BY <1>0, <1>2, <2>1, <2>2, NothingBefore DEF BeginRead, At, ReadOK
  <2>4. QED  BY <1>2, <1>R, <2>1, <2>3 DEF BeginRead
<1>3. ASSUME NEW c \in Clients, BeginFails(c) \/ ReadFails(c)
      PROVE  Inv'
  <2> DEFINE l == Locally("return", local[c].req, local[c].found, FALSE)
  <2>1. l \in Locals /\ l.pc = "return" /\ ReadOK(l)
    BY <1>S, LocallyOK
  <2>2. local' = [local EXCEPT ![c] = l] /\ UNCHANGED <<db, writer, dirty>>
    BY <1>3 DEF BeginFails, ReadFails, Fails
  <2>3. QED  BY <1>R, <2>1, <2>2
(* What a read that ends returns is of the contents.                       *)
<1>T. ASSUME NEW c \in Clients, NEW result \in Contents,
             Succeeds(c, result), UNCHANGED <<db, writer, dirty>>
      PROVE  Inv'
  <2> DEFINE l == Locally("return", local[c].req, result, TRUE)
  <2>1. l \in Locals /\ l.pc = "return" /\ ReadOK(l)
    BY <1>S, LocallyOK
  <2>2. local' = [local EXCEPT ![c] = l]
    BY <1>T DEF Succeeds
  <2>3. QED  BY <1>R, <1>T, <2>1, <2>2
<1>4. ASSUME NEW c \in Clients, Get(c) \/ CursorEnds(c)
      PROVE  Inv'
  <2>1. CASE Get(c)
    BY <1>S, <1>T, <2>1, OnlyOK DEF Get
  <2>2. CASE CursorEnds(c)
    BY <1>S, <1>T, <2>2 DEF CursorEnds
  <2>3. QED  BY <1>4, <2>1, <2>2
<1>5. ASSUME NEW c \in Clients, ForEach(c)
      PROVE  Inv'
  <2>1. PICK k \in DOMAIN local[c].snap :
          /\ IsNext(k, local[c].snap, local[c].pos)
          /\ local' = [local EXCEPT
                         ![c].pos = k,
                         ![c].found = Update(@, k, local[c].snap[k])]
    BY <1>5 DEF ForEach
  <2>2. k \in Keys /\ local[c].snap[k] \in Values
    BY <1>S, KeysOK, ContentsOK
  <2>3. PICK l \in Locals :
          /\ local' = [local EXCEPT ![c] = l]
          /\ l.pc = "read" /\ l.req = local[c].req
          /\ l.snap = local[c].snap /\ l.pos = k
          /\ l.found = Update(local[c].found, k, local[c].snap[k])
    <3> DEFINE u == Update(local[c].found, k, local[c].snap[k])
    <3>1. u \in Contents
      BY <1>S, <2>2, UpdateOK
    <3> HIDE DEF u
    <3>2. [local[c] EXCEPT !.pos = k, !.found = u] \in Locals
      BY <1>S, <2>2, <3>1 DEF Locals
    <3>3. local' = [local EXCEPT ![c] = [local[c] EXCEPT !.pos = k, !.found = u]]
      BY <2>1 DEF u
    <3>4. local[c].pc = "read"
      BY <1>5 DEF ForEach, At
    <3>5. QED  BY <1>S, <3>2, <3>3, <3>4 DEF Locals, u
  <2>4. local[c].req.op = "ForEach"
        /\ local[c].found = Only(local[c].snap, {j \in Keys : j <= local[c].pos})
    BY <1>0, <1>5 DEF ReadOK, ForEach, At
  <2>5. l.found = Only(l.snap, {j \in Keys : j <= k})
    BY <1>S, <2>1, <2>3, <2>4, CursorMoves
  <2>6. ReadOK(l)
    BY <2>3, <2>4, <2>5 DEF ReadOK
  <2>7. QED  BY <1>5, <1>R, <2>3, <2>6 DEF ForEach
<1>6. ASSUME NEW c \in Clients, Find(c)
      PROVE  Inv'
  <2>1. PICK k \in DOMAIN local[c].snap :
          /\ IsNext(k, local[c].snap, local[c].pos)
          /\ \/ Succeeds(c, Only(local[c].snap, {k}))
             \/ /\ local[c].snap[k] \notin local[c].req.matching
                /\ local' = [local EXCEPT ![c].pos = k]
    BY <1>6 DEF Find
  <2>2. CASE Succeeds(c, Only(local[c].snap, {k}))
    BY <1>S, <1>T, <1>6, <2>2, OnlyOK DEF Find
  <2>3. CASE /\ local[c].snap[k] \notin local[c].req.matching
             /\ local' = [local EXCEPT ![c].pos = k]
    <3>1. k \in Keys /\ DOMAIN local[c].snap \subseteq Nat
          /\ local[c].pos \in Nat
      BY <1>S, KeysOK
    <3>2. PICK l \in Locals :
            /\ local' = [local EXCEPT ![c] = l]
            /\ l.pc = "read" /\ l.req = local[c].req /\ l.req.op = "Find"
            /\ l.snap = local[c].snap /\ l.pos = k /\ l.found = local[c].found
      <4>1. [local[c] EXCEPT !.pos = k] \in Locals
        BY <1>S, <3>1 DEF Locals
      <4>2. QED  BY <1>S, <1>6, <2>3, <4>1 DEF Find, At, Locals
    <3>3. \A j \in DOMAIN local[c].snap :
            j <= k => j <= local[c].pos \/ j = k
      BY <2>1, <3>1 DEF IsNext
    <3>4. ReadOK(l)
      BY <1>0, <1>6, <2>3, <3>2, <3>3 DEF ReadOK, Find, At
    <3>5. QED  BY <1>6, <1>R, <2>3, <3>2, <3>4 DEF Find
  <2>4. QED  BY <2>1, <2>2, <2>3
<1>7. ASSUME NEW c \in Clients, BeginWrite(c)
      PROVE  Inv'
  <2>1. PICK l \in Locals :
          /\ local' = [local EXCEPT ![c] = l]
          /\ l.pc = "open" /\ l.req = local[c].req
          /\ l.found = local[c].found /\ l.pos = local[c].pos
    <3>1. [local[c] EXCEPT !.pc = "open"] \in Locals
      BY <1>S DEF Locals
    <3>2. QED  BY <1>S, <1>7, <3>1 DEF BeginWrite, Locals
  <2>2. ReadOK(l) /\ WriteOK(l)'
    BY <1>0, <1>7, <2>1 DEF BeginWrite, At, ReadOK, WriteOK
  <2>3. QED  BY <1>0, <1>7, <1>W, <2>1, <2>2 DEF BeginWrite
<1>O. ASSUME NEW c \in Clients, Open(c)
      PROVE  Inv'
  <2>1. PICK l \in Locals :
          /\ local' = [local EXCEPT ![c] = l]
          /\ l.pc = "write" /\ l.req = local[c].req
          /\ l.found = local[c].found /\ l.pos = local[c].pos
    <3>1. [local[c] EXCEPT !.pc = "write"] \in Locals
      BY <1>S DEF Locals
    <3>2. QED  BY <1>S, <1>O, <3>1 DEF Open, Locals
  <2>2. ReadOK(l) /\ WriteOK(l)' /\ writer = c
    BY <1>0, <1>O, <2>1 DEF Open, ReadOK, WriteOK
  <2>3. QED  BY <1>0, <1>O, <1>W, <2>1, <2>2 DEF Open
<1>8. ASSUME NEW c \in Clients, Put(c) \/ Del(c)
      PROVE  Inv'
  <2>1. PICK l \in Locals :
          /\ local' = [local EXCEPT ![c] = l]
          /\ l.pc = "commit" /\ l.req = local[c].req
          /\ l.found = local[c].found /\ l.pos = local[c].pos
    <3>1. [local[c] EXCEPT !.pc = "commit"] \in Locals
      BY <1>S DEF Locals
    <3>2. QED  BY <1>S, <1>8, <3>1 DEF Put, Del, Locals
  <2>2. local[c].pc = "write" /\ writer = c /\ dirty = db
    BY <1>0, <1>8 DEF Put, Del, At, WriteOK
  <2>3. dirty' \in Contents
    BY <1>0, <1>S, <1>8, RequestsOK, UpdateOK, RemoveOK DEF Put, Del, At
  <2>4. ReadOK(l) /\ WriteOK(l)'
    BY <1>0, <1>8, <2>1, <2>2 DEF Put, Del, At, ReadOK, WriteOK
  <2>5. db' = db /\ writer' = writer
    BY <1>8 DEF Put, Del
  <2>6. QED  BY <1>0, <1>W, <2>1, <2>2, <2>3, <2>4, <2>5
<1>9. ASSUME NEW c \in Clients,
             OpenFails(c) \/ Abort(c) \/ Commit(c) \/ CommitFails(c)
      PROVE  Inv'
  <2>1. writer = c
    BY <1>0, <1>9 DEF OpenFails, Abort, Commit, CommitFails
  <2>2. PICK l \in Locals :
          local' = [local EXCEPT ![c] = l] /\ l.pc = "return" /\ ReadOK(l)
    BY <1>S, <1>9, ContentsOK, LocallyOK
    DEF OpenFails, Abort, Commit, CommitFails, Succeeds, Fails
  <2>3. WriteOK(l)'
    BY <2>2 DEF WriteOK
  <2>4. db' \in Contents /\ dirty' \in Contents /\ writer' = None
    BY <1>0, <1>9, ContentsOK
    DEF OpenFails, Abort, Commit, CommitFails, EndWrite
  <2>5. l.pc \notin Writing
    BY <2>2
  <2>6. QED  BY <1>W, <2>1, <2>2, <2>3, <2>4, <2>5
<1>10. ASSUME NEW c \in Clients, Return(c)
       PROVE  Inv'
  BY <1>10, <1>R, IdleOK DEF Return
<1>11. CASE Restart
  <2>1. \A c \in Clients : local'[c] = Idle
    BY <1>11 DEF Restart
  <2>2. TypeOK'
    BY <1>0, <1>11, <2>1, IdleOK, ContentsOK DEF TypeOK, Restart, EndWrite
  <2>3. \A c \in Clients : ReadOK(local[c])' /\ WriteOK(local[c])'
    BY <2>1, IdleOK DEF ReadOK, WriteOK
  <2>4. QED  BY <2>2, <2>3 DEF Inv
<1>12. CASE UNCHANGED vars
  BY <1>12 DEF Inv, TypeOK, ReadOK, WriteOK, vars
<1>13. QED
  BY <1>1, <1>2, <1>3, <1>4, <1>5, <1>6, <1>7, <1>O, <1>8, <1>9, <1>10,
     <1>11, <1>12 DEF Next, Step

LEMMA InvInit == Init => Inv
<1> SUFFICES ASSUME Init PROVE Inv
  OBVIOUS
<1>1. \A c \in Clients : local[c] = Idle
  BY DEF Init
<1>2. TypeOK
  BY <1>1, IdleOK, ContentsOK DEF Init, TypeOK
<1>3. \A c \in Clients : ReadOK(local[c]) /\ WriteOK(local[c])
  BY <1>1, IdleOK
<1>4. QED  BY <1>2, <1>3 DEF Inv

(* The invariant holds throughout: readers see a prefix of their snapshot, *)
(* the writer sees the database with its own change.                       *)
THEOREM Invariance == Spec => []Inv
  BY InvInit, InvStep, PTL DEF Spec

(* Variables have their types, and only the holder of LMDB's write lock is *)
(* between startTxn(false) and its Commit or Abort.                        *)
THEOREM TypeCorrect == Spec => []TypeOK
<1>1. Inv => TypeOK
  BY DEF Inv
<1>2. QED  BY <1>1, Invariance, PTL

-----------------------------------------------------------------------------
(* The operators of the instance are those of this module.                 *)
LEMMA SameOperators ==
    /\ KV!Nothing = Nothing /\ KV!Requests = Requests
    /\ \A s, ks : KV!Only(s, ks) = Only(s, ks)
    /\ \A s, k, v : KV!Update(s, k, v) = Update(s, k, v)
    /\ \A s, k : KV!Remove(s, k) = Remove(s, k)
    /\ \A s, r : KV!Found(s, r) = Found(s, r)
    /\ \A r : KV!IsRead(r) <=> IsRead(r)
<1>1. KV!Nothing = Nothing /\ KV!Requests = Requests
  BY DEF KV!Nothing, Nothing, KV!Requests, Requests
<1>2. \A s, ks : KV!Only(s, ks) = Only(s, ks)
  BY DEF KV!Only, Only
<1>3. \A s, k, v : KV!Update(s, k, v) = Update(s, k, v)
  BY DEF KV!Update, Update
<1>4. \A s, k : KV!Remove(s, k) = Remove(s, k)
  BY DEF KV!Remove, Remove
<1>5. \A s, r : KV!FirstMatch(s, r) = FirstMatch(s, r)
  BY DEF KV!FirstMatch, FirstMatch, KV!Matches, Matches
<1>6. \A s, r : KV!Found(s, r) = Found(s, r)
  BY <1>2, <1>5 DEF KV!Found, Found
<1>7. \A r : KV!IsRead(r) <=> IsRead(r)
  BY DEF KV!IsRead, IsRead
<1>8. QED  BY <1>1, <1>2, <1>3, <1>4, <1>6, <1>7

(* The call that a client's local variables stand for.                     *)
LEMMA CallIs ==
    ASSUME NEW l
    PROVE  /\ l.pc = "idle" => CallOf(l) = KV!Idle
           /\ l.pc \in {"begin"} \cup Writing =>
                  CallOf(l) = KV!Called(l.req)
           /\ l.pc = "read" =>
                  CallOf(l) = KV!Done(l.req, TRUE, Found(l.snap, l.req))
           /\ l.pc = "return" => CallOf(l) = KV!Done(l.req, l.ok, l.found)
  BY DEF CallOf, KV!Idle, KV!Called, KV!Done

LEMMA CallStates ==
    /\ KV!Idle.state = "idle"
    /\ \A r : KV!Called(r).state = "called" /\ KV!Called(r).req = r
    /\ \A r, ok, f : /\ KV!Done(r, ok, f).state = "done"
                     /\ KV!Done(r, ok, f).req = r
                     /\ KV!Done(r, ok, f).found = f
  BY DEF KV!Idle, KV!Called, KV!Done

(* What a read returns is what it would have found when it began.          *)
LEMMA FoundIs ==
    ASSUME NEW s, NEW r
    PROVE  /\ r.op = "Get" => Found(s, r) = Only(s, {r.key})
           /\ r.op = "ForEach" => Found(s, r) = s
           /\ r.op = "Find" => Found(s, r) = Only(s, FirstMatch(s, r))
  BY DEF Found

LEMMA LocallyCall ==
    ASSUME NEW pc, NEW r, NEW found, NEW ok
    PROVE  /\ pc = "begin" => CallOf(Locally(pc, r, found, ok)) = KV!Called(r)
           /\ pc = "return" =>
                  CallOf(Locally(pc, r, found, ok)) = KV!Done(r, ok, found)
           /\ pc = "idle" => CallOf(Locally(pc, r, found, ok)) = KV!Idle
<1> DEFINE l == Locally(pc, r, found, ok)
<1>1. l.pc = pc /\ l.req = r /\ l.found = found /\ l.ok = ok
  BY DEF Locally
<1> HIDE DEF l
<1>2. QED  BY <1>1, CallIs DEF l

(* Every step of the store is a step of KVStore or changes nothing of it:  *)
(* one step per action.                                                    *)
LEMMA RefStep == Inv /\ [Next]_vars => [KV!Next]_(KV!vars)
<1> SUFFICES ASSUME Inv, [Next]_vars PROVE [KV!Next]_(KV!vars)
  OBVIOUS
<1> DEFINE calls == [d \in Clients |-> CallOf(local[d])]
<1>0. /\ local \in [Clients -> Locals]
      /\ \A c \in Clients : ReadOK(local[c]) /\ WriteOK(local[c])
  BY DEF Inv, TypeOK
<1>S. \A c \in Clients :
        /\ local[c] \in Locals /\ local[c].req \in Requests
        /\ local[c].found \in Contents /\ local[c].snap \in Contents
        /\ local[c].pos \in Keys \cup {0}
  BY <1>0 DEF Locals
<1>E. ASSUME NEW c \in Clients, NEW l, local' = [local EXCEPT ![c] = l]
      PROVE  calls' = [calls EXCEPT ![c] = CallOf(l)]
  BY <1>0, <1>E
(* A step that changes neither the database nor the call it makes.         *)
<1>U. ASSUME NEW c \in Clients, NEW l, local' = [local EXCEPT ![c] = l],
             CallOf(l) = CallOf(local[c]), db' = db
      PROVE  UNCHANGED KV!vars
  <2>1. calls' = [calls EXCEPT ![c] = CallOf(l)]
    BY <1>E, <1>U
  <2>2. calls' = calls
    BY <1>U, <2>1
  <2>3. QED  BY <1>U, <2>2 DEF KV!vars
<1>1. ASSUME NEW c \in Clients, NEW r \in Requests, Invoke(c, r)
      PROVE  KV!Next
  <2>1. calls[c] = KV!Idle
    BY <1>1, CallIs DEF Invoke
  <2>2. calls' = [calls EXCEPT ![c] = KV!Called(r)]
    <3>1. CallOf(Locally("begin", r, Nothing, FALSE)) = KV!Called(r)
      BY LocallyCall
    <3>2. local' = [local EXCEPT ![c] = Locally("begin", r, Nothing, FALSE)]
      BY <1>1 DEF Invoke
    <3>3. QED  BY <1>E, <3>1, <3>2
  <2>3. KV!Invoke(c, r)
    BY <1>1, <2>1, <2>2 DEF Invoke, KV!Invoke
  <2>4. QED  BY <2>3, SameOperators DEF KV!Next
<1>2. ASSUME NEW c \in Clients, BeginRead(c)
      PROVE  KV!Next
  <2> DEFINE l == [local[c] EXCEPT !.pc = "read", !.snap = db]
  <2>1. l.pc = "read" /\ l.snap = db /\ l.req = local[c].req
    BY <1>S DEF Locals
  <2>2. local' = [local EXCEPT ![c] = l]
    BY <1>2 DEF BeginRead
  <2> HIDE DEF l
  <2>3. calls[c] = KV!Called(local[c].req)
    BY <1>2, CallIs DEF BeginRead, At
  <2>4. CallOf(l) = KV!Done(local[c].req, TRUE, Found(db, local[c].req))
    BY <2>1, CallIs
  <2>5. calls' = [calls EXCEPT ![c] = CallOf(l)]
    BY <1>E, <2>2
  <2>6. IsRead(local[c].req)
    BY <1>2 DEF BeginRead, At, IsRead
  <2> HIDE DEF calls
  <2>7. KV!Read(c)
    BY <1>2, <2>3, <2>4, <2>5, <2>6, SameOperators, CallStates
    DEF BeginRead, KV!Read, calls
  <2>8. QED  BY <2>7 DEF KV!Next
(* A call that fails before it had an effect.                              *)
<1>F. ASSUME NEW c \in Clients, Fails(c), db' = db,
             local[c].pc \in {"begin"} \cup Writing
      PROVE  KV!Next
  <2>1. local[c].found = Nothing
    BY <1>0, <1>F DEF ReadOK
  <2>2. calls[c] = KV!Called(local[c].req)
    BY <1>F, CallIs
  <2>3. calls' = [calls EXCEPT ![c] = KV!Done(local[c].req, FALSE, Nothing)]
    <3>1. CallOf(Locally("return", local[c].req, Nothing, FALSE))
              = KV!Done(local[c].req, FALSE, Nothing)
      BY LocallyCall
    <3>2. local' = [local EXCEPT
                      ![c] = Locally("return", local[c].req, Nothing, FALSE)]
      BY <1>F, <2>1 DEF Fails
    <3>3. QED  BY <1>E, <3>1, <3>2
  <2>4. KV!Nothing = Nothing
    BY SameOperators
  <2>5. calls[c].state = "called" /\ calls[c].req = local[c].req
    BY <2>2, CallStates
  <2> HIDE DEF calls
  <2>6. KV!Fail(c)
    BY <1>F, <2>3, <2>4, <2>5 DEF KV!Fail, calls
  <2>7. QED  BY <2>6 DEF KV!Next
<1>3. ASSUME NEW c \in Clients,
             BeginFails(c) \/ OpenFails(c) \/ Abort(c) \/ CommitFails(c)
      PROVE  KV!Next
  <2>1. Fails(c) /\ db' = db
    BY <1>3 DEF BeginFails, OpenFails, Abort, CommitFails
  <2>2. local[c].pc \in {"begin"} \cup Writing
    BY <1>3 DEF BeginFails, OpenFails, Abort, CommitFails
  <2>3. QED  BY <1>F, <2>1, <2>2
<1>4. ASSUME NEW c \in Clients, Get(c)
      PROVE  UNCHANGED KV!vars
  <2> DEFINE f == Only(local[c].snap, {local[c].req.key})
             l == Locally("return", local[c].req, f, TRUE)
  <2>1. local' = [local EXCEPT ![c] = l] /\ db' = db
    BY <1>4 DEF Get, Succeeds
  <2>2. CallOf(l) = KV!Done(local[c].req, TRUE, f)
    BY LocallyCall
  <2>3. f = Found(local[c].snap, local[c].req)
    BY <1>4, FoundIs DEF Get, At
  <2>4. CallOf(local[c]) = KV!Done(local[c].req, TRUE, f)
    BY <1>4, <2>3, CallIs DEF Get, At
  <2> HIDE DEF l
  <2>5. QED  BY <1>U, <2>1, <2>2, <2>4
<1>5. ASSUME NEW c \in Clients, ForEach(c)
      PROVE  UNCHANGED KV!vars
  <2>1. PICK k \in DOMAIN local[c].snap :
          local' = [local EXCEPT ![c].pos = k,
                                 ![c].found = Update(@, k, local[c].snap[k])]
    BY <1>5 DEF ForEach
  <2> DEFINE u == Update(local[c].found, k, local[c].snap[k])
             l == [local[c] EXCEPT !.pos = k, !.found = u]
  <2>2. local' = [local EXCEPT ![c] = l] /\ db' = db
    BY <1>5, <2>1 DEF ForEach
  <2> HIDE DEF u
  <2>3. l.pc = "read" /\ l.req = local[c].req /\ l.snap = local[c].snap
    BY <1>5, <1>S DEF ForEach, At, Locals
  <2>4. local[c].pc = "read"
    BY <1>5 DEF ForEach, At
  <2> HIDE DEF l
  <2>5. CallOf(l) = CallOf(local[c])
    BY <2>3, <2>4, CallIs
  <2>6. QED  BY <1>U, <2>2, <2>5
<1>6. ASSUME NEW c \in Clients, Find(c)
      PROVE  UNCHANGED KV!vars
  <2> DEFINE s == local[c].snap
             r == local[c].req
  <2>1. PICK k \in DOMAIN s :
          /\ IsNext(k, s, local[c].pos)
          /\ \/ s[k] \in r.matching /\ Succeeds(c, Only(s, {k}))
             \/ local' = [local EXCEPT ![c].pos = k]
    BY <1>6 DEF Find
  <2>2. local[c].pc = "read" /\ r.op = "Find" /\ db' = db
    BY <1>6 DEF Find, At
  <2>3. CASE s[k] \in r.matching /\ Succeeds(c, Only(s, {k}))
    <3>1. \A j \in DOMAIN s : j <= local[c].pos => s[j] \notin r.matching
      BY <1>0, <2>2 DEF ReadOK
    <3>2. FirstMatch(s, r) = {k}
      <4>1. s \in Contents /\ local[c].pos \in Keys \cup {0}
        BY <1>S
      <4> HIDE DEF s, r
      <4>2. QED  BY <2>1, <2>3, <3>1, <4>1, FindsFirst, Zenon
    <3>3. Found(s, r) = Only(s, {k})
      <4>1. Found(s, r) = Only(s, FirstMatch(s, r))
        BY <2>2, FoundIs
      <4>2. QED  BY <3>2, <4>1, Zenon
    <3>4. CallOf(local[c]) = KV!Done(r, TRUE, Only(s, {k}))
      BY <2>2, <3>3, CallIs
    <3> DEFINE l == Locally("return", r, Only(s, {k}), TRUE)
    <3>5. CallOf(l) = KV!Done(r, TRUE, Only(s, {k}))
      BY LocallyCall
    <3>6. local' = [local EXCEPT ![c] = l]
      BY <2>3 DEF Succeeds
    <3> HIDE DEF l
    <3>7. QED  BY <1>U, <2>2, <3>4, <3>5, <3>6
  <2>4. CASE local' = [local EXCEPT ![c].pos = k]
    <3> DEFINE l == [local[c] EXCEPT !.pos = k]
    <3>1. l.pc = "read" /\ l.req = r /\ l.snap = s
      BY <1>S, <2>2 DEF Locals
    <3>2. local' = [local EXCEPT ![c] = l]
      BY <2>4
    <3> HIDE DEF l
    <3>3. CallOf(l) = CallOf(local[c])
      BY <2>2, <3>1, CallIs
    <3>4. QED  BY <1>U, <2>2, <3>2, <3>3
  <2>5. QED  BY <2>1, <2>3, <2>4
<1>7. ASSUME NEW c \in Clients, CursorEnds(c)
      PROVE  UNCHANGED KV!vars
  <2> DEFINE s == local[c].snap
             r == local[c].req
             l == Locally("return", r, local[c].found, TRUE)
  <2>1. local[c].pc = "read" /\ r.op \in {"ForEach", "Find"} /\ db' = db
    BY <1>7 DEF CursorEnds, At
  <2>2. \A k \in DOMAIN s : k <= local[c].pos
    BY <1>7 DEF CursorEnds
  <2>3. r.op = "ForEach" => local[c].found = Found(s, r)
    <3> SUFFICES ASSUME r.op = "ForEach" PROVE local[c].found = Found(s, r)
      OBVIOUS
    <3>1. local[c].found = Only(s, {k \in Keys : k <= local[c].pos})
      BY <1>0, <2>1 DEF ReadOK
    <3>2. s \in Contents
      BY <1>S
    <3>3. Only(s, {k \in Keys : k <= local[c].pos}) = s
      <4> HIDE DEF s
      <4>1. QED  BY <2>2, <3>2, CursorAtEnd, Zenon
    <3>4. Found(s, r) = s
      BY FoundIs
    <3>5. QED  BY <3>1, <3>3, <3>4, Zenon
  <2>4. r.op = "Find" => local[c].found = Found(s, r)
    <3> SUFFICES ASSUME r.op = "Find" PROVE local[c].found = Found(s, r)
      OBVIOUS
    <3>1. local[c].found = Nothing /\ \A k \in DOMAIN s : s[k] \notin r.matching
      BY <1>0, <2>1, <2>2 DEF ReadOK
    <3>2. Only(s, FirstMatch(s, r)) = Nothing
      BY <3>1, FindsNothing, Zenon
    <3>3. Found(s, r) = Only(s, FirstMatch(s, r))
      BY FoundIs
    <3>4. QED  BY <3>1, <3>2, <3>3, Zenon
  <2>5. CallOf(local[c]) = KV!Done(r, TRUE, local[c].found)
    BY <2>1, <2>3, <2>4, CallIs
  <2>6. CallOf(l) = KV!Done(r, TRUE, local[c].found)
    BY LocallyCall
  <2>7. local' = [local EXCEPT ![c] = l]
    BY <1>7 DEF CursorEnds, Succeeds
  <2>8. CallOf(l) = CallOf(local[c])
    BY <2>5, <2>6
  <2> HIDE DEF l
  <2>9. QED  BY <1>U, <2>1, <2>7, <2>8
(* A read fails: what it has found is a part of what it would find.        *)
<1>8. ASSUME NEW c \in Clients, ReadFails(c)
      PROVE  KV!Next
  <2> DEFINE s == local[c].snap
             r == local[c].req
             l == Locally("return", r, local[c].found, FALSE)
  <2>1. local[c].pc = "read" /\ db' = db /\ local' = [local EXCEPT ![c] = l]
    BY <1>8 DEF ReadFails, Fails
  <2>2. IsRead(r)
    BY <1>0, <2>1 DEF ReadOK, IsRead
  <2>3. PICK ks \in SUBSET Keys : local[c].found = Only(Found(s, r), ks)
    <3>1. CASE r.op = "ForEach"
      <4> DEFINE ks == {k \in Keys : k <= local[c].pos}
      <4>1. local[c].found = Only(s, ks)
        BY <1>0, <2>1, <3>1 DEF ReadOK
      <4>2. Found(s, r) = s
        BY <3>1, FoundIs
      <4>3. ks \in SUBSET Keys
        OBVIOUS
      <4> HIDE DEF ks
      <4>4. QED  BY <4>1, <4>2, <4>3
    <3>2. CASE r.op # "ForEach"
      <4>1. local[c].found = Nothing
        BY <1>0, <2>1, <3>2 DEF ReadOK
      <4>2. Only(Found(s, r), {}) = Nothing
        BY DEF Only, Nothing
      <4>3. QED  BY <4>1, <4>2
    <3>3. QED  BY <3>1, <3>2
  <2>4. calls[c] = KV!Done(r, TRUE, Found(s, r))
    BY <2>1, CallIs
  <2>5. CallOf(l) = KV!Done(r, FALSE, local[c].found)
    BY LocallyCall
  <2>6. calls' = [calls EXCEPT ![c] = CallOf(l)]
    BY <1>E, <2>1
  <2>7. /\ calls[c].state = "done" /\ calls[c].req = r
        /\ calls[c].found = Found(s, r)
    <3> DEFINE f == Found(s, r)
    <3>1. calls[c] = KV!Done(r, TRUE, f)
      BY <2>4
    <3> HIDE DEF calls, s, r, f
    <3>2. calls[c].state = "done" /\ calls[c].req = r /\ calls[c].found = f
      BY <3>1 DEF KV!Done
    <3>3. QED  BY <3>2 DEF f
  <2>8. KV!Only(Found(s, r), ks) = local[c].found
    BY <2>3, SameOperators
  <2>9. KV!IsRead(r)
    BY <2>2, SameOperators
  <2> HIDE DEF calls, s, r, l
  <2>10. KV!Break(c, ks)
    BY <2>1, <2>5, <2>6, <2>7, <2>8, <2>9 DEF KV!Break, calls
  <2>11. QED  BY <2>10 DEF KV!Next
<1>9. ASSUME NEW c \in Clients, BeginWrite(c) \/ Open(c) \/ Put(c) \/ Del(c)
      PROVE  UNCHANGED KV!vars
  <2>1. PICK pc \in Writing :
          local' = [local EXCEPT ![c].pc = pc] /\ db' = db
    BY <1>9 DEF BeginWrite, Open, Put, Del
  <2>2. local[c].pc \in {"begin"} \cup Writing
    BY <1>9 DEF BeginWrite, Open, Put, Del, At
  <2> DEFINE l == [local[c] EXCEPT !.pc = pc]
  <2>3. l.pc = pc /\ l.req = local[c].req
    BY <1>S DEF Locals
  <2>4. local' = [local EXCEPT ![c] = l]
    BY <2>1
  <2> HIDE DEF l
  <2>5. CallOf(l) = CallOf(local[c])
    BY <2>1, <2>2, <2>3, CallIs
  <2>6. QED  BY <1>U, <2>1, <2>4, <2>5
<1>10. ASSUME NEW c \in Clients, Commit(c)
       PROVE  KV!Next
  <2> DEFINE r == local[c].req
             l == Locally("return", r, Nothing, TRUE)
  <2>1. local[c].pc = "commit" /\ db' = dirty /\ local' = [local EXCEPT ![c] = l]
    BY <1>10 DEF Commit, Succeeds
  <2>2. calls[c] = KV!Called(r)
    BY <2>1, CallIs
  <2>3. CallOf(l) = KV!Done(r, TRUE, KV!Nothing)
    BY LocallyCall, SameOperators
  <2>4. calls' = [calls EXCEPT ![c] = KV!Done(r, TRUE, KV!Nothing)]
    BY <1>E, <2>1, <2>3
  <2>5. calls[c].state = "called" /\ calls[c].req = r
    BY <2>2, CallStates
  <2>6. CASE r.op = "Set"
    <3>1. db' = KV!Update(db, r.key, r.value)
      BY <1>0, <2>1, <2>6, SameOperators DEF WriteOK
    <3> HIDE DEF calls, r, l
    <3>2. KV!Set(c)
      BY <2>4, <2>5, <2>6, <3>1 DEF KV!Set, calls
    <3>3. QED  BY <3>2 DEF KV!Next
  <2>7. CASE r.op = "Delete"
    <3>1. db' = KV!Remove(db, r.key) /\ r.key \in DOMAIN db
      BY <1>0, <2>1, <2>7, SameOperators DEF WriteOK
    <3> HIDE DEF calls, r, l
    <3>2. KV!Delete(c)
      BY <2>4, <2>5, <2>7, <3>1 DEF KV!Delete, calls
    <3>3. QED  BY <3>2 DEF KV!Next
  <2>8. QED  BY <1>0, <2>1, <2>6, <2>7 DEF WriteOK
<1>11. ASSUME NEW c \in Clients, Return(c)
       PROVE  KV!Next
  <2>1. calls[c].state = "done"
    <3>1. calls[c] = KV!Done(local[c].req, local[c].ok, local[c].found)
      BY <1>11, CallIs DEF Return
    <3> HIDE DEF calls
    <3>2. QED  BY <3>1, CallStates
  <2>2. CallOf(Idle) = KV!Idle
    BY IdleOK, CallIs
  <2>3. calls' = [calls EXCEPT ![c] = KV!Idle]
    BY <1>11, <1>E, <2>2 DEF Return
  <2>4. db' = db
    BY <1>11 DEF Return
  <2> HIDE DEF calls
  <2>5. KV!Return(c)
    BY <2>1, <2>3, <2>4 DEF KV!Return, calls
  <2>6. QED  BY <2>5 DEF KV!Next
<1>12. CASE Restart
  <2>1. CallOf(Idle) = KV!Idle
    BY IdleOK, CallIs
  <2>2. \A d \in Clients : local'[d] = Idle
    BY <1>12 DEF Restart
  <2>3. calls' = [d \in Clients |-> KV!Idle] /\ db' = db
    BY <1>12, <2>1, <2>2 DEF Restart
  <2>4. QED  BY <2>3 DEF KV!Next, KV!Crash
<1>13. CASE UNCHANGED vars
  <2>1. db' = db /\ local' = local
    BY <1>13 DEF vars
  <2>2. calls' = calls
    BY <2>1
  <2>3. QED  BY <2>1, <2>2 DEF KV!vars
<1>14. QED
  BY <1>1, <1>2, <1>3, <1>4, <1>5, <1>6, <1>7, <1>8, <1>9, <1>10, <1>11,
     <1>12, <1>13 DEF Next, Step

LEMMA RefInit == Init => KV!Init
<1> SUFFICES ASSUME Init PROVE KV!Init
  OBVIOUS
<1>1. CallOf(Idle) = KV!Idle
  BY IdleOK, CallIs
<1>2. \A d \in Clients : local[d] = Idle
  BY DEF Init
<1>3. [d \in Clients |-> CallOf(local[d])] = [d \in Clients |-> KV!Idle]
  BY <1>1, <1>2
<1>4. db = KV!Nothing
  BY SameOperators DEF Init
<1>5. QED  BY <1>3, <1>4 DEF KV!Init

(* The store on LMDB implements KVStore: under every interleaving of       *)
(* calls, errors and restarts a read sees one moment of the store, a write *)
(* takes effect at its Commit or not at all, and what is committed stays.  *)
THEOREM ImplementsKVStore == Spec => Refines
<1>1. Inv /\ [Next]_vars => [KV!Next]_(KV!vars)
  BY RefStep
<1>2. QED  BY <1>1, RefInit, Invariance, PTL DEF Spec, Refines, KV!Spec
=============================================================================
