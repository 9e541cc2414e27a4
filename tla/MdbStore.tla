------------------------------ MODULE MdbStore ------------------------------
(***************************************************************************)
(* The store of the applications (store/mdb_store.go), on the transactions *)
(* of LMDB: one writer at a time, readers that keep the state in which     *)
(* they began, and a commit that is atomic and survives the process.       *)
(***************************************************************************)
EXTENDS KVRequests

CONSTANTS Clients,      \* the goroutines that call the store
          None          \* no client

ASSUME StoreAssumption ==
    /\ Keys \subseteq Nat \ {0}
    /\ None \notin Clients

VARIABLES
    db,         \* what is committed
    writer,     \* the client that is in a write transaction, or None
    dirty,      \* what the writer sees
    local       \* client -> the call it makes, with its local variables

vars == <<db, writer, dirty, local>>

(* snap is what a read transaction sees, pos the key at which the cursor   *)
(* is, found what has been read, and ok whether the call succeeded.        *)
Locals ==
    [pc : {"idle", "begin", "open", "read", "write", "commit", "return"},
     req : Requests, snap : Contents, pos : Keys \cup {0},
     found : Contents, ok : BOOLEAN]

Locally(pc, r, found, ok) ==
    [pc |-> pc, req |-> r, snap |-> Nothing, pos |-> 0,
     found |-> found, ok |-> ok]
Idle == Locally("idle", [op |-> "ForEach"], Nothing, FALSE)

Init ==
    /\ db = Nothing
    /\ writer = None
    /\ dirty = Nothing
    /\ local = [c \in Clients |-> Idle]

-----------------------------------------------------------------------------
At(c, pc, ops) == local[c].pc = pc /\ local[c].req.op \in ops

Invoke(c, r) ==
    /\ local[c].pc = "idle"
    /\ local' = [local EXCEPT ![c] = Locally("begin", r, Nothing, FALSE)]
    /\ UNCHANGED <<db, writer, dirty>>

(* startTxn: BeginTxn, which fixes what the transaction sees, and DBIOpen. *)
(* A DBIOpen that fails for a reader is a ReadFails that has read nothing. *)
BeginRead(c) ==
    /\ At(c, "begin", {"Get", "ForEach", "Find"})
    /\ local' = [local EXCEPT ![c].pc = "read", ![c].snap = db]
    /\ UNCHANGED <<db, writer, dirty>>

BeginWrite(c) ==
    /\ At(c, "begin", {"Set", "Delete"})
    /\ writer = None
    /\ writer' = c
    /\ dirty' = db
    /\ local' = [local EXCEPT ![c].pc = "open"]
    /\ UNCHANGED db

Open(c) ==
    /\ local[c].pc = "open"
    /\ local' = [local EXCEPT ![c].pc = "write"]
    /\ UNCHANGED <<db, writer, dirty>>

Succeeds(c, result) ==
    local' = [local EXCEPT ![c] = Locally("return", @.req, result, TRUE)]
Fails(c) ==
    local' = [local EXCEPT ![c] = Locally("return", @.req, @.found, FALSE)]

BeginFails(c) ==
    /\ local[c].pc = "begin"
    /\ Fails(c)
    /\ UNCHANGED <<db, writer, dirty>>

EndWrite == writer' = None /\ dirty' = Nothing

(* Mutant: startTxn returns the error of DBIOpen without the Abort.        *)
AbortForgotten(c) ==
    /\ local[c].pc = "open"
    /\ Fails(c)
    /\ UNCHANGED <<db, writer, dirty>>

(* DBIOpen fails while the write lock is held already.                     *)
OpenFails(c) ==
    /\ local[c].pc = "open"
    /\ EndWrite
    /\ Fails(c)
    /\ UNCHANGED db

(* The deferred Abort ends the transaction.                                *)
Get(c) ==
    /\ At(c, "read", {"Get"})
    /\ Succeeds(c, Only(local[c].snap, {local[c].req.key}))
    /\ UNCHANGED <<db, writer, dirty>>

-----------------------------------------------------------------------------
(* The loops over a cursor.                                                *)

IsNext(k, s, p) ==
    k \in DOMAIN s /\ k > p /\ \A j \in DOMAIN s : j > p => k <= j

(* Mutant: each value is read in a transaction of its own.                 *)
ForEachReads(c) ==
    /\ At(c, "read", {"ForEach"})
    /\ \E k \in DOMAIN db :
         /\ IsNext(k, local[c].snap, local[c].pos)
         /\ local' = [local EXCEPT ![c].pos = k,
                                   ![c].found = Update(@, k, db[k])]
    /\ UNCHANGED <<db, writer, dirty>>

(* The iterator may take its time: other goroutines write meanwhile.       *)
ForEach(c) ==
    /\ At(c, "read", {"ForEach"})
    /\ \E k \in DOMAIN local[c].snap :
         /\ IsNext(k, local[c].snap, local[c].pos)
         /\ local' = [local EXCEPT ![c].pos = k,
                                   ![c].found = Update(@, k, local[c].snap[k])]
    /\ UNCHANGED <<db, writer, dirty>>

Find(c) ==
    /\ At(c, "read", {"Find"})
    /\ \E k \in DOMAIN local[c].snap :
         /\ IsNext(k, local[c].snap, local[c].pos)
         /\ \/ /\ local[c].snap[k] \in local[c].req.matching
               /\ Succeeds(c, Only(local[c].snap, {k}))
            \/ /\ local[c].snap[k] \notin local[c].req.matching
               /\ local' = [local EXCEPT ![c].pos = k]
    /\ UNCHANGED <<db, writer, dirty>>

CursorEnds(c) ==
    /\ At(c, "read", {"ForEach", "Find"})
    /\ \A k \in DOMAIN local[c].snap : k <= local[c].pos
    /\ Succeeds(c, local[c].found)
    /\ UNCHANGED <<db, writer, dirty>>

(* CursorOpen or Get is an error: what the iterator was given stays given. *)
ReadFails(c) ==
    /\ local[c].pc = "read"
    /\ Fails(c)
    /\ UNCHANGED <<db, writer, dirty>>

-----------------------------------------------------------------------------
(* Set and Delete.                                                         *)

Put(c) ==
    /\ At(c, "write", {"Set"})
    /\ dirty' = Update(dirty, local[c].req.key, local[c].req.value)
    /\ local' = [local EXCEPT ![c].pc = "commit"]
    /\ UNCHANGED <<db, writer>>

Del(c) ==
    /\ At(c, "write", {"Delete"})
    /\ local[c].req.key \in DOMAIN dirty
    /\ dirty' = Remove(dirty, local[c].req.key)
    /\ local' = [local EXCEPT ![c].pc = "commit"]
    /\ UNCHANGED <<db, writer>>

(* Mutant: no return after the Abort.                                      *)
AbortGoesOn(c) ==
    /\ local[c].pc = "write"
    /\ EndWrite
    /\ local' = [local EXCEPT ![c].pc = "commit"]
    /\ UNCHANGED db

(* Put or Del is an error: the key is not found, the file is full, ...     *)
Abort(c) ==
    /\ local[c].pc = "write"
    /\ EndWrite
    /\ Fails(c)
    /\ UNCHANGED db

Commit(c) ==
    /\ local[c].pc = "commit"
    /\ EndWrite
    /\ db' = dirty
    /\ Succeeds(c, Nothing)

CommitFails(c) ==
    /\ local[c].pc = "commit"
    /\ EndWrite
    /\ Fails(c)
    /\ UNCHANGED db

Return(c) ==
    /\ local[c].pc = "return"
    /\ local' = [local EXCEPT ![c] = Idle]
    /\ UNCHANGED <<db, writer, dirty>>

(* The process ends, by Stop and exit or at any other moment, and another  *)
(* one is started.  The transaction of Start (227-233) commits nothing and *)
(* ends before the store has a caller; when Start fails, which main (57)   *)
(* does not look at, every later BeginTxn fails.                           *)
Restart ==
    /\ EndWrite
    /\ local' = [c \in Clients |-> Idle]
    /\ UNCHANGED db

-----------------------------------------------------------------------------
Step(c) ==
    \/ BeginRead(c) \/ BeginWrite(c) \/ BeginFails(c)
    \/ Open(c) \/ OpenFails(c)
    \/ Get(c) \/ ForEach(c) \/ Find(c) \/ CursorEnds(c) \/ ReadFails(c)
    \/ Put(c) \/ Del(c) \/ Abort(c) \/ Commit(c) \/ CommitFails(c)
    \/ Return(c)

Next ==
    \/ \E c \in Clients : Step(c) \/ \E r \in Requests : Invoke(c, r)
    \/ Restart

Spec == Init /\ [][Next]_vars

(* A goroutine that can run does.                                          *)
FairSpec == Spec /\ \A c \in Clients : WF_vars(Step(c))

-----------------------------------------------------------------------------
Writing == {"open", "write", "commit"}

(* Only the client that holds the lock is in a write transaction.          *)
TypeOK ==
    /\ db \in Contents
    /\ writer \in Clients \cup {None}
    /\ dirty \in Contents
    /\ local \in [Clients -> Locals]
    /\ \A c \in Clients : local[c].pc \in Writing => writer = c

(* Every call is one atomic step of KVStore: a read when its transaction   *)
(* begins, a write when its transaction commits.                           *)
CallOf(l) ==
    CASE l.pc = "idle"   -> [state |-> "idle"]
      [] l.pc \in {"begin"} \cup Writing ->
            [state |-> "called", req |-> l.req]
      [] l.pc = "read"   ->
            [state |-> "done", req |-> l.req, ok |-> TRUE,
             found |-> Found(l.snap, l.req)]
      [] l.pc = "return" ->
            [state |-> "done", req |-> l.req, ok |-> l.ok, found |-> l.found]

KV == INSTANCE KVStore
        WITH store <- db, calls <- [c \in Clients |-> CallOf(local[c])]
Refines == KV!Spec

(* No error path (of DBIOpen, Put, Del or Commit) leaves a write           *)
(* transaction open, which would block every other writer for ever.        *)
LockReleased == \A c \in Clients : writer = c ~> writer # c

=============================================================================
