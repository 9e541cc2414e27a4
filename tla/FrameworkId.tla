---------------------------- MODULE FrameworkId -----------------------------
(***************************************************************************)
(* The framework id (state/zookeeper_framework_id_state.go) and those who  *)
(* use it: Framework.Start, the Registered callback and ID, which the REST *)
(* API calls (scheduler/scheduler.go, agora/api/mesos.go).                 *)
(*                                                                         *)
(* External: the zookeeper node, the NodeCache that mirrors it, and the    *)
(* mesos master, which gives an id to a framework that asks without one,   *)
(* registers one that asks with an id again, and refuses an id that was    *)
(* deregistered.                                                           *)
(***************************************************************************)
EXTENDS FiniteSets, Naturals

CONSTANTS
    Clients,    \* HTTP goroutines
    MaxStarts   \* bound: how often the process is started

NoId == 0
Ids == 1..MaxStarts     \* what the master hands out, in order

ASSUME Assumption == MaxStarts \in Nat \ {0}

VARIABLES
    node,       \* zookeeper: the stored id
    zk,         \* whether zookeeper can be reached
    cache,      \* what the NodeCache of this process holds
    current,    \* the field of this name
    asked,      \* the id in the FrameworkInfo the driver registers with
    registered, \* the id the master registered this process under
    issued,     \* how many ids the master has handed out
    retired,    \* the ids that were deregistered
    owners,     \* the ids under which tasks run
    starts,     \* how often the process was started
    misses,     \* history: starts and sets that did not reach zookeeper
    main,       \* where the process and its driver thread are
    pc,         \* HTTP goroutine -> where its Get is
    nw          \* HTTP goroutine -> the id it found in the cache

process == <<cache, current, asked, registered, main>>
master == <<issued, retired, owners>>
http == <<pc, nw>>
vars == <<node, zk, cache, current, asked, registered, issued, retired,
          owners, starts, misses, main, pc, nw>>

TypeOK ==
    /\ {node, cache, current, asked, registered} \subseteq Ids \cup {NoId}
    /\ zk \in BOOLEAN
    /\ issued \in 0..MaxStarts
    /\ retired \subseteq Ids /\ owners \subseteq Ids
    /\ starts \in 0..MaxStarts
    /\ misses \in Nat
    /\ main \in {"down", "info", "driver", "registered", "set", "up"}
    /\ pc \in [Clients -> {"idle", "cache", "set", "current"}]
    /\ nw \in [Clients -> Ids \cup {NoId}]

Init ==
    /\ node = NoId
    /\ zk \in BOOLEAN
    /\ cache = NoId /\ current = NoId /\ asked = NoId /\ registered = NoId
    /\ issued = 0 /\ retired = {} /\ owners = {}
    /\ starts = 0 /\ misses = 0
    /\ main = "down"
    /\ pc = [c \in Clients |-> "idle"]
    /\ nw = [c \in Clients |-> NoId]

-----------------------------------------------------------------------------
(* zookeeper and the cache.                                                *)

(* cache.Set, whose failure Set (62-64) does not look at.                  *)
CacheSet(id) ==
    \/ zk /\ node' = id /\ cache' = id /\ UNCHANGED misses
    \/ ~zk /\ misses' = misses + 1 /\ cache' \in {cache, id} /\ UNCHANGED node

(* The connection comes and goes.                                          *)
Connection ==
    /\ zk' = ~zk
    /\ UNCHANGED <<node, process, master, starts, misses, http>>

(* The cache follows the node while the process runs.                      *)
Watch ==
    /\ main # "down" /\ zk /\ cache # node
    /\ cache' = node
    /\ UNCHANGED <<node, zk, current, asked, registered, master, starts,
                   misses, main, http>>

-----------------------------------------------------------------------------
(* Framework.Start (206-246).                                              *)

(* fw.id.Start(true) loads the node into the cache; its error is ignored.  *)
StartState ==
    /\ main = "down" /\ starts < MaxStarts
    /\ starts' = starts + 1
    /\ main' = "info"
    /\ \/ zk /\ cache' = node /\ UNCHANGED misses
       \/ ~zk /\ misses' = misses + 1 /\ UNCHANGED cache
    /\ UNCHANGED <<node, zk, current, asked, registered, master, http>>

(* Mutant: the driver is made without the id that is stored.               *)
InfoWithoutId ==
    /\ main = "info"
    /\ main' = "driver"
    /\ UNCHANGED <<node, zk, cache, current, asked, registered, master,
                   starts, misses, http>>

(* infoFromConfig calls Get: what the cache holds is set again, and asked  *)
(* for.  Nothing else runs yet.                                            *)
infoFromConfig ==
    /\ main = "info"
    /\ main' = "driver"
    /\ IF cache # NoId
       THEN CacheSet(cache) /\ current' = cache /\ asked' = cache
       ELSE UNCHANGED <<node, cache, misses, current, asked>>
    /\ UNCHANGED <<zk, registered, master, starts, http>>

-----------------------------------------------------------------------------
(* The driver's thread.                                                    *)

(* The master registers the framework: the Registered callback is called   *)
(* with the id.  An id that was deregistered is refused; the Error         *)
(* callback only logs, and the driver never gets an offer.                 *)
Registered ==
    /\ main = "driver"
    /\ IF asked = NoId
       THEN issued' = issued + 1 /\ registered' = issued + 1
       ELSE asked \notin retired /\ registered' = asked /\ UNCHANGED issued
    /\ main' = "registered"
    /\ UNCHANGED <<node, zk, cache, current, asked, retired, owners, starts,
                   misses, http>>

(* Mutant: Set keeps the id in memory only.                                *)
NothingStored ==
    /\ main = "registered"
    /\ main' = "set"
    /\ UNCHANGED <<node, zk, cache, current, asked, registered, master,
                   starts, misses, http>>

(* Registered calls Set: first the cache and the node ...                  *)
SetCache ==
    /\ main = "registered"
    /\ CacheSet(registered)
    /\ main' = "set"
    /\ UNCHANGED <<zk, current, asked, registered, master, starts, http>>

(* ... then current, under the lock.                                       *)
SetCurrent ==
    /\ main = "set"
    /\ current' = registered
    /\ main' = "up"
    /\ UNCHANGED <<node, zk, cache, asked, registered, master, starts, misses,
                   http>>

(* ResourceOffers, on the same thread: tasks are launched under the id.    *)
LaunchTasks ==
    /\ main = "up"
    /\ owners' = owners \cup {registered}
    /\ UNCHANGED <<node, zk, process, issued, retired, starts, misses, http>>

-----------------------------------------------------------------------------
(* The end of the process, with its driver and HTTP goroutines.            *)

Ended ==
    /\ main' = "down"
    /\ cache' = NoId /\ current' = NoId /\ asked' = NoId /\ registered' = NoId
    /\ pc' = [c \in Clients |-> "idle"]
    /\ nw' = [c \in Clients |-> NoId]
    /\ UNCHANGED <<zk, issued, starts, misses>>

(* The framework sets no failover timeout (infoFromConfig, 52-56), so the  *)
(* master, which is external, may itself end the tasks of a process that   *)
(* is gone.  Here it keeps them: whatever can be orphaned is.              *)
Crash ==
    main # "down" /\ Ended /\ UNCHANGED <<node, retired, owners>>

Serving == main \in {"driver", "registered", "set", "up"}

(* Framework.Stop (257-287), once Start has returned: driver.Stop(false)   *)
(* deregisters the framework, which ends its tasks.  The node keeps the id.*)
Stop ==
    /\ Serving /\ Ended
    /\ retired' = retired \cup ({registered} \ {NoId})
    /\ owners' = owners \ {registered}
    /\ UNCHANGED node

-----------------------------------------------------------------------------
(* Get in an HTTP goroutine (ID, lines 113-118, calls it up to three       *)
(* times).  main serves HTTP once Framework.Start has returned.            *)

(* current is read without the lock; when it is set there is no more to do.*)
GetCurrent(c) ==
    /\ Serving /\ pc[c] = "idle" /\ current = NoId
    /\ pc' = [pc EXCEPT ![c] = "cache"]
    /\ UNCHANGED <<node, zk, process, master, starts, misses, nw>>

GetCache(c) ==
    /\ pc[c] = "cache"
    /\ nw' = [nw EXCEPT ![c] = cache]
    /\ pc' = [pc EXCEPT ![c] = IF cache = NoId THEN "idle" ELSE "set"]
    /\ UNCHANGED <<node, zk, process, master, starts, misses>>

(* What was found is written back: Set.                                    *)
GetSetCache(c) ==
    /\ pc[c] = "set"
    /\ CacheSet(nw[c])
    /\ pc' = [pc EXCEPT ![c] = "current"]
    /\ UNCHANGED <<zk, current, asked, registered, main, master, starts, nw>>

GetSetCurrent(c) ==
    /\ pc[c] = "current"
    /\ current' = nw[c]
    /\ nw' = [nw EXCEPT ![c] = NoId]
    /\ pc' = [pc EXCEPT ![c] = "idle"]
    /\ UNCHANGED <<node, zk, cache, asked, registered, main, master, starts,
                   misses>>

Get(c) ==
    GetCurrent(c) \/ GetCache(c) \/ GetSetCache(c) \/ GetSetCurrent(c)

Next ==
    \/ Connection \/ Watch
    \/ StartState \/ infoFromConfig
    \/ Registered \/ SetCache \/ SetCurrent \/ LaunchTasks
    \/ Crash \/ Stop
    \/ \E c \in Clients : Get(c)

Spec == Init /\ [][Next]_vars

-----------------------------------------------------------------------------
(* Tasks that run under an id the node does not hold are out of reach of   *)
(* the next process.  Each call that missed zookeeper loses the tasks of   *)
(* at most one id; while all calls reach it (Start 206-222, Registered     *)
(* 122-125), no crash, wherever it falls, puts tasks out of reach.         *)
(* Whether the master keeps them until the next start is not said.         *)
OrphansBound == Cardinality(owners \ {node}) <= misses

(* While all calls reach zookeeper, what ID answers is the id the process  *)
(* is registered under: no Get of an HTTP goroutine, however late, writes  *)
(* back another one (lines 37-50).  Nothing is said of a process that      *)
(* missed zookeeper: then a late Get may well overwrite the id.            *)
ShownIsRegistered ==
    misses = 0 /\ main = "up" => current = registered /\ node = registered

(* A clean stop is for good: the id it leaves in the node is the one that  *)
(* the master refuses, so no later process registers or replaces it, until *)
(* one starts without reaching zookeeper.                                  *)
StopIsFinal ==
    [][misses' = 0 /\ node \in retired
         => node' = node /\ registered' = NoId]_vars

=============================================================================
