------------------------- MODULE FrameworkIdProofs --------------------------
(***************************************************************************)
(* Proofs about FrameworkId, for any number of HTTP goroutines and starts. *)
(***************************************************************************)
EXTENDS FrameworkId, FiniteSetTheorems, TLAPS

(* What holds besides the types: an id in use was handed out, only a start *)
(* that has not been registered yet makes the master hand out one more,    *)
(* what is set is an id, and nothing is asked for before there is a driver.*)
Sound ==
    /\ TypeOK
    /\ issued <= starts
    /\ main \in {"info", "driver"} => issued < starts
    /\ {node, cache, current, asked, registered} \subseteq 0..issued
    /\ retired \subseteq 1..issued
    /\ main \in {"registered", "set", "up"} <=> registered # NoId
    /\ registered \notin retired
    /\ main \in {"down", "info"} =>
         asked = NoId /\ \A c \in Clients : pc[c] = "idle"
    /\ \A c \in Clients : pc[c] \in {"set", "current"} => nw[c] # NoId
    /\ nw \in [Clients -> 0..issued]

(* The ids that tasks run under, or that a later step may write somewhere. *)
Known ==
    (owners \cup {node, cache, current, asked, registered}
            \cup {nw[c] : c \in Clients}) \ {NoId}

Few == Cardinality(Known) <= misses

(* When a new id may be asked for before the node holds one of those.      *)
Due ==
    \/ main = "info" /\ cache = NoId
    \/ main = "driver" /\ asked = NoId
    \/ node = NoId /\ main # "registered"

(* Of the known ids all but one are paid for by a miss, and all of them    *)
(* when a new one is due.                                                  *)
Paid ==
    /\ Cardinality(Known) <= misses + 1
    /\ Due => Few
    /\ node = NoId => Cardinality(owners) <= misses

(* Without a miss the process sees what the node holds.                    *)
Seen ==
    misses = 0 =>
        /\ cache = IF main = "down" THEN NoId ELSE node
        /\ main = "driver" => asked = node
        /\ main = "registered" => node \in {NoId, registered}
        /\ main \in {"set", "up"} => node = registered
        /\ main = "up" => current = registered
        /\ \A c \in Clients : pc[c] \in {"set", "current"} => nw[c] = node

-----------------------------------------------------------------------------
(* The types and what goes with them.                                      *)

LEMMA SoundInit == Init => Sound
BY Assumption DEF Init, Sound, TypeOK, Ids, NoId

LEMMA SoundStep == Sound /\ [Next]_vars => Sound'
<1> SUFFICES ASSUME Sound, [Next]_vars
             PROVE  Sound'
  OBVIOUS
<1> USE Assumption DEF Sound, TypeOK, Ids, NoId, process, master, http
<1>1. CASE Connection
  BY <1>1 DEF Connection
<1>2. CASE Watch
  BY <1>2 DEF Watch
<1>3. CASE StartState
  BY <1>3 DEF StartState
<1>4. CASE infoFromConfig
  BY <1>4 DEF infoFromConfig, CacheSet
<1>5. CASE Registered
  BY <1>5 DEF Registered
<1>6. CASE SetCache
  BY <1>6 DEF SetCache, CacheSet
<1>7. CASE SetCurrent
  BY <1>7 DEF SetCurrent
<1>8. CASE LaunchTasks
  BY <1>8 DEF LaunchTasks
<1>9. CASE Crash
  BY <1>9 DEF Crash, Ended
<1>10. CASE Stop
  <2>1. {registered} \ {0} \subseteq 1..issued /\ issued' = issued
    BY <1>10 DEF Stop, Ended
  <2>2. retired' = retired \cup ({registered} \ {0}) /\ registered' = 0
    BY <1>10 DEF Stop, Ended
  <2>3. retired' \subseteq 1..issued'
    BY <2>1, <2>2
  <2>4. registered' \notin retired'
    BY <2>2, <2>3
  <2>5. TypeOK'
    BY <1>10, <2>3 DEF Stop, Ended
  <2>6. QED
    BY <1>10, <2>3, <2>4, <2>5 DEF Stop, Ended
<1>11. ASSUME NEW c \in Clients, Get(c)
       PROVE  Sound'
  <2>1. CASE GetCurrent(c)
    BY <2>1 DEF GetCurrent, Serving
  <2>2. CASE GetCache(c)
    BY <2>2 DEF GetCache
  <2>3. CASE GetSetCache(c)
    BY <2>3 DEF GetSetCache, CacheSet
  <2>4. CASE GetSetCurrent(c)
    BY <2>4 DEF GetSetCurrent
  <2>5. QED  BY <1>11, <2>1, <2>2, <2>3, <2>4 DEF Get
<1>12. CASE UNCHANGED vars
  BY <1>12 DEF vars
<1>13. QED
  BY <1>1, <1>2, <1>3, <1>4, <1>5, <1>6, <1>7, <1>8, <1>9, <1>10, <1>11,
     <1>12 DEF Next

-----------------------------------------------------------------------------
(* The ids that are known.                                                 *)

(* Sets of ids are finite; a smaller set has no more elements.             *)
LEMMA IdSets ==
    /\ IsFiniteSet({}) /\ Cardinality({}) = 0
    /\ \A S \in SUBSET Ids :
          /\ IsFiniteSet(S)
          /\ Cardinality(S) \in Nat
          /\ \A T \in SUBSET S : Cardinality(T) <= Cardinality(S)
<1>1. IsFiniteSet(Ids)
  BY FS_Interval, Assumption DEF Ids
<1>2. ASSUME NEW S \in SUBSET Ids
      PROVE  IsFiniteSet(S) /\ Cardinality(S) \in Nat
  BY <1>1, FS_Subset, FS_CardinalityType
<1>3. ASSUME NEW S \in SUBSET Ids, NEW T \in SUBSET S
      PROVE  Cardinality(T) <= Cardinality(S)
  BY <1>2, <1>3, FS_Subset
<1>4. QED  BY <1>2, <1>3, FS_EmptySet

LEMMA KnownIds == Sound => Known \in SUBSET Ids /\ owners \in SUBSET Known
<1> SUFFICES ASSUME Sound
             PROVE  Known \in SUBSET Ids /\ owners \in SUBSET Known
  OBVIOUS
<1>1. owners \subseteq Ids /\ NoId \notin Ids
  BY DEF Sound, TypeOK, Ids, NoId
<1>2. {node, cache, current, asked, registered} \subseteq Ids \cup {NoId}
  BY DEF Sound, TypeOK
<1>3. \A c \in Clients : nw[c] \in Ids \cup {NoId}
  BY DEF Sound, TypeOK
<1>4. QED  BY <1>1, <1>2, <1>3 DEF Known

(* Where no id becomes known, there are not more of them.                  *)
LEMMA KnownSizes ==
    ASSUME Sound, Sound', Known' \subseteq Known
    PROVE  /\ Cardinality(Known) \in Nat /\ Cardinality(Known') \in Nat
           /\ Cardinality(owners) \in Nat /\ Cardinality(owners') \in Nat
           /\ Cardinality(Known') <= Cardinality(Known)
           /\ Cardinality(owners') <= Cardinality(Known')
<1>1. Known \in SUBSET Ids /\ owners \in SUBSET Known
  BY KnownIds
<1>2. owners' \subseteq Ids /\ NoId \notin Ids
  BY DEF Sound, TypeOK, Ids, NoId
<1>3. owners' \in SUBSET Known'
  BY <1>2 DEF Known
<1>4. Known' \in SUBSET Known /\ Known' \in SUBSET Ids
  BY <1>1
<1>5. QED  BY <1>1, <1>3, <1>4, IdSets

(* A step that makes no id known keeps Paid if it makes none due either,   *)
(* or misses zookeeper.                                                    *)
LEMMA PaidKept ==
    ASSUME Sound, Sound', Paid, Known' \subseteq Known, misses' >= misses,
           Due' => Due \/ misses' > misses,
           main' = "registered" =>
               owners' = owners /\ (node' = NoId => node = NoId)
    PROVE  Paid'
<1>1. /\ Cardinality(Known) \in Nat /\ Cardinality(Known') \in Nat
      /\ Cardinality(owners) \in Nat /\ Cardinality(owners') \in Nat
      /\ Cardinality(Known') <= Cardinality(Known)
      /\ Cardinality(owners') <= Cardinality(Known')
  BY KnownSizes
<1>2. misses \in Nat /\ misses' \in Nat
  BY DEF Sound, TypeOK
<1>3. Cardinality(Known) <= misses + 1 /\ (Due => Cardinality(Known) <= misses)
  BY DEF Paid, Few
<1>4. Cardinality(Known') <= misses' + 1
  BY <1>1, <1>2, <1>3
<1>5. Due' => Cardinality(Known') <= misses'
  BY <1>1, <1>2, <1>3
<1>6. node' = NoId => Cardinality(owners') <= misses'
  <2>1. CASE main' = "registered"
    BY <1>1, <1>2, <2>1 DEF Paid
  <2>2. CASE main' # "registered"
    BY <1>1, <1>2, <1>5, <2>2 DEF Due
  <2>3. QED  BY <2>1, <2>2
<1>7. QED  BY <1>4, <1>5, <1>6 DEF Paid, Few

LEMMA PaidInit == Init => Paid
<1> SUFFICES ASSUME Init
             PROVE  Paid
  OBVIOUS
<1>1. Known = {} /\ owners = {} /\ misses = 0
  BY DEF Init, Known
<1>2. QED  BY <1>1, IdSets DEF Paid, Few

(* The process ends: only the node and the tasks keep an id.               *)
LEMMA PaidEnded ==
    ASSUME Sound, Sound', Paid, Ended, node' = node, owners' \subseteq owners
    PROVE  Paid'
<1> USE DEF Ended
<1>1. Known' \subseteq owners \cup ({node} \ {NoId}) /\ Known' \subseteq Known
  BY DEF Known
<1>2. CASE main = "registered" /\ node = NoId
  <2>1. Known' \in SUBSET owners /\ owners' \in SUBSET owners
    BY <1>1, <1>2
  <2>2. owners \in SUBSET Ids
    BY DEF Sound, TypeOK
  <2>3. /\ Cardinality(Known') <= Cardinality(owners)
        /\ Cardinality(owners') <= Cardinality(owners)
        /\ Cardinality(owners) \in Nat /\ Cardinality(Known') \in Nat
        /\ Cardinality(owners') \in Nat
    BY <2>1, <2>2, IdSets, KnownSizes, <1>1
  <2>4. Cardinality(owners) <= misses /\ misses \in Nat /\ misses' = misses
    BY <1>2 DEF Paid, Sound, TypeOK
  <2>5. QED  BY <2>3, <2>4 DEF Paid, Few
<1>3. CASE ~(main = "registered" /\ node = NoId)
  <2>1. misses \in Nat /\ misses' = misses
    BY DEF Sound, TypeOK
  <2>2. Due' => Due
    BY <1>3 DEF Due
  <2>3. QED  BY <1>1, <2>1, <2>2, PaidKept
<1>4. QED  BY <1>2, <1>3

LEMMA PaidRegistered ==
    ASSUME Sound, Sound', Paid, Registered
    PROVE  Paid'
<1> USE DEF Registered, master, http
<1>1. misses \in Nat /\ misses' = misses /\ ~Due'
  BY DEF Sound, TypeOK, Due
<1>2. CASE asked # NoId
  <2>1. Known' \subseteq Known
    BY <1>2 DEF Known
  <2>2. QED  BY <1>1, <2>1, PaidKept
<1>3. CASE asked = NoId
  <2>1. Known' \subseteq Known \cup {issued + 1}
    BY <1>3 DEF Known
  <2>2. Few
    BY <1>3 DEF Paid, Due
  <2>3. /\ Known \in SUBSET Ids /\ IsFiniteSet(Known)
        /\ Cardinality(Known) \in Nat
    BY KnownIds, IdSets
  <2>4. /\ IsFiniteSet(Known \cup {issued + 1})
        /\ Cardinality(Known \cup {issued + 1}) \in Nat
        /\ Cardinality(Known \cup {issued + 1}) <= Cardinality(Known) + 1
    BY <2>3, FS_AddElement
  <2>5. IsFiniteSet(Known') /\ Cardinality(Known') \in Nat
    BY <2>1, <2>4, FS_Subset, FS_CardinalityType
  <2>6. Cardinality(Known') <= Cardinality(Known \cup {issued + 1})
    BY <2>1, <2>4, FS_Subset
  <2>7. Cardinality(Known') <= misses + 1
    BY <1>1, <2>2, <2>3, <2>4, <2>5, <2>6 DEF Few
  <2>8. QED  BY <1>1, <2>7 DEF Paid
<1>4. QED  BY <1>2, <1>3

LEMMA PaidStep == Sound /\ Sound' /\ Paid /\ [Next]_vars => Paid'
<1> SUFFICES ASSUME Sound, Sound', Paid, [Next]_vars
             PROVE  Paid'
  OBVIOUS
<1>0. misses \in Nat /\ misses' \in Nat
  BY DEF Sound, TypeOK
<1> USE DEF process, master, http
<1>1. CASE Connection
  <2>1. Known' = Known /\ (Due' <=> Due)
    BY <1>1 DEF Connection, Known, Due
  <2>2. QED  BY <1>1, <1>0, <2>1, PaidKept DEF Connection
<1>2. CASE Watch
  <2>1. Known' \subseteq Known /\ (Due' => Due)
    BY <1>2 DEF Watch, Known, Due
  <2>2. QED  BY <1>2, <1>0, <2>1, PaidKept DEF Watch
<1>3. CASE StartState
  <2>1. Known' \subseteq Known /\ (Due' => Due \/ misses' = misses + 1)
    BY <1>3 DEF StartState, Known, Due
  <2>2. QED  BY <1>3, <1>0, <2>1, PaidKept DEF StartState
<1>4. CASE infoFromConfig
  <2>1. Known' \subseteq Known
    BY <1>4 DEF infoFromConfig, CacheSet, Known
  <2>2. Due' => Due \/ misses' = misses + 1
    BY <1>4 DEF infoFromConfig, CacheSet, Due
  <2>3. misses' >= misses /\ main' # "registered"
    BY <1>4, <1>0 DEF infoFromConfig, CacheSet
  <2>4. QED  BY <1>0, <2>1, <2>2, <2>3, PaidKept
<1>5. CASE Registered
  BY <1>5, PaidRegistered
<1>6. CASE SetCache
  <2>1. Known' \subseteq Known
    BY <1>6 DEF SetCache, CacheSet, Known
  <2>2. Due' => misses' = misses + 1
    BY <1>6 DEF SetCache, CacheSet, Due, Sound
  <2>3. misses' >= misses /\ main' # "registered"
    BY <1>6, <1>0 DEF SetCache, CacheSet
  <2>4. QED  BY <1>0, <2>1, <2>2, <2>3, PaidKept
<1>7. CASE SetCurrent
  <2>1. Known' \subseteq Known /\ (Due' => Due)
    BY <1>7 DEF SetCurrent, Known, Due
  <2>2. QED  BY <1>7, <1>0, <2>1, PaidKept DEF SetCurrent
<1>8. CASE LaunchTasks
  <2>1. Known' \subseteq Known /\ (Due' => Due)
    BY <1>8 DEF LaunchTasks, Known, Due, Sound
  <2>2. QED  BY <1>8, <1>0, <2>1, PaidKept DEF LaunchTasks
<1>9. CASE Crash
  BY <1>9, PaidEnded DEF Crash
<1>10. CASE Stop
  BY <1>10, PaidEnded DEF Stop
<1>11. ASSUME NEW c \in Clients, Get(c)
       PROVE  Paid'
  <2>1. nw \in [Clients -> 0..issued]
    BY DEF Sound
  <2>2. Known' \subseteq Known
    BY <1>11, <2>1
    DEF Get, GetCurrent, GetCache, GetSetCache, GetSetCurrent, CacheSet, Known
  <2>3. Due' => Due \/ misses' = misses + 1
    BY <1>11
    DEF Get, GetCurrent, GetCache, GetSetCache, GetSetCurrent, CacheSet, Due,
        Sound
  <2>4. misses' >= misses
    BY <1>11, <1>0
    DEF Get, GetCurrent, GetCache, GetSetCache, GetSetCurrent, CacheSet
  <2>5. owners' = owners /\ (node' = NoId => node = NoId)
    BY <1>11
    DEF Get, GetCurrent, GetCache, GetSetCache, GetSetCurrent, CacheSet, Sound
  <2>6. QED  BY <1>0, <2>2, <2>3, <2>4, <2>5, PaidKept
<1>12. CASE UNCHANGED vars
  <2>1. Known' = Known /\ (Due' <=> Due) /\ misses' = misses
    BY <1>12 DEF vars, Known, Due
  <2>2. QED  BY <1>12, <1>0, <2>1, PaidKept DEF vars
<1>13. QED
  BY <1>1, <1>2, <1>3, <1>4, <1>5, <1>6, <1>7, <1>8, <1>9, <1>10, <1>11,
     <1>12 DEF Next

-----------------------------------------------------------------------------
(* What a process without a miss has seen.                                 *)

LEMMA SeenStep == Sound /\ Sound' /\ Seen /\ [Next]_vars => Seen'
<1> SUFFICES ASSUME Sound, Sound', Seen, [Next]_vars, misses' = 0
             PROVE  Seen'
  BY DEF Seen
<1> USE DEF process, master, http
<1>0. misses \in Nat
  BY DEF Sound, TypeOK
<1>1. CASE Connection
  BY <1>1 DEF Connection, Seen
<1>2. CASE Watch
  BY <1>2 DEF Watch, Seen
<1>3. CASE StartState
  BY <1>0, <1>3 DEF StartState, Seen, Sound
<1>4. CASE infoFromConfig
  BY <1>0, <1>4 DEF infoFromConfig, CacheSet, Seen, Sound
<1>5. CASE Registered
  BY <1>5 DEF Registered, Seen
<1>6. CASE SetCache
  BY <1>0, <1>6 DEF SetCache, CacheSet, Seen, Sound
<1>7. CASE SetCurrent
  BY <1>7 DEF SetCurrent, Seen
<1>8. CASE LaunchTasks
  BY <1>8 DEF LaunchTasks, Seen
<1>9. CASE Crash
  BY <1>9 DEF Crash, Ended, Seen
<1>10. CASE Stop
  BY <1>10 DEF Stop, Ended, Seen
<1>11. ASSUME NEW c \in Clients, Get(c)
       PROVE  Seen'
  <2>0. pc \in [Clients -> {"idle", "cache", "set", "current"}]
    BY DEF Sound, TypeOK
  <2>1. CASE GetCurrent(c)
    BY <2>0, <2>1 DEF GetCurrent, Seen
  <2>2. CASE GetCache(c)
    BY <2>0, <2>2 DEF GetCache, Seen, Sound
  <2>3. CASE GetSetCache(c)
    BY <1>0, <2>0, <2>3 DEF GetSetCache, CacheSet, Seen, Sound
  <2>4. CASE GetSetCurrent(c)
    BY <2>0, <2>4 DEF GetSetCurrent, Seen
  <2>5. QED  BY <1>11, <2>1, <2>2, <2>3, <2>4 DEF Get
<1>12. CASE UNCHANGED vars
  BY <1>12 DEF vars, Seen
<1>13. QED
  BY <1>1, <1>2, <1>3, <1>4, <1>5, <1>6, <1>7, <1>8, <1>9, <1>10, <1>11,
     <1>12 DEF Next

-----------------------------------------------------------------------------
(* The theorems.                                                           *)

LEMMA SeenInit == Init => Seen
BY DEF Init, Seen

LEMMA Invariance == Spec => [](Sound /\ Paid /\ Seen)
<1>1. Init => Sound /\ Paid /\ Seen
  BY SoundInit, PaidInit, SeenInit
<1>2. Sound /\ Paid /\ Seen /\ [Next]_vars => (Sound /\ Paid /\ Seen)'
  BY SoundStep, PaidStep, SeenStep
<1>3. QED  BY <1>1, <1>2, PTL DEF Spec

(* The variables of Start, Stop, Get and Set keep their types, and the     *)
(* master never hands out more ids than the process has starts.            *)
THEOREM TypeCorrect == Spec => []TypeOK
<1>1. Sound => TypeOK
  BY DEF Sound
<1>2. QED  BY <1>1, Invariance, PTL

(* Whatever the interleaving of crashes, stops, losses of the connection   *)
(* and calls of Get and Set, tasks are orphaned under at most as many ids  *)
(* as there were calls of Start and Set that missed zookeeper.             *)
THEOREM OrphansAreBounded == Spec => []OrphansBound
<1>1. Sound /\ Paid => OrphansBound
  <2> SUFFICES ASSUME Sound, Paid
               PROVE  OrphansBound
    OBVIOUS
  <2>1. Known \in SUBSET Ids /\ owners \in SUBSET Known /\ misses \in Nat
    BY KnownIds DEF Sound, TypeOK
  <2>2. CASE node = NoId
    <3>1. owners \ {node} = owners
      BY <2>2 DEF Sound, TypeOK, Ids, NoId
    <3>2. QED  BY <2>2, <3>1 DEF Paid, OrphansBound
  <2>3. CASE node # NoId
    <3>1. node \in Known
      BY <2>3 DEF Known
    <3>2. /\ IsFiniteSet(Known) /\ Cardinality(Known) \in Nat
      BY <2>1, IdSets
    <3>3. Cardinality(Known \ {node}) = Cardinality(Known) - 1
      BY <3>1, <3>2, FS_RemoveElement
    <3>4. /\ Known \ {node} \in SUBSET Ids
          /\ owners \ {node} \in SUBSET (Known \ {node})
      BY <2>1
    <3>5. /\ Cardinality(owners \ {node}) <= Cardinality(Known \ {node})
          /\ Cardinality(owners \ {node}) \in Nat
      BY <3>4, IdSets
    <3>6. QED  BY <2>1, <3>2, <3>3, <3>5 DEF Paid, OrphansBound
  <2>4. QED  BY <2>2, <2>3
<1>2. QED  BY <1>1, Invariance, PTL

(* While no call has missed zookeeper, no Get that was overtaken by        *)
(* Registered, or by the end of the process, writes back another id.       *)
THEOREM RegisteredIsShown == Spec => []ShownIsRegistered
<1>1. Sound /\ Seen => ShownIsRegistered
  BY DEF Seen, ShownIsRegistered
<1>2. QED  BY <1>1, Invariance, PTL

(* A stopped framework's id is neither registered nor replaced by a later  *)
(* process that reaches zookeeper.                                         *)
THEOREM StopsAreFinal == Spec => StopIsFinal
<1> DEFINE Stays ==
      misses' = 0 /\ node \in retired => node' = node /\ registered' = NoId
<1>1. Sound /\ Sound' /\ Seen /\ Seen' /\ [Next]_vars => [Stays]_vars
  <2> SUFFICES ASSUME Sound, Sound', Seen, Seen', Next, misses' = 0,
                      node \in retired
               PROVE  node' = node /\ registered' = NoId
    OBVIOUS
  <2> USE DEF process, master, http
  <2>1. /\ misses = 0 /\ node # NoId /\ registered # node
    <3>1. misses = 0
      BY DEF Next, Connection, Watch, StartState, infoFromConfig, Registered,
             SetCache, SetCurrent, LaunchTasks, Crash, Stop, Ended, Get,
             GetCurrent, GetCache, GetSetCache, GetSetCurrent, CacheSet,
             Sound, TypeOK
    <3>2. QED  BY <3>1 DEF Sound, TypeOK, Ids, NoId
  <2>2. main \notin {"registered", "set", "up"} /\ registered = NoId
    BY <2>1 DEF Seen, Sound
  <2>3. ~Registered
    BY <2>1 DEF Registered, Seen
  <2>4. registered' = NoId
    BY <2>2, <2>3
    DEF Next, Connection, Watch, StartState, infoFromConfig, SetCache,
        SetCurrent, LaunchTasks, Crash, Stop, Ended, Get, GetCurrent,
        GetCache, GetSetCache, GetSetCurrent, CacheSet
  <2>5. node' = node
    BY <2>1, <2>2, <2>3
    DEF Next, Connection, Watch, StartState, infoFromConfig, SetCache,
        SetCurrent, LaunchTasks, Crash, Stop, Ended, Get, GetCurrent,
        GetCache, GetSetCache, GetSetCurrent, CacheSet, Seen
  <2>6. QED  BY <2>4, <2>5
<1>2. QED  BY <1>1, Invariance, PTL DEF Spec, StopIsFinal

=============================================================================
