------------------------ MODULE MessageBuilderProofs ------------------------
(***************************************************************************)
(* Theorems about the ports of a slave, for every slave, every set of      *)
(* applications and any number of tasks.                                   *)
(***************************************************************************)
EXTENDS MessageBuilder, WellFoundedInduction, TLAPS

(* BuildTaskInfo is where a task's environment and mapping come from.      *)
Built ==
    \A t \in DOMAIN tasks :
        tasks[t] = BuildTaskInfo(tasks[t].app, tasks[t].taken)

Inv == TypeOK /\ GrantsDisjoint /\ Built

(* A port is a number, and an application has a number of them.            *)
LEMMA PortsAreNat == AllPorts \subseteq Nat /\ \A a \in Apps : Count(a) \in Nat
<1>1. \A i \in DOMAIN Resources : Resources[i] \in SUBSET Nat
  BY BuilderAssumption
<1>2. \A a \in Apps : PortsOf[a] \in Seq(Nat)
  BY BuilderAssumption
<1>3. QED  BY <1>1, <1>2 DEF AllPorts, Count

(* makePortRange stays inside the range that is large enough, and takes    *)
(* exactly count ports of it.                                              *)
LEMMA PickIsInside ==
    ASSUME NEW S \in SUBSET Nat, NEW r \in Ranges(S), NEW count \in Nat,
           count < NumAvail(r), NEW taken \in MakePortRange(r[1], r[2], count)
    PROVE  /\ taken \in PortRanges
           /\ NumAvail(taken) = count
           /\ PortsIn(taken) \subseteq S
<1>1. r \in S \X S /\ PortsIn(r) \subseteq S
  BY DEF Ranges
<1>2. r[1] \in Nat /\ r[2] \in Nat
  BY <1>1
<1>3. PICK rnd \in 0..(r[2] - r[1] - count + 1) :
          taken = <<rnd + r[1], rnd + r[1] + count - 1>>
  BY DEF MakePortRange
<1>4. rnd \in Int /\ 0 <= rnd /\ rnd + r[1] + count - 1 <= r[2]
  BY <1>2, <1>3
<1>5. taken \in PortRanges /\ taken[1] = rnd + r[1]
        /\ taken[2] = rnd + r[1] + count - 1
  BY <1>2, <1>3, <1>4 DEF PortRanges
<1>6. NumAvail(taken) = count
  BY <1>2, <1>4, <1>5 DEF NumAvail
<1>7. PortsIn(taken) \subseteq PortsIn(r)
  BY <1>2, <1>4, <1>5 DEF PortsIn
<1>8. QED  BY <1>1, <1>5, <1>6, <1>7

(* GetPorts takes what was asked for, out of what is free, or nothing.     *)
LEMMA TakenIsFree ==
    ASSUME NEW count \in Nat, NEW taken \in GetPorts(count)
    PROVE  /\ taken \in PortRanges
           /\ NumAvail(taken) = count \/ NumAvail(taken) = 0
           /\ PortsIn(taken) \subseteq Free
<1>1. CASE Candidates(count) = {}
  <2>1. taken = <<1, 0>>
    BY <1>1 DEF GetPorts, NothingTaken
  <2>2. QED  BY <2>1 DEF PortRanges, NumAvail, PortsIn
<1>2. CASE Candidates(count) # {}
  <2>1. PICK r \in Candidates(count) :
            taken \in MakePortRange(r[1], r[2], count)
    BY <1>2 DEF GetPorts
  <2>2. PICK i \in DOMAIN Resources : r \in LargeEnough(i, count)
    BY <2>1 DEF Candidates
  <2>3. r \in Ranges(Offered(i)) /\ count < NumAvail(r)
    BY <2>2 DEF LargeEnough
  <2>4. Offered(i) \subseteq Free /\ Offered(i) \in SUBSET Nat
    BY PortsAreNat DEF Offered, Free
  <2>5. /\ taken \in PortRanges /\ NumAvail(taken) = count
        /\ PortsIn(taken) \subseteq Offered(i)
    BY <2>1, <2>3, <2>4, PickIsInside
  <2>6. QED  BY <2>4, <2>5
<1>3. QED  BY <1>1, <1>2

(* Every action preserves the invariant: one step per action.              *)
LEMMA InvStep == Inv /\ [Next]_vars => Inv'
<1> SUFFICES ASSUME Inv, [Next]_vars PROVE Inv'
  OBVIOUS
<1> USE DEF Inv
<1>1. ASSUME NEW t \in TaskIds, NEW a \in Apps, FulfillOffer(t, a)
      PROVE  Inv'
  <2>1. PICK taken \in GetPorts(Count(a)) :
          /\ NumAvail(taken) >= Count(a)
          /\ tasks' = [u \in DOMAIN tasks \cup {t} |->
                         IF u = t THEN BuildTaskInfo(a, taken) ELSE tasks[u]]
    BY <1>1 DEF FulfillOffer
  <2>2. t \notin DOMAIN tasks /\ UNCHANGED <<others, panicked>>
    BY <1>1 DEF FulfillOffer
  <2>3. /\ taken \in PortRanges /\ NumAvail(taken) = Count(a)
        /\ PortsIn(taken) \subseteq Free
    <3>1. Count(a) \in Nat
      BY PortsAreNat
    <3>2. /\ taken \in PortRanges /\ PortsIn(taken) \subseteq Free
          /\ NumAvail(taken) = Count(a) \/ NumAvail(taken) = 0
      BY <3>1, TakenIsFree
    <3>3. QED  BY <2>1, <3>1, <3>2
  <2>4. /\ DOMAIN tasks' = DOMAIN tasks \cup {t}
        /\ tasks'[t] = BuildTaskInfo(a, taken)
        /\ \A u \in DOMAIN tasks : tasks'[u] = tasks[u]
    BY <2>1, <2>2
  <2>5. /\ tasks'[t].app = a /\ tasks'[t].taken = taken
        /\ DOMAIN tasks'[t].mapping = 1..Count(a)
    <3>1. DOMAIN BuildContainerInfo(a, Reserved(taken)) = 1..Count(a)
      <4>1. PortsOf[a] \in Seq(Nat)
        BY BuilderAssumption
      <4>2. DOMAIN PortsOf[a] = 1..Count(a)
        BY <4>1 DEF Count
      <4>3. QED  BY <4>2 DEF BuildContainerInfo
    <3>2. QED  BY <2>4, <3>1 DEF BuildTaskInfo
  <2>6. TypeOK'
    BY <2>2, <2>3, <2>4, <2>5 DEF TypeOK, Count
  <2>7. GrantsDisjoint'
    <3>1. Granted(t)' = PortsIn(taken)
      BY <2>5 DEF Granted
    <3>2. \A u \in DOMAIN tasks : Granted(u)' = Granted(u)
      BY <2>4 DEF Granted
    <3>3. Granted(t)' \subseteq AllPorts \ others
      BY <2>3, <3>1 DEF Free
    <3>4. \A u \in DOMAIN tasks : Granted(t)' \cap Granted(u) = {}
      BY <2>3, <3>1 DEF Free
    <3>5. QED  BY <2>2, <2>4, <3>2, <3>3, <3>4 DEF GrantsDisjoint
  <2>8. Built'
    BY <2>4, <2>5 DEF Built
  <2>9. QED  BY <2>6, <2>7, <2>8
<1>2. ASSUME NEW a \in Apps, IndexOutOfRange(a)
      PROVE  Inv'
  BY <1>2 DEF IndexOutOfRange, TypeOK, GrantsDisjoint, Granted, Built
<1>3. ASSUME NEW t \in TaskIds, TaskEnds(t)
      PROVE  Inv'
  <2>1. /\ DOMAIN tasks' = DOMAIN tasks \ {t}
        /\ \A u \in DOMAIN tasks' : tasks'[u] = tasks[u]
        /\ UNCHANGED <<others, panicked>>
    BY <1>3 DEF TaskEnds
  <2>2. TypeOK'
    BY <2>1 DEF TypeOK
  <2>3. \A u \in DOMAIN tasks' : Granted(u)' = Granted(u)
    BY <2>1 DEF Granted
  <2>4. GrantsDisjoint'
    BY <2>1, <2>3 DEF GrantsDisjoint
  <2>5. Built'
    BY <2>1 DEF Built
  <2>6. QED  BY <2>2, <2>4, <2>5
<1>4. ASSUME NEW p \in AllPorts, OthersTake(p)
      PROVE  Inv'
  <2>1. p \in Free /\ others' = others \cup {p} /\ UNCHANGED <<tasks, panicked>>
    BY <1>4 DEF OthersTake
  <2>2. TypeOK' /\ Built'
    BY <2>1 DEF TypeOK, Built
  <2>3. \A t \in DOMAIN tasks : Granted(t)' = Granted(t) /\ p \notin Granted(t)
    BY <2>1 DEF Granted, Free
  <2>4. GrantsDisjoint'
    BY <2>1, <2>3 DEF GrantsDisjoint
  <2>5. QED  BY <2>2, <2>4
<1>5. ASSUME NEW p \in AllPorts, OthersReturn(p)
      PROVE  Inv'
  BY <1>5 DEF OthersReturn, TypeOK, GrantsDisjoint, Granted, Built
<1>6. CASE UNCHANGED vars
  BY <1>6 DEF vars, TypeOK, GrantsDisjoint, Granted, Built
<1>7. QED  BY <1>1, <1>2, <1>3, <1>4, <1>5, <1>6 DEF Next

LEMMA InvInit == Init => Inv
  BY DEF Init, Inv, TypeOK, GrantsDisjoint, Built

LEMMA Invariance == Spec => []Inv
  BY InvInit, InvStep, PTL DEF Spec

(* Each running task is granted exactly as many ports as its application   *)
(* has: FulfillOffer never launches a task with fewer (GetPorts).          *)
THEOREM TypeCorrect == Spec => []TypeOK
<1>1. Inv => TypeOK
  BY DEF Inv
<1>2. QED  BY <1>1, Invariance, PTL

(* No port is granted twice, however the offers are fragmented and         *)
(* whatever the random picks of makePortRange.                             *)
THEOREM GrantsAreDisjoint == Spec => []GrantsDisjoint
<1>1. Inv => GrantsDisjoint
  BY DEF Inv
<1>2. QED  BY <1>1, Invariance, PTL

(* The i-th public port of a docker task is the i-th port of its grant, so *)
(* disjoint grants give distinct ports.                                    *)
LEMMA PublicPortIsGranted ==
    ASSUME Inv, NEW t \in DOMAIN tasks, tasks[t].app \in Docker
    PROVE  /\ tasks[t].mapping = tasks[t].env
           /\ \A i \in DOMAIN tasks[t].mapping :
                /\ i \in Int
                /\ tasks[t].mapping[i] = tasks[t].taken[1] + i - 1
                /\ tasks[t].mapping[i] \in Granted(t)
<1> DEFINE a == tasks[t].app
           r == tasks[t].taken
<1>1. a \in Apps /\ r[1] \in Int /\ r[2] \in Int /\ NumAvail(r) = Count(a)
  BY DEF Inv, TypeOK, PortRanges
<1>2. Count(a) \in Nat
  BY <1>1, PortsAreNat
<1>3. tasks[t] = BuildTaskInfo(a, r)
  BY DEF Inv, Built
<1>4. /\ tasks[t].env = [i \in 1..Count(a) |-> Reserved(r)[i]]
      /\ tasks[t].mapping = [i \in 1..Count(a) |-> Reserved(r)[i]]
  BY <1>3 DEF BuildTaskInfo, BuildTaskEnvironment, BuildContainerInfo
<1>5. ASSUME NEW i \in 1..Count(a)
      PROVE  Reserved(r)[i] = r[1] + i - 1 /\ Reserved(r)[i] \in r[1]..r[2]
  <2>1. Reserved(r)[i] = r[1] + i - 1
    BY <1>1 DEF Reserved
  <2>2. i \in Int /\ 1 <= i /\ i <= r[2] - r[1] + 1
    BY <1>1, <1>2 DEF NumAvail
  <2>3. QED  BY <1>1, <2>1, <2>2
<1>6. QED  BY <1>2, <1>4, <1>5 DEF Granted, PortsIn

(* A health check of a docker task goes to a port that no other docker     *)
(* task has, and that its own task was told in its environment.            *)
THEOREM PublicPortsAreDistinct == Spec => []PublicPortsDistinct
<1>1. Inv => PublicPortsDistinct
  <2> SUFFICES ASSUME Inv, NEW t \in DOMAIN tasks, NEW u \in DOMAIN tasks,
                      tasks[t].app \in Docker, tasks[u].app \in Docker
               PROVE  /\ tasks[t].mapping = tasks[t].env
                      /\ \A i \in DOMAIN tasks[t].mapping,
                            j \in DOMAIN tasks[u].mapping :
                           tasks[t].mapping[i] = tasks[u].mapping[j]
                               => t = u /\ i = j
    BY DEF PublicPortsDistinct
  <2>1. tasks[t].mapping = tasks[t].env
    BY PublicPortIsGranted
  <2>2. ASSUME NEW i \in DOMAIN tasks[t].mapping,
               NEW j \in DOMAIN tasks[u].mapping,
               tasks[t].mapping[i] = tasks[u].mapping[j]
        PROVE  t = u /\ i = j
    <3>1. tasks[t].mapping[i] \in Granted(t) \cap Granted(u)
      BY <2>2, PublicPortIsGranted
    <3>2. t = u
      BY <3>1 DEF Inv, GrantsDisjoint
    <3>3. /\ i \in Int /\ j \in Int /\ tasks[t].taken[1] \in Int
          /\ tasks[t].taken[1] + i - 1 = tasks[t].taken[1] + j - 1
      BY <2>2, <3>2, PublicPortIsGranted DEF Inv, TypeOK, PortRanges
    <3>4. QED  BY <3>2, <3>3
  <2>3. QED  BY <2>1, <2>2
<1>2. QED  BY <1>1, Invariance, PTL

LEMMA SmallestExists ==
    ASSUME NEW T \in SUBSET Nat, T # {}
    PROVE  \E m \in T : \A k \in T : m <= k
<1>1. PICK m \in T : \A k \in T : ~(<<k, m>> \in OpToRel(<, Nat))
  BY NatLessThanWellFounded, WFMin
<1>2. ASSUME NEW k \in T
      PROVE  m <= k
  <2>1. k \in Nat /\ m \in Nat
    OBVIOUS
  <2>2. ~(k < m)
    BY <1>1, <2>1 DEF OpToRel
  <2>3. QED  BY <2>1, <2>2
<1>3. QED  BY <1>2

(* GetPorts finds no range only when there is none that is larger than     *)
(* what was asked for: it would take the first.                            *)
LEMMA NothingIsLarger ==
    ASSUME NEW count, Candidates(count) = {}, NEW i \in DOMAIN Resources
    PROVE  LargeEnough(i, count) = {}
<1> DEFINE T == {k \in DOMAIN Resources : LargeEnough(k, count) # {}}
<1>1. DOMAIN Resources \in SUBSET Nat
  BY BuilderAssumption
<1>2. ASSUME T # {}
      PROVE  FALSE
  <2>1. PICK m \in T : \A k \in T : m <= k
    BY <1>1, <1>2, SmallestExists
  <2>2. \A j \in 1..(m - 1) : j \in DOMAIN Resources /\ ~(m <= j)
    <3>1. m \in 1..Len(Resources) /\ Len(Resources) \in Nat
          /\ DOMAIN Resources = 1..Len(Resources)
      BY BuilderAssumption
    <3>2. QED  BY <3>1
  <2>3. \A j \in 1..(m - 1) : LargeEnough(j, count) = {}
    BY <2>1, <2>2
  <2>4. LargeEnough(m, count) \subseteq Candidates(count)
    BY <2>3 DEF Candidates
  <2>5. QED  BY <2>4
<1>3. QED  BY <1>2

(* What fits in an offer and is not built needs the whole longest range.   *)
LEMMA ExactFit ==
    ASSUME NEW a \in Apps, IndexOutOfRange(a)
    PROVE  PanicsOnExactFit'
<1> DEFINE lengths == UNION {{NumAvail(r) : r \in Ranges(Offered(i))} :
                                i \in DOMAIN Resources}
<1>1. PICK taken \in GetPorts(Count(a)) : NumAvail(taken) < Count(a)
  BY DEF IndexOutOfRange
<1>2. Count(a) \in Nat
  BY PortsAreNat
<1>3. Count(a) > 0
  BY <1>1, <1>2, TakenIsFree
<1>4. ASSUME NEW i \in DOMAIN Resources, NEW r \in Ranges(Offered(i))
      PROVE  NumAvail(r) \in Int
  <2>1. r \in Nat \X Nat
    BY PortsAreNat DEF Ranges, Offered, Free
  <2>2. QED  BY <2>1 DEF NumAvail
<1>5. Candidates(Count(a)) = {}
  <2> SUFFICES ASSUME Candidates(Count(a)) # {}
               PROVE  FALSE
    OBVIOUS
  <2>1. PICK r \in Candidates(Count(a)) :
            taken \in MakePortRange(r[1], r[2], Count(a))
    BY DEF GetPorts
  <2>2. PICK i \in DOMAIN Resources : r \in LargeEnough(i, Count(a))
    BY <2>1 DEF Candidates
  <2>3. /\ r \in Ranges(Offered(i)) /\ Count(a) < NumAvail(r)
        /\ Offered(i) \in SUBSET Nat
    BY <2>2, PortsAreNat DEF LargeEnough, Offered, Free
  <2>4. NumAvail(taken) = Count(a)
    BY <1>2, <2>1, <2>3, PickIsInside
  <2>5. QED  BY <1>1, <1>2, <2>4
<1>6. \A i \in DOMAIN Resources : \A r \in Ranges(Offered(i)) :
         ~(Count(a) < NumAvail(r))
  BY <1>5, NothingIsLarger DEF LargeEnough
<1>7. \A n \in lengths : n <= Count(a)
  BY <1>2, <1>4, <1>6
<1>8. Count(a) \in lengths
  <2>1. PICK i \in DOMAIN Resources :
            \E r \in Ranges(Offered(i)) : NumAvail(r) >= Count(a)
    BY <1>2, <1>3 DEF IndexOutOfRange, Fits
  <2>2. PICK r \in Ranges(Offered(i)) : NumAvail(r) >= Count(a)
    BY <2>1
  <2>3. NumAvail(r) = Count(a)
    BY <1>2, <1>4, <1>6, <2>2
  <2>4. QED  BY <2>3
<1>9. /\ panicked' = {a}
      /\ \A i \in DOMAIN Resources : Offered(i)' = Offered(i)
  BY DEF IndexOutOfRange, Offered, Free, Granted
<1>10. lengths' = lengths
  BY <1>9
<1> DEFINE Exact(b) == Count(b) > 0 /\ Count(b) \in lengths
                          /\ \A n \in lengths : n <= Count(b)
<1>11. Exact(a)
  BY <1>3, <1>7, <1>8
<1>12. \A b \in panicked' : Exact(b)'
  BY <1>9, <1>10, <1>11
<1>13. QED  BY <1>12 DEF PanicsOnExactFit

(* MesosMessageBuilder indexes an empty slice, and the process panics, in  *)
(* one case only: fitsInOffer accepts the offer, and the longest range of  *)
(* ports in it is exactly as long as the application needs.                *)
THEOREM PanicsOnlyOnExactFit == Spec => []PanicsOnExactFit
<1>1. Init => PanicsOnExactFit
  BY DEF Init, PanicsOnExactFit
<1>2. PanicsOnExactFit /\ [Next]_vars => PanicsOnExactFit'
  <2> SUFFICES ASSUME PanicsOnExactFit, [Next]_vars
               PROVE  PanicsOnExactFit'
    OBVIOUS
  <2>1. CASE \E a \in Apps : IndexOutOfRange(a)
    BY <2>1, ExactFit
  <2>2. CASE panicked' = {}
    BY <2>2 DEF PanicsOnExactFit
  <2>3. CASE UNCHANGED vars
    <3> DEFINE lengths == UNION {{NumAvail(r) : r \in Ranges(Offered(i))} :
                                    i \in DOMAIN Resources}
               Exact(b) == Count(b) > 0 /\ Count(b) \in lengths
                              /\ \A n \in lengths : n <= Count(b)
    <3>1. \A i \in DOMAIN Resources : Offered(i)' = Offered(i)
      BY <2>3 DEF vars, Offered, Free, Granted
    <3>2. lengths' = lengths
      BY <3>1
    <3> HIDE DEF lengths
    <3>3. (\A b \in panicked : Exact(b)) => (\A b \in panicked' : Exact(b)')
      BY <2>3, <3>2 DEF vars
    <3>4. QED  BY <3>3 DEF PanicsOnExactFit, lengths
  <2>4. QED
    BY <2>1, <2>2, <2>3
    DEF Next, FulfillOffer, TaskEnds, OthersTake, OthersReturn
<1>3. QED  BY <1>1, <1>2, PTL DEF Spec

=============================================================================
