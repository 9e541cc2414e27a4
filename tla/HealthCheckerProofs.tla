------------------------ MODULE HealthCheckerProofs -------------------------
(***************************************************************************)
(* Proofs about HealthChecker, for any tasks and any pool: who holds a     *)
(* check, how it leaves, and what the pool counts as checks in progress.   *)
(***************************************************************************)
EXTENDS HealthChecker, SequenceTheorems, FiniteSetTheorems,
        WellFoundedInduction, TLAPS

(* Who holds what, at which step.                                          *)
Held ==
    /\ register \in [Tasks -> Checks \cup {None}]
    /\ made \in [Tasks -> 0..MaxChecks]
    /\ waiting \in SUBSET Checks /\ checking \in SUBSET Checks
    /\ due \in Seq(Checks) /\ work \in Seq(Checks)
    /\ updates \in Seq(Outcomes) /\ results \in Seq(Outcomes)
    /\ call \in [Callers -> {"idle", "push", "remove", "handle"}]
    /\ arg \in [Callers -> Tasks \cup {None}]
    /\ \A c \in Callers : call[c] # "idle" => arg[c] \in Tasks
    /\ call["driver"] # "handle" /\ call["health"] # "push"
    /\ call["driver"] = "push" => made[arg["driver"]] # 0
    /\ IF dequeuer = "send" THEN hand \in Checks ELSE hand = None
    /\ IF pool = "forward" THEN held \in Outcomes ELSE held = NoOutcome
    /\ IF dispatcher = "receive" THEN outcome = NoOutcome
                                 ELSE outcome \in Outcomes

(* OnCircle, place by place.                                               *)
On(i) ==
    \/ call["driver"] = "push" /\ i = <<arg["driver"], made[arg["driver"]]>>
    \/ i \in waiting \/ i \in Elements(due) \/ i = hand
    \/ i \in Elements(work) \/ i \in checking \/ i \in ItemsOf(updates)
    \/ i = held.item \/ i \in ItemsOf(results)
    \/ dispatcher = "push" /\ i = outcome.item

(* What is on its way round was made by Register, and so was what a        *)
(* failure is reported of.                                                 *)
WasMade(i) == i[2] <= made[i[1]]

AllMade ==
    /\ \A i \in Checks : On(i) => WasMade(i)
    /\ dispatcher # "receive" => WasMade(outcome.item)
    /\ call["health"] # "idle" => made[arg["health"]] # 0

(* While a call is about to remove a task's check, the task is not         *)
(* registered; a check that is, is the one that was made last.             *)
Unremoved ==
    /\ \A c \in Callers : call[c] = "remove" => register[arg[c]] = None
    /\ \A t \in Tasks : register[t] # None =>
          register[t] = <<t, made[t]>> /\ made[t] # 0 /\ On(<<t, made[t]>>)

-----------------------------------------------------------------------------
(* Elements and items of queues.                                           *)

LEMMA AppendElements ==
    ASSUME NEW S, NEW s \in Seq(S), NEW x \in S
    PROVE  /\ Append(s, x) \in Seq(S)
           /\ Elements(Append(s, x)) = Elements(s) \cup {x}
<1>1. /\ Append(s, x) \in Seq(S)
      /\ Len(s) \in Nat /\ DOMAIN s = 1..Len(s)
      /\ DOMAIN Append(s, x) = 1..(Len(s) + 1)
      /\ \A k \in 1..Len(s) : Append(s, x)[k] = s[k]
      /\ Append(s, x)[Len(s) + 1] = x
  OBVIOUS
<1>2. QED  BY <1>1 DEF Elements

LEMMA TailElements ==
    ASSUME NEW S, NEW s \in Seq(S), s # <<>>
    PROVE  /\ Tail(s) \in Seq(S) /\ Head(s) \in S
           /\ Elements(s) = Elements(Tail(s)) \cup {Head(s)}
<1>1. /\ Tail(s) \in Seq(S) /\ Head(s) \in S
      /\ Len(s) \in Nat /\ Len(s) >= 1 /\ DOMAIN s = 1..Len(s)
      /\ DOMAIN Tail(s) = 1..(Len(s) - 1)
      /\ \A k \in 1..(Len(s) - 1) : Tail(s)[k] = s[k + 1]
      /\ Head(s) = s[1]
  OBVIOUS
<1>2. \A k \in 1..Len(s) :
         k = 1 \/ (k - 1 \in 1..(Len(s) - 1) /\ s[k] = Tail(s)[k - 1])
  BY <1>1
<1>3. \A k \in DOMAIN s : s[k] \in Elements(Tail(s)) \cup {Head(s)}
  <2> SUFFICES ASSUME NEW k \in DOMAIN s, k # 1
               PROVE  s[k] \in Elements(Tail(s))
    BY <1>1
  <2>1. k - 1 \in DOMAIN Tail(s) /\ s[k] = Tail(s)[k - 1]
    BY <1>1, <1>2
  <2>2. QED  BY <2>1 DEF Elements
<1>4. Elements(Tail(s)) \cup {Head(s)} \subseteq Elements(s)
  BY <1>1 DEF Elements
<1>5. QED  BY <1>1, <1>3, <1>4 DEF Elements

LEMMA ItemsAreElements ==
    ASSUME NEW s
    PROVE  ItemsOf(s) = {o.item : o \in Elements(s)}
BY DEF ItemsOf, Elements

-----------------------------------------------------------------------------
(* Queues in which nothing is twice.                                       *)

Once(s) == \A j, k \in DOMAIN s : s[j] = s[k] => j = k

Items(s) == [k \in DOMAIN s |-> s[k].item]

LEMMA AppendOnce ==
    ASSUME NEW S, NEW s \in Seq(S), NEW x \in S, Once(s), x \notin Elements(s)
    PROVE  Once(Append(s, x))
<1>1. /\ Len(s) \in Nat /\ DOMAIN s = 1..Len(s)
      /\ DOMAIN Append(s, x) = 1..(Len(s) + 1)
      /\ \A k \in 1..Len(s) : Append(s, x)[k] = s[k]
      /\ Append(s, x)[Len(s) + 1] = x
  OBVIOUS
<1>2. \A k \in 1..Len(s) : s[k] # x
  BY <1>1 DEF Elements
<1>3. QED  BY <1>1, <1>2 DEF Once

LEMMA TailOnce ==
    ASSUME NEW S, NEW s \in Seq(S), s # <<>>, Once(s)
    PROVE  Once(Tail(s)) /\ Head(s) \notin Elements(Tail(s))
<1>1. /\ Len(s) \in Nat /\ Len(s) >= 1 /\ DOMAIN s = 1..Len(s)
      /\ DOMAIN Tail(s) = 1..(Len(s) - 1)
      /\ \A k \in 1..(Len(s) - 1) : Tail(s)[k] = s[k + 1]
      /\ Head(s) = s[1]
  OBVIOUS
<1>2. \A k \in 1..(Len(s) - 1) : k + 1 \in 1..Len(s) /\ k + 1 # 1
  BY <1>1
<1>3. \A k \in 1..(Len(s) - 1) : Tail(s)[k] # Head(s)
  BY <1>1, <1>2 DEF Once
<1>4. ASSUME NEW j \in 1..(Len(s) - 1), NEW k \in 1..(Len(s) - 1),
             Tail(s)[j] = Tail(s)[k]
      PROVE  j = k
  <2>1. j + 1 = k + 1
    BY <1>1, <1>2, <1>4 DEF Once
  <2>2. QED  BY <1>1, <2>1
<1>5. QED  BY <1>1, <1>3, <1>4 DEF Once, Elements

(* What is left of a queue without its k-th element.                       *)
Cut(s, k) == SubSeq(s, 1, k - 1) \o SubSeq(s, k + 1, Len(s))

LEMMA CutElements ==
    ASSUME NEW S, NEW s \in Seq(S), NEW k \in 1..Len(s)
    PROVE  /\ Cut(s, k) \in Seq(S) /\ Len(Cut(s, k)) = Len(s) - 1
           /\ \A j \in 1..(Len(s) - 1) :
                 Cut(s, k)[j] = IF j < k THEN s[j] ELSE s[j + 1]
<1> DEFINE n == Len(s)
           a == SubSeq(s, 1, k - 1)
           b == SubSeq(s, k + 1, n)
<1>0. n \in Nat /\ k \in 1..n /\ \A j \in 1..n : s[j] \in S
  OBVIOUS
<1> USE <1>0
<1> HIDE DEF n
<1>1. /\ a \in Seq(S) /\ Len(a) = k - 1
      /\ \A j \in 1..(k - 1) : a[j] = s[j]
  <2>1. \A j \in 1..(k - 1) : s[j] \in S
    BY <1>0
  <2>2. QED  BY <2>1, SubSeqProperties
<1>2. /\ b \in Seq(S) /\ Len(b) = n - k
      /\ \A j \in 1..(n - k) : b[j] = s[j + k]
  <2>1. \A j \in (k + 1)..n : s[j] \in S
    BY <1>0
  <2>2. /\ b \in Seq(S)
        /\ Len(b) = IF k + 1 <= n THEN n - (k + 1) + 1 ELSE 0
        /\ \A j \in 1..(n - (k + 1) + 1) : b[j] = s[(k + 1) + j - 1]
    BY <2>1, SubSeqProperties
  <2> HIDE DEF b
  <2>3. \A j \in 1..(n - k) :
           j \in 1..(n - (k + 1) + 1) /\ (k + 1) + j - 1 = j + k
    OBVIOUS
  <2>4. QED  BY <2>2, <2>3
<1> HIDE DEF a, b
<1>3. /\ a \o b \in Seq(S) /\ Len(a \o b) = n - 1
      /\ \A j \in 1..(n - 1) :
            (a \o b)[j] = IF j <= k - 1 THEN a[j] ELSE b[j - (k - 1)]
  <2>1. Len(a) + Len(b) = n - 1
    BY <1>1, <1>2
  <2>2. /\ a \o b \in Seq(S) /\ Len(a \o b) = Len(a) + Len(b)
        /\ \A j \in 1..(Len(a) + Len(b)) :
              (a \o b)[j] = IF j <= Len(a) THEN a[j] ELSE b[j - Len(a)]
    BY <1>1, <1>2, ConcatProperties
  <2>3. QED  BY <1>1, <2>1, <2>2
<1>4. ASSUME NEW j \in 1..(n - 1)
      PROVE  (a \o b)[j] = IF j < k THEN s[j] ELSE s[j + 1]
  <2>1. CASE j < k
    BY <1>1, <1>3, <2>1
  <2>2. CASE ~(j < k)
    <3>1. j - (k - 1) \in 1..(n - k) /\ (j - (k - 1)) + k = j + 1
      BY <2>2
    <3>2. (a \o b)[j] = b[j - (k - 1)]
      BY <1>3, <2>2
    <3>3. QED  BY <1>2, <2>2, <3>1, <3>2
  <2>3. QED  BY <2>1, <2>2
<1>5. Cut(s, k) = a \o b
  BY DEF Cut, a, b, n
<1>6. QED  BY <1>3, <1>4, <1>5 DEF n

(* A queue that is another one without its k-th element.                   *)
Cuts(r, s, n, k) ==
    /\ DOMAIN s = 1..n /\ DOMAIN r = 1..(n - 1)
    /\ \A j \in 1..(n - 1) : r[j] = IF j < k THEN s[j] ELSE s[j + 1]

LEMMA CutKeeps ==
    ASSUME NEW n \in Nat, NEW k \in 1..n, NEW s, NEW r, Cuts(r, s, n, k)
    PROVE  /\ Elements(r) \cup {s[k]} = Elements(s)
           /\ Once(s) => Once(r) /\ s[k] \notin Elements(r)
<1> DEFINE was(j) == IF j < k THEN j ELSE j + 1
<1>1. ASSUME NEW j \in 1..(n - 1)
      PROVE  was(j) \in 1..n /\ was(j) # k /\ r[j] = s[was(j)]
  BY DEF Cuts
<1>2. \A i, j \in 1..(n - 1) : was(i) = was(j) => i = j
  OBVIOUS
<1>3. ASSUME NEW i \in 1..n, i # k
      PROVE  \E j \in 1..(n - 1) : was(j) = i
  <2>1. CASE i < k
    BY <2>1
  <2>2. CASE ~(i < k)
    <3>1. i - 1 \in 1..(n - 1) /\ was(i - 1) = i
      BY <1>3, <2>2
    <3>2. QED  BY <3>1
  <2>3. QED  BY <2>1, <2>2
<1> HIDE DEF was
<1>4. DOMAIN s = 1..n /\ DOMAIN r = 1..(n - 1)
  BY DEF Cuts
<1>5. Once(s) => Once(r) /\ s[k] \notin Elements(r)
  <2> SUFFICES ASSUME Once(s)
               PROVE  Once(r) /\ s[k] \notin Elements(r)
    OBVIOUS
  <2>1. \A j \in 1..(n - 1) : r[j] # s[k]
    BY <1>1, <1>4 DEF Once
  <2>2. \A i, j \in 1..(n - 1) : r[i] = r[j] => i = j
    BY <1>1, <1>2, <1>4 DEF Once
  <2>3. s[k] \notin Elements(r)
    BY <1>4, <2>1 DEF Elements
  <2>4. Once(r)
    BY <1>4, <2>2 DEF Once
  <2>5. QED  BY <2>3, <2>4
<1>6. \A j \in 1..(n - 1) : r[j] \in Elements(s)
  BY <1>1, <1>4 DEF Elements
<1>7. \A i \in 1..n : s[i] \in Elements(r) \cup {s[k]}
  BY <1>1, <1>3, <1>4 DEF Elements
<1>8. Elements(r) \cup {s[k]} = Elements(s)
  BY <1>4, <1>6, <1>7 DEF Elements
<1>9. QED  BY <1>5, <1>8

(* healthCheckQueue.Remove takes one check out of the queue.               *)
LEMMA CutsOne ==
    ASSUME NEW S, NEW s \in Seq(S), NEW k \in DOMAIN s
    PROVE  /\ Cut(s, k) \in Seq(S)
           /\ Elements(Cut(s, k)) \cup {s[k]} = Elements(s)
           /\ Once(s) => Once(Cut(s, k)) /\ s[k] \notin Elements(Cut(s, k))
<1>1. Len(s) \in Nat /\ DOMAIN s = 1..Len(s) /\ k \in 1..Len(s)
  BY LenProperties
<1>2. /\ Cut(s, k) \in Seq(S) /\ Len(Cut(s, k)) = Len(s) - 1
      /\ \A j \in 1..(Len(s) - 1) :
            Cut(s, k)[j] = IF j < k THEN s[j] ELSE s[j + 1]
  BY <1>1, CutElements
<1>3. Cuts(Cut(s, k), s, Len(s), k)
  BY <1>1, <1>2, LenProperties DEF Cuts
<1>4. QED  BY <1>1, <1>2, <1>3, CutKeeps

(* The checks of a queue of outcomes.                                      *)
LEMMA ItemsOfQueue ==
    ASSUME NEW s \in Seq(Outcomes)
    PROVE  /\ Items(s) \in Seq(Checks) /\ ItemsOf(s) = Elements(Items(s))
           /\ \A o \in Outcomes : Items(Append(s, o)) = Append(Items(s), o.item)
           /\ s # <<>> => /\ Items(s) # <<>> /\ Head(Items(s)) = Head(s).item
                          /\ Items(Tail(s)) = Tail(Items(s))
<1>1. /\ Len(s) \in Nat /\ DOMAIN s = 1..Len(s)
      /\ \A k \in 1..Len(s) : s[k] \in Outcomes
  OBVIOUS
<1>2. Items(s) \in Seq(Checks) /\ Len(Items(s)) = Len(s)
  BY <1>1 DEF Items, Outcomes
<1>3. ItemsOf(s) = Elements(Items(s))
  BY DEF Items, ItemsOf, Elements
<1>4. ASSUME NEW o \in Outcomes
      PROVE  Items(Append(s, o)) = Append(Items(s), o.item)
  <2>1. o.item \in Checks
    BY DEF Outcomes
  <2>2. /\ Append(s, o) \in Seq(Outcomes)
        /\ DOMAIN Append(s, o) = 1..(Len(s) + 1)
        /\ \A k \in 1..(Len(s) + 1) :
              Append(s, o)[k] = IF k = Len(s) + 1 THEN o ELSE s[k]
    BY <1>1
  <2>3. /\ DOMAIN Append(Items(s), o.item) = 1..(Len(s) + 1)
        /\ \A k \in 1..(Len(s) + 1) :
              Append(Items(s), o.item)[k] =
                  IF k = Len(s) + 1 THEN o.item ELSE s[k].item
    BY <1>1, <1>2, <2>1 DEF Items
  <2>4. Append(Items(s), o.item) =
            [k \in 1..(Len(s) + 1) |-> Append(Items(s), o.item)[k]]
    BY <1>2, <2>1, <2>3
  <2>5. QED  BY <2>2, <2>3, <2>4 DEF Items
<1>5. ASSUME s # <<>>
      PROVE  /\ Items(s) # <<>> /\ Head(Items(s)) = Head(s).item
             /\ Items(Tail(s)) = Tail(Items(s))
  <2>1. /\ Len(s) >= 1 /\ DOMAIN Tail(s) = 1..(Len(s) - 1)
        /\ \A k \in 1..(Len(s) - 1) : Tail(s)[k] = s[k + 1]
        /\ Head(s) = s[1]
    BY <1>1, <1>5
  <2>2. Items(s) # <<>> /\ Head(Items(s)) = Head(s).item
    BY <1>1, <1>2, <2>1 DEF Items
  <2>3. /\ DOMAIN Tail(Items(s)) = 1..(Len(s) - 1)
        /\ \A k \in 1..(Len(s) - 1) : Tail(Items(s))[k] = s[k + 1].item
    BY <1>1, <1>2, <2>1, <2>2 DEF Items
  <2>4. Tail(Items(s)) = [k \in 1..(Len(s) - 1) |-> Tail(Items(s))[k]]
    <3> DEFINE t == Tail(Items(s))
    <3>1. t \in Seq(Checks) /\ Len(t) = Len(s) - 1
      BY <1>2, <2>2
    <3>2. t \in [1..Len(t) -> Checks]
      BY <3>1, LenProperties
    <3> HIDE DEF t
    <3>3. t = [k \in 1..Len(t) |-> t[k]]
      BY <3>2
    <3>4. QED  BY <3>1, <3>3 DEF t
  <2>5. QED  BY <2>1, <2>2, <2>3, <2>4 DEF Items
<1>6. QED  BY <1>2, <1>3, <1>4, <1>5

(* Distinct counts what Once compares.                                     *)
LEMMA OnceIsDistinct ==
    ASSUME NEW S, NEW s \in Seq(S), Once(s)
    PROVE  Distinct(s)
<1>1. Len(s) \in Nat /\ DOMAIN s = 1..Len(s)
  OBVIOUS
<1>2. s \in Bijection(1..Len(s), Elements(s))
  BY <1>1 DEF Bijection, Injection, Surjection, Elements, Once, IsInjective
<1>3. Cardinality(Elements(s)) = Len(s)
  BY <1>1, <1>2, FS_CountingElements DEF ExistsBijection
<1>4. QED  BY <1>3 DEF Distinct

-----------------------------------------------------------------------------
(* Checks, outcomes, places.                                               *)

LEMMA CheckShape ==
    /\ None \notin Checks /\ NoOutcome.item = None
    /\ \A i \in Checks : GetID(i) \in Tasks /\ i[2] \in 1..MaxChecks
                          /\ i = <<GetID(i), i[2]>>
    /\ \A t \in Tasks, n \in 1..MaxChecks : <<t, n>> \in Checks
    /\ \A o \in Outcomes : o.item \in Checks
    /\ \A i \in Checks, code \in Codes :
          [item |-> i, code |-> code] \in Outcomes
BY ChecksAssumption DEF Checks, None, NoOutcome, Outcomes, GetID

LEMMA OnIsOnCircle == Held => \A i \in Checks : On(i) <=> OnCircle(i)
<1> SUFFICES ASSUME Held, NEW i \in Checks
             PROVE  On(i) <=> OnCircle(i)
  OBVIOUS
<1>1. OnCircle(i) <=>
        \/ i \in Pushed \/ i \in waiting \/ i \in Elements(due) \/ i \in {hand}
        \/ i \in Elements(work) \/ i \in checking \/ i \in ItemsOf(updates)
        \/ i \in {held.item} \/ i \in ItemsOf(results) \/ i \in Dispatched
  <2> DEFINE H == Holders
  <2>1. /\ DOMAIN H = 1..10
        /\ H[1] = Pushed /\ H[2] = waiting /\ H[3] = Elements(due)
        /\ H[4] = {hand} /\ H[5] = Elements(work) /\ H[6] = checking
        /\ H[7] = ItemsOf(updates) /\ H[8] = {held.item}
        /\ H[9] = ItemsOf(results) /\ H[10] = Dispatched
    BY DEF Holders
  <2> HIDE DEF H
  <2>2. OnCircle(i) <=> \E p \in 1..10 : i \in H[p]
    BY <2>1 DEF OnCircle, H
  <2>3. OnCircle(i) <=>
          \/ i \in H[1] \/ i \in H[2] \/ i \in H[3] \/ i \in H[4] \/ i \in H[5]
          \/ i \in H[6] \/ i \in H[7] \/ i \in H[8] \/ i \in H[9] \/ i \in H[10]
    BY <2>2
  <2>4. QED  BY <2>1, <2>3
<1>2. i \in Pushed <=>
        call["driver"] = "push" /\ i = <<arg["driver"], made[arg["driver"]]>>
  BY DEF Pushed, Callers, Held
<1>3. i \in Dispatched <=> dispatcher = "push" /\ i = outcome.item
  BY DEF Dispatched
<1>4. QED  BY <1>1, <1>2, <1>3 DEF On

LEMMA RemoveCuts ==
    ASSUME Held, NEW c \in Callers, Remove(c)
    PROVE  \/ UNCHANGED queueVars
           \/ \E i \in waiting : /\ GetID(i) = arg[c]
                                 /\ waiting' = waiting \ {i} /\ due' = due
           \/ \E i \in Elements(due) :
                 /\ GetID(i) = arg[c] /\ waiting' = waiting
                 /\ due' \in Seq(Checks) /\ Elements(due) = Elements(due') \cup {i}
                 /\ Once(due) => Once(due') /\ i \notin Elements(due')
<1> SUFFICES ASSUME NEW k \in DOMAIN due, GetID(due[k]) = arg[c],
                    due' = Cut(due, k), waiting' = waiting
             PROVE  \E i \in Elements(due) :
                       /\ GetID(i) = arg[c] /\ due' \in Seq(Checks)
                       /\ Elements(due) = Elements(due') \cup {i}
                       /\ Once(due) => Once(due') /\ i \notin Elements(due')
  BY Zenon DEF Remove, Cut
<1>1. due \in Seq(Checks)
  BY DEF Held
<1>2. /\ Cut(due, k) \in Seq(Checks)
      /\ Elements(due) = Elements(Cut(due, k)) \cup {due[k]}
      /\ Once(due) => Once(Cut(due, k)) /\ due[k] \notin Elements(Cut(due, k))
  BY <1>1, CutsOne
<1>3. due[k] \in Elements(due)
  BY DEF Elements
<1>4. QED  BY <1>1, <1>2, <1>3, Zenon

LEMMA HeldInit == Init => Held
<1> SUFFICES ASSUME Init
             PROVE  Held
  OBVIOUS
<1>1. \A S : <<>> \in Seq(S)
  BY EmptySeq
<1>2. QED  BY <1>1, ChecksAssumption DEF Init, Held, Callers

LEMMA HeldStep == Held /\ [Next]_vars => Held'
<1> SUFFICES ASSUME Held, [Next]_vars
             PROVE  Held'
  OBVIOUS
<1> USE CheckShape, ChecksAssumption
    DEF Held, Callers, queueVars, callVars, dequeueVars, poolVars, poolSide,
        dispatchVars
<1>1. ASSUME NEW t \in Tasks, Register(t)
      PROVE  Held'
  BY <1>1 DEF Register, Calls
<1>2. ASSUME NEW t \in Tasks, RegisterAgain(t)
      PROVE  Held'
  BY <1>2 DEF RegisterAgain, vars
<1>3. ASSUME NEW t \in Tasks, NEW c \in Callers, Unregister(c, t)
      PROVE  Held'
  BY <1>3 DEF Unregister, Calls
<1>4. CASE RegisterPush
  BY <1>4 DEF RegisterPush, Return
<1>5. ASSUME NEW c \in Callers, Remove(c)
      PROVE  Held'
  <2>1. waiting' \in SUBSET Checks /\ due' \in Seq(Checks)
    BY <1>5, RemoveCuts
  <2>2. QED  BY <1>5, <2>1 DEF Remove, Return
<1>6. CASE IgnoreFailure
  BY <1>6 DEF IgnoreFailure, Return
<1>7. ASSUME NEW i \in Checks, Expire(i)
      PROVE  Held'
  <2>1. due' \in Seq(Checks)
    BY <1>7, AppendElements DEF Expire
  <2>2. QED  BY <1>7, <2>1 DEF Expire
<1>8. ASSUME NEW i \in Checks, NEW code \in Codes, Check(i, code)
      PROVE  Held'
  <2>1. updates' \in Seq(Outcomes)
    BY <1>8, AppendElements DEF Check
  <2>2. QED  BY <1>8, <2>1 DEF Check
<1>9. CASE LookAtQueue \/ Wake
  BY <1>9 DEF LookAtQueue, Wake
<1>10. CASE PopQueue
  <2>1. due # <<>> => Head(due) \in Checks /\ Tail(due) \in Seq(Checks)
    BY TailElements
  <2>2. QED  BY <1>10, <2>1 DEF PopQueue
<1>11. CASE SendWork
  <2>1. work' \in Seq(Checks)
    BY <1>11, AppendElements DEF SendWork
  <2>2. QED  BY <1>11, <2>1 DEF SendWork
<1>12. CASE ReceiveWork
  <2>1. Head(work) \in Checks /\ Tail(work) \in Seq(Checks)
    BY <1>12, TailElements DEF ReceiveWork
  <2>2. QED  BY <1>12, <2>1 DEF ReceiveWork
<1>13. CASE SlotFree
  BY <1>13 DEF SlotFree
<1>14. CASE ReceiveUpdate
  <2>1. Head(updates) \in Outcomes /\ Tail(updates) \in Seq(Outcomes)
    BY <1>14, TailElements DEF ReceiveUpdate
  <2>2. QED  BY <1>14, <2>1 DEF ReceiveUpdate
<1>15. CASE Forward
  <2>1. results' \in Seq(Outcomes)
    BY <1>15, AppendElements DEF Forward
  <2>2. held' = NoOutcome /\ pool' # "forward"
    BY <1>15 DEF Forward
  <2>3. QED  BY <1>15, <2>1, <2>2 DEF Forward
<1>16. CASE ReceiveResult
  <2>1. Head(results) \in Outcomes /\ Tail(results) \in Seq(Outcomes)
    BY <1>16, TailElements DEF ReceiveResult
  <2>2. QED  BY <1>16, <2>1 DEF ReceiveResult
<1>17. CASE PushResult
  BY <1>17 DEF PushResult
<1>18. CASE SendFailure
  BY <1>18 DEF SendFailure, Calls
<1>19. CASE UNCHANGED vars
  BY <1>19 DEF vars
<1>20. QED
  BY <1>1, <1>2, <1>3, <1>4, <1>5, <1>6, <1>7, <1>8, <1>9, <1>10, <1>11,
     <1>12, <1>13, <1>14, <1>15, <1>16, <1>17, <1>18, <1>19
  DEF Next, Step, CallerStep, DequeueStep, DispatchStep

-----------------------------------------------------------------------------
(* How checks come on the circle, and leave it.                            *)

Comes(i) == \E t \in Tasks : Register(t) /\ i = <<t, made[t] + 1>>

Leaves(i) ==
    /\ i \in waiting \cup Elements(due)
    /\ \E c \in Callers : Remove(c) /\ arg[c] = GetID(i)

(* Every other step hands a check on from one place to the next.           *)
LEMMA OnStep ==
    ASSUME Held, [Next]_vars, NEW i \in Checks
    PROVE  (On(i)' <=> On(i)) \/ Comes(i) \/ Leaves(i)
<1> USE CheckShape
    DEF On, Callers, queueVars, callVars, dequeueVars, poolVars, poolSide,
        dispatchVars
<1>0. \A s : ItemsOf(s) = {o.item : o \in Elements(s)}
  BY ItemsAreElements
<1>1. ASSUME NEW t \in Tasks, Register(t)
      PROVE  (On(i)' <=> On(i)) \/ Comes(i)
  <2>1. CASE i = <<t, made[t] + 1>>
    BY <1>1, <2>1 DEF Comes
  <2>2. CASE i # <<t, made[t] + 1>>
    <3>1. /\ call["driver"] = "idle" /\ call'["driver"] = "push"
          /\ arg'["driver"] = t /\ made'[t] = made[t] + 1
      BY <1>1 DEF Register, Calls, Held
    <3>2. QED  BY <1>1, <2>2, <3>1 DEF Register
  <2>3. QED  BY <2>1, <2>2
<1>2. ASSUME NEW t \in Tasks, RegisterAgain(t)
      PROVE  On(i)' <=> On(i)
  BY <1>2 DEF RegisterAgain, vars
<1>3. ASSUME NEW t \in Tasks, NEW c \in Callers, Unregister(c, t)
      PROVE  On(i)' <=> On(i)
  BY <1>3 DEF Unregister, Calls, Held
<1>4. CASE RegisterPush
  BY <1>4 DEF RegisterPush, Return, Held
<1>5. ASSUME NEW c \in Callers, Remove(c)
      PROVE  (On(i)' <=> On(i)) \/ Leaves(i)
  <2>1. /\ call["driver"] # "push" \/ c = "health"
        /\ UNCHANGED <<made, hand, work, checking, updates, held, results,
                       dispatcher, outcome>>
        /\ call'["driver"] = "push" <=> call["driver"] = "push"
        /\ call["driver"] = "push" => arg'["driver"] = arg["driver"]
    BY <1>5 DEF Remove, Return, Held
  <2>2. \/ waiting' \cup Elements(due') = waiting \cup Elements(due)
        \/ Leaves(i)
        \/ /\ i \in waiting \cup Elements(due)
              <=> i \in waiting' \cup Elements(due')
    <3>1. CASE UNCHANGED queueVars
      BY <3>1
    <3>2. ASSUME NEW j \in waiting, GetID(j) = arg[c],
                 waiting' = waiting \ {j}, UNCHANGED due
          PROVE  Leaves(i) \/ (i \in waiting \cup Elements(due)
                                <=> i \in waiting' \cup Elements(due'))
      BY <1>5, <3>2 DEF Leaves
    <3>3. ASSUME NEW j \in Elements(due), GetID(j) = arg[c],
                 Elements(due) = Elements(due') \cup {j}, UNCHANGED waiting
          PROVE  Leaves(i) \/ (i \in waiting \cup Elements(due)
                                <=> i \in waiting' \cup Elements(due'))
      BY <1>5, <3>3 DEF Leaves
    <3>4. QED  BY <1>5, <3>1, <3>2, <3>3, RemoveCuts
  <2>3. QED  BY <1>0, <2>1, <2>2
<1>6. CASE IgnoreFailure
  BY <1>6 DEF IgnoreFailure, Return, Held
<1>7. ASSUME NEW j \in Checks, Expire(j)
      PROVE  On(i)' <=> On(i)
  <2>1. Elements(due') = Elements(due) \cup {j}
    BY <1>7, AppendElements DEF Expire, Held
  <2>2. QED  BY <1>7, <2>1 DEF Expire
<1>8. ASSUME NEW j \in Checks, NEW code \in Codes, Check(j, code)
      PROVE  On(i)' <=> On(i)
  <2>1. Elements(updates') =
            Elements(updates) \cup {[item |-> j, code |-> code]}
    BY <1>8, AppendElements DEF Check, Held
  <2>2. ItemsOf(updates') = ItemsOf(updates) \cup {j}
    <3> DEFINE o == [item |-> j, code |-> code]
    <3>1. o.item = j
      OBVIOUS
    <3>2. Elements(updates') = Elements(updates) \cup {o}
      BY <2>1
    <3> HIDE DEF o
    <3>3. QED  BY <1>0, <3>1, <3>2
  <2>3. QED  BY <1>8, <2>2 DEF Check
<1>9. CASE LookAtQueue \/ Wake
  BY <1>9 DEF LookAtQueue, Wake
<1>10. CASE PopQueue
  <2>1. due # <<>> => Elements(due) = Elements(Tail(due)) \cup {Head(due)}
    BY TailElements DEF Held
  <2>2. hand = None
    BY <1>10 DEF PopQueue, Held
  <2>3. QED  BY <1>10, <2>1, <2>2 DEF PopQueue
<1>11. CASE SendWork
  <2>1. Elements(work') = Elements(work) \cup {hand}
    BY <1>11, AppendElements DEF SendWork, Held
  <2>2. QED  BY <1>11, <2>1 DEF SendWork
<1>12. CASE ReceiveWork
  <2>1. Elements(work) = Elements(work') \cup {Head(work)}
    BY <1>12, TailElements DEF ReceiveWork, Held
  <2>2. QED  BY <1>12, <2>1 DEF ReceiveWork
<1>13. CASE SlotFree
  BY <1>13 DEF SlotFree
<1>14. CASE ReceiveUpdate
  <2>1. Elements(updates) = Elements(updates') \cup {held'}
    BY <1>14, TailElements DEF ReceiveUpdate, Held
  <2>2. ItemsOf(updates) = ItemsOf(updates') \cup {held'.item}
    BY <1>0, <2>1
  <2>3. held.item = None
    BY <1>14 DEF ReceiveUpdate, Held
  <2>4. QED  BY <1>14, <2>2, <2>3 DEF ReceiveUpdate
<1>15. CASE Forward
  <2>1. Elements(results') = Elements(results) \cup {held}
    BY <1>15, AppendElements DEF Forward, Held
  <2>2. ItemsOf(results') = ItemsOf(results) \cup {held.item}
    BY <1>0, <2>1
  <2>3. held'.item = None
    BY <1>15 DEF Forward
  <2>4. QED  BY <1>15, <2>2, <2>3 DEF Forward
<1>16. CASE ReceiveResult
  <2>1. Elements(results) = Elements(results') \cup {outcome'}
    BY <1>16, TailElements DEF ReceiveResult, Held
  <2>2. ItemsOf(results) = ItemsOf(results') \cup {outcome'.item}
    BY <1>0, <2>1
  <2>3. QED  BY <1>16, <2>2 DEF ReceiveResult
<1>17. CASE PushResult
  BY <1>17 DEF PushResult, Held
<1>18. CASE SendFailure
  BY <1>18 DEF SendFailure, Calls, Held
<1>19. CASE UNCHANGED vars
  BY <1>19 DEF vars
<1>20. QED
  BY <1>1, <1>2, <1>3, <1>4, <1>5, <1>6, <1>7, <1>8, <1>9, <1>10, <1>11,
     <1>12, <1>13, <1>14, <1>15, <1>16, <1>17, <1>18, <1>19
  DEF Next, Step, CallerStep, DequeueStep, DispatchStep

LEMMA OnIsOnCircleNext ==
    Held' => (\A i \in Checks : On(i) <=> OnCircle(i))'
BY OnIsOnCircle, PTL

(* Only Register makes a check, and it forgets none.                       *)
LEMMA MadeGrows ==
    ASSUME Held, [Next]_vars, NEW t \in Tasks
    PROVE  \/ made'[t] = made[t] /\ register'[t] \in {register[t], None}
           \/ /\ Register(t) /\ made'[t] = made[t] + 1
              /\ register'[t] = <<t, made'[t]>>
<1> USE DEF Held, callVars
<1>1. ASSUME NEW u \in Tasks, Register(u)
      PROVE  \/ made'[t] = made[t] /\ register'[t] \in {register[t], None}
             \/ /\ Register(t) /\ made'[t] = made[t] + 1
                /\ register'[t] = <<t, made'[t]>>
  BY <1>1 DEF Register
<1>2. ASSUME NEW u \in Tasks, NEW c \in Callers, Unregister(c, u)
      PROVE  made' = made /\ register'[t] \in {register[t], None}
  BY <1>2 DEF Unregister
<1>3. ASSUME \/ RegisterPush \/ IgnoreFailure \/ SendFailure
             \/ \E u \in Tasks : RegisterAgain(u)
             \/ \E c \in Callers : Remove(c)
             \/ \E i \in Checks : Expire(i) \/ \E code \in Codes : Check(i, code)
             \/ DequeueStep \/ ReceiveWork \/ SlotFree \/ ReceiveUpdate
             \/ Forward \/ ReceiveResult \/ PushResult \/ UNCHANGED vars
      PROVE  made' = made /\ register'[t] \in {register[t], None}
  BY <1>3
  DEF RegisterPush, IgnoreFailure, SendFailure, RegisterAgain, Remove, Expire,
      Check, DequeueStep, LookAtQueue, PopQueue, Wake, SendWork, ReceiveWork,
      SlotFree, ReceiveUpdate, Forward, ReceiveResult, PushResult, vars
<1>4. \/ \E u \in Tasks : Register(u)
      \/ \E u \in Tasks, c \in Callers : Unregister(c, u)
      \/ \/ RegisterPush \/ IgnoreFailure \/ SendFailure
         \/ \E u \in Tasks : RegisterAgain(u)
         \/ \E c \in Callers : Remove(c)
         \/ \E i \in Checks : Expire(i) \/ \E code \in Codes : Check(i, code)
         \/ DequeueStep \/ ReceiveWork \/ SlotFree \/ ReceiveUpdate
         \/ Forward \/ ReceiveResult \/ PushResult \/ UNCHANGED vars
  BY DEF Next, Step, CallerStep, DispatchStep, Callers
<1>5. QED  BY <1>1, <1>2, <1>3, <1>4

(* What the dispatcher handles came off the circle, what the manager       *)
(* handles was reported by the dispatcher.                                 *)
LEMMA ReportStep ==
    ASSUME Held, Held', [Next]_vars
    PROVE  /\ \/ dispatcher' = "receive"
              \/ outcome' = outcome /\ dispatcher # "receive"
              \/ outcome'.item \in Checks /\ On(outcome'.item)
           /\ \/ call'["health"] = "idle"
              \/ call["health"] # "idle" /\ arg'["health"] = arg["health"]
              \/ /\ dispatcher # "receive"
                 /\ arg'["health"] = GetID(outcome.item)
<1> USE DEF Held, Callers, callVars, dispatchVars
<1>1. CASE ReceiveResult
  <2>1. /\ outcome' \in Outcomes
        /\ Elements(results) = Elements(results') \cup {outcome'}
    BY <1>1, TailElements DEF ReceiveResult
  <2>2. outcome'.item \in ItemsOf(results)
    BY <2>1, ItemsAreElements
  <2>3. outcome'.item \in Checks /\ On(outcome'.item)
    BY <2>1, <2>2, CheckShape DEF On
  <2>4. UNCHANGED <<call, arg>>
    BY <1>1 DEF ReceiveResult
  <2>5. QED  BY <2>3, <2>4
<1>2. CASE SendFailure
  BY <1>2 DEF SendFailure, Calls
<1>3. CASE PushResult
  BY <1>3 DEF PushResult
<1>4. ASSUME NEW t \in Tasks, NEW c \in Callers, Unregister(c, t)
      PROVE  /\ UNCHANGED <<dispatcher, outcome>>
             /\ \/ call'["health"] = "idle"
                \/ call["health"] # "idle" /\ arg'["health"] = arg["health"]
  BY <1>4 DEF Unregister, Calls
<1>5. ASSUME \/ RegisterPush \/ IgnoreFailure
             \/ \E u \in Tasks : Register(u) \/ RegisterAgain(u)
             \/ \E c \in Callers : Remove(c)
             \/ \E i \in Checks : Expire(i) \/ \E code \in Codes : Check(i, code)
             \/ DequeueStep \/ ReceiveWork \/ SlotFree \/ ReceiveUpdate
             \/ Forward \/ UNCHANGED vars
      PROVE  /\ UNCHANGED <<dispatcher, outcome>>
             /\ \/ call'["health"] = "idle"
                \/ call["health"] # "idle" /\ arg'["health"] = arg["health"]
  BY <1>5
  DEF RegisterPush, IgnoreFailure, Register, RegisterAgain, Remove, Return,
      Calls, Expire, Check, DequeueStep, LookAtQueue, PopQueue, Wake,
      SendWork, ReceiveWork, SlotFree, ReceiveUpdate, Forward, vars
<1>6. QED
  BY <1>1, <1>2, <1>3, <1>4, <1>5 DEF Next, Step, CallerStep, DispatchStep

LEMMA AllMadeStep == Held /\ Held' /\ AllMade /\ [Next]_vars => AllMade'
<1> SUFFICES ASSUME Held, Held', AllMade, [Next]_vars
             PROVE  AllMade'
  OBVIOUS
<1>1. \A t \in Tasks : made[t] \in Nat /\ made'[t] \in Nat /\ made'[t] >= made[t]
  <2> SUFFICES ASSUME NEW t \in Tasks
               PROVE  made[t] \in Nat /\ made'[t] \in Nat /\ made'[t] >= made[t]
    OBVIOUS
  <2>1. made[t] \in Nat /\ made'[t] \in Nat
    BY ChecksAssumption DEF Held
  <2>2. made'[t] = made[t] \/ made'[t] = made[t] + 1
    BY MadeGrows
  <2>3. QED  BY <2>1, <2>2
<1>2. \A i \in Checks : WasMade(i) => WasMade(i)'
  BY <1>1, CheckShape DEF WasMade, GetID
<1>3. ASSUME NEW i \in Checks, On(i)'
      PROVE  WasMade(i)'
  <2>1. CASE On(i)
    BY <1>2, <2>1 DEF AllMade
  <2>2. CASE Comes(i)
    <3>1. PICK t \in Tasks : Register(t) /\ i = <<t, made[t] + 1>>
      BY <2>2 DEF Comes
    <3>2. made'[t] = made[t] + 1
      BY <3>1 DEF Register, Held
    <3>3. QED  BY <1>1, <3>1, <3>2 DEF WasMade
  <2>3. Leaves(i) => On(i)
    BY DEF Leaves, On
  <2>4. QED  BY <1>3, <2>1, <2>2, <2>3, OnStep
<1>4. dispatcher' # "receive" => WasMade(outcome.item)'
  <2>1. CASE outcome' = outcome /\ dispatcher # "receive"
    <3>1. outcome.item \in Checks
      BY <2>1, CheckShape DEF Held
    <3>2. WasMade(outcome.item)
      BY <2>1 DEF AllMade
    <3>3. QED  BY <1>1, <2>1, <3>1, <3>2, CheckShape DEF WasMade, GetID
  <2>2. CASE outcome'.item \in Checks /\ On(outcome'.item)
    BY <1>1, <2>2, CheckShape DEF WasMade, GetID, AllMade
  <2>3. QED  BY <2>1, <2>2, ReportStep
<1>5. call'["health"] # "idle" => made'[arg'["health"]] # 0
  <2>1. CASE call["health"] # "idle" /\ arg'["health"] = arg["health"]
    <3>1. arg["health"] \in Tasks /\ made[arg["health"]] # 0
      BY <2>1 DEF Held, Callers, AllMade
    <3>2. QED  BY <1>1, <2>1, <3>1
  <2>2. CASE dispatcher # "receive" /\ arg'["health"] = GetID(outcome.item)
    <3>1. outcome.item \in Checks /\ WasMade(outcome.item)
      BY <2>2, CheckShape DEF Held, AllMade
    <3>2. QED  BY <1>1, <2>2, <3>1, CheckShape, ChecksAssumption DEF WasMade, GetID
  <2>3. QED  BY <2>1, <2>2, ReportStep
<1>6. QED  BY <1>3, <1>4, <1>5 DEF AllMade

(* With one registration for each task, no call that is about to remove a  *)
(* check can meet one that is newer than it is.                            *)
LEMMA UnremovedStep ==
    ASSUME MaxChecks = 1, Held, Held', AllMade, AllMade', Unremoved,
           [Next]_vars
    PROVE  Unremoved'
<1>1. ASSUME NEW c \in Callers, call'[c] = "remove"
      PROVE  register'[arg'[c]] = None
  <2>1. \/ register'[arg'[c]] = None
        \/ call[c] = "remove" /\ arg'[c] = arg[c]
    <3>1. ASSUME NEW t \in Tasks, NEW d \in Callers, Unregister(d, t)
          PROVE  \/ register'[arg'[c]] = None
                 \/ call[c] = "remove" /\ arg'[c] = arg[c]
      BY <1>1, <3>1 DEF Unregister, Calls, Held
    <3>2. ASSUME \/ RegisterPush \/ IgnoreFailure \/ SendFailure
                 \/ \E u \in Tasks : Register(u) \/ RegisterAgain(u)
                 \/ \E d \in Callers : Remove(d)
                 \/ \E i \in Checks :
                      Expire(i) \/ \E code \in Codes : Check(i, code)
                 \/ DequeueStep \/ ReceiveWork \/ SlotFree \/ ReceiveUpdate
                 \/ Forward \/ ReceiveResult \/ PushResult \/ UNCHANGED vars
          PROVE  call[c] = "remove" /\ arg'[c] = arg[c]
      BY <1>1, <3>2
      DEF RegisterPush, IgnoreFailure, SendFailure, Register, RegisterAgain,
          Remove, Return, Calls, Expire, Check, DequeueStep, LookAtQueue,
          PopQueue, Wake, SendWork, ReceiveWork, SlotFree, ReceiveUpdate,
          Forward, ReceiveResult, PushResult, callVars, vars, Held, Callers
    <3>3. QED
      BY <3>1, <3>2 DEF Next, Step, CallerStep, DispatchStep, Callers
  <2>2. ASSUME call[c] = "remove", arg'[c] = arg[c]
        PROVE  register'[arg'[c]] = None
    <3>1. arg[c] \in Tasks /\ register[arg[c]] = None
      BY <2>2 DEF Held, Unremoved
    <3>2. ~Register(arg[c])
      <4>1. CASE c = "driver"
        BY <2>2, <4>1 DEF Register
      <4>2. CASE c = "health"
        <5>1. made[arg["health"]] # 0 /\ made[arg["health"]] \in 0..1
          BY <2>2, <3>1, <4>2 DEF AllMade, Held
        <5>2. QED  BY <4>2, <5>1 DEF Register
      <4>3. QED  BY <4>1, <4>2 DEF Callers
    <3>3. QED  BY <2>2, <3>1, <3>2, MadeGrows
  <2>3. QED  BY <2>1, <2>2
<1>2. ASSUME NEW t \in Tasks, register'[t] # None
      PROVE  register'[t] = <<t, made'[t]>> /\ made'[t] # 0 /\ On(<<t, made[t]>>)'
  <2>1. made[t] \in 0..1 /\ made'[t] \in 0..1
    BY DEF Held
  <2>2. CASE Register(t) /\ made'[t] = made[t] + 1 /\ register'[t] = <<t, made'[t]>>
    <3>1. call'["driver"] = "push" /\ arg'["driver"] = t
      BY <2>2 DEF Register, Calls, Held, Callers
    <3>2. QED  BY <2>1, <2>2, <3>1 DEF On
  <2>3. CASE made'[t] = made[t] /\ register'[t] = register[t]
    <3>1. register[t] = <<t, made[t]>> /\ made[t] # 0 /\ On(<<t, made[t]>>)
      BY <1>2, <2>3 DEF Unremoved
    <3>2. PICK i \in Checks : i = <<t, made[t]>>
      BY <2>1, <3>1, CheckShape
    <3>3. ~Comes(i)
      BY <2>1, <3>2 DEF Comes
    <3>4. ~Leaves(i)
      <4>1. \A c \in Callers : call[c] = "remove" => arg[c] # t
        BY <1>2, <2>3 DEF Unremoved
      <4>2. QED  BY <3>2, <4>1 DEF Leaves, Remove, GetID
    <3>5. On(i)'
      BY <3>1, <3>2, <3>3, <3>4, OnStep
    <3>6. i = <<t, made'[t]>>
      BY <2>3, <3>2
    <3>7. On(<<t, made[t]>>)'
      BY <3>5, <3>6 DEF On
    <3>8. QED  BY <2>3, <3>1, <3>7
  <2>4. QED  BY <1>2, <2>2, <2>3, MadeGrows
<1>3. QED  BY <1>1, <1>2 DEF Unremoved

-----------------------------------------------------------------------------
(* One holder at a time.                                                   *)

Disjoint(H) ==
    \A p, q \in 1..10, i \in Checks : i \in H[p] /\ i \in H[q] => p = q

(* No check is in two places, or twice in a queue.                         *)
Apart ==
    /\ Disjoint(Holders)
    /\ Once(due) /\ Once(work) /\ Once(Items(updates)) /\ Once(Items(results))

Placed ==
    /\ DOMAIN Holders = 1..10
    /\ Holders[1] = Pushed /\ Holders[2] = waiting /\ Holders[3] = Elements(due)
    /\ Holders[4] = {hand} /\ Holders[5] = Elements(work)
    /\ Holders[6] = checking /\ Holders[7] = ItemsOf(updates)
    /\ Holders[8] = {held.item} /\ Holders[9] = ItemsOf(results)
    /\ Holders[10] = Dispatched

LEMMA Places == Placed
BY DEF Placed, Holders

LEMMA PlacesNext == Placed'
BY Places, PTL

LEMMA PushedIs ==
    Held => Pushed = IF call["driver"] = "push"
                     THEN {<<arg["driver"], made[arg["driver"]]>>} ELSE {}
BY DEF Held, Pushed, Callers

LEMMA PushedIsNext ==
    Held' => (Pushed = IF call["driver"] = "push"
                       THEN {<<arg["driver"], made[arg["driver"]]>>} ELSE {})'
BY PushedIs, PTL

LEMMA DispatchedIs ==
    Dispatched = IF dispatcher = "push" THEN {outcome.item} ELSE {}
BY DEF Dispatched

LEMMA DispatchedIsNext ==
    (Dispatched = IF dispatcher = "push" THEN {outcome.item} ELSE {})'
BY DispatchedIs, PTL

Changed(p) ==
    \/ p = 1 /\ Pushed' # Pushed
    \/ p = 2 /\ waiting' # waiting
    \/ p = 3 /\ due' # due
    \/ p = 4 /\ hand' # hand
    \/ p = 5 /\ work' # work
    \/ p = 6 /\ checking' # checking
    \/ p = 7 /\ updates' # updates
    \/ p = 8 /\ held' # held
    \/ p = 9 /\ results' # results
    \/ p = 10 /\ Dispatched' # Dispatched

LEMMA Unmoved ==
    /\ UNCHANGED <<call, arg, made>> => UNCHANGED Pushed
    /\ UNCHANGED <<dispatcher, outcome>> => UNCHANGED Dispatched
    /\ \A p \in 1..10 : Changed(p) \/ Holders'[p] = Holders[p]
<1>1. UNCHANGED <<call, arg, made>> => UNCHANGED Pushed
  BY DEF Pushed
<1>2. UNCHANGED <<dispatcher, outcome>> => UNCHANGED Dispatched
  BY DEF Dispatched
<1>3. /\ Changed(1) \/ Holders'[1] = Holders[1]
      /\ Changed(2) \/ Holders'[2] = Holders[2]
      /\ Changed(3) \/ Holders'[3] = Holders[3]
      /\ Changed(4) \/ Holders'[4] = Holders[4]
      /\ Changed(5) \/ Holders'[5] = Holders[5]
      /\ Changed(6) \/ Holders'[6] = Holders[6]
      /\ Changed(7) \/ Holders'[7] = Holders[7]
      /\ Changed(8) \/ Holders'[8] = Holders[8]
      /\ Changed(9) \/ Holders'[9] = Holders[9]
      /\ Changed(10) \/ Holders'[10] = Holders[10]
  BY Places, PlacesNext DEF Placed, Elements, ItemsOf, Changed
<1>4. ASSUME NEW p \in 1..10
      PROVE  Changed(p) \/ Holders'[p] = Holders[p]
  <2>1. \/ p = 1 \/ p = 2 \/ p = 3 \/ p = 4 \/ p = 5
        \/ p = 6 \/ p = 7 \/ p = 8 \/ p = 9 \/ p = 10
    OBVIOUS
  <2>2. QED  BY <1>3, <2>1
<1>5. QED  BY <1>1, <1>2, <1>4

(* A check that goes from one place to another is in one place again, and  *)
(* so is one that comes new or leaves.                                     *)
LEMMA Moving ==
    ASSUME NEW H, NEW G, Disjoint(H), NEW a \in 1..10, NEW b \in 1..10, a # b,
           NEW x \in H[a], None \notin Checks,
           \A p \in 1..10 : p # a /\ p # b => G[p] = H[p],
           G[a] \subseteq (H[a] \ {x}) \cup {None},
           G[b] \subseteq H[b] \cup {x}
    PROVE  Disjoint(G)
<1>1. ASSUME NEW p \in 1..10, NEW i \in Checks, i \in G[p]
      PROVE  IF i = x THEN p = b ELSE i \in H[p]
  <2>1. CASE p = a
    BY <1>1, <2>1
  <2>2. CASE p = b
    BY <1>1, <2>2
  <2>3. CASE p # a /\ p # b
    <3>1. i \in H[p]
      BY <1>1, <2>3
    <3>2. i # x
      BY <2>3, <3>1 DEF Disjoint
    <3>3. QED  BY <3>1, <3>2
  <2>4. QED  BY <2>1, <2>2, <2>3
<1>2. QED  BY <1>1 DEF Disjoint

LEMMA Coming ==
    ASSUME NEW H, NEW G, Disjoint(H), NEW b \in 1..10, NEW x,
           \A p \in 1..10 : x \notin H[p],
           \A p \in 1..10 : p # b => G[p] = H[p],
           G[b] \subseteq H[b] \cup {x}
    PROVE  Disjoint(G)
<1>1. ASSUME NEW p \in 1..10, NEW i \in Checks, i \in G[p]
      PROVE  IF i = x THEN p = b ELSE i \in H[p]
  BY <1>1
<1>2. QED  BY <1>1 DEF Disjoint

LEMMA Leaving ==
    ASSUME NEW H, NEW G, Disjoint(H), \A p \in 1..10 : G[p] \subseteq H[p]
    PROVE  Disjoint(G)
BY DEF Disjoint

LEMMA ApartStep ==
    ASSUME Held, Held', AllMade, Apart, [Next]_vars
    PROVE  Apart'
<1> USE CheckShape, Places, PlacesNext, PushedIs, PushedIsNext, DispatchedIs,
        DispatchedIsNext
    DEF Placed, queueVars, callVars, dequeueVars, poolVars, poolSide,
        dispatchVars
<1>0. Disjoint(Holders)
  BY DEF Apart
<1>1. ASSUME NEW t \in Tasks, Register(t)
      PROVE  Apart'
  <2> DEFINE x == <<t, made[t] + 1>>
  <2>1. /\ call["driver"] = "idle" /\ call'["driver"] = "push"
        /\ arg'["driver"] = t /\ made'[t] = made[t] + 1
        /\ made[t] \in 0..MaxChecks /\ made[t] < MaxChecks
    BY <1>1 DEF Register, Calls, Held, Callers
  <2>2. x \in Checks /\ x[1] = t /\ x[2] = made[t] + 1
    BY <2>1, ChecksAssumption
  <2>3. ~WasMade(x)
    BY <2>1, <2>2, ChecksAssumption DEF WasMade
  <2> HIDE DEF x
  <2>4. ~OnCircle(x)
    BY <2>2, <2>3, OnIsOnCircle DEF AllMade
  <2>5. \A p \in 1..10 : x \notin Holders[p]
    BY <2>4 DEF OnCircle
  <2>6. Holders'[1] = Holders[1] \cup {x}
    BY <2>1 DEF x
  <2>7. \A p \in 1..10 : p # 1 => Holders'[p] = Holders[p]
    BY <1>1, Unmoved DEF Changed, Register
  <2>8. Disjoint(Holders')
    BY <1>0, <2>5, <2>6, <2>7, Coming
  <2>9. UNCHANGED <<due, work, updates, results>>
    BY <1>1 DEF Register
  <2>10. QED  BY <2>8, <2>9 DEF Apart
<1>2. ASSUME NEW t \in Tasks, RegisterAgain(t)
      PROVE  Apart'
  BY <1>2 DEF RegisterAgain, vars, Apart, Holders, Pushed, Dispatched
<1>3. ASSUME NEW t \in Tasks, NEW c \in Callers, Unregister(c, t)
      PROVE  Apart'
  <2>1. Holders'[1] = Holders[1]
    <3>1. \/ call["driver"] # "push" /\ call'["driver"] # "push"
          \/ /\ c # "driver" /\ UNCHANGED made
             /\ call'["driver"] = call["driver"] /\ arg'["driver"] = arg["driver"]
      BY <1>3 DEF Unregister, Calls, Held, Callers
    <3>2. QED  BY <3>1
  <2>2. \A p \in 1..10 : p # 1 => Holders'[p] = Holders[p]
    BY <1>3, Unmoved DEF Changed, Unregister
  <2>3. Disjoint(Holders')
    BY <1>0, <2>1, <2>2, Leaving
  <2>4. UNCHANGED <<due, work, updates, results>>
    BY <1>3 DEF Unregister
  <2>5. QED  BY <2>3, <2>4 DEF Apart
<1>4. CASE RegisterPush
  <2> DEFINE x == <<arg["driver"], made[arg["driver"]]>>
  <2>1. Holders[1] = {x} /\ Holders'[1] = {}
    BY <1>4 DEF RegisterPush, Return, Held, Callers
  <2>2. Holders'[2] = Holders[2] \cup {x}
    BY <1>4 DEF RegisterPush
  <2>3. \A p \in 1..10 : p # 1 /\ p # 2 => Holders'[p] = Holders[p]
    BY <1>4, Unmoved DEF Changed, RegisterPush
  <2> HIDE DEF x
  <2>4. Disjoint(Holders')
    <3>1. x \in Holders[1] /\ Holders'[1] \subseteq (Holders[1] \ {x}) \cup {None}
      BY <2>1
    <3>2. QED  BY <1>0, <2>2, <2>3, <3>1, Moving
  <2>5. UNCHANGED <<due, work, updates, results>>
    BY <1>4 DEF RegisterPush
  <2>6. QED  BY <2>4, <2>5 DEF Apart
<1>5. ASSUME NEW c \in Callers, Remove(c)
      PROVE  Apart'
  <2>1. Holders'[1] = Holders[1]
    <3>1. /\ UNCHANGED made
          /\ \/ call["driver"] # "push" /\ call'["driver"] # "push"
             \/ /\ c # "driver" /\ call'["driver"] = call["driver"]
                /\ arg'["driver"] = arg["driver"]
      BY <1>5 DEF Remove, Return, Held, Callers
    <3>2. QED  BY <3>1
  <2>2. waiting' \subseteq waiting /\ Elements(due') \subseteq Elements(due)
        /\ Once(due')
    BY <1>5, RemoveCuts DEF Apart
  <2>3. \A p \in 1..10 : p # 1 => Holders'[p] \subseteq Holders[p]
    BY <1>5, <2>2 DEF Remove
  <2>4. Disjoint(Holders')
    BY <1>0, <2>1, <2>3, Leaving
  <2>5. UNCHANGED <<work, updates, results>>
    BY <1>5 DEF Remove
  <2>6. QED  BY <2>2, <2>4, <2>5 DEF Apart
<1>6. CASE IgnoreFailure
  <2>1. Pushed' = Pushed
    BY <1>6 DEF IgnoreFailure, Return, Held, Callers
  <2>2. \A p \in 1..10 : Holders'[p] = Holders[p]
    BY <1>6, <2>1, Unmoved DEF Changed, IgnoreFailure
  <2>3. Disjoint(Holders')
    BY <1>0, <2>2, Leaving
  <2>4. QED  BY <1>6, <2>3 DEF IgnoreFailure, Apart
<1>7. ASSUME NEW i \in Checks, Expire(i)
      PROVE  Apart'
  <2>1. i \in Holders[2] /\ Holders'[2] = Holders[2] \ {i}
    BY <1>7 DEF Expire
  <2>2. i \notin Elements(due)
    BY <1>0, <2>1 DEF Disjoint
  <2>3. Elements(due') = Elements(due) \cup {i} /\ Once(due')
    BY <1>7, <2>2, AppendElements, AppendOnce DEF Expire, Held, Apart
  <2>4. \A p \in 1..10 : p # 2 /\ p # 3 => Holders'[p] = Holders[p]
    BY <1>7, Unmoved DEF Changed, Expire
  <2>5. Disjoint(Holders')
    BY <1>0, <2>1, <2>3, <2>4, Moving
  <2>6. QED  BY <1>7, <2>3, <2>5 DEF Expire, Apart
<1>8. ASSUME NEW i \in Checks, NEW code \in Codes, Check(i, code)
      PROVE  Apart'
  <2> DEFINE o == [item |-> i, code |-> code]
  <2>1. o \in Outcomes /\ o.item = i /\ updates' = Append(updates, o)
    BY <1>8 DEF Check
  <2> HIDE DEF o
  <2>2. i \in Holders[6] /\ Holders'[6] = Holders[6] \ {i}
    BY <1>8 DEF Check
  <2>3. i \notin ItemsOf(updates)
    BY <1>0, <2>2 DEF Disjoint
  <2>4. ItemsOf(updates') = ItemsOf(updates) \cup {i} /\ Once(Items(updates'))
    <3>1. /\ Items(updates) \in Seq(Checks) /\ updates' \in Seq(Outcomes)
          /\ ItemsOf(updates) = Elements(Items(updates))
          /\ ItemsOf(updates') = Elements(Items(updates'))
          /\ Items(updates') = Append(Items(updates), i)
      BY <2>1, ItemsOfQueue DEF Held
    <3>2. QED  BY <2>3, <3>1, AppendElements, AppendOnce DEF Apart
  <2>5. \A p \in 1..10 : p # 6 /\ p # 7 => Holders'[p] = Holders[p]
    BY <1>8, Unmoved DEF Changed, Check
  <2>6. Disjoint(Holders')
    BY <1>0, <2>2, <2>4, <2>5, Moving
  <2>7. QED  BY <1>8, <2>4, <2>6 DEF Check, Apart
<1>9. CASE LookAtQueue \/ Wake
  <2>1. \A p \in 1..10 : Holders'[p] = Holders[p]
    BY <1>9, Unmoved DEF Changed, LookAtQueue, Wake
  <2>2. Disjoint(Holders')
    BY <1>0, <2>1, Leaving
  <2>3. QED  BY <1>9, <2>2 DEF LookAtQueue, Wake, Apart
<1>10. CASE PopQueue /\ due = <<>>
  <2>1. \A p \in 1..10 : Holders'[p] = Holders[p]
    BY <1>10, Unmoved DEF Changed, PopQueue
  <2>2. Disjoint(Holders')
    BY <1>0, <2>1, Leaving
  <2>3. QED  BY <1>10, <2>2 DEF PopQueue, Apart
<1>11. CASE PopQueue /\ due # <<>>
  <2>1. hand' = Head(due) /\ due' = Tail(due)
    BY <1>11 DEF PopQueue
  <2>2. /\ Elements(due) = Elements(due') \cup {hand'} /\ Once(due')
        /\ hand' \notin Elements(due')
    BY <1>11, <2>1, TailElements, TailOnce DEF Held, Apart
  <2>3. \A p \in 1..10 : p # 3 /\ p # 4 => Holders'[p] = Holders[p]
    BY <1>11, Unmoved DEF Changed, PopQueue
  <2>4. Disjoint(Holders')
    <3>1. hand' \in Holders[3] /\ Holders'[3] = Holders[3] \ {hand'}
          /\ Holders'[4] = {hand'}
      BY <2>2
    <3>2. QED  BY <1>0, <2>3, <3>1, Moving
  <2>5. QED  BY <1>11, <2>2, <2>4 DEF PopQueue, Apart
<1>12. CASE SendWork
  <2>1. hand \in Checks /\ hand \in Holders[4] /\ Holders'[4] = {None}
    BY <1>12 DEF SendWork, Held
  <2>2. hand \notin Elements(work)
    BY <1>0, <2>1 DEF Disjoint
  <2>3. Elements(work') = Elements(work) \cup {hand} /\ Once(work')
    BY <1>12, <2>1, <2>2, AppendElements, AppendOnce DEF SendWork, Held, Apart
  <2>4. \A p \in 1..10 : p # 4 /\ p # 5 => Holders'[p] = Holders[p]
    BY <1>12, Unmoved DEF Changed, SendWork
  <2>5. Disjoint(Holders')
    BY <1>0, <2>1, <2>3, <2>4, Moving
  <2>6. QED  BY <1>12, <2>3, <2>5 DEF SendWork, Apart
<1>13. CASE ReceiveWork
  <2> DEFINE x == Head(work)
  <2>1. work # <<>> /\ work' = Tail(work) /\ checking' = checking \cup {x}
    BY <1>13 DEF ReceiveWork
  <2>2. /\ Elements(work) = Elements(work') \cup {x} /\ Once(work')
        /\ x \notin Elements(work')
    BY <2>1, TailElements, TailOnce DEF Held, Apart
  <2> HIDE DEF x
  <2>3. \A p \in 1..10 : p # 5 /\ p # 6 => Holders'[p] = Holders[p]
    BY <1>13, Unmoved DEF Changed, ReceiveWork
  <2>4. Disjoint(Holders')
    <3>1. x \in Holders[5] /\ Holders'[5] = Holders[5] \ {x}
          /\ Holders'[6] = Holders[6] \cup {x}
      BY <2>1, <2>2
    <3>2. QED  BY <1>0, <2>3, <3>1, Moving
  <2>5. QED  BY <1>13, <2>2, <2>4 DEF ReceiveWork, Apart
<1>14. CASE SlotFree
  <2>1. \A p \in 1..10 : Holders'[p] = Holders[p]
    BY <1>14, Unmoved DEF Changed, SlotFree
  <2>2. Disjoint(Holders')
    BY <1>0, <2>1, Leaving
  <2>3. QED  BY <1>14, <2>2 DEF SlotFree, Apart
<1>15. CASE ReceiveUpdate
  <2> DEFINE x == held'.item
  <2>1. updates # <<>> /\ updates' = Tail(updates) /\ held' = Head(updates)
    BY <1>15 DEF ReceiveUpdate
  <2>2. /\ ItemsOf(updates) = ItemsOf(updates') \cup {x}
        /\ Once(Items(updates')) /\ x \notin ItemsOf(updates')
    <3>1. /\ Items(updates) \in Seq(Checks) /\ Items(updates) # <<>>
          /\ ItemsOf(updates) = Elements(Items(updates))
          /\ ItemsOf(updates') = Elements(Items(updates'))
          /\ Items(updates') = Tail(Items(updates)) /\ Head(Items(updates)) = x
      BY <2>1, ItemsOfQueue DEF Held
    <3>2. QED  BY <3>1, TailElements, TailOnce DEF Apart
  <2> HIDE DEF x
  <2>3. \A p \in 1..10 : p # 7 /\ p # 8 => Holders'[p] = Holders[p]
    BY <1>15, Unmoved DEF Changed, ReceiveUpdate
  <2>4. Disjoint(Holders')
    <3>1. x \in Holders[7] /\ Holders'[7] = Holders[7] \ {x}
          /\ Holders'[8] = {x}
      BY <2>2 DEF x
    <3>2. QED  BY <1>0, <2>3, <3>1, Moving
  <2>5. QED  BY <1>15, <2>2, <2>4 DEF ReceiveUpdate, Apart
<1>16. CASE Forward
  <2>1. /\ held \in Outcomes /\ results' = Append(results, held)
        /\ held' = NoOutcome
    BY <1>16 DEF Forward, Held
  <2>2. held.item \in Holders[8] /\ Holders'[8] = {None}
    BY <2>1
  <2>3. held.item \notin ItemsOf(results)
    BY <1>0, <2>1, <2>2 DEF Disjoint
  <2>4. /\ ItemsOf(results') = ItemsOf(results) \cup {held.item}
        /\ Once(Items(results'))
    <3>1. /\ Items(results) \in Seq(Checks) /\ results' \in Seq(Outcomes)
          /\ ItemsOf(results) = Elements(Items(results))
          /\ ItemsOf(results') = Elements(Items(results'))
          /\ Items(results') = Append(Items(results), held.item)
          /\ held.item \in Checks
      <4>1. results \in Seq(Outcomes) /\ results' \in Seq(Outcomes)
        BY <2>1, AppendElements DEF Held
      <4>2. /\ Items(results) \in Seq(Checks)
            /\ ItemsOf(results) = Elements(Items(results))
            /\ Items(Append(results, held)) = Append(Items(results), held.item)
        BY <2>1, <4>1, ItemsOfQueue
      <4>3. ItemsOf(results') = Elements(Items(results'))
        BY <4>1, ItemsOfQueue
      <4>4. QED  BY <2>1, <4>1, <4>2, <4>3
    <3>2. QED  BY <2>3, <3>1, AppendElements, AppendOnce DEF Apart
  <2>5. \A p \in 1..10 : p # 8 /\ p # 9 => Holders'[p] = Holders[p]
    BY <1>16, Unmoved DEF Changed, Forward
  <2>6. Disjoint(Holders')
    BY <1>0, <2>2, <2>4, <2>5, Moving
  <2>7. QED  BY <1>16, <2>4, <2>6 DEF Forward, Apart
<1>17. CASE ReceiveResult
  <2> DEFINE x == outcome'.item
  <2>1. results # <<>> /\ results' = Tail(results) /\ outcome' = Head(results)
    BY <1>17 DEF ReceiveResult
  <2>2. /\ ItemsOf(results) = ItemsOf(results') \cup {x}
        /\ Once(Items(results')) /\ x \notin ItemsOf(results')
    <3>1. /\ Items(results) \in Seq(Checks) /\ Items(results) # <<>>
          /\ ItemsOf(results) = Elements(Items(results))
          /\ ItemsOf(results') = Elements(Items(results'))
          /\ Items(results') = Tail(Items(results)) /\ Head(Items(results)) = x
      BY <2>1, ItemsOfQueue DEF Held
    <3>2. QED  BY <3>1, TailElements, TailOnce DEF Apart
  <2>3. \A p \in 1..10 : p # 9 /\ p # 10 => Holders'[p] = Holders[p]
    BY <1>17, Unmoved DEF Changed, ReceiveResult
  <2>4. Disjoint(Holders')
    <3>1. Holders'[10] = {x}
      BY <1>17 DEF ReceiveResult
    <3> HIDE DEF x
    <3>2. x \in Holders[9] /\ Holders'[9] = Holders[9] \ {x}
      BY <2>2
    <3>3. QED  BY <1>0, <2>3, <3>1, <3>2, Moving
  <2>5. QED  BY <1>17, <2>2, <2>4 DEF ReceiveResult, Apart
<1>18. CASE PushResult
  <2> DEFINE x == outcome.item
  <2>1. /\ Holders[10] = {x} /\ Holders'[10] = {}
        /\ Holders'[2] = Holders[2] \cup {x}
    BY <1>18 DEF PushResult
  <2>2. \A p \in 1..10 : p # 10 /\ p # 2 => Holders'[p] = Holders[p]
    BY <1>18, Unmoved DEF Changed, PushResult
  <2> HIDE DEF x
  <2>3. Disjoint(Holders')
    <3>1. x \in Holders[10]
          /\ Holders'[10] \subseteq (Holders[10] \ {x}) \cup {None}
      BY <2>1
    <3>2. QED  BY <1>0, <2>1, <2>2, <3>1, Moving
  <2>4. QED  BY <1>18, <2>3 DEF PushResult, Apart
<1>19. CASE SendFailure
  <2>1. Pushed' = Pushed /\ Dispatched' = Dispatched
    BY <1>19 DEF SendFailure, Calls, Held, Callers
  <2>2. \A p \in 1..10 : Holders'[p] = Holders[p]
    BY <1>19, <2>1, Unmoved DEF Changed, SendFailure
  <2>3. Disjoint(Holders')
    BY <1>0, <2>2, Leaving
  <2>4. QED  BY <1>19, <2>3 DEF SendFailure, Apart
<1>20. CASE UNCHANGED vars
  BY <1>20 DEF vars, Apart, Holders, Pushed, Dispatched
<1>21. QED
  BY <1>1, <1>2, <1>3, <1>4, <1>5, <1>6, <1>7, <1>8, <1>9, <1>10, <1>11,
     <1>12, <1>13, <1>14, <1>15, <1>16, <1>17, <1>18, <1>19, <1>20
  DEF Next, Step, CallerStep, DequeueStep, DispatchStep, Callers

-----------------------------------------------------------------------------
(* The pool's slice of checks in progress.                                 *)

(* Induction, on a set in place of a predicate: if some number were not in *)
(* S, there would be a smallest one.                                       *)
LEMMA Induction ==
    ASSUME NEW S, 0 \in S, \A n \in Nat : n \in S => n + 1 \in S
    PROVE  Nat \subseteq S
<1> DEFINE T == Nat \ S
<1>1. SUFFICES ASSUME T # {} PROVE FALSE
  OBVIOUS
<1>2. PICK m \in T : \A y \in T : ~(<<y, m>> \in OpToRel(<, Nat))
  BY <1>1, NatLessThanWellFounded, WFMin
<1>3. m # 0 /\ m - 1 \in Nat /\ m - 1 < m
  OBVIOUS
<1>4. m - 1 \notin T
  BY <1>2, <1>3 DEF OpToRel
<1>5. QED  BY <1>3, <1>4

(* A loop over 1..n, whose k-th round is step[k], runs to its end.         *)
Runs(X, x, n, step, g) ==
    /\ g \in [0..n -> X] /\ g[0] = x
    /\ \A k \in 1..n : g[k] = step[k][g[k - 1]]

LEMMA LoopRuns ==
    ASSUME NEW X, NEW x \in X, NEW n \in Nat, NEW step \in [1..n -> [X -> X]]
    PROVE  \E g : Runs(X, x, n, step, g)
<1> DEFINE S == {m \in Nat : m <= n => \E g : Runs(X, x, m, step, g)}
<1>1. 0 \in S
  <2>1. Runs(X, x, 0, step, [k \in 0..0 |-> x])
    BY DEF Runs
  <2>2. QED  BY <2>1
<1>2. ASSUME NEW m \in Nat, m \in S  PROVE  m + 1 \in S
  <2> SUFFICES ASSUME m + 1 <= n  PROVE  \E g : Runs(X, x, m + 1, step, g)
    OBVIOUS
  <2>1. PICK g : Runs(X, x, m, step, g)
    BY <1>2
  <2> DEFINE h == [k \in 0..(m + 1) |->
                      IF k = m + 1 THEN step[m + 1][g[m]] ELSE g[k]]
  <2>2. Runs(X, x, m + 1, step, h)
    BY <2>1 DEF Runs
  <2> HIDE DEF h
  <2>3. QED  BY <2>2
<1> HIDE DEF S
<1>3. n \in S
  BY <1>1, <1>2, Induction
<1>4. QED  BY <1>3 DEF S

(* The array of a slice of n checks, how long the slice still is, and      *)
(* whether slicing has not panicked.                                       *)
Slices(n) == [array : [1..n -> Checks], len : 0..n, ok : BOOLEAN]

Whole(s) == [array |-> s, len |-> Len(s), ok |-> TRUE]

(* One round of the loop of Removed.                                       *)
Pass(id, n, k, r) ==
    IF ~r.ok \/ GetID(r.array[k]) # id THEN r
    ELSE IF k > r.len THEN [r EXCEPT !.ok = FALSE]
    ELSE [array |-> [j \in 1..n |-> IF j >= k /\ j < r.len THEN r.array[j + 1]
                                    ELSE r.array[j]],
          len |-> r.len - 1,
          ok |-> TRUE]

LEMMA PassStays ==
    ASSUME NEW id, NEW n \in Nat, NEW k \in 1..n, NEW r \in Slices(n)
    PROVE  Pass(id, n, k, r) \in Slices(n)
<1>1. r.array \in [1..n -> Checks] /\ r.len \in 0..n /\ r.ok \in BOOLEAN
  BY DEF Slices
<1>2. [r EXCEPT !.ok = FALSE] \in Slices(n)
  BY DEF Slices
<1>3. ASSUME ~(k > r.len)
      PROVE  [array |-> [j \in 1..n |->
                           IF j >= k /\ j < r.len THEN r.array[j + 1]
                           ELSE r.array[j]],
              len |-> r.len - 1, ok |-> TRUE] \in Slices(n)
  <2>1. r.len - 1 \in 0..n
    BY <1>1, <1>3
  <2>2. \A j \in 1..n : j < r.len => j + 1 \in 1..n
    BY <1>1
  <2>3. [j \in 1..n |-> IF j >= k /\ j < r.len THEN r.array[j + 1]
                        ELSE r.array[j]] \in [1..n -> Checks]
    BY <1>1, <2>2
  <2>4. QED  BY <2>1, <2>3 DEF Slices
<1>4. QED  BY <1>2, <1>3 DEF Pass

Swept(s, id, g) ==
    /\ g \in [0..Len(s) -> Slices(Len(s))]
    /\ g[0] = Whole(s)
    /\ \A k \in 1..Len(s) : g[k] = Pass(id, Len(s), k, g[k - 1])
    /\ Removed(s, id) = g[Len(s)]

LEMMA RemovedRuns ==
    ASSUME NEW s \in Seq(Checks), NEW id
    PROVE  \E g : Swept(s, id, g)
<1> DEFINE n == Len(s)
           X == Slices(n)
           step == [k \in 1..n |-> [r \in X |-> Pass(id, n, k, r)]]
           sweep[k \in 0..n] ==
               IF k = 0 THEN Whole(s) ELSE Pass(id, n, k, sweep[k - 1])
<1>1. n \in Nat /\ s \in [1..n -> Checks]
  BY LenProperties
<1>2. Whole(s) \in X
  BY <1>1 DEF Slices, Whole
<1>3. step \in [1..n -> [X -> X]]
  <2> HIDE DEF n
  <2>1. QED  BY <1>1, PassStays
<1>4. PICK g : Runs(X, Whole(s), n, step, g)
  <2> HIDE DEF n, X, step
  <2>1. QED  BY <1>1, <1>2, <1>3, LoopRuns
<1>5. ASSUME NEW k \in 1..n
      PROVE  k - 1 \in 0..n /\ g[k] = Pass(id, n, k, g[k - 1])
  <2> HIDE DEF n
  <2>1. k - 1 \in 0..n
    BY <1>1
  <2>2. g[k - 1] \in X /\ g[k] = step[k][g[k - 1]]
    BY <1>4, <2>1 DEF Runs
  <2>3. QED  BY <2>1, <2>2
<1>6. g = [k \in 0..n |->
              IF k = 0 THEN Whole(s) ELSE Pass(id, n, k, g[k - 1])]
  <2> HIDE DEF n, X, step
  <2>1. ASSUME NEW k \in 0..n, k # 0
        PROVE  g[k] = Pass(id, n, k, g[k - 1])
    BY <1>1, <1>5, <2>1
  <2>2. QED  BY <1>4, <2>1 DEF Runs
<1>7. sweep = [k \in 0..n |->
                  IF k = 0 THEN Whole(s) ELSE Pass(id, n, k, sweep[k - 1])]
  <2> HIDE DEF n
  <2>1. QED  BY <1>6
<1>8. Removed(s, id) = sweep[n]
  BY DEF Removed, Pass, Whole
<1> HIDE DEF sweep
<1>9. \A k \in 0..n : sweep[k] \in X
  <2> DEFINE S == {k \in Nat : k <= n => sweep[k] \in X}
  <2> HIDE DEF n, X
  <2>1. 0 \in S
    BY <1>1, <1>2, <1>7
  <2>2. ASSUME NEW k \in Nat, k \in S  PROVE  k + 1 \in S
    <3> SUFFICES ASSUME k + 1 <= n  PROVE  sweep[k + 1] \in X
      OBVIOUS
    <3>1. k + 1 \in 1..n /\ k + 1 \in 0..n /\ k + 1 # 0 /\ (k + 1) - 1 = k
      BY <1>1
    <3>2. sweep[k] \in X
      BY <1>1, <2>2
    <3>3. sweep[k + 1] = Pass(id, n, k + 1, sweep[k])
      BY <1>7, <3>1
    <3>4. QED  BY <1>1, <3>1, <3>2, <3>3, PassStays DEF X
  <2> HIDE DEF S
  <2>3. Nat \subseteq S
    BY <2>1, <2>2, Induction
  <2>4. QED  BY <1>1, <2>3 DEF S
<1>10. Swept(s, id, sweep)
  <2> HIDE DEF n
  <2>1. \A k \in 1..n : sweep[k] = Pass(id, n, k, sweep[k - 1])
    BY <1>1, <1>7
  <2>2. sweep[0] = Whole(s) /\ DOMAIN sweep = 0..n
    BY <1>1, <1>7
  <2>3. sweep \in [0..n -> X]
    BY <1>7, <1>9, <2>2
  <2>4. QED  BY <1>8, <2>1, <2>2, <2>3 DEF Swept, n
<1>11. QED  BY <1>10

(* Whatever checks the pool has, what it keeps is a slice of checks.       *)
LEMMA RemovedStays ==
    ASSUME NEW s \in Seq(Checks), NEW id
    PROVE  /\ Removed(s, id) \in Slices(Len(s))
           /\ SubSeq(Removed(s, id).array, 1, Removed(s, id).len) \in Seq(Checks)
<1>1. PICK g : Swept(s, id, g)
  BY RemovedRuns
<1>2. Len(s) \in Nat
  OBVIOUS
<1>3. Removed(s, id) \in Slices(Len(s))
  BY <1>1, <1>2 DEF Swept
<1> DEFINE r == Removed(s, id)
<1>4. r.array \in [1..Len(s) -> Checks] /\ r.len \in 0..Len(s)
  BY <1>3 DEF Slices
<1> HIDE DEF r
<1>5. \A j \in 1..r.len : r.array[j] \in Checks
  BY <1>2, <1>4
<1>6. SubSeq(r.array, 1, r.len) \in Seq(Checks)
  BY <1>2, <1>4, <1>5, SubSeqProperties
<1>7. QED  BY <1>3, <1>6 DEF r

(* When one check has the id, the loop removes that one and does not slice *)
(* past the end: the last element, which the removal leaves in the array a *)
(* second time, is another one.                                            *)
LEMMA RemovedIsCut ==
    ASSUME NEW s \in Seq(Checks), NEW m \in 1..Len(s), NEW id,
           GetID(s[m]) = id, \A j \in 1..Len(s) : j # m => GetID(s[j]) # id
    PROVE  /\ Removed(s, id).ok
           /\ Cuts(SubSeq(Removed(s, id).array, 1, Removed(s, id).len), s,
                   Len(s), m)
<1> DEFINE n == Len(s)
           cut == [array |-> [j \in 1..n |-> IF j >= m /\ j < n THEN s[j + 1]
                                             ELSE s[j]],
                   len |-> n - 1, ok |-> TRUE]
<1>1. PICK g : Swept(s, id, g)
  BY RemovedRuns
<1>2. n \in Nat /\ m \in 1..n /\ s \in [1..n -> Checks] /\ DOMAIN s = 1..n
  BY LenProperties
<1>3. /\ g[0] = Whole(s)
      /\ \A k \in 1..n : g[k] = Pass(id, n, k, g[k - 1])
      /\ Removed(s, id) = g[n]
  BY <1>1 DEF Swept
<1>4. /\ Whole(s).array = s /\ Whole(s).len = n /\ Whole(s).ok
      /\ \A j \in 1..n : GetID(s[j]) = id <=> j = m
  BY DEF Whole
<1> HIDE DEF n
<1>5. Pass(id, n, m, Whole(s)) = cut
  <2>1. ~(m > n)
    BY <1>2
  <2>2. QED  BY <1>2, <1>4, <2>1 DEF Pass
<1>6. ASSUME NEW k \in 1..n, k < m
      PROVE  Pass(id, n, k, Whole(s)) = Whole(s)
  BY <1>2, <1>4, <1>6 DEF Pass
<1>7. ASSUME NEW k \in 1..n, k > m
      PROVE  Pass(id, n, k, cut) = cut
  <2>1. \E j \in 1..n : j # m /\ cut.array[k] = s[j]
    <3>1. CASE k < n
      <4>1. cut.array[k] = s[k + 1] /\ k + 1 \in 1..n /\ k + 1 # m
        BY <1>2, <1>7, <3>1
      <4>2. QED  BY <4>1
    <3>2. CASE ~(k < n)
      <4>1. cut.array[k] = s[k] /\ k # m
        BY <1>2, <1>7, <3>2
      <4>2. QED  BY <4>1
    <3>3. QED  BY <3>1, <3>2
  <2>2. GetID(cut.array[k]) # id
    BY <1>4, <2>1
  <2> HIDE DEF cut
  <2>3. QED  BY <2>2 DEF Pass
<1> HIDE DEF cut
<1>8. g[n] = cut
  <2> DEFINE S == {k \in Nat : k <= n =>
                      g[k] = IF k < m THEN Whole(s) ELSE cut}
  <2>1. 0 \in S
    BY <1>2, <1>3
  <2>2. ASSUME NEW k \in Nat, k \in S  PROVE  k + 1 \in S
    <3> SUFFICES ASSUME k + 1 <= n
                 PROVE  g[k + 1] = IF k + 1 < m THEN Whole(s) ELSE cut
      OBVIOUS
    <3>1. k + 1 \in 1..n /\ (k + 1) - 1 = k /\ k <= n
      BY <1>2
    <3>2. g[k + 1] = Pass(id, n, k + 1, g[k])
      BY <1>3, <3>1
    <3>3. g[k] = IF k < m THEN Whole(s) ELSE cut
      BY <2>2, <3>1
    <3>4. CASE k + 1 < m
      BY <1>2, <1>6, <3>1, <3>2, <3>3, <3>4
    <3>5. CASE k + 1 = m
      BY <1>2, <1>5, <3>2, <3>3, <3>5
    <3>6. CASE k + 1 > m
      BY <1>2, <1>7, <3>1, <3>2, <3>3, <3>6
    <3>7. QED  BY <1>2, <3>4, <3>5, <3>6
  <2> HIDE DEF S
  <2>3. n \in S
    BY <1>2, <2>1, <2>2, Induction
  <2>4. QED  BY <1>2, <2>3 DEF S
<1>9. cut.ok /\ cut.len = n - 1 /\ cut.array \in [1..n -> Checks]
      /\ \A j \in 1..(n - 1) :
            cut.array[j] = IF j < m THEN s[j] ELSE s[j + 1]
  BY <1>2 DEF cut
<1>10. Cuts(SubSeq(cut.array, 1, cut.len), s, n, m)
  <2> DEFINE t == SubSeq(cut.array, 1, n - 1)
  <2>1. \A j \in 1..(n - 1) : cut.array[j] \in Checks
    BY <1>2, <1>9
  <2>2. n - 1 \in Nat
    BY <1>2
  <2>3. /\ t \in Seq(Checks) /\ Len(t) = n - 1
        /\ \A j \in 1..(n - 1) : t[j] = cut.array[j]
    BY <2>1, <2>2, SubSeqProperties
  <2>4. DOMAIN t = 1..(n - 1)
    BY <2>3, LenProperties
  <2> HIDE DEF t
  <2>5. Cuts(t, s, n, m)
    BY <1>2, <1>9, <2>3, <2>4 DEF Cuts
  <2>6. QED  BY <1>9, <2>5 DEF t
<1>11. QED  BY <1>3, <1>8, <1>9, <1>10 DEF n

-----------------------------------------------------------------------------
(* What the pool counts.                                                   *)

(* The rest of the types, and the channels' capacities.                    *)
Sized ==
    /\ dequeuer \in {"look", "pop", "send", "sleep"}
    /\ pool \in {"select", "forward", "panicked"}
    /\ slot \in {"nil", "open", "awaited"}
    /\ dispatcher \in {"receive", "push", "fail"}
    /\ pending \in Seq(Checks)
    /\ Len(work) <= PoolSize /\ Len(updates) <= PoolSize
    /\ Len(results) <= PoolSize

LEMMA LengthsOf ==
    ASSUME NEW S, NEW s \in Seq(S), NEW n \in Nat, Len(s) <= n
    PROVE  /\ \A x \in S : Len(s) < n => Len(Append(s, x)) <= n
           /\ s # <<>> => Len(Tail(s)) <= n
OBVIOUS

LEMMA SizedStep ==
    ASSUME Held, Sized, [Next]_vars
    PROVE  Sized'
<1> USE PoolAssumption
    DEF Sized, queueVars, callVars, dequeueVars, poolVars, poolSide,
        dispatchVars
<1>1. CASE SendWork
  BY <1>1, LengthsOf DEF SendWork, Held
<1>2. CASE ReceiveWork
  <2>1. Head(work) \in Checks /\ work # <<>>
    BY <1>2, TailElements DEF ReceiveWork, Held
  <2>2. pending' \in Seq(Checks) /\ Len(work') <= PoolSize
    BY <1>2, <2>1, AppendElements, LengthsOf DEF ReceiveWork, Held
  <2>3. QED  BY <1>2, <2>2 DEF ReceiveWork
<1>3. ASSUME NEW i \in Checks, NEW code \in Codes, Check(i, code)
      PROVE  Sized'
  <2>1. Len(updates') <= PoolSize
    BY <1>3, CheckShape, LengthsOf DEF Check, Held
  <2>2. QED  BY <1>3, <2>1 DEF Check
<1>4. CASE ReceiveUpdate
  <2>1. Len(updates') <= PoolSize
    BY <1>4, LengthsOf DEF ReceiveUpdate, Held
  <2>2. QED  BY <1>4, <2>1 DEF ReceiveUpdate
<1>5. CASE Forward
  <2>1. Len(results') <= PoolSize
    BY <1>5, LengthsOf DEF Forward, Held
  <2>2. pending' \in Seq(Checks)
    BY <1>5, RemovedStays DEF Forward
  <2>3. pool' \in {"select", "panicked"}
    BY <1>5 DEF Forward
  <2>4. QED  BY <1>5, <2>1, <2>2, <2>3 DEF Forward
<1>6. CASE ReceiveResult
  <2>1. Len(results') <= PoolSize
    BY <1>6, LengthsOf DEF ReceiveResult, Held
  <2>2. QED  BY <1>6, <2>1 DEF ReceiveResult
<1>7. ASSUME \/ RegisterPush \/ IgnoreFailure \/ SendFailure
             \/ \E u \in Tasks : \/ Register(u) \/ RegisterAgain(u)
                                \/ \E c \in Callers : Unregister(c, u)
             \/ \E c \in Callers : Remove(c)
             \/ \E i \in Checks : Expire(i)
             \/ LookAtQueue \/ PopQueue \/ Wake \/ SlotFree \/ PushResult
             \/ UNCHANGED vars
      PROVE  Sized'
  BY <1>7
  DEF RegisterPush, IgnoreFailure, SendFailure, Register, RegisterAgain,
      Unregister, Remove, Expire, LookAtQueue, PopQueue, Wake, SlotFree,
      PushResult, vars
<1>8. QED
  BY <1>1, <1>2, <1>3, <1>4, <1>5, <1>6, <1>7
  DEF Next, Step, CallerStep, DequeueStep, DispatchStep, Callers

(* With one registration for each task the ids are those of the checks, so *)
(* the pool takes out of pending what it has forwarded and nothing else.   *)
Counted == Once(pending) /\ PendingExact

LEMMA CountedStep ==
    ASSUME MaxChecks = 1, Held, Held', Apart, Sized, Counted, [Next]_vars
    PROVE  Counted' /\ (pool # "panicked" => pool' # "panicked")
<1> USE CheckShape DEF poolVars, poolSide
<1>1. \A i, j \in Checks : GetID(i) = GetID(j) => i = j
  OBVIOUS
<1>2. \A i \in Checks :
         /\ i \in Elements(work) => /\ i \notin checking
                                   /\ i \notin ItemsOf(updates)
                                   /\ i # held.item
         /\ i = held.item => i \notin checking /\ i \notin ItemsOf(updates)
  BY Places DEF Placed, Apart, Disjoint
<1>3. CASE ReceiveWork
  <2> DEFINE x == Head(work)
  <2>1. /\ work # <<>> /\ pending' = Append(pending, x)
        /\ checking' = checking \cup {x} /\ UNCHANGED <<updates, held, pool>>
    BY <1>3 DEF ReceiveWork
  <2>2. x \in Checks /\ x \in Elements(work)
    BY <2>1, TailElements DEF Held
  <2> HIDE DEF x
  <2>3. x \notin Elements(pending)
    BY <1>2, <2>2 DEF Counted, PendingExact
  <2>4. Once(pending') /\ Elements(pending') = Elements(pending) \cup {x}
    BY <2>1, <2>2, <2>3, AppendElements, AppendOnce DEF Counted, Sized
  <2>5. QED  BY <2>1, <2>4 DEF Counted, PendingExact
<1>4. ASSUME NEW i \in Checks, NEW code \in Codes, Check(i, code)
      PROVE  Counted' /\ UNCHANGED pool
  <2> DEFINE o == [item |-> i, code |-> code]
  <2>1. /\ o \in Outcomes /\ o.item = i /\ updates' = Append(updates, o)
        /\ i \in checking /\ checking' = checking \ {i}
        /\ UNCHANGED <<pending, held, pool>>
    BY <1>4 DEF Check
  <2> HIDE DEF o
  <2>2. ItemsOf(updates') = ItemsOf(updates) \cup {i}
    <3>1. Elements(updates') = Elements(updates) \cup {o}
      BY <2>1, AppendElements DEF Held
    <3>2. QED  BY <2>1, <3>1, ItemsAreElements
  <2>3. QED  BY <2>1, <2>2 DEF Counted, PendingExact
<1>5. CASE ReceiveUpdate
  <2>1. /\ updates # <<>> /\ updates' = Tail(updates) /\ held' = Head(updates)
        /\ UNCHANGED <<pending, checking>> /\ pool' = "forward"
        /\ held.item = None
    BY <1>5 DEF ReceiveUpdate, Held
  <2>2. held' \in Outcomes /\ held'.item \in Checks
    BY <2>1, TailElements DEF Held
  <2>3. ItemsOf(updates) = ItemsOf(updates') \cup {held'.item}
    <3>1. Elements(updates) = Elements(updates') \cup {held'}
      BY <2>1, TailElements DEF Held
    <3>2. QED  BY <3>1, ItemsAreElements
  <2>4. {held'.item} \ {None} = {held'.item} /\ {held.item} \ {None} = {}
    BY <2>1, <2>2
  <2>5. QED  BY <2>1, <2>3, <2>4 DEF Counted, PendingExact
<1>6. CASE Forward
  <2> DEFINE i == held.item
             r == Removed(pending, GetID(i))
  <2>1. /\ held \in Outcomes /\ i \in Checks /\ held'.item = None
        /\ UNCHANGED <<checking, updates>>
        /\ pending' = SubSeq(r.array, 1, r.len)
        /\ pool' = IF r.ok THEN "select" ELSE "panicked"
    BY <1>6 DEF Forward, Held
  <2>2. i \in Elements(pending)
    BY <2>1 DEF Counted, PendingExact
  <2>3. Len(pending) \in Nat /\ DOMAIN pending = 1..Len(pending)
        /\ \A j \in 1..Len(pending) : pending[j] \in Checks
    BY DEF Sized
  <2>4. PICK m \in 1..Len(pending) : pending[m] = i
    BY <2>2, <2>3 DEF Elements
  <2> HIDE DEF i
  <2>5. /\ GetID(pending[m]) = GetID(i)
        /\ \A j \in 1..Len(pending) : j # m => GetID(pending[j]) # GetID(i)
    BY <1>1, <2>1, <2>3, <2>4 DEF Counted, Once
  <2>6. r.ok /\ Cuts(pending', pending, Len(pending), m)
    <3>1. /\ r.ok
          /\ Cuts(SubSeq(r.array, 1, r.len), pending, Len(pending), m)
      BY <2>5, RemovedIsCut DEF Sized
    <3>2. QED  BY <2>1, <3>1
  <2>7. /\ Elements(pending') \cup {i} = Elements(pending)
        /\ Once(pending') /\ i \notin Elements(pending')
    BY <2>3, <2>4, <2>6, CutKeeps DEF Counted
  <2>8. /\ Elements(pending) = checking \cup ItemsOf(updates) \cup {i}
        /\ i \notin checking /\ i \notin ItemsOf(updates)
    BY <1>2, <2>1 DEF Counted, PendingExact, i
  <2>9. Elements(pending') = checking' \cup ItemsOf(updates')
                               \cup ({held'.item} \ {None})
    <3>1. ItemsOf(updates') = ItemsOf(updates)
      BY <2>1
    <3>2. {held'.item} \ {None} = {}
      BY <2>1
    <3>3. QED  BY <2>1, <2>7, <2>8, <3>1, <3>2
  <2>10. QED  BY <2>1, <2>6, <2>7, <2>9 DEF Counted, PendingExact
<1>7. ASSUME UNCHANGED <<pending, checking, updates, held, pool>>
      PROVE  Counted'
  BY <1>7 DEF Counted, PendingExact
<1>8. ASSUME \/ RegisterPush \/ IgnoreFailure \/ SendFailure
             \/ \E u \in Tasks : \/ Register(u) \/ RegisterAgain(u)
                                \/ \E c \in Callers : Unregister(c, u)
             \/ \E c \in Callers : Remove(c)
             \/ \E j \in Checks : Expire(j)
             \/ LookAtQueue \/ PopQueue \/ Wake \/ SendWork \/ SlotFree
             \/ ReceiveResult \/ PushResult \/ UNCHANGED vars
      PROVE  UNCHANGED <<pending, checking, updates, held, pool>>
  BY <1>8
  DEF RegisterPush, IgnoreFailure, SendFailure, Register, RegisterAgain,
      Unregister, Remove, Expire, LookAtQueue, PopQueue, Wake, SendWork,
      SlotFree, ReceiveResult, PushResult, vars
<1>9. QED
  BY <1>3, <1>4, <1>5, <1>6, <1>7, <1>8
  DEF Next, Step, CallerStep, DequeueStep, DispatchStep, Callers

-----------------------------------------------------------------------------
(* The theorems.                                                           *)

LEMMA AllMadeInit == Init => AllMade /\ Unremoved
<1> SUFFICES ASSUME Init
             PROVE  AllMade /\ Unremoved
  OBVIOUS
<1>1. \A i \in Checks : ~On(i)
  BY CheckShape DEF Init, On, Elements, ItemsOf, Callers
<1>2. QED  BY <1>1 DEF Init, AllMade, Unremoved, Callers

LEMMA HeldInvariant == Spec => [](Held /\ AllMade)
<1>1. Held /\ AllMade /\ [Next]_vars => (Held /\ AllMade)'
  BY HeldStep, AllMadeStep
<1>2. QED  BY <1>1, HeldInit, AllMadeInit, PTL DEF Spec

(* A check that is on its way leaves it in healthCheckQueue.Remove alone,  *)
(* under the id of its task: dequeueLoop, workerPool, the workers and      *)
(* dispatchResultsLoop hand it on, whatever Register and Unregister do.    *)
THEOREM LeavesByRemove == Spec => LeavesOnlyFromQueue
<1> DEFINE Only == \A i \in Checks : OnCircle(i) /\ ~OnCircle(i)' =>
                      /\ i \in waiting \cup Elements(due)
                      /\ \E c \in Callers : call[c] = "remove" /\ arg[c] = GetID(i)
<1>1. Held /\ Held' /\ [Next]_vars => Only
  <2> SUFFICES ASSUME Held, Held', [Next]_vars, NEW i \in Checks,
                      OnCircle(i), ~OnCircle(i)'
               PROVE  /\ i \in waiting \cup Elements(due)
                      /\ \E c \in Callers : call[c] = "remove" /\ arg[c] = GetID(i)
    OBVIOUS
  <2>1. On(i)
    BY OnIsOnCircle
  <2>2. ~On(i)'
    BY OnIsOnCircleNext
  <2>3. ~Comes(i)
    <3> SUFFICES ASSUME NEW t \in Tasks, Register(t), i = <<t, made[t] + 1>>
                 PROVE  FALSE
      BY DEF Comes
    <3>1. /\ call'["driver"] = "push" /\ arg'["driver"] = t
          /\ made'[t] = made[t] + 1
      BY DEF Register, Calls, Held, Callers
    <3>2. QED  BY <2>2, <3>1 DEF On
  <2>4. Leaves(i)
    BY <2>1, <2>2, <2>3, OnStep
  <2>5. QED  BY <2>4 DEF Leaves, Remove
<1>2. QED  BY <1>1, HeldInvariant, PTL DEF Spec, LeavesOnlyFromQueue

(* When every task registers once, the check of a registered task is never *)
(* lost: whoever removes it has unregistered the task before.              *)
THEOREM RegisteredIsOnCircle ==
    ASSUME MaxChecks = 1
    PROVE  Spec => []NeverLost
<1>1. /\ Held /\ Held' /\ AllMade /\ AllMade' /\ Unremoved /\ [Next]_vars
        => Unremoved'
  BY UnremovedStep
<1>2. Held /\ Unremoved => NeverLost
  <2> SUFFICES ASSUME Held, Unremoved, NEW t \in Tasks, register[t] # None
               PROVE  OnCircle(register[t])
    BY DEF NeverLost
  <2>1. register[t] \in Checks /\ On(register[t])
    BY DEF Held, Unremoved
  <2>2. QED  BY <2>1, OnIsOnCircle
<1>3. QED  BY <1>1, <1>2, AllMadeInit, HeldInvariant, PTL DEF Spec

LEMMA ApartInit == Init => Apart /\ Sized /\ Counted
<1> SUFFICES ASSUME Init
             PROVE  Apart /\ Sized /\ Counted
  OBVIOUS
<1>1. Once(<<>>) /\ Once(Items(<<>>)) /\ Elements(<<>>) = {} /\ ItemsOf(<<>>) = {}
  BY DEF Once, Items, Elements, ItemsOf
<1>2. Pushed = {} /\ Dispatched = {}
  BY DEF Init, Pushed, Dispatched
<1>3. \A p \in 1..10 : \A i \in Checks : i \notin Holders[p]
  <2>1. \A i \in Checks : ~OnCircle(i)
    <3>1. \A i \in Checks : ~On(i)
      BY CheckShape DEF Init, On, Elements, ItemsOf, Callers
    <3>2. QED  BY <3>1, HeldInit, OnIsOnCircle
  <2>2. QED  BY <2>1, Places DEF OnCircle, Placed
<1>4. Apart
  BY <1>1, <1>3 DEF Apart, Disjoint, Init
<1>5. Sized
  BY PoolAssumption DEF Sized, Init
<1>6. Counted
  BY <1>1, CheckShape DEF Counted, PendingExact, Init
<1>7. QED  BY <1>4, <1>5, <1>6

LEMMA ApartInvariant == Spec => [](Held /\ Apart /\ Sized)
<1>1. Held /\ Held' /\ AllMade /\ Apart /\ Sized /\ [Next]_vars
        => Apart' /\ Sized'
  BY ApartStep, SizedStep
<1>2. QED  BY <1>1, ApartInit, HeldInvariant, PTL DEF Spec

(* The state stays well typed, however often tasks register: the channels  *)
(* of workerPool stay within their capacity, and pending is a slice of     *)
(* checks whatever the loop that shortens it while it ranges over it does. *)
THEOREM TypeCorrect == Spec => []TypeOK
<1>1. Held /\ Sized => TypeOK
  BY CheckShape DEF Held, Sized, TypeOK
<1>2. QED  BY <1>1, ApartInvariant, PTL

(* What NeverTwice says but for pending, the slice of the pool.            *)
InOnePlace ==
    /\ \A p, q \in DOMAIN Holders :
          p # q => Holders[p] \cap Holders[q] \subseteq {None}
    /\ Distinct(due) /\ Distinct(work)

(* A check is in one place only: in one goroutine's hands, in one channel, *)
(* or in the queue, and once.  It holds for any tasks and pool, also when  *)
(* tasks register again: register makes a check, all else hands it on.     *)
THEOREM OnePlace == Spec => []InOnePlace
<1>1. Held /\ Apart /\ Sized => InOnePlace
  <2> SUFFICES ASSUME Held, Apart, Sized
               PROVE  InOnePlace
    OBVIOUS
  <2>1. Distinct(due) /\ Distinct(work)
    BY OnceIsDistinct DEF Held, Apart, Sized
  <2>2. \A p \in 1..10 : \A x \in Holders[p] : x \in Checks \cup {None}
    <3>1. /\ Pushed \subseteq Checks /\ Dispatched \subseteq Checks
          /\ waiting \subseteq Checks /\ checking \subseteq Checks
          /\ {hand} \subseteq Checks \cup {None}
          /\ {held.item} \subseteq Checks \cup {None}
      BY CheckShape, PushedIs, DispatchedIs, ChecksAssumption DEF Held, Callers
    <3>2. /\ Elements(due) \subseteq Checks /\ Elements(work) \subseteq Checks
          /\ ItemsOf(updates) \subseteq Checks /\ ItemsOf(results) \subseteq Checks
      <4>1. due \in Seq(Checks) /\ work \in Seq(Checks)
        BY DEF Held
      <4>2. updates \in Seq(Outcomes) /\ results \in Seq(Outcomes)
        BY DEF Held
      <4>3. \A o \in Outcomes : o.item \in Checks
        BY CheckShape
      <4>4. Elements(due) \subseteq Checks /\ Elements(work) \subseteq Checks
        BY <4>1 DEF Elements
      <4>5. ItemsOf(updates) \subseteq Checks /\ ItemsOf(results) \subseteq Checks
        BY <4>2, <4>3 DEF ItemsOf
      <4>6. QED  BY <4>4, <4>5
    <3>3. /\ Holders[1] \subseteq Checks \cup {None}
          /\ Holders[2] \subseteq Checks \cup {None}
          /\ Holders[3] \subseteq Checks \cup {None}
          /\ Holders[4] \subseteq Checks \cup {None}
          /\ Holders[5] \subseteq Checks \cup {None}
          /\ Holders[6] \subseteq Checks \cup {None}
          /\ Holders[7] \subseteq Checks \cup {None}
          /\ Holders[8] \subseteq Checks \cup {None}
          /\ Holders[9] \subseteq Checks \cup {None}
          /\ Holders[10] \subseteq Checks \cup {None}
      BY <3>1, <3>2, Places DEF Placed
    <3>4. ASSUME NEW p \in 1..10
          PROVE  Holders[p] \subseteq Checks \cup {None}
      <4>1. \/ p = 1 \/ p = 2 \/ p = 3 \/ p = 4 \/ p = 5
            \/ p = 6 \/ p = 7 \/ p = 8 \/ p = 9 \/ p = 10
        OBVIOUS
      <4>2. QED  BY <3>3, <4>1
    <3>5. QED  BY <3>4
  <2>3. \A p, q \in 1..10 : p # q => Holders[p] \cap Holders[q] \subseteq {None}
    BY <2>2 DEF Apart, Disjoint
  <2>4. QED  BY <2>1, <2>3, Places DEF InOnePlace, Placed
<1>2. QED  BY <1>1, ApartInvariant, PTL

(* When every task registers once, a check is also only once in pending.   *)
THEOREM OneHolder ==
    ASSUME MaxChecks = 1
    PROVE  Spec => []NeverTwice
<1>1. Held /\ Held' /\ Apart /\ Sized /\ Counted /\ [Next]_vars => Counted'
  BY CountedStep
<1>2. Held /\ Sized /\ Counted => Distinct(pending)
  BY OnceIsDistinct DEF Held, Sized, Counted
<1>3. InOnePlace /\ Distinct(pending) => NeverTwice
  BY DEF InOnePlace, NeverTwice
<1>4. QED  BY <1>1, <1>2, <1>3, OnePlace, ApartInit, ApartInvariant, PTL DEF Spec

(* When every task registers once, the pool's loop takes exactly the check *)
(* out of pending that it forwards, although it shifts the array it ranges *)
(* over: pending is what the workers run and the pool has not forwarded.   *)
THEOREM PendingIsExact ==
    ASSUME MaxChecks = 1
    PROVE  Spec => []PendingExact
<1>1. Held /\ Held' /\ Apart /\ Sized /\ Counted /\ [Next]_vars => Counted'
  BY CountedStep
<1>2. Counted => PendingExact
  BY DEF Counted
<1>3. QED  BY <1>1, <1>2, ApartInit, ApartInvariant, PTL DEF Spec

(* It does not panic either: only a task that registers again can bring    *)
(* two checks with one id into pending.                                    *)
THEOREM PoolSurvivesOnce ==
    ASSUME MaxChecks = 1
    PROVE  Spec => []PoolSurvives
<1>1. /\ Held /\ Held' /\ Apart /\ Sized /\ Counted /\ PoolSurvives /\ [Next]_vars
        => Counted' /\ PoolSurvives'
  BY CountedStep DEF PoolSurvives
<1>2. Init => PoolSurvives
  BY DEF Init, PoolSurvives
<1>3. QED  BY <1>1, <1>2, ApartInit, ApartInvariant, PTL DEF Spec

=============================================================================
