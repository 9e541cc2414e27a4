-------------------------- MODULE TaskQueueProofs --------------------------
(***************************************************************************)
(* Theorems about the task queue, for any items and manifests and a queue  *)
(* of any length: the sifting of container/heap ends with a heap again,    *)
(* and the heap with its positions implements the abstract queue.          *)
(***************************************************************************)
EXTENDS TaskQueue, WellFoundedInduction, TLAPS

-----------------------------------------------------------------------------
(* Loops.                                                                  *)

(* Induction, on a set in place of a predicate: if some number were not in *)
(* S, there would be a smallest one.                                       *)
LEMMA Induction ==
    ASSUME NEW S, 0 \in S, \A n \in Nat : n \in S => n + 1 \in S
    PROVE  Nat \subseteq S
<1> DEFINE T == Nat \ S
<1>1. SUFFICES ASSUME T # {} PROVE FALSE
  OBVIOUS
<1>2. PICK m \in T : \A y \in T : ~(<<y, m>> \in OpToRel(<, Nat))
  BY <1>1, NatLessThanWellFounded, WFMin
<1>3. m # 0 /\ m - 1 \in Nat /\ m - 1 < m
  OBVIOUS
<1>4. m - 1 \notin T
  BY <1>2, <1>3 DEF OpToRel
<1>5. QED  BY <1>3, <1>4

(* The first n rounds of a loop on states X that starts in x.              *)
Rounds(X, x, round, n, g) ==
    /\ g \in [0..n -> X]
    /\ g[0] = x
    /\ \A k \in 0..(n - 1) : g[k + 1] = round[g[k]]

(* A loop has a course of any length, and only one.                        *)
LEMMA RoundsExist ==
    ASSUME NEW X, NEW x \in X, NEW round \in [X -> X], NEW n \in Nat
    PROVE  \E g : Rounds(X, x, round, n, g)
<1> DEFINE S == {k \in Nat : \E g : Rounds(X, x, round, k, g)}
<1>1. 0 \in S
  <2>1. Rounds(X, x, round, 0, [k \in 0..0 |-> x])
    BY DEF Rounds
  <2>2. QED  BY <2>1
<1>2. ASSUME NEW k \in Nat, k \in S  PROVE  k + 1 \in S
  <2>1. PICK g : Rounds(X, x, round, k, g)
    BY <1>2
  <2>2. DEFINE h == [j \in 0..(k + 1) |->
                        IF j = k + 1 THEN round[g[k]] ELSE g[j]]
  <2>3. Rounds(X, x, round, k + 1, h)
    BY <2>1 DEF Rounds
  <2> HIDE DEF h
  <2>4. QED  BY <2>3
<1> HIDE DEF S
<1>3. Nat \subseteq S
  BY <1>1, <1>2, Induction
<1>4. QED  BY <1>3 DEF S

LEMMA RoundsAgree ==
    ASSUME NEW X, NEW x, NEW round, NEW m \in Nat, NEW n \in Nat, m <= n,
           NEW g, NEW h, Rounds(X, x, round, m, g), Rounds(X, x, round, n, h)
    PROVE  g[m] = h[m]
<1> DEFINE S == {k \in Nat : k <= m => g[k] = h[k]}
<1>1. 0 \in S
  BY DEF Rounds
<1>2. ASSUME NEW k \in Nat, k \in S  PROVE  k + 1 \in S
  BY <1>2 DEF Rounds
<1> HIDE DEF S
<1>3. Nat \subseteq S
  BY <1>1, <1>2, Induction
<1>4. QED  BY <1>3 DEF S

(* The function that a loop's recursive definition means exists.           *)
Course(X, x, round, f) ==
    f \in [Nat -> X] /\ f[0] = x /\ \A k \in Nat : f[k + 1] = round[f[k]]

LEMMA LoopExists ==
    ASSUME NEW X, NEW x \in X, NEW round \in [X -> X]
    PROVE  \E f : Course(X, x, round, f)
<1> DEFINE course(n) == CHOOSE g : Rounds(X, x, round, n, g)
           f == [n \in Nat |-> course(n)[n]]
<1>1. \A n \in Nat : Rounds(X, x, round, n, course(n))
  BY RoundsExist
<1> HIDE DEF course
<1>2. f \in [Nat -> X] /\ f[0] = x
  BY <1>1 DEF Rounds
<1>3. ASSUME NEW k \in Nat  PROVE  f[k + 1] = round[f[k]]
  <2>1. course(k + 1)[k + 1] = round[course(k + 1)[k]]
    BY <1>1 DEF Rounds
  <2>2. course(k)[k] = course(k + 1)[k]
    BY <1>1, RoundsAgree
  <2>3. QED  BY <2>1, <2>2
<1> HIDE DEF f
<1>4. Course(X, x, round, f)
  BY <1>2, <1>3 DEF Course
<1>5. QED  BY <1>4

(* f is the course of a loop whose rounds stay in X and lower a measure,   *)
(* unless they change nothing.                                             *)
Loop(X, x, round, m, measure, f) ==
    /\ x \in X /\ round \in [X -> X]
    /\ m \in Nat /\ measure \in [X -> 0..m]
    /\ \A s \in X : round[s] = s \/ measure[round[s]] < measure[s]
    /\ f[0] = x
    /\ \A k \in Nat : f[k] \in X => f[k + 1] = round[f[k]]

(* It has come to its end after as many rounds as the measure allows.      *)
LEMMA LoopEnds ==
    ASSUME NEW X, NEW x, NEW round, NEW m, NEW measure, NEW f,
           Loop(X, x, round, m, measure, f)
    PROVE  f[m] \in X /\ round[f[m]] = f[m]
<1> DEFINE S == {k \in Nat : /\ f[k] \in X
                             /\ round[f[k]] = f[k] \/ measure[f[k]] + k <= m}
<1> USE DEF Loop
<1>1. 0 \in S
  OBVIOUS
<1>2. ASSUME NEW k \in Nat, k \in S  PROVE  k + 1 \in S
  <2>1. f[k + 1] = round[f[k]] /\ f[k] \in X
    BY <1>2
  <2>2. f[k + 1] \in X
    BY <2>1
  <2>3. measure[f[k]] \in 0..m /\ measure[f[k + 1]] \in 0..m
    BY <2>1, <2>2
  <2>4. CASE round[f[k]] = f[k]
    BY <2>1, <2>2, <2>4
  <2>5. CASE round[f[k]] # f[k]
    <3>1. measure[f[k + 1]] < measure[f[k]] /\ measure[f[k]] + k <= m
      BY <1>2, <2>1, <2>5
    <3>2. QED  BY <2>2, <2>3, <3>1
  <2>6. QED  BY <2>4, <2>5
<1> HIDE DEF S
<1>3. m \in S
  BY <1>1, <1>2, Induction
<1>4. f[m] \in X /\ (round[f[m]] = f[m] \/ measure[f[m]] + m <= m)
  BY <1>3 DEF S
<1>5. measure[round[f[m]]] \in 0..m /\ measure[f[m]] \in 0..m
  BY <1>4
<1>6. QED  BY <1>4, <1>5

-----------------------------------------------------------------------------
(* Heaps.                                                                  *)

Heaps == [pq : Seq(Items), position : [Items -> Int],
          since : [Items -> Int], app : [Items -> Apps]]

(* Every item of the array knows where it is, and the others that they are *)
(* not in it.                                                              *)
Exact(h) ==
    /\ \A k \in 1..Len(h.pq) : h.position[h.pq[k]] = k - 1
    /\ \A i \in Items : i \notin ToSet(h.pq) => h.position[i] = -1

(* The heaps that sifting within the first n elements can make of h.       *)
Rearranged(h, n) ==
    {g \in Heaps :
        /\ Exact(g)
        /\ g.since = h.since /\ g.app = h.app
        /\ Len(g.pq) = Len(h.pq) /\ ToSet(g.pq) = ToSet(h.pq)
        /\ \A k \in (n + 1)..Len(h.pq) : g.pq[k] = h.pq[k]}

Ordered(h, n) == \A k \in 2..n : ~Less(h, k, k \div 2)

LEMMA ElementsOf ==
    ASSUME NEW q \in Seq(Items)
    PROVE  /\ Len(q) \in Nat
           /\ \A k \in 1..Len(q) : q[k] \in Items /\ q[k] \in ToSet(q)
           /\ \A x \in ToSet(q) : \E k \in 1..Len(q) : q[k] = x
           /\ ToSet(q) \subseteq Items
BY DEF ToSet

(* Before is a strict weak order.                                          *)
LEMMA BeforeOrder ==
    ASSUME NEW h \in Heaps, NEW x \in Items, NEW y \in Items
    PROVE  /\ ~(Before(h, x, y) /\ Before(h, y, x))
           /\ \A z \in Items : ~Before(h, x, y) /\ ~Before(h, y, z)
                                => ~Before(h, x, z)
           /\ \A z \in Items : Before(h, x, y) /\ Before(h, y, z)
                                => Before(h, x, z)
<1>1. \A i \in Items : /\ h.app[i].cpus \in Int /\ h.app[i].mem \in Int
                        /\ h.since[i] \in Int
  <2>1. \A m \in Apps : m.cpus \in Int /\ m.mem \in Int
    BY QueueAssumption
  <2>2. QED  BY <2>1 DEF Heaps
<1>2. QED  BY <1>1 DEF Before

(* Before looks at an item's manifest and time only.                       *)
LEMMA BeforeKept ==
    ASSUME NEW h, NEW g, g.app = h.app, g.since = h.since, NEW x, NEW y
    PROVE  Before(g, x, y) <=> Before(h, x, y)
BY DEF Before

(* What a function and a heap are after two updates.                       *)
LEMMA TwoUpdates ==
    ASSUME NEW A, NEW B, NEW f \in [A -> B], NEW a \in A, NEW b \in A,
           NEW x \in B, NEW y \in B,
           NEW g, g = [f EXCEPT ![a] = x, ![b] = y]
    PROVE  /\ g \in [A -> B]
           /\ g[b] = y
           /\ a # b => g[a] = x
           /\ \A c \in A : c # a /\ c # b => g[c] = f[c]
<1>1. PICK e : e = [f EXCEPT ![a] = x]
  OBVIOUS
<1>2. g = [e EXCEPT ![b] = y]
  BY <1>1, Zenon
<1>3. e \in [A -> B] /\ e[a] = x /\ \A c \in A : c # a => e[c] = f[c]
  BY <1>1
<1>4. QED  BY <1>2, <1>3

LEMMA HeapFields ==
    ASSUME NEW h \in Heaps, NEW q, NEW pos
    PROVE  [h EXCEPT !.pq = q, !.position = pos]
               = [pq |-> q, position |-> pos, since |-> h.since, app |-> h.app]
<1>1. PICK e : e = [h EXCEPT !.pq = q]
  OBVIOUS
<1>2. [h EXCEPT !.pq = q, !.position = pos] = [e EXCEPT !.position = pos]
  BY <1>1, Zenon
<1>3. e = [pq |-> q, position |-> h.position, since |-> h.since,
           app |-> h.app]
  BY <1>1 DEF Heaps
<1>4. QED  BY <1>2, <1>3

(* Swap exchanges two elements, with their positions.                      *)
LEMMA SwapExchanges ==
    ASSUME NEW h \in Heaps, Exact(h),
           NEW i \in 1..Len(h.pq), NEW j \in 1..Len(h.pq)
    PROVE  LET g == Swap(h, i, j)
           IN  /\ g \in Heaps /\ Exact(g)
               /\ g.since = h.since /\ g.app = h.app
               /\ Len(g.pq) = Len(h.pq) /\ ToSet(g.pq) = ToSet(h.pq)
               /\ g.pq[i] = h.pq[j] /\ g.pq[j] = h.pq[i]
               /\ \A k \in 1..Len(h.pq) :
                     k # i /\ k # j => g.pq[k] = h.pq[k]
<1> DEFINE l == h.pq[i]
           r == h.pq[j]
           q == [h.pq EXCEPT ![i] = r, ![j] = l]
           pos == [[h.position EXCEPT ![r] = i - 1] EXCEPT ![l] = j - 1]
           g == Swap(h, i, j)
<1>1. h.pq \in Seq(Items) /\ h.position \in [Items -> Int]
  BY DEF Heaps
<1>2. l \in Items /\ r \in Items /\ Len(h.pq) \in Nat
  BY <1>1
<1>3. /\ q \in [1..Len(h.pq) -> Items]
      /\ q[j] = l /\ (i # j => q[i] = r)
      /\ \A k \in 1..Len(h.pq) : k # i /\ k # j => q[k] = h.pq[k]
  <2>1. h.pq \in [1..Len(h.pq) -> Items]
    BY <1>1
  <2>2. QED  BY <2>1, <1>2, TwoUpdates
<1>4. /\ pos \in [Items -> Int]
      /\ pos[l] = j - 1 /\ (l # r => pos[r] = i - 1)
      /\ \A x \in Items : x # l /\ x # r => pos[x] = h.position[x]
  <2>1. i - 1 \in Int /\ j - 1 \in Int
    BY <1>2
  <2>2. QED  BY <2>1, <1>1, <1>2, TwoUpdates
<1> HIDE DEF q, pos
<1>5. g = [pq |-> q, position |-> pos, since |-> h.since, app |-> h.app]
  <2>1. g = [h EXCEPT !.pq = q, !.position = pos]
    BY Zenon DEF Swap, q, pos
  <2>2. QED  BY <2>1, HeapFields
<1>6. q \in Seq(Items) /\ Len(q) = Len(h.pq)
  BY <1>2, <1>3
<1>7. q[i] = r
  BY <1>3
<1>8. ToSet(q) = ToSet(h.pq)
  <2>1. ASSUME NEW x \in ToSet(h.pq)  PROVE  x \in ToSet(q)
    <3>1. PICK k \in 1..Len(h.pq) : h.pq[k] = x
      BY <1>1, ElementsOf
    <3>2. \E k2 \in 1..Len(q) : q[k2] = x
      BY <1>3, <1>6, <1>7, <3>1
    <3>3. QED  BY <1>6, <3>2, ElementsOf
  <2>2. ASSUME NEW x \in ToSet(q)  PROVE  x \in ToSet(h.pq)
    <3>1. PICK k \in 1..Len(q) : q[k] = x
      BY <1>6, ElementsOf
    <3>2. \E k2 \in 1..Len(h.pq) : h.pq[k2] = x
      BY <1>3, <1>6, <1>7, <3>1
    <3>3. QED  BY <1>1, <3>2, ElementsOf
  <2>3. QED  BY <2>1, <2>2
<1> HIDE DEF g
<1>9. \A k \in 1..Len(q) : pos[q[k]] = k - 1
  <2>1. \A k \in 1..Len(h.pq) : h.pq[k] \in Items
                                /\ h.position[h.pq[k]] = k - 1
    BY <1>1 DEF Exact
  <2>2. \A k \in 1..Len(h.pq) : k # i => h.pq[k] # l
    BY <2>1, <1>2
  <2>3. \A k \in 1..Len(h.pq) : k # j => h.pq[k] # r
    BY <2>1, <1>2
  <2>4. ASSUME NEW k \in 1..Len(h.pq)  PROVE  pos[q[k]] = k - 1
    <3>1. CASE k = j
      BY <3>1, <1>3, <1>4
    <3>2. CASE k = i /\ k # j
      BY <3>2, <1>2, <1>3, <1>4, <1>7, <2>2
    <3>3. CASE k # i /\ k # j
      BY <3>3, <1>3, <1>4, <2>1, <2>2, <2>3
    <3>4. QED  BY <3>1, <3>2, <3>3
  <2>5. QED  BY <1>6, <2>4
<1>10. \A x \in Items : x \notin ToSet(q) => pos[x] = -1
  <2>1. l \in ToSet(h.pq) /\ r \in ToSet(h.pq)
    BY <1>1, ElementsOf
  <2>2. QED  BY <1>1, <1>2, <1>4, <1>8, <2>1 DEF Exact
<1>11. g \in Heaps
  BY <1>1, <1>4, <1>5, <1>6 DEF Heaps
<1>12. QED  BY <1>3, <1>5, <1>6, <1>7, <1>8, <1>9, <1>10, <1>11 DEF Exact, g

LEMMA RearrangedTwice ==
    ASSUME NEW h \in Heaps, NEW n \in Nat, NEW g \in Rearranged(h, n),
           NEW i \in 1..n, NEW j \in 1..n, n <= Len(h.pq)
    PROVE  Swap(g, i, j) \in Rearranged(h, n)
<1>1. /\ g \in Heaps /\ Exact(g)
      /\ g.since = h.since /\ g.app = h.app
      /\ Len(g.pq) = Len(h.pq) /\ ToSet(g.pq) = ToSet(h.pq)
      /\ \A k \in (n + 1)..Len(h.pq) : g.pq[k] = h.pq[k]
  BY DEF Rearranged
<1>2. Len(h.pq) \in Nat
  BY DEF Heaps
<1>3. i \in 1..Len(g.pq) /\ j \in 1..Len(g.pq)
  BY <1>1, <1>2
<1> DEFINE e == Swap(g, i, j)
<1>4. /\ e \in Heaps /\ Exact(e)
      /\ e.since = g.since /\ e.app = g.app
      /\ Len(e.pq) = Len(g.pq) /\ ToSet(e.pq) = ToSet(g.pq)
      /\ \A k \in 1..Len(g.pq) : k # i /\ k # j => e.pq[k] = g.pq[k]
  BY <1>1, <1>3, SwapExchanges
<1> HIDE DEF e
<1>5. \A k \in (n + 1)..Len(h.pq) : e.pq[k] = h.pq[k]
  BY <1>1, <1>2, <1>4
<1>6. e \in Rearranged(h, n)
  BY <1>1, <1>4, <1>5 DEF Rearranged
<1>7. QED  BY <1>6 DEF e

(* While up has the element at index at in its hands, nothing else is out  *)
(* of order: not even when the element is taken out from between its       *)
(* parent and its children.                                                *)
AllButUp(h, at, n) ==
    /\ \A k \in 2..n : k # at => ~Less(h, k, k \div 2)
    /\ \A k \in 2..n : k \div 2 = at /\ at >= 2 => ~Less(h, k, at \div 2)

LEMMA UpMovesOn ==
    ASSUME NEW h \in Heaps, Exact(h), NEW n \in Nat, n <= Len(h.pq),
           NEW at \in 2..n, AllButUp(h, at, n), Less(h, at, at \div 2)
    PROVE  AllButUp(Swap(h, at, at \div 2), at \div 2, n)
<1> DEFINE up == at \div 2
           g == Swap(h, at, up)
           B(i, j) == Before(h, h.pq[i], h.pq[j])
<1>1. up \in 1..n /\ up < at
  OBVIOUS
<1>2. Len(h.pq) \in Nat /\ \A k \in 1..n : k \in 1..Len(h.pq) /\ h.pq[k] \in Items
  BY DEF Heaps
<1> HIDE DEF up
<1>3. /\ g \in Heaps /\ g.since = h.since /\ g.app = h.app
      /\ g.pq[at] = h.pq[up] /\ g.pq[up] = h.pq[at]
      /\ \A k \in 1..n : k # at /\ k # up => g.pq[k] = h.pq[k]
  <2>1. at \in 1..Len(h.pq) /\ up \in 1..Len(h.pq)
    BY <1>1, <1>2
  <2>2. /\ g \in Heaps /\ g.since = h.since /\ g.app = h.app
        /\ g.pq[at] = h.pq[up] /\ g.pq[up] = h.pq[at]
        /\ \A k \in 1..Len(h.pq) : k # at /\ k # up => g.pq[k] = h.pq[k]
    BY <2>1, SwapExchanges
  <2> HIDE DEF g
  <2>3. QED  BY <1>2, <2>2
<1> HIDE DEF g
<1>4. \A i, j \in 1..n : Less(g, i, j) <=> Before(h, g.pq[i], g.pq[j])
  BY <1>3, BeforeKept DEF Less
<1>5. B(at, up)
  BY DEF Less, up
<1>6. \A i, j, k \in 1..n : /\ ~(B(i, j) /\ B(j, i))
                            /\ ~B(i, j) /\ ~B(j, k) => ~B(i, k)
                            /\ B(i, j) /\ B(j, k) => B(i, k)
  BY <1>2, BeforeOrder
<1>7. /\ \A k \in 2..n : k # at => ~B(k, k \div 2)
      /\ \A k \in 2..n : k \div 2 = at => ~B(k, up)
  BY DEF AllButUp, Less, up
<1> HIDE DEF B
<1>8. ASSUME NEW k \in 2..n, k # up  PROVE  ~Less(g, k, k \div 2)
  <2>1. k \div 2 \in 1..n /\ k \div 2 < k
    OBVIOUS
  <2>2. CASE k = at
    <3>1. ~B(up, at)
      BY <1>1, <1>5, <1>6
    <3>2. QED  BY <2>2, <3>1, <1>1, <1>3, <1>4 DEF B, up
  <2>3. CASE k # at /\ k \div 2 = at
    <3>1. ~B(k, up)
      BY <1>7, <2>3
    <3>2. QED  BY <2>1, <2>3, <3>1, <1>1, <1>3, <1>4, k # up DEF B
  <2>4. CASE k # at /\ k \div 2 = up
    <3>1. ~B(k, up)
      BY <1>7, <2>4
    <3>2. ~B(k, at)
      BY <1>1, <1>5, <1>6, <3>1
    <3>3. QED  BY <2>1, <2>4, <3>2, <1>1, <1>3, <1>4, <1>8 DEF B
  <2>5. CASE k # at /\ k \div 2 # at /\ k \div 2 # up
    <3>1. ~B(k, k \div 2)
      BY <1>7, <2>5
    <3>2. QED  BY <2>1, <2>5, <3>1, <1>3, <1>4, <1>8 DEF B
  <2>6. QED  BY <2>2, <2>3, <2>4, <2>5
<1>9. ASSUME NEW k \in 2..n, k \div 2 = up, up >= 2
      PROVE  ~Less(g, k, up \div 2)
  <2>1. up \div 2 \in 1..n /\ up \div 2 < up /\ up < k
    BY <1>1, <1>9
  <2>2. ~B(up, up \div 2)
    BY <1>1, <1>7, <1>9
  <2>3. CASE k = at
    BY <2>1, <2>2, <2>3, <1>1, <1>3, <1>4 DEF B
  <2>4. CASE k # at
    <3>1. ~B(k, up)
      BY <1>7, <1>9, <2>4
    <3>2. ~B(k, up \div 2)
      BY <1>1, <1>6, <2>1, <2>2, <3>1
    <3>3. QED  BY <2>1, <2>4, <3>2, <1>1, <1>3, <1>4 DEF B
  <2>5. QED  BY <2>3, <2>4
<1>10. QED  BY <1>8, <1>9 DEF AllButUp, up, g

(* While down, which started at index i, has the element at index at in    *)
(* its hands: only that element and its children, and the one at i and its *)
(* parent, can be out of order.                                            *)
AllButDown(h, i, at, n) ==
    /\ \A k \in 2..n : k \div 2 # at /\ k # i => ~Less(h, k, k \div 2)
    /\ \A k \in 2..n : k \div 2 = at /\ at >= 2 => ~Less(h, k, at \div 2)
    /\ at # i /\ i >= 2 => ~Less(h, i, i \div 2)

LEMMA DownMovesOn ==
    ASSUME NEW h \in Heaps, Exact(h), NEW n \in Nat, n <= Len(h.pq),
           NEW at \in 1..n, NEW i \in 1..at, AllButDown(h, i, at, n),
           NEW child \in 1..n, child \div 2 = at, Less(h, child, at),
           \A k \in 1..n : k \div 2 = at => ~Less(h, k, child)
    PROVE  AllButDown(Swap(h, at, child), i, child, n)
<1> DEFINE g == Swap(h, at, child)
           B(x, y) == Before(h, h.pq[x], h.pq[y])
<1>1. at < child /\ child \in 2..n
  OBVIOUS
<1>2. Len(h.pq) \in Nat /\ \A k \in 1..n : k \in 1..Len(h.pq) /\ h.pq[k] \in Items
  BY DEF Heaps
<1>3. /\ g \in Heaps /\ g.since = h.since /\ g.app = h.app
      /\ g.pq[at] = h.pq[child] /\ g.pq[child] = h.pq[at]
      /\ \A k \in 1..n : k # at /\ k # child => g.pq[k] = h.pq[k]
  <2>1. at \in 1..Len(h.pq) /\ child \in 1..Len(h.pq)
    BY <1>1, <1>2
  <2>2. /\ g \in Heaps /\ g.since = h.since /\ g.app = h.app
        /\ g.pq[at] = h.pq[child] /\ g.pq[child] = h.pq[at]
        /\ \A k \in 1..Len(h.pq) : k # at /\ k # child => g.pq[k] = h.pq[k]
    BY <2>1, SwapExchanges
  <2> HIDE DEF g
  <2>3. QED  BY <1>2, <2>2
<1> HIDE DEF g
<1>4. \A x, y \in 1..n : Less(g, x, y) <=> Before(h, g.pq[x], g.pq[y])
  BY <1>3, BeforeKept DEF Less
<1>5. B(child, at) /\ \A k \in 1..n : k \div 2 = at => ~B(k, child)
  BY DEF Less
<1>6. \A x, y \in 1..n : ~(B(x, y) /\ B(y, x))
  BY <1>2, BeforeOrder
<1>7. /\ \A k \in 2..n : k \div 2 # at /\ k # i => ~B(k, k \div 2)
      /\ \A k \in 2..n : k \div 2 = at /\ at >= 2 => ~B(k, at \div 2)
      /\ at # i /\ i >= 2 => ~B(i, i \div 2)
  BY DEF AllButDown, Less
<1> HIDE DEF B
<1>8. ASSUME NEW k \in 2..n, k \div 2 # child, k # i
      PROVE  ~Less(g, k, k \div 2)
  <2>1. k \div 2 \in 1..n /\ k \div 2 < k
    OBVIOUS
  <2>2. CASE k = child
    <3>1. ~B(at, child)
      BY <1>1, <1>5, <1>6
    <3>2. QED  BY <2>1, <2>2, <3>1, <1>1, <1>3, <1>4 DEF B
  <2>3. CASE k # child /\ k \div 2 = at
    BY <2>1, <2>3, <1>1, <1>3, <1>4, <1>5 DEF B
  <2>4. CASE k = at
    <3>1. ~B(child, at \div 2)
      BY <1>1, <1>7, <2>4
    <3>2. QED  BY <2>1, <2>4, <3>1, <1>1, <1>3, <1>4, <1>8 DEF B
  <2>5. CASE k # at /\ k # child /\ k \div 2 # at
    <3>1. ~B(k, k \div 2)
      BY <1>7, <1>8, <2>5
    <3>2. QED  BY <2>1, <2>5, <3>1, <1>3, <1>4, <1>8 DEF B
  <2>6. QED  BY <2>2, <2>3, <2>4, <2>5
<1>9. ASSUME NEW k \in 2..n, k \div 2 = child
      PROVE  ~Less(g, k, child \div 2)
  <2>1. k \in 1..n /\ child < k /\ i < k
    BY <1>1, <1>9
  <2>2. ~B(k, child)
    BY <1>1, <1>7, <1>9, <2>1
  <2>3. QED  BY <2>1, <2>2, <1>1, <1>3, <1>4 DEF B
<1>10. ASSUME i >= 2  PROVE  ~Less(g, i, i \div 2)
  <2>1. i \div 2 \in 1..n /\ i \div 2 < at /\ i \in 2..n
    BY <1>1, <1>10
  <2>2. CASE i = at
    <3>1. ~B(child, at \div 2)
      BY <1>1, <1>7, <1>10, <2>2
    <3>2. QED  BY <2>1, <2>2, <3>1, <1>1, <1>3, <1>4 DEF B
  <2>3. CASE i # at
    <3>1. ~B(i, i \div 2)
      BY <1>7, <1>10, <2>3
    <3>2. QED  BY <2>1, <2>3, <3>1, <1>1, <1>3, <1>4 DEF B
  <2>4. QED  BY <2>2, <2>3
<1>11. QED  BY <1>8, <1>9, <1>10 DEF AllButDown, g

(* What up can come to from the element at i, and that it ends in order.   *)
UpStates(h, i, n) ==
    {s \in [heap : Rearranged(h, n), at : 1..i] : AllButUp(s.heap, s.at, n)}

LEMMA UpRoundStays ==
    ASSUME NEW h \in Heaps, NEW n \in Nat, n <= Len(h.pq), NEW i \in 1..n,
           NEW s \in UpStates(h, i, n)
    PROVE  /\ UpRound(s) \in UpStates(h, i, n)
           /\ UpRound(s) = s \/ UpRound(s).at < s.at
           /\ UpRound(s) = s => Ordered(s.heap, n)
<1>1. /\ s \in [heap : Rearranged(h, n), at : 1..i]
      /\ s.heap \in Rearranged(h, n) /\ s.at \in 1..i
      /\ AllButUp(s.heap, s.at, n)
      /\ s.at \in 1..n
  BY DEF UpStates
<1>2. s.heap \in Heaps /\ Exact(s.heap) /\ Len(s.heap.pq) = Len(h.pq)
  BY <1>1 DEF Rearranged
<1>3. CASE s.at = 1 \/ ~Less(s.heap, s.at, s.at \div 2)
  <2>1. UpRound(s) = s
    BY <1>3 DEF UpRound
  <2>2. Ordered(s.heap, n)
    BY <1>1, <1>3 DEF Ordered, AllButUp
  <2>3. QED  BY <2>1, <2>2
<1>4. CASE s.at # 1 /\ Less(s.heap, s.at, s.at \div 2)
  <2> DEFINE g == Swap(s.heap, s.at, s.at \div 2)
  <2>1. UpRound(s) = [heap |-> g, at |-> s.at \div 2]
    BY <1>4 DEF UpRound, Sift
  <2>2. s.at \in 2..n /\ s.at \div 2 \in 1..n /\ s.at \div 2 < s.at
        /\ s.at \div 2 \in 1..i
    BY <1>1, <1>4
  <2>3. g \in Rearranged(h, n)
    BY <1>1, <2>2, RearrangedTwice
  <2>4. AllButUp(g, s.at \div 2, n)
    BY <1>1, <1>2, <1>4, <2>2, UpMovesOn
  <2> HIDE DEF g
  <2>5. QED  BY <2>1, <2>2, <2>3, <2>4 DEF UpStates
<1>5. QED  BY <1>3, <1>4

LEMMA UpRestores ==
    ASSUME NEW h \in Heaps, Exact(h), NEW n \in Nat, n <= Len(h.pq),
           NEW i \in 1..n, AllButUp(h, i, n)
    PROVE  Up(h, i) \in Rearranged(h, n) /\ Ordered(Up(h, i), n)
<1> DEFINE X == UpStates(h, i, n)
           round == [s \in X |-> UpRound(s)]
           measure == [s \in X |-> s.at]
           sift[k \in Nat] ==
               IF k = 0 THEN Sift(h, i) ELSE UpRound(sift[k - 1])
<1>1. Sift(h, i) \in X
  BY DEF UpStates, Rearranged, Sift
<1>2. round \in [X -> X]
  BY UpRoundStays
<1>3. /\ measure \in [X -> 0..i]
      /\ \A s \in X : round[s] = s \/ measure[round[s]] < measure[s]
  <2>1. \A s \in X : s.at \in 0..i
    BY DEF UpStates
  <2>2. QED  BY <2>1, UpRoundStays
<1>4. sift = [k \in Nat |->
                 IF k = 0 THEN Sift(h, i) ELSE UpRound(sift[k - 1])]
  <2>1. PICK f : Course(X, Sift(h, i), round, f)
    <3> HIDE DEF X, round
    <3>1. QED  BY <1>1, <1>2, LoopExists
  <2>2. ASSUME NEW k \in Nat, k # 0  PROVE  f[k] = UpRound(f[k - 1])
    <3>1. k - 1 \in Nat /\ (k - 1) + 1 = k
      BY <2>2
    <3> HIDE DEF X
    <3>2. QED  BY <2>1, <3>1 DEF Course
  <2> HIDE DEF X
  <2>3. f = [k \in Nat |-> IF k = 0 THEN Sift(h, i) ELSE UpRound(f[k - 1])]
    BY <2>1, <2>2 DEF Course
  <2>4. QED  BY <2>3
<1>5. Up(h, i) = sift[i].heap
  BY DEF Up
<1> HIDE DEF sift
<1>6. sift[0] = Sift(h, i)
      /\ \A k \in Nat : sift[k] \in X => sift[k + 1] = round[sift[k]]
  BY <1>4
<1>7. sift[i] \in X /\ round[sift[i]] = sift[i]
  <2> HIDE DEF X, round, measure
  <2>1. i \in Nat
    OBVIOUS
  <2>2. Loop(X, Sift(h, i), round, i, measure, sift)
    BY <1>1, <1>2, <1>3, <1>6, <2>1 DEF Loop
  <2>3. QED  BY <2>2, LoopEnds
<1>8. Ordered(sift[i].heap, n)
  BY <1>7, UpRoundStays
<1>9. sift[i].heap \in Rearranged(h, n)
  BY <1>7 DEF UpStates
<1>10. QED  BY <1>5, <1>8, <1>9

(* What down can come to from the element at i.                            *)
DownStates(h, i, n) ==
    {s \in [heap : Rearranged(h, n), at : i..(n + 1)] :
        AllButDown(s.heap, i, s.at, n)}

LEMMA DownRoundStays ==
    ASSUME NEW h \in Heaps, NEW n \in Nat, n <= Len(h.pq),
           NEW i \in 1..(n + 1), NEW s \in DownStates(h, i, n)
    PROVE  /\ DownRound(s, n) \in DownStates(h, i, n)
           /\ DownRound(s, n) = s \/ DownRound(s, n).at > s.at
           /\ DownRound(s, n) = s => AllButUp(s.heap, i, n)
<1> DEFINE e == s.heap
           at == s.at
           B(x, y) == Less(e, x, y)
<1>1. /\ s \in [heap : Rearranged(h, n), at : i..(n + 1)]
      /\ e \in Rearranged(h, n) /\ at \in i..(n + 1)
      /\ AllButDown(e, i, at, n)
  BY DEF DownStates
<1>2. e \in Heaps /\ Exact(e) /\ Len(e.pq) = Len(h.pq)
  BY <1>1 DEF Rearranged
<1>3. /\ Len(h.pq) \in Nat
      /\ \A k \in 1..n : e.pq[k] \in Items
  <2>1. e.pq \in Seq(Items) /\ h.pq \in Seq(Items)
    BY <1>2 DEF Heaps
  <2> HIDE DEF e
  <2>2. QED  BY <1>2, <2>1, ElementsOf
<1>4. \A x, y, z \in 1..n : /\ ~(B(x, y) /\ B(y, x))
                            /\ ~B(x, y) /\ ~B(y, z) => ~B(x, z)
  BY <1>2, <1>3, BeforeOrder DEF Less
<1> DEFINE left == 2 * at
           child == IF left < n /\ ~B(left, left + 1) THEN left + 1 ELSE left
<1>5. DownRound(s, n) = IF left > n \/ ~B(child, at) THEN s
                        ELSE [heap |-> Swap(e, at, child), at |-> child]
  BY DEF DownRound, Sift
<1>6. at \in Nat /\ left \in Nat
  BY <1>1
<1>7. left > n \/ (at \in 1..n /\ child \in 1..n /\ child > at /\ child \div 2 = at)
  BY <1>1
<1>8. ASSUME left <= n
      PROVE  \A k \in 1..n : k \div 2 = at => ~B(k, child)
  <2>1. left \in 1..n
    BY <1>1, <1>8
  <2>2. \A k \in 1..n : k \div 2 = at => k = left \/ k = left + 1
    BY <1>1
  <2>3. child = IF left < n /\ ~B(left, left + 1) THEN left + 1 ELSE left
    OBVIOUS
  <2>4. left < n => left + 1 \in 1..n
    BY <2>1
  <2> HIDE DEF B, child, left, at, e
  <2>5. QED  BY <2>1, <2>2, <2>3, <2>4, <1>4, <1>6
<1> HIDE DEF B, left, child, e, at
<1>9. CASE left > n \/ ~B(child, at)
  <2>1. DownRound(s, n) = s
    BY <1>5, <1>9
  <2>2. ASSUME NEW k \in 2..n, k \div 2 = at  PROVE  ~B(k, at)
    <3>1. left <= n
      BY <2>2, <1>1 DEF left, at
    <3>2. ~(left > n)
      BY <3>1, <1>6
    <3>3. k \in 1..n /\ at \in 1..n /\ child \in 1..n
      BY <3>2, <1>7
    <3>4. ~B(k, child) /\ ~B(child, at)
      BY <2>2, <3>1, <3>2, <3>3, <1>8, <1>9
    <3>5. QED  BY <3>3, <3>4, <1>4
  <2>3. \A k \in 2..n : k # i => ~B(k, k \div 2)
    BY <1>1, <2>2 DEF AllButDown, B
  <2>4. ASSUME NEW k \in 2..n, k \div 2 = i, i >= 2  PROVE  ~B(k, i \div 2)
    <3>1. CASE at = i
      BY <1>1, <2>4, <3>1 DEF AllButDown, B
    <3>2. CASE at # i
      <4>1. ~B(k, i) /\ ~B(i, i \div 2)
        BY <1>1, <2>3, <2>4, <3>2 DEF AllButDown, B
      <4>2. i \in 1..n /\ i \div 2 \in 1..n
        BY <2>4
      <4>3. QED  BY <1>4, <4>1, <4>2
    <3>3. QED  BY <3>1, <3>2
  <2>5. AllButUp(e, i, n)
    BY <2>3, <2>4 DEF AllButUp, B
  <2>6. QED  BY <2>1, <2>5 DEF e
<1>10. CASE left <= n /\ B(child, at)
  <2> DEFINE g == Swap(e, at, child)
  <2>1. DownRound(s, n) = [heap |-> g, at |-> child]
    BY <1>5, <1>6, <1>10
  <2>2. at \in 1..n /\ child \in 1..n /\ child > at /\ child \div 2 = at
        /\ i \in 1..at
    BY <1>1, <1>6, <1>7, <1>10
  <2>3. g \in Rearranged(h, n)
    BY <1>1, <2>2, RearrangedTwice
  <2>4. AllButDown(g, i, child, n)
    BY <1>1, <1>2, <1>8, <1>10, <2>2, DownMovesOn DEF B
  <2>5. child \in i..(n + 1)
    BY <2>2
  <2> HIDE DEF g
  <2>6. QED  BY <2>1, <2>2, <2>3, <2>4, <2>5 DEF DownStates, at
<1>11. QED  BY <1>6, <1>9, <1>10

(* Down leaves at most the element at i to be sifted up.                   *)
LEMMA DownRestores ==
    ASSUME NEW h \in Heaps, Exact(h), NEW n \in Nat, n <= Len(h.pq),
           NEW i \in 1..(n + 1), AllButDown(h, i, i, n)
    PROVE  /\ Down(h, i, n) \in Rearranged(h, n)
           /\ AllButUp(Down(h, i, n), i, n)
<1> DEFINE X == DownStates(h, i, n)
           round == [s \in X |-> DownRound(s, n)]
           measure == [s \in X |-> n + 1 - s.at]
           sift[k \in Nat] ==
               IF k = 0 THEN Sift(h, i) ELSE DownRound(sift[k - 1], n)
<1>1. Sift(h, i) \in X
  BY DEF DownStates, Rearranged, Sift
<1>2. round \in [X -> X]
  BY DownRoundStays
<1>3. /\ measure \in [X -> 0..n]
      /\ \A s \in X : round[s] = s \/ measure[round[s]] < measure[s]
  <2>1. \A s \in X : s.at \in i..(n + 1) /\ n + 1 - s.at \in 0..n
    BY DEF DownStates
  <2>2. ASSUME NEW s \in X, round[s] # s  PROVE  measure[round[s]] < measure[s]
    <3>1. round[s] \in X /\ round[s].at > s.at
      BY <2>2, DownRoundStays
    <3> HIDE DEF X, round
    <3>2. round[s].at \in i..(n + 1) /\ s.at \in i..(n + 1)
      BY <2>1, <3>1
    <3>3. QED  BY <3>1, <3>2
  <2> HIDE DEF X, round
  <2>3. QED  BY <2>1, <2>2
<1>4. sift = [k \in Nat |->
                 IF k = 0 THEN Sift(h, i) ELSE DownRound(sift[k - 1], n)]
  <2>1. PICK f : Course(X, Sift(h, i), round, f)
    <3> HIDE DEF X, round
    <3>1. QED  BY <1>1, <1>2, LoopExists
  <2>2. ASSUME NEW k \in Nat, k # 0  PROVE  f[k] = DownRound(f[k - 1], n)
    <3>1. k - 1 \in Nat /\ (k - 1) + 1 = k
      BY <2>2
    <3> HIDE DEF X
    <3>2. QED  BY <2>1, <3>1 DEF Course
  <2> HIDE DEF X
  <2>3. f = [k \in Nat |-> IF k = 0 THEN Sift(h, i) ELSE DownRound(f[k - 1], n)]
    BY <2>1, <2>2 DEF Course
  <2>4. QED  BY <2>3
<1>5. Down(h, i, n) = sift[n].heap
  BY DEF Down
<1> HIDE DEF sift
<1>6. sift[0] = Sift(h, i)
      /\ \A k \in Nat : sift[k] \in X => sift[k + 1] = round[sift[k]]
  BY <1>4
<1>7. sift[n] \in X /\ round[sift[n]] = sift[n]
  <2> HIDE DEF X, round, measure
  <2>1. Loop(X, Sift(h, i), round, n, measure, sift)
    BY <1>1, <1>2, <1>3, <1>6 DEF Loop
  <2>2. QED  BY <2>1, LoopEnds
<1>8. AllButUp(sift[n].heap, i, n)
  BY <1>7, DownRoundStays
<1>9. sift[n].heap \in Rearranged(h, n)
  BY <1>7 DEF DownStates
<1>10. QED  BY <1>5, <1>8, <1>9

-----------------------------------------------------------------------------
(* Push, Pop and Remove of container/heap.                                 *)

LEMMA PushFields ==
    ASSUME NEW h \in Heaps, NEW i \in Items
    PROVE  Push(h, i) = [pq |-> Append(h.pq, i),
                         position |-> [h.position EXCEPT ![i] = Len(h.pq)],
                         since |-> [h.since EXCEPT ![i] = clock],
                         app |-> h.app]
<1>1. PICK e : e = [h EXCEPT !.pq = Append(h.pq, i)]
  OBVIOUS
<1>2. PICK g : g = [e EXCEPT !.position[i] = Len(h.pq)]
  OBVIOUS
<1>3. Push(h, i) = [g EXCEPT !.since[i] = clock]
  BY <1>1, <1>2, Zenon DEF Push
<1>4. e = [pq |-> Append(h.pq, i), position |-> h.position,
           since |-> h.since, app |-> h.app]
  BY <1>1 DEF Heaps
<1>5. g = [pq |-> Append(h.pq, i),
           position |-> [h.position EXCEPT ![i] = Len(h.pq)],
           since |-> h.since, app |-> h.app]
  BY <1>2, <1>4
<1>6. QED  BY <1>3, <1>5

LEMMA PopFields ==
    ASSUME NEW h \in Heaps
    PROVE  Pop(h) = [pq |-> Front(h.pq),
                     position |-> [h.position EXCEPT ![Last(h.pq)] = -1],
                     since |-> [h.since EXCEPT ![Last(h.pq)] = -1],
                     app |-> h.app]
<1>1. PICK e : e = [h EXCEPT !.pq = Front(h.pq)]
  OBVIOUS
<1>2. PICK g : g = [e EXCEPT !.position[Last(h.pq)] = -1]
  OBVIOUS
<1>3. Pop(h) = [g EXCEPT !.since[Last(h.pq)] = -1]
  BY <1>1, <1>2, Zenon DEF Pop
<1>4. e = [pq |-> Front(h.pq), position |-> h.position,
           since |-> h.since, app |-> h.app]
  BY <1>1 DEF Heaps
<1>5. g = [pq |-> Front(h.pq),
           position |-> [h.position EXCEPT ![Last(h.pq)] = -1],
           since |-> h.since, app |-> h.app]
  BY <1>2, <1>4
<1>6. QED  BY <1>3, <1>5

LEMMA PushRestores ==
    ASSUME NEW h \in Heaps, Exact(h), Ordered(h, Len(h.pq)),
           NEW i \in Items, i \notin ToSet(h.pq), clock \in Nat
    PROVE  LET r == HeapPush(h, i)
           IN  /\ r \in Heaps /\ Exact(r) /\ Ordered(r, Len(r.pq))
               /\ Len(r.pq) = Len(h.pq) + 1
               /\ ToSet(r.pq) = ToSet(h.pq) \cup {i}
               /\ r.app = h.app
               /\ r.since = [h.since EXCEPT ![i] = clock]
<1> DEFINE n == Len(h.pq)
           q == Append(h.pq, i)
           pos == [h.position EXCEPT ![i] = n]
           g == Push(h, i)
           r == HeapPush(h, i)
<1>1. /\ h.pq \in Seq(Items) /\ h.position \in [Items -> Int]
      /\ h.since \in [Items -> Int] /\ h.app \in [Items -> Apps]
      /\ n \in Nat
  BY DEF Heaps
<1>2. /\ q \in Seq(Items) /\ Len(q) = n + 1 /\ q[n + 1] = i
      /\ \A k \in 1..n : q[k] = h.pq[k] /\ q[k] \in Items /\ q[k] # i
  BY <1>1, ElementsOf
<1>3. ToSet(q) = ToSet(h.pq) \cup {i}
  <2> HIDE DEF q, n
  <2>1. \A x : x \in ToSet(q) <=> \E k \in 1..(n + 1) : q[k] = x
    BY <1>2, ElementsOf
  <2>2. \A x : x \in ToSet(h.pq) <=> \E k \in 1..n : h.pq[k] = x
    BY <1>1, ElementsOf DEF n
  <2>3. \A k \in 1..(n + 1) : k \in 1..n \/ k = n + 1
    BY <1>1
  <2>4. \A k \in 1..n : k \in 1..(n + 1)
    BY <1>1
  <2>5. n + 1 \in 1..(n + 1)
    BY <1>1
  <2>6. QED  BY <1>2, <2>1, <2>2, <2>3, <2>4, <2>5
<1>4. g = [pq |-> q, position |-> pos,
           since |-> [h.since EXCEPT ![i] = clock], app |-> h.app]
  BY PushFields
<1>5. /\ pos \in [Items -> Int] /\ pos[i] = n
      /\ \A x \in Items : x # i => pos[x] = h.position[x]
  BY <1>1
<1> HIDE DEF q, pos, g
<1>6. g \in Heaps
  BY <1>1, <1>2, <1>4, <1>5 DEF Heaps
<1>7. Exact(g)
  <2>1. \A k \in 1..n : pos[q[k]] = k - 1
    <3>1. \A k \in 1..n : h.position[h.pq[k]] = k - 1
      BY DEF Exact
    <3> HIDE DEF n
    <3>2. QED  BY <1>2, <1>5, <3>1
  <2>2. \A k \in 1..(n + 1) : pos[q[k]] = k - 1
    <3> HIDE DEF n
    <3>1. pos[q[n + 1]] = (n + 1) - 1
      BY <1>1, <1>2, <1>5
    <3>2. \A k \in 1..(n + 1) : k \in 1..n \/ k = n + 1
      BY <1>1
    <3>3. QED  BY <2>1, <3>1, <3>2
  <2>3. \A x \in Items : x \notin ToSet(q) => pos[x] = -1
    BY <1>3, <1>5 DEF Exact
  <2>4. QED  BY <1>2, <1>4, <2>2, <2>3 DEF Exact
<1>8. \A x, y \in Items : x # i /\ y # i => (Before(g, x, y) <=> Before(h, x, y))
  BY <1>1, <1>4 DEF Before
<1>9. AllButUp(g, n + 1, n + 1)
  <2>1. ASSUME NEW k \in 2..(n + 1), k # n + 1
        PROVE  ~Less(g, k, k \div 2)
    <3>1. k \in 2..n /\ k \in 1..n /\ k \div 2 \in 1..n
      <4> HIDE DEF n
      <4>1. k \in 2..n
        BY <1>1, <2>1
      <4>2. QED  BY <1>1, <4>1
    <3>2. ~Before(h, h.pq[k], h.pq[k \div 2])
      <4>1. ~Less(h, k, k \div 2)
        BY <3>1 DEF Ordered
      <4>2. QED  BY <4>1 DEF Less
    <3>3. g.pq[k] = h.pq[k] /\ g.pq[k \div 2] = h.pq[k \div 2]
          /\ g.pq[k] \in Items /\ g.pq[k \div 2] \in Items
          /\ g.pq[k] # i /\ g.pq[k \div 2] # i
      BY <1>2, <1>4, <3>1
    <3> HIDE DEF n
    <3>4. QED  BY <1>8, <3>2, <3>3 DEF Less
  <2>2. \A k \in 2..(n + 1) : k \div 2 # n + 1
    BY <1>1
  <2>3. QED  BY <2>1, <2>2 DEF AllButUp
<1>10. r = Up(g, n + 1) /\ Len(g.pq) = n + 1
  BY <1>2, <1>4 DEF HeapPush, g
<1>11. r \in Rearranged(g, n + 1) /\ Ordered(r, n + 1)
  <2>1. n + 1 \in Nat /\ n + 1 <= Len(g.pq) /\ n + 1 \in 1..(n + 1)
    BY <1>1, <1>10
  <2> HIDE DEF n, r
  <2>2. QED  BY <1>6, <1>7, <1>9, <1>10, <2>1, UpRestores
<1> HIDE DEF r
<1>12. /\ r \in Heaps /\ Exact(r) /\ r.since = g.since /\ r.app = g.app
       /\ Len(r.pq) = n + 1 /\ ToSet(r.pq) = ToSet(q)
  BY <1>4, <1>10, <1>11 DEF Rearranged
<1>13. QED  BY <1>3, <1>4, <1>11, <1>12 DEF r

(* r is h without item x, and in order.                                    *)
Without(h, x, r) ==
    /\ r \in Heaps /\ Exact(r) /\ Ordered(r, Len(r.pq))
    /\ Len(r.pq) = Len(h.pq) - 1
    /\ ToSet(r.pq) = ToSet(h.pq) \ {x}
    /\ r.app = h.app
    /\ r.since = [h.since EXCEPT ![x] = -1]

LEMMA PopTakesLast ==
    ASSUME NEW h \in Heaps, Exact(h), Len(h.pq) >= 1,
           Ordered(h, Len(h.pq) - 1)
    PROVE  Without(h, h.pq[Len(h.pq)], Pop(h))
<1> DEFINE n == Len(h.pq)
           x == h.pq[n]
           q == Front(h.pq)
           pos == [h.position EXCEPT ![x] = -1]
           g == Pop(h)
<1>1. /\ h.pq \in Seq(Items) /\ h.position \in [Items -> Int]
      /\ h.since \in [Items -> Int] /\ h.app \in [Items -> Apps]
      /\ n \in Nat /\ x \in Items
  BY DEF Heaps
<1>2. /\ q \in Seq(Items) /\ Len(q) = n - 1
      /\ \A k \in 1..(n - 1) : q[k] = h.pq[k] /\ q[k] \in Items
  BY <1>1 DEF Front
<1>3. \A k \in 1..(n - 1) : q[k] # x
  <2>1. \A k \in 1..n : h.position[h.pq[k]] = k - 1
    BY DEF Exact
  <2>2. ASSUME NEW k \in 1..(n - 1)  PROVE  q[k] # x
    <3>1. k \in 1..n /\ n \in 1..n /\ k - 1 # n - 1
      BY <1>1, <2>2
    <3>2. h.position[q[k]] = k - 1 /\ h.position[x] = n - 1
      BY <1>2, <2>1, <3>1
    <3>3. QED  BY <3>1, <3>2
  <2>3. QED  BY <2>2
<1>4. ToSet(q) = ToSet(h.pq) \ {x}
  <2> HIDE DEF q, n, x
  <2>1. \A y : y \in ToSet(q) <=> \E k \in 1..(n - 1) : q[k] = y
    BY <1>2, ElementsOf
  <2>2. \A y : y \in ToSet(h.pq) <=> \E k \in 1..n : h.pq[k] = y
    BY <1>1, ElementsOf DEF n
  <2>3. \A k \in 1..n : k \in 1..(n - 1) \/ h.pq[k] = x
    BY <1>1 DEF x
  <2>4. \A k \in 1..(n - 1) : k \in 1..n
    BY <1>1
  <2>5. QED  BY <1>2, <1>3, <2>1, <2>2, <2>3, <2>4
<1>5. g = [pq |-> q, position |-> pos,
           since |-> [h.since EXCEPT ![x] = -1], app |-> h.app]
  BY PopFields DEF Last
<1>6. /\ pos \in [Items -> Int] /\ pos[x] = -1
      /\ \A y \in Items : y # x => pos[y] = h.position[y]
  BY <1>1
<1> HIDE DEF q, pos, g
<1>7. g \in Heaps
  BY <1>1, <1>2, <1>5, <1>6 DEF Heaps
<1>8. Exact(g)
  <2>1. \A k \in 1..(n - 1) : pos[q[k]] = k - 1
    <3>1. \A k \in 1..(n - 1) : h.position[h.pq[k]] = k - 1
      BY <1>1 DEF Exact
    <3> HIDE DEF n, x
    <3>2. QED  BY <1>2, <1>3, <1>6, <3>1
  <2>2. \A y \in Items : y \notin ToSet(q) => pos[y] = -1
    BY <1>4, <1>6 DEF Exact
  <2>3. QED  BY <1>2, <1>5, <2>1, <2>2 DEF Exact
<1>9. \A y, z \in Items : y # x /\ z # x => (Before(g, y, z) <=> Before(h, y, z))
  BY <1>1, <1>5 DEF Before
<1>10. Ordered(g, n - 1)
  <2>1. ASSUME NEW k \in 2..(n - 1)  PROVE  ~Less(g, k, k \div 2)
    <3>1. k \in 1..(n - 1) /\ k \div 2 \in 1..(n - 1)
      BY <1>1, <2>1
    <3>2. ~Before(h, h.pq[k], h.pq[k \div 2])
      BY <2>1 DEF Ordered, Less
    <3>3. g.pq[k] = h.pq[k] /\ g.pq[k \div 2] = h.pq[k \div 2]
          /\ g.pq[k] \in Items /\ g.pq[k \div 2] \in Items
          /\ g.pq[k] # x /\ g.pq[k \div 2] # x
      BY <1>2, <1>3, <1>5, <3>1
    <3> HIDE DEF n, x
    <3>4. QED  BY <1>9, <3>2, <3>3 DEF Less
  <2>2. QED  BY <2>1 DEF Ordered
<1>11. Without(h, x, g)
  <2> HIDE DEF n, x
  <2>1. QED  BY <1>2, <1>4, <1>5, <1>7, <1>8, <1>10 DEF Without, n
<1>12. QED  BY <1>11 DEF g

(* The swap that puts the element at i in the last place leaves another    *)
(* one in its place, with the rest in order.                               *)
LEMMA GapIsFilled ==
    ASSUME NEW h \in Heaps, Exact(h), Ordered(h, Len(h.pq)),
           NEW i \in 1..Len(h.pq)
    PROVE  LET n == Len(h.pq)
               g == Swap(h, i, n)
               d == Down(g, i, n - 1)
           IN  /\ g \in Heaps /\ d \in Heaps /\ Exact(d)
               /\ d.app = h.app /\ d.since = h.since
               /\ Len(d.pq) = n /\ ToSet(d.pq) = ToSet(h.pq)
               /\ d.pq[n] = h.pq[i]
               /\ AllButUp(d, i, n - 1)
<1> DEFINE n == Len(h.pq)
           g == Swap(h, i, n)
           d == Down(g, i, n - 1)
           B(j, k) == Before(h, h.pq[j], h.pq[k])
<1>1. /\ h.pq \in Seq(Items) /\ n \in Nat /\ n \in 1..n
      /\ \A k \in 1..n : h.pq[k] \in Items
  <2>1. h.pq \in Seq(Items)
    BY DEF Heaps
  <2>2. n \in Nat /\ \A k \in 1..n : h.pq[k] \in Items
    BY <2>1, ElementsOf
  <2> HIDE DEF n
  <2>3. QED  BY <2>1, <2>2 DEF n
<1>2. /\ g \in Heaps /\ Exact(g) /\ g.since = h.since /\ g.app = h.app
      /\ Len(g.pq) = n /\ ToSet(g.pq) = ToSet(h.pq)
      /\ g.pq[n] = h.pq[i]
      /\ \A k \in 1..n : k # i /\ k # n => g.pq[k] = h.pq[k]
  BY <1>1, SwapExchanges
<1>3. \A x, y \in 1..n : B(x, y) <=> Less(h, x, y)
  BY DEF Less
<1>4. \A x, y, z \in 1..n : ~B(x, y) /\ ~B(y, z) => ~B(x, z)
  BY <1>1, BeforeOrder
<1>5. \A k \in 2..n : ~B(k, k \div 2)
  <2>1. \A k \in 2..n : ~Less(h, k, k \div 2)
    BY DEF Ordered
  <2>2. QED  BY <2>1 DEF Less
<1> HIDE DEF g, n
<1>6. \A x, y \in 1..n : x \notin {i, n} /\ y \notin {i, n}
                            => (Less(g, x, y) <=> B(x, y))
  BY <1>2, BeforeKept DEF Less
<1> HIDE DEF B
<1>7. AllButDown(g, i, i, n - 1)
  <2>1. ASSUME NEW k \in 2..(n - 1), k \div 2 # i, k # i
        PROVE  ~Less(g, k, k \div 2)
    <3>1. k \in 2..n /\ k \in 1..n /\ k # n
      BY <1>1
    <3>2. k \div 2 \in 1..n /\ k \div 2 # n
      BY <1>1, <3>1
    <3>3. QED  BY <1>5, <1>6, <2>1, <3>1, <3>2
  <2>2. ASSUME NEW k \in 2..(n - 1), k \div 2 = i, i >= 2
        PROVE  ~Less(g, k, i \div 2)
    <3>1. k \in 2..n /\ k \in 1..n /\ k # n /\ k # i
      BY <1>1, <2>2
    <3>2. i \in 2..n /\ i \in 1..n /\ i \div 2 \in 1..n
          /\ i \div 2 # n /\ i \div 2 # i
      BY <1>1, <2>2, <3>1
    <3>3. ~B(k, i) /\ ~B(i, i \div 2)
      BY <1>5, <2>2, <3>1, <3>2
    <3>4. QED  BY <1>4, <1>6, <3>1, <3>2, <3>3
  <2>3. QED  BY <2>1, <2>2 DEF AllButDown
<1>8. d \in Rearranged(g, n - 1) /\ AllButUp(d, i, n - 1)
  <2>1. n - 1 \in Nat /\ n - 1 <= Len(g.pq) /\ i \in 1..((n - 1) + 1)
    BY <1>1, <1>2 DEF n
  <2>2. QED  BY <1>2, <1>7, <2>1, DownRestores
<1> HIDE DEF d
<1>9. n \in ((n - 1) + 1)..Len(g.pq)
  BY <1>1, <1>2
<1>10. d.pq[n] = g.pq[n]
  BY <1>8, <1>9 DEF Rearranged
<1>11. QED  BY <1>2, <1>8, <1>10 DEF Rearranged, d, g, n

(* An item of a heap that only sifting has changed since is taken from it. *)
LEMMA TakenFromHeap ==
    ASSUME NEW h \in Heaps, NEW x, NEW d \in Heaps,
           d.app = h.app, d.since = h.since, Len(d.pq) = Len(h.pq),
           ToSet(d.pq) = ToSet(h.pq), NEW r, Without(d, x, r)
    PROVE  Without(h, x, r)
BY DEF Without

(* heap.Pop takes the first element away.                                  *)
LEMMA PopTakesFirst ==
    ASSUME NEW h \in Heaps, Exact(h), Ordered(h, Len(h.pq)), Len(h.pq) >= 1
    PROVE  Without(h, h.pq[1], HeapPop(h))
<1> DEFINE n == Len(h.pq)
           d == Down(Swap(h, 1, n), 1, n - 1)
<1>1. 1 \in 1..n /\ n \in Nat
  BY DEF Heaps
<1>2. /\ d \in Heaps /\ Exact(d)
      /\ d.app = h.app /\ d.since = h.since
      /\ Len(d.pq) = n /\ ToSet(d.pq) = ToSet(h.pq)
      /\ d.pq[n] = h.pq[1]
      /\ AllButUp(d, 1, n - 1)
  BY <1>1, GapIsFilled
<1> HIDE DEF d
<1>3. Ordered(d, Len(d.pq) - 1)
  <2>1. \A k \in 2..(n - 1) : ~Less(d, k, k \div 2)
    BY <1>2 DEF AllButUp
  <2>2. QED  BY <1>2, <2>1 DEF Ordered
<1>4. Without(d, d.pq[n], Pop(d))
  <2>1. Len(d.pq) >= 1
    BY <1>2
  <2>2. QED  BY <1>2, <1>3, <2>1, PopTakesLast
<1>5. Without(h, h.pq[1], Pop(d))
  <2> HIDE DEF n
  <2>1. QED  BY <1>2, <1>4, TakenFromHeap DEF n
<1>6. HeapPop(h) = Pop(d)
  BY DEF HeapPop, d
<1>7. QED  BY <1>5, <1>6

(* heap.Remove takes the element at i away.                                *)
LEMMA RemoveTakes ==
    ASSUME NEW h \in Heaps, Exact(h), Ordered(h, Len(h.pq)),
           NEW i \in 1..Len(h.pq)
    PROVE  Without(h, h.pq[i], HeapRemove(h, i))
<1> DEFINE n == Len(h.pq)
           d == Down(Swap(h, i, n), i, n - 1)
           u == Up(d, i)
<1>1. n \in Nat /\ n >= 1 /\ i \in 1..n
  BY DEF Heaps
<1>2. CASE i = n
  <2>1. HeapRemove(h, i) = Pop(h)
    BY <1>2 DEF HeapRemove
  <2>2. Ordered(h, n - 1)
    BY <1>1 DEF Ordered
  <2>3. QED  BY <1>1, <1>2, <2>1, <2>2, PopTakesLast
<1>3. CASE i # n
  <2>1. HeapRemove(h, i) = Pop(u)
    BY <1>3 DEF HeapRemove
  <2>2. /\ d \in Heaps /\ Exact(d)
        /\ d.app = h.app /\ d.since = h.since
        /\ Len(d.pq) = n /\ ToSet(d.pq) = ToSet(h.pq)
        /\ d.pq[n] = h.pq[i]
        /\ AllButUp(d, i, n - 1)
    BY <1>1, GapIsFilled
  <2> HIDE DEF d
  <2>3. n - 1 \in Nat /\ n - 1 <= Len(d.pq) /\ i \in 1..(n - 1)
    BY <1>1, <1>3, <2>2
  <2>4. u \in Rearranged(d, n - 1) /\ Ordered(u, n - 1)
    BY <2>2, <2>3, UpRestores
  <2> HIDE DEF u, n
  <2>5. n \in ((n - 1) + 1)..Len(d.pq)
    BY <1>1, <2>2
  <2>6. /\ u \in Heaps /\ Exact(u) /\ u.app = h.app /\ u.since = h.since
        /\ Len(u.pq) = n /\ ToSet(u.pq) = ToSet(h.pq)
        /\ u.pq[n] = h.pq[i]
    BY <2>2, <2>4, <2>5 DEF Rearranged
  <2>7. Without(u, u.pq[n], Pop(u))
    BY <1>1, <2>4, <2>6, PopTakesLast
  <2>8. QED  BY <2>1, <2>6, <2>7, TakenFromHeap DEF n
<1>4. QED  BY <1>2, <1>3

-----------------------------------------------------------------------------
(* The queue.                                                              *)

(* No item is stamped later than now.                                      *)
TimesPassed == \A i \in Items : since[i] <= clock

Inv == TypeOK /\ PositionsExact /\ HeapOrder /\ TimesPassed

LEMMA HeapOfState ==
    ASSUME TypeOK
    PROVE  /\ heap \in Heaps /\ ToSet(heap.pq) = ToSet(pq)
           /\ heap.pq = pq /\ heap.position = position
           /\ heap.since = since /\ heap.app = app
           /\ PositionsExact <=> Exact(heap)
           /\ HeapOrder <=> Ordered(heap, Len(heap.pq))
<1>1. /\ heap.pq = pq /\ heap.position = position
      /\ heap.since = since /\ heap.app = app
  BY DEF heap
<1>2. heap \in Heaps
  BY QueueAssumption DEF TypeOK, heap, Heaps
<1>3. DOMAIN pq = 1..Len(pq)
  BY DEF TypeOK
<1>4. QED  BY <1>1, <1>2, <1>3 DEF PositionsExact, Exact, HeapOrder, Ordered

LEMMA ExactRange ==
    ASSUME NEW h \in Heaps, Exact(h)
    PROVE  h.position \in [Items -> -1..(Len(h.pq) - 1)]
<1>1. h.pq \in Seq(Items) /\ h.position \in [Items -> Int]
  BY DEF Heaps
<1>2. Len(h.pq) \in Nat
  BY <1>1
<1>3. ASSUME NEW i \in Items  PROVE  h.position[i] \in -1..(Len(h.pq) - 1)
  <2>1. CASE i \in ToSet(h.pq)
    <3>1. PICK k \in 1..Len(h.pq) : h.pq[k] = i
      BY <1>1, <2>1, ElementsOf
    <3>2. h.position[i] = k - 1
      BY <3>1 DEF Exact
    <3>3. QED  BY <1>2, <3>1, <3>2
  <2>2. CASE i \notin ToSet(h.pq)
    BY <1>2, <2>2 DEF Exact
  <2>3. QED  BY <2>1, <2>2
<1>4. QED  BY <1>1, <1>3

(* A queue that has become heap h is as good as h.                         *)
LEMMA BecomeKeeps ==
    ASSUME NEW h \in Heaps, Exact(h), Ordered(h, Len(h.pq)), Become(h),
           h.since \in [Items -> -1..MaxClock],
           \A i \in Items : h.since[i] <= clock,
           clock \in 0..MaxClock, UNCHANGED clock,
           last' \in [op : {"New", "Enqueue", "Dequeue", "DequeueFirst"},
                      matching : SUBSET Items, item : Items \cup {None}]
    PROVE  Inv'
<1>1. /\ pq' = h.pq /\ position' = h.position
      /\ since' = h.since /\ app' = h.app
  BY DEF Become
<1>2. h.pq \in Seq(Items) /\ h.app \in [Items -> Apps]
  BY DEF Heaps
<1>3. h.position \in [Items -> -1..(Len(h.pq) - 1)]
  BY ExactRange
<1>4. TypeOK'
  BY <1>1, <1>2, <1>3 DEF TypeOK
<1>5. DOMAIN h.pq = 1..Len(h.pq)
  BY <1>2
<1>6. PositionsExact'
  BY <1>1, <1>5 DEF PositionsExact, Exact
<1>7. HeapOrder'
  <2>1. \A k \in 2..Len(h.pq) : ~Before(h, h.pq[k], h.pq[k \div 2])
    BY DEF Ordered, Less
  <2>2. \A x, y : Before(heap, x, y)' <=> Before(h, x, y)
    BY <1>1 DEF Before, heap
  <2>3. (heap.pq)' = h.pq
    BY <1>1 DEF heap
  <2>4. QED  BY <1>1, <2>1, <2>2, <2>3 DEF HeapOrder, Less
<1>8. TimesPassed'
  BY <1>1 DEF TimesPassed
<1>9. QED  BY <1>4, <1>6, <1>7, <1>8 DEF Inv

(* No item of a heap is before the first one.                              *)
LEMMA FirstIsBest ==
    ASSUME NEW h \in Heaps, Ordered(h, Len(h.pq))
    PROVE  \A k \in 1..Len(h.pq) : ~Before(h, h.pq[k], h.pq[1])
<1> DEFINE n == Len(h.pq)
           B(j, k) == Before(h, h.pq[j], h.pq[k])
           S == {m \in Nat : \A k \in 1..m : k <= n => ~B(k, 1)}
<1>1. n \in Nat /\ \A k \in 1..n : h.pq[k] \in Items
  <2>1. h.pq \in Seq(Items)
    BY DEF Heaps
  <2>2. QED  BY <2>1, ElementsOf
<1>2. \A j, k, l \in 1..n : /\ ~(B(j, k) /\ B(k, j))
                            /\ ~B(j, k) /\ ~B(k, l) => ~B(j, l)
  BY <1>1, BeforeOrder
<1>3. \A k \in 2..n : ~B(k, k \div 2)
  BY DEF Ordered, Less
<1> HIDE DEF B, n
<1>4. 0 \in S
  OBVIOUS
<1>5. ASSUME NEW m \in Nat, m \in S  PROVE  m + 1 \in S
  <2>1. ASSUME m + 1 <= n  PROVE  ~B(m + 1, 1)
    <3>1. m + 1 \in 1..n /\ 1 \in 1..n
      BY <1>1, <2>1
    <3>2. CASE m = 0
      BY <1>2, <3>1, <3>2
    <3>3. CASE m # 0
      <4>1. m + 1 \in 2..n
        BY <3>1, <3>3
      <4>2. (m + 1) \div 2 \in 1..m /\ (m + 1) \div 2 <= n
            /\ (m + 1) \div 2 \in 1..n
        BY <1>1, <4>1
      <4>3. ~B(m + 1, (m + 1) \div 2) /\ ~B((m + 1) \div 2, 1)
        BY <1>3, <1>5, <4>1, <4>2
      <4>4. QED  BY <1>2, <3>1, <4>2, <4>3
    <3>4. QED  BY <3>2, <3>3
  <2>2. \A k \in 1..(m + 1) : k \in 1..m \/ k = m + 1
    OBVIOUS
  <2>3. QED  BY <1>5, <2>1, <2>2
<1> HIDE DEF S
<1>6. n \in S
  BY <1>1, <1>4, <1>5, Induction
<1>7. QED  BY <1>1, <1>6 DEF S, B, n

(* When an item matches, the loop of DequeueFirst finds one.               *)
LEMMA FirstMatches ==
    ASSUME NEW matching, pq \in Seq(Items), ToSet(pq) \cap matching # {}
    PROVE  First(matching) \in 1..Len(pq) /\ pq[First(matching)] \in matching
<1> DEFINE Found(k) == /\ pq[k] \in matching
                       /\ \A j \in 1..(k - 1) : pq[j] \notin matching
           S == {k \in Nat : \A j \in 1..k : j <= Len(pq)
                                               => pq[j] \notin matching}
<1>1. DOMAIN pq = 1..Len(pq) /\ Len(pq) \in Nat
  OBVIOUS
<1>2. \E k \in DOMAIN pq : Found(k)
  <2>1. SUFFICES ASSUME \A k \in 1..Len(pq) : ~Found(k)  PROVE  FALSE
    BY <1>1
  <2>2. 0 \in S
    OBVIOUS
  <2>3. ASSUME NEW k \in Nat, k \in S  PROVE  k + 1 \in S
    <3>1. ASSUME k + 1 <= Len(pq)  PROVE  pq[k + 1] \notin matching
      <4>1. k + 1 \in 1..Len(pq) /\ \A j \in 1..k : j <= Len(pq)
        BY <1>1, <3>1
      <4>2. \A j \in 1..((k + 1) - 1) : pq[j] \notin matching
        BY <2>3, <4>1
      <4>3. QED  BY <2>1, <4>1, <4>2
    <3>2. \A j \in 1..(k + 1) : j \in 1..k \/ j = k + 1
      OBVIOUS
    <3>3. QED  BY <2>3, <3>1, <3>2
  <2> HIDE DEF S
  <2>4. Len(pq) \in S
    BY <1>1, <2>2, <2>3, Induction
  <2>5. \A k \in 1..Len(pq) : pq[k] \notin matching
    BY <1>1, <2>4 DEF S
  <2>6. QED  BY <2>5, ElementsOf
<1>3. First(matching) = CHOOSE k \in DOMAIN pq : Found(k)
  BY DEF First
<1>4. First(matching) \in DOMAIN pq /\ Found(First(matching))
  <2> HIDE DEF Found
  <2>1. QED  BY <1>2, <1>3
<1>5. QED  BY <1>1, <1>4

-----------------------------------------------------------------------------
(* Each operation keeps the invariant and does what the abstract one does. *)

LEMMA EnqueueStep ==
    ASSUME Inv, NEW i \in Items, NEW m \in Apps, Enqueue(i, m)
    PROVE  Inv' /\ Abstract!Enqueue(i, m)
<1> DEFINE h == [heap EXCEPT !.app[i] = m]
           r == HeapPush(h, i)
<1>1. /\ heap \in Heaps /\ heap.pq = pq /\ heap.position = position
      /\ heap.since = since /\ heap.app = app
      /\ Exact(heap) /\ Ordered(heap, Len(pq))
  BY HeapOfState DEF Inv
<1>2. /\ TypeOK /\ pq \in Seq(Items) /\ since \in [Items -> -1..MaxClock]
      /\ app \in [Items -> Apps] /\ clock \in 0..MaxClock /\ clock \in Nat
      /\ MaxClock \in Nat
  BY QueueAssumption DEF Inv, TypeOK
<1>3. /\ i \notin ToSet(pq) /\ Become(r) /\ UNCHANGED clock
      /\ last' = Call("Enqueue", {}, i)
  BY DEF Enqueue
<1>4. h = [pq |-> pq, position |-> position, since |-> since,
           app |-> [app EXCEPT ![i] = m]]
  BY DEF heap
<1> HIDE DEF h
<1>5. i \notin ToSet(pq)
  BY <1>3
<1>6. h \in Heaps /\ Exact(h)
  <2>1. [app EXCEPT ![i] = m] \in [Items -> Apps]
    BY <1>2
  <2>2. h \in Heaps
    BY <1>1, <1>4, <2>1 DEF Heaps
  <2>3. QED  BY <1>1, <1>4, <2>2 DEF Exact
<1>7. Ordered(h, Len(h.pq))
  <2>1. \A x, y \in Items : x # i /\ y # i
                            => (Before(h, x, y) <=> Before(heap, x, y))
    BY <1>1, <1>2, <1>4 DEF Before
  <2>2. ASSUME NEW k \in 2..Len(pq)  PROVE  ~Less(h, k, k \div 2)
    <3>1. k \in 1..Len(pq) /\ k \div 2 \in 1..Len(pq)
      BY <1>2
    <3>2. pq[k] \in Items /\ pq[k \div 2] \in Items
          /\ pq[k] # i /\ pq[k \div 2] # i
      BY <1>2, <1>5, <3>1, ElementsOf
    <3>3. ~Before(heap, pq[k], pq[k \div 2])
      BY <1>1 DEF Ordered, Less
    <3>4. QED  BY <1>4, <2>1, <3>2, <3>3 DEF Less
  <2>3. h.pq = pq
    BY <1>4
  <2>4. QED  BY <2>2, <2>3 DEF Ordered
<1>8. /\ r \in Heaps /\ Exact(r) /\ Ordered(r, Len(r.pq))
      /\ ToSet(r.pq) = ToSet(pq) \cup {i}
      /\ r.app = [app EXCEPT ![i] = m]
      /\ r.since = [since EXCEPT ![i] = clock]
  <2>1. h.pq = pq /\ h.since = since /\ h.app = [app EXCEPT ![i] = m]
    BY <1>4
  <2>2. QED  BY <1>2, <1>5, <1>6, <1>7, <2>1, PushRestores
<1> HIDE DEF r
<1>9. r.since \in [Items -> -1..MaxClock] /\ \A x \in Items : r.since[x] <= clock
  BY <1>2, <1>8 DEF Inv, TimesPassed
<1>10. Inv'
  <2>1. last' \in [op : {"New", "Enqueue", "Dequeue", "DequeueFirst"},
                   matching : SUBSET Items, item : Items \cup {None}]
    BY <1>3 DEF Call
  <2>2. QED  BY <1>2, <1>3, <1>8, <1>9, <2>1, BecomeKeeps
<1>11. Abstract!Enqueue(i, m)
  <2>1. ToSet(pq)' = ToSet(pq) \cup {i}
    BY <1>3, <1>8 DEF Become, ToSet
  <2>2. app' = [app EXCEPT ![i] = m] /\ since' = [since EXCEPT ![i] = clock]
    BY <1>3, <1>8 DEF Become
  <2>3. since'[i] = clock
    BY <1>2, <2>2
  <2>4. \A j \in ToSet(pq) : since[j] <= since'[i]
    BY <1>2, <2>3, ElementsOf DEF Inv, TimesPassed
  <2>5. last' = Abstract!Call("Enqueue", {}, i)
    BY <1>3 DEF Call, Abstract!Call
  <2>6. QED  BY <1>2, <1>5, <2>1, <2>2, <2>3, <2>4, <2>5 DEF Abstract!Enqueue
<1>12. QED  BY <1>10, <1>11

LEMMA TakenStep ==
    ASSUME Inv, NEW i \in Items, NEW r, Without(heap, i, r), Become(r),
           UNCHANGED clock,
           last' \in [op : {"New", "Enqueue", "Dequeue", "DequeueFirst"},
                      matching : SUBSET Items, item : Items \cup {None}]
    PROVE  Inv' /\ Abstract!Take(i)
<1>1. /\ heap.since = since /\ heap.app = app /\ ToSet(heap.pq) = ToSet(pq)
  BY HeapOfState DEF Inv
<1>2. /\ since \in [Items -> -1..MaxClock] /\ clock \in 0..MaxClock
      /\ MaxClock \in Nat
  BY QueueAssumption DEF Inv, TypeOK
<1>3. /\ r \in Heaps /\ Exact(r) /\ Ordered(r, Len(r.pq))
      /\ ToSet(r.pq) = ToSet(pq) \ {i} /\ r.app = app
      /\ r.since = [since EXCEPT ![i] = -1]
  BY <1>1 DEF Without
<1>4. r.since \in [Items -> -1..MaxClock] /\ \A x \in Items : r.since[x] <= clock
  BY <1>2, <1>3 DEF Inv, TimesPassed
<1>5. Inv'
  BY <1>2, <1>3, <1>4, BecomeKeeps
<1>6. Abstract!Take(i)
  <2>1. ToSet(pq)' = ToSet(pq) \ {i}
    BY <1>3 DEF Become, ToSet
  <2>2. QED  BY <1>3, <2>1 DEF Become, Abstract!Take
<1>7. QED  BY <1>5, <1>6

LEMMA DequeueStep ==
    ASSUME Inv, Dequeue
    PROVE  Inv' /\ Abstract!Dequeue
<1>1. /\ heap \in Heaps /\ heap.pq = pq /\ heap.since = since /\ heap.app = app
      /\ Exact(heap) /\ Ordered(heap, Len(heap.pq))
  BY HeapOfState DEF Inv
<1>2. pq \in Seq(Items)
  BY DEF Inv, TypeOK
<1>3. /\ pq # <<>> /\ last' = Call("Dequeue", {}, pq[1])
      /\ Become(HeapPop(heap)) /\ UNCHANGED clock
  BY DEF Dequeue
<1>4. Len(pq) >= 1 /\ 1 \in 1..Len(pq)
  BY <1>2, <1>3
<1>5. pq[1] \in Items /\ pq[1] \in ToSet(pq)
  BY <1>2, <1>4, ElementsOf
<1>6. Without(heap, pq[1], HeapPop(heap))
  BY <1>1, <1>4, PopTakesFirst
<1>7. Inv' /\ Abstract!Take(pq[1])
  <2>1. last' \in [op : {"New", "Enqueue", "Dequeue", "DequeueFirst"},
                   matching : SUBSET Items, item : Items \cup {None}]
    BY <1>3, <1>5 DEF Call
  <2>2. QED  BY <1>3, <1>5, <1>6, <2>1, TakenStep
<1>8. \A j \in ToSet(pq) : ~Abstract!Precedes(j, pq[1])
  <2>1. \A k \in 1..Len(pq) : ~Before(heap, pq[k], pq[1])
    BY <1>1, FirstIsBest
  <2>2. \A j \in ToSet(pq) : ~Before(heap, j, pq[1])
    BY <1>2, <2>1, ElementsOf
  <2>3. QED  BY <1>1, <2>2 DEF Before, Abstract!Precedes
<1>9. last' = Abstract!Call("Dequeue", {}, pq[1])
  BY <1>3 DEF Call, Abstract!Call
<1>10. QED  BY <1>5, <1>7, <1>8, <1>9 DEF Abstract!Dequeue

LEMMA DequeueFirstStep ==
    ASSUME Inv, NEW matching \in SUBSET ToSet(pq), DequeueFirst(matching)
    PROVE  Inv' /\ Abstract!DequeueFirst(matching)
<1>1. /\ heap \in Heaps /\ heap.pq = pq /\ heap.position = position
      /\ Exact(heap) /\ Ordered(heap, Len(heap.pq))
  BY HeapOfState DEF Inv
<1>2. pq \in Seq(Items) /\ matching \subseteq Items
  BY ElementsOf DEF Inv, TypeOK
<1>3. CASE ToSet(pq) \cap matching = {}
  <2>1. /\ last' = Call("DequeueFirst", matching, None)
        /\ UNCHANGED <<pq, position, since, app, clock>>
    BY <1>3 DEF DequeueFirst
  <2>2. TypeOK'
    BY <1>2, <2>1 DEF Inv, TypeOK, Call
  <2>3. heap' = heap
    BY <2>1 DEF heap
  <2>4. Inv'
    BY <2>1, <2>2, <2>3
       DEF Inv, PositionsExact, HeapOrder, TimesPassed, Less, Before
  <2>5. UNCHANGED <<ToSet(pq), app, since>>
    BY <2>1 DEF ToSet
  <2>6. last' = Abstract!Call("DequeueFirst", matching, Abstract!None)
    BY <2>1 DEF Call, None, Abstract!Call, Abstract!None
  <2>7. QED  BY <1>3, <2>4, <2>5, <2>6 DEF Abstract!DequeueFirst
<1>4. CASE ToSet(pq) \cap matching # {}
  <2> DEFINE k == First(matching)
  <2>1. k \in 1..Len(pq) /\ pq[k] \in matching
    BY <1>2, <1>4, FirstMatches
  <2>2. /\ last' = Call("DequeueFirst", matching, pq[k])
        /\ Become(HeapRemove(heap, position[pq[k]] + 1)) /\ UNCHANGED clock
    BY <1>4 DEF DequeueFirst
  <2> HIDE DEF k
  <2>3. position[pq[k]] = k - 1
    BY <1>1, <2>1 DEF Exact
  <2>4. position[pq[k]] + 1 = k
    BY <2>1, <2>3
  <2>5. Without(heap, pq[k], HeapRemove(heap, k))
    BY <1>1, <2>1, RemoveTakes
  <2>6. pq[k] \in Items /\ pq[k] \in ToSet(pq)
    BY <1>2, <2>1, ElementsOf
  <2>7. Inv' /\ Abstract!Take(pq[k])
    <3>1. last' \in [op : {"New", "Enqueue", "Dequeue", "DequeueFirst"},
                     matching : SUBSET Items, item : Items \cup {None}]
      BY <1>2, <2>2, <2>6 DEF Call
    <3>2. QED  BY <2>2, <2>4, <2>5, <2>6, <3>1, TakenStep
  <2>8. last' = Abstract!Call("DequeueFirst", matching, pq[k])
    BY <2>2 DEF Call, Abstract!Call
  <2>9. QED  BY <2>1, <2>6, <2>7, <2>8 DEF Abstract!DequeueFirst
<1>5. QED  BY <1>3, <1>4

LEMMA InitInv == Init => Inv
<1> SUFFICES ASSUME Init PROVE Inv
  OBVIOUS
<1>1. pq = <<>> /\ Len(pq) = 0 /\ MaxClock \in Nat
  BY QueueAssumption DEF Init
<1>2. TypeOK
  BY <1>1 DEF Init, TypeOK, Call
<1>3. PositionsExact /\ HeapOrder /\ TimesPassed
  BY <1>1 DEF Init, PositionsExact, HeapOrder, TimesPassed
<1>4. QED  BY <1>2, <1>3 DEF Inv

LEMMA Step ==
    ASSUME Inv, [Next]_vars
    PROVE  Inv' /\ [Abstract!Next]_(Abstract!vars)
<1>1. CASE Tick \/ UNCHANGED vars
  <2>1. /\ UNCHANGED <<pq, position, since, app, last>>
        /\ clock' = clock \/ (clock < MaxClock /\ clock' = clock + 1)
    BY <1>1 DEF Tick, vars
  <2>2. clock \in 0..MaxClock /\ MaxClock \in Nat
        /\ since \in [Items -> -1..MaxClock]
    BY QueueAssumption DEF Inv, TypeOK
  <2>3. clock' \in 0..MaxClock /\ clock' >= clock
    BY <2>1, <2>2
  <2>4. TypeOK'
    BY <2>1, <2>3 DEF Inv, TypeOK
  <2>5. TimesPassed'
    BY <2>1, <2>2, <2>3 DEF Inv, TimesPassed
  <2>6. heap' = heap
    BY <2>1 DEF heap
  <2>7. Inv'
    BY <2>1, <2>4, <2>5, <2>6
       DEF Inv, PositionsExact, HeapOrder, Less, Before
  <2>8. UNCHANGED Abstract!vars
    BY <2>1 DEF Abstract!vars, ToSet
  <2>9. QED  BY <2>7, <2>8
<1>2. ASSUME NEW i \in Items, NEW m \in Apps, Enqueue(i, m)
      PROVE  Inv' /\ Abstract!Next
  BY <1>2, EnqueueStep DEF Abstract!Next
<1>3. CASE Dequeue
  BY <1>3, DequeueStep DEF Abstract!Next
<1>4. ASSUME NEW matching \in SUBSET ToSet(pq), DequeueFirst(matching)
      PROVE  Inv' /\ Abstract!Next
  <2>1. matching \in SUBSET Items
    BY ElementsOf DEF Inv, TypeOK
  <2>2. QED  BY <1>4, <2>1, DequeueFirstStep DEF Abstract!Next
<1>5. QED  BY <1>1, <1>2, <1>3, <1>4 DEF Next

LEMMA Invariance == Spec => []Inv
<1>1. Inv /\ [Next]_vars => Inv'
  BY Step
<1>2. QED  BY <1>1, InitInv, PTL DEF Spec

(* The position of every queued item is its place in the array, and that   *)
(* of every other item -1, after any calls of Enqueue, Dequeue and         *)
(* DequeueFirst (task_queue.go, Swap, Push and Pop).                       *)
THEOREM PositionsAreExact == Spec => []PositionsExact
<1>1. Inv => PositionsExact
  BY DEF Inv
<1>2. QED  BY <1>1, Invariance, PTL

(* The array is a heap between any two calls: what container/heap does     *)
(* with Less and Swap leaves no item before its parent.                    *)
THEOREM ArrayIsHeap == Spec => []HeapOrder
<1>1. Inv => HeapOrder
  BY DEF Inv
<1>2. QED  BY <1>1, Invariance, PTL

(* The heap implements the abstract queue: Dequeue takes an item that none *)
(* precedes, DequeueFirst the very item it returns, and neither loses or   *)
(* changes another one.                                                    *)
THEOREM HeapImplementsQueue == Spec => Refines
<1>1. Init => Abstract!Init
  BY DEF Init, Abstract!Init, Call, None, Abstract!Call, Abstract!None, ToSet
<1>2. Inv /\ [Next]_vars => [Abstract!Next]_(Abstract!vars)
  BY Step
<1>3. QED  BY <1>1, <1>2, Invariance, PTL DEF Spec, Refines, Abstract!Spec

=============================================================================
