--------------------------- MODULE MessageBuilder ---------------------------
(***************************************************************************)
(* The ports of one slave: what mesos offers, whether an application fits, *)
(* and which ports MesosMessageBuilder picks, maps and tells the task      *)
(* (tasks/builders/builders.go, and fitsInOffer and FulfillOffer of the    *)
(* task manager).  Every offer has enough cpu and memory here.             *)
(***************************************************************************)
EXTENDS Integers, Sequences, FiniteSets

CONSTANTS
    Resources,      \* the slave's ports resources: a sequence of sets
    Apps,
    PortsOf,        \* the values of Application.Ports, as a sequence
    Docker,         \* the applications whose distribution is docker
    TaskIds         \* bounds how many tasks run at a time

ASSUME BuilderAssumption ==
    /\ Resources \in Seq(SUBSET (Nat \ {0}))
    /\ PortsOf \in [Apps -> Seq(Nat)]
    /\ Docker \subseteq Apps

VARIABLES
    tasks,      \* the running tasks: a function of a part of TaskIds
    others,     \* the ports that tasks of other frameworks hold
    panicked    \* the application for which a slice was indexed past its end

vars == <<tasks, others, panicked>>

AllPorts == UNION {Resources[i] : i \in DOMAIN Resources}
Count(a) == Len(PortsOf[a])

(* A PortRange, <<Begin, End>>, and the ports in it.                       *)
PortRanges == Int \X Int
PortsIn(r) == r[1]..r[2]

Granted(t) == PortsIn(tasks[t].taken)
Free == AllPorts \ (others \cup UNION {Granted(t) : t \in DOMAIN tasks})

(* Mesos offers what is free, as ranges that are as long as possible.      *)
Offered(i) == Resources[i] \cap Free
Ranges(S) ==
    {r \in S \X S : /\ r[1] <= r[2] /\ PortsIn(r) \subseteq S
                    /\ r[1] - 1 \notin S /\ r[2] + 1 \notin S}
NumAvail(r) == r[2] - r[1] + 1

-----------------------------------------------------------------------------
(* An offer has no resource for what is used up; fitsInOffer keeps the     *)
(* number that it finds in the last one.                                   *)
LastOffered(i) == \A j \in DOMAIN Resources : j > i => Offered(j) = {}

(* Mutant: the ranges are added up, as cpus and memory are.                *)
FitsTogether(a) ==
    Count(a) = 0 \/ \E i \in DOMAIN Resources :
        LastOffered(i) /\ Cardinality(Offered(i)) >= Count(a)

Fits(a) ==
    Count(a) = 0 \/ \E i \in DOMAIN Resources :
        LastOffered(i) /\ \E r \in Ranges(Offered(i)) : NumAvail(r) >= Count(a)

(* Mutant: one more is added to maxValidBeginPort.                         *)
MakePortRangeLate(min, max, count) ==
    {<<rnd + min, rnd + min + count - 1>> :
        rnd \in 0..(max - min - count + 2)}

(* rand.Intn(n) is one of 0..n-1.                                          *)
MakePortRange(min, max, count) ==
    {<<rnd + min, rnd + min + count - 1>> :
        rnd \in 0..(max - min - count + 1)}

LargeEnough(i, count) == {r \in Ranges(Offered(i)) : count < NumAvail(r)}
NothingTaken == <<1, 0>>

(* GetPorts takes from the first range it finds that is large enough, or   *)
(* nothing.  The order of the ranges in a resource is mesos's.             *)
Candidates(count) ==
    UNION {LargeEnough(i, count) : i \in
              {i \in DOMAIN Resources :
                 \A j \in 1..(i - 1) : LargeEnough(j, count) = {}}}
GetPorts(count) ==
    IF Candidates(count) = {} THEN {NothingTaken}
    ELSE UNION {MakePortRange(r[1], r[2], count) : r \in Candidates(count)}

Reserved(r) == [i \in 1..NumAvail(r) |-> r[1] + i - 1]

(* X_MAPPING of the environment, for the i-th port X.                      *)
BuildTaskEnvironment(a, reserved) == [i \in 1..Count(a) |-> reserved[i]]

(* Mutant: the next port is not moved up to.                               *)
BuildContainerInfoFirst(a, reserved) ==
    IF a \in Docker THEN [i \in 1..Count(a) |-> reserved[1]] ELSE PortsOf[a]

(* The public ports of the mapping that is saved with the deployment.      *)
BuildContainerInfo(a, reserved) ==
    IF a \in Docker THEN [i \in 1..Count(a) |-> reserved[i]] ELSE PortsOf[a]

BuildTaskInfo(a, taken) ==
    [app |-> a, taken |-> taken,
     env |-> BuildTaskEnvironment(a, Reserved(taken)),
     mapping |-> BuildContainerInfo(a, Reserved(taken))]

-----------------------------------------------------------------------------
Init ==
    /\ tasks = <<>>
    /\ others = {}
    /\ panicked = {}

FulfillOffer(t, a) ==
    /\ panicked = {}
    /\ t \notin DOMAIN tasks /\ Fits(a)
    /\ \E taken \in GetPorts(Count(a)) :
         /\ NumAvail(taken) >= Count(a)
         /\ tasks' = [u \in DOMAIN tasks \cup {t} |->
                        IF u = t THEN BuildTaskInfo(a, taken) ELSE tasks[u]]
    /\ UNCHANGED <<others, panicked>>

(* reservedPorts is shorter than the application's ports.                  *)
IndexOutOfRange(a) ==
    /\ panicked = {}
    /\ Fits(a)
    /\ \E taken \in GetPorts(Count(a)) : NumAvail(taken) < Count(a)
    /\ panicked' = {a}
    /\ UNCHANGED <<tasks, others>>

(* Mesos: a task ends, and its resources are offered again.                *)
TaskEnds(t) ==
    /\ panicked = {}
    /\ t \in DOMAIN tasks
    /\ tasks' = [u \in DOMAIN tasks \ {t} |-> tasks[u]]
    /\ UNCHANGED <<others, panicked>>

(* Mesos: another framework is offered a free port, or gives one back.     *)
OthersTake(p) ==
    /\ panicked = {}
    /\ p \in Free
    /\ others' = others \cup {p}
    /\ UNCHANGED <<tasks, panicked>>

OthersReturn(p) ==
    /\ panicked = {}
    /\ p \in others
    /\ others' = others \ {p}
    /\ UNCHANGED <<tasks, panicked>>

Next ==
    \/ \E t \in TaskIds, a \in Apps : FulfillOffer(t, a)
    \/ \E a \in Apps : IndexOutOfRange(a)
    \/ \E t \in TaskIds : TaskEnds(t)
    \/ \E p \in AllPorts : OthersTake(p) \/ OthersReturn(p)

Spec == Init /\ [][Next]_vars

-----------------------------------------------------------------------------
(* Every task is granted exactly as many ports as its application has, and *)
(* maps each of them (BuildResources, BuildContainerInfo).                 *)
TypeOK ==
    /\ DOMAIN tasks \subseteq TaskIds
    /\ \A t \in DOMAIN tasks :
         /\ tasks[t].app \in Apps
         /\ tasks[t].taken \in PortRanges
         /\ NumAvail(tasks[t].taken) = Count(tasks[t].app)
         /\ DOMAIN tasks[t].mapping = 1..Count(tasks[t].app)
    /\ others \subseteq AllPorts
    /\ panicked \subseteq Apps

(* What the random picks take from a fragmented offer nobody else holds.   *)
GrantsDisjoint ==
    \A t \in DOMAIN tasks :
        /\ Granted(t) \subseteq AllPorts \ others
        /\ \A u \in DOMAIN tasks \ {t} : Granted(t) \cap Granted(u) = {}

(* The public port that the health checker takes from the deployment of a  *)
(* docker task is the one the task was told, and no other docker task has  *)
(* it: a check of a docker task never reaches another docker task.         *)
PublicPortsDistinct ==
    \A t, u \in {t \in DOMAIN tasks : tasks[t].app \in Docker} :
        /\ tasks[t].mapping = tasks[t].env
        /\ \A i \in DOMAIN tasks[t].mapping, j \in DOMAIN tasks[u].mapping :
             tasks[t].mapping[i] = tasks[u].mapping[j] => t = u /\ i = j

(* What fits is built, says fitsInOffer; GetPorts never takes a whole      *)
(* range, so there is one case in which it is not: the longest range of    *)
(* all is exactly as long as the application needs.                        *)
PanicsOnExactFit ==
    \A a \in panicked :
        LET lengths == UNION {{NumAvail(r) : r \in Ranges(Offered(i))} :
                                i \in DOMAIN Resources}
        IN  Count(a) > 0 /\ Count(a) \in lengths
               /\ \A n \in lengths : n <= Count(a)

=============================================================================
