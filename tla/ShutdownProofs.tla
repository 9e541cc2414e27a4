--------------------------- MODULE ShutdownProofs ---------------------------
(***************************************************************************)
(* Proofs about Shutdown, for any number of checks, any pool and any       *)
(* number of requests in a round of the SLA loop.                          *)
(***************************************************************************)
EXTENDS Shutdown, TLAPS

Stopping == {"stopPool", "awaitPool", "closeFailures", "closeResults",
             "stopSla", "awaitSla", "reply"}
AfterPool == {"closeFailures", "closeResults", "stopSla", "awaitSla",
              "reply", "done"}

(* How far main is says how far the loop is ...                            *)
MainAndLoop ==
    /\ main \in {"serving", "closing", "await", "close", "framework",
                 "stores", "exited"}
    /\ main \in {"serving", "closing"} => loop \in {"select", "notify"}
    /\ main = "await" => loop \in Stopping
    /\ main \in {"close", "framework", "stores", "exited"} => loop = "done"

(* ... how far the loop is, how far the pool and the monitor are ...       *)
LoopAndOthers ==
    /\ loop = "awaitPool" => pool \in {"closing", "reply"}
    /\ loop \in AfterPool => pool \in {"closeWork", "done"}
    /\ loop = "awaitSla" => monitor = "reply"
    /\ loop \in {"reply", "done"} => monitor = "done"

(* ... and both, what can have been closed.                                *)
ClosedAfter ==
    /\ "tasksToKill" \in closed
           => main \in {"framework", "stores", "exited"}
    /\ "results" \in closed
           => loop \in {"stopSla", "awaitSla", "reply", "done"}

Inv == MainAndLoop /\ LoopAndOthers /\ ClosedAfter /\ ProtectedChannels

LEMMA InvInit == Init => Inv
BY DEF Init, Inv, MainAndLoop, LoopAndOthers, ClosedAfter, ProtectedChannels,
       AfterPool

LEMMA InvStep == Inv /\ [Next]_vars => Inv'
<1> SUFFICES ASSUME Inv, [Next]_vars
             PROVE  Inv'
  OBVIOUS
<1> USE DEF Inv, MainAndLoop, LoopAndOthers, ClosedAfter, ProtectedChannels,
            Stopping, AfterPool, control, slaVars, circle
<1>1. CASE Interrupt
  BY <1>1 DEF Interrupt
<1>2. CASE ReceiveClosing
  BY <1>2 DEF ReceiveClosing
<1>3. CASE MainStep
  BY <1>3 DEF MainStep, CloseTasksToKill, StopFramework, StopStores
<1>4. CASE ReceiveFailure
  BY <1>4 DEF ReceiveFailure
<1>5. CASE ReceiveScaling
  BY <1>5 DEF ReceiveScaling
<1>6. CASE LoopStep
  <2>1. CASE Notify
    BY <2>1 DEF Notify
  <2>2. CASE CloseFailures \/ CloseResults
    BY <2>2 DEF CloseFailures, CloseResults
  <2>3. CASE StopSla \/ ReplySla
    BY <2>3 DEF StopSla, ReplySla
  <2>4. CASE ReplyPool \/ Reply
    BY <2>4 DEF ReplyPool, Reply
  <2>5. QED  BY <1>6, <2>1, <2>2, <2>3, <2>4 DEF LoopStep
<1>7. CASE KillerStep
  BY <1>7 DEF KillerStep, KillApp, KillLoopEnds
<1>8. ASSUME NEW n \in 0..MaxChanges, CheckSLAConformance(n)
      PROVE  Inv'
  BY <1>8 DEF CheckSLAConformance
<1>9. CASE StopPool
  BY <1>9 DEF StopPool
<1>10. CASE ReceiveWork \/ ReceiveUpdate
  BY <1>10 DEF ReceiveWork, ReceiveUpdate
<1>11. CASE PoolStep
  BY <1>11 DEF PoolStep, CloseUpdates, CloseWork, Forward
<1>12. CASE CheckerStep
  <2>1. UNCHANGED <<control, slaVars, pool, closed>>
    BY <1>12 DEF CheckerStep, Check, Dequeue, SendWork, ReceiveResult,
                 FailOnClosed, DispatcherEnds
  <2>2. panicked' \in {panicked, "updates", "work", "failures"}
    BY <1>12 DEF CheckerStep, Check, Dequeue, SendWork, ReceiveResult,
                 FailOnClosed, DispatcherEnds
  <2>3. QED  BY <2>1, <2>2
<1>13. CASE UNCHANGED vars
  BY <1>13 DEF vars
<1>14. QED
  BY <1>1, <1>2, <1>3, <1>4, <1>5, <1>6, <1>7, <1>8, <1>9, <1>10, <1>11,
     <1>12, <1>13 DEF Next, Step

LEMMA Invariance == Spec => []Inv
BY InvInit, InvStep, PTL DEF Spec

(* listenForHealthFailures and the pool never send on tasksToKill or       *)
(* results once Stop has closed them.                                      *)
THEOREM ChannelsAreProtected == Spec => []ProtectedChannels
<1>1. Inv => ProtectedChannels
  BY DEF Inv
<1>2. QED  BY <1>1, Invariance, PTL

(* The goroutines that use the stores have ended before Stop goes on to    *)
(* close them.                                                             *)
THEOREM StoresAreLast == Spec => []StoresOutliveLoops
<1>1. Inv => StoresOutliveLoops
  BY DEF Inv, MainAndLoop, LoopAndOthers, StoresOutliveLoops
<1>2. QED  BY <1>1, Invariance, PTL

(* No step of any goroutine resolves one of the two deadlocks of Stop.     *)
THEOREM StuckForGood == Spec => StaysStuck
<1> DEFINE Stays == (SlaStuck => SlaStuck') /\ (PoolStuck => PoolStuck')
<1>1. ASSUME Next
      PROVE  Stays
  <2> USE DEF control, slaVars, circle
  <2>1. ASSUME SlaStuck
        PROVE  SlaStuck'
    BY <1>1, <2>1
    DEF SlaStuck, Next, Step, Interrupt, ReceiveClosing, MainStep,
        CloseTasksToKill, StopFramework, StopStores, ReceiveFailure,
        ReceiveScaling, LoopStep, Notify, CloseFailures, CloseResults,
        StopSla, ReplySla, ReplyPool, Reply, KillerStep, KillApp,
        KillLoopEnds, CheckSLAConformance, StopPool, ReceiveWork,
        ReceiveUpdate, PoolStep, CloseUpdates, CloseWork, Forward,
        CheckerStep, Check, Dequeue, SendWork, ReceiveResult, FailOnClosed,
        DispatcherEnds
  <2>2. ASSUME PoolStuck
        PROVE  PoolStuck'
    BY <1>1, <2>2, ShutdownAssumption
    DEF PoolStuck, Next, Step, Interrupt, ReceiveClosing, MainStep,
        CloseTasksToKill, StopFramework, StopStores, ReceiveFailure,
        ReceiveScaling, LoopStep, Notify, CloseFailures, CloseResults,
        StopSla, ReplySla, ReplyPool, Reply, KillerStep, KillApp,
        KillLoopEnds, CheckSLAConformance, StopPool, ReceiveWork,
        ReceiveUpdate, PoolStep, CloseUpdates, CloseWork, Forward,
        CheckerStep, Check, Dequeue, SendWork, ReceiveResult, FailOnClosed,
        DispatcherEnds
  <2>3. QED  BY <2>1, <2>2
<1>2. QED  BY <1>1, PTL DEF Spec, StaysStuck

=============================================================================
