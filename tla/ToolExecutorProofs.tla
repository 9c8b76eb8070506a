------------------------- MODULE ToolExecutorProofs -------------------------
(***************************************************************************)
(* Proofs about ToolExecutor, for every set of calls, every classification *)
(* of them, every semaphore size and every length of a response.           *)
(*                                                                         *)
(* IInv is the inductive invariant.  RequestOrder is not inductive by      *)
(* itself: it needs to know that the blocks before the batch are done,     *)
(* that those after it were not touched, and that the members of a batch   *)
(* are of one class.                                                       *)
(***************************************************************************)
EXTENDS ToolExecutor, FiniteSetTheorems, TLAPS

\* The batch lies within the response, behind it everything is done and
\* ahead of it nothing was started.
Window ==
    /\ lo \in Nat \ {0} /\ lo <= hi + 1 /\ hi <= Len(blocks)
    /\ \A i \in DOMAIN blocks : i < lo => pc[i] = "done"
    /\ \A i \in DOMAIN blocks : i > hi => pc[i] = "idle"

\* The members of a batch join the block that opened it.
OneClass == \A k \in lo..hi : Joins(lo, k)

\* In a serial batch a call that was started has every earlier one behind it,
\* and none of its calls takes part in the semaphore.
SerialBatch ==
    \A j \in lo..hi :
        ~IsParallel(j) =>
            /\ pc[j] \in {"idle", "running", "done"}
            /\ Started(j) => \A i \in lo..(j - 1) : Ended(i)

\* The worktree session remembers a real directory, and so does each call
\* that runs.
RealDirs ==
    /\ inTree => original \in Dirs
    /\ \A i \in DOMAIN blocks : pc[i] = "running" => seen[i] \in Dirs

\* Only a call that has ended has a result.
NoEarlyResult ==
    \A i \in DOMAIN blocks : results[i] # "none" => pc[i] = "done"

IInv ==
    /\ TypeOK /\ Window /\ OneClass /\ SerialBatch /\ RealDirs
    /\ NoEarlyResult /\ RefusedOnce
-----------------------------------------------------------------------------
\* The positions of a response, and the functions over them.
LEMMA Positions ==
    ASSUME TypeOK
    PROVE  /\ Len(blocks) \in Nat /\ DOMAIN blocks = 1..Len(blocks)
           /\ \A i \in DOMAIN blocks : blocks[i] \in Calls
           /\ DOMAIN pc = DOMAIN blocks
BY DEF TypeOK

\* Calls of one batch are of one class.
LEMMA BatchClass ==
    ASSUME OneClass, NEW i \in lo..hi, NEW j \in lo..hi
    PROVE  /\ i # j => ClassOf(i) = ClassOf(j)
           /\ IsParallel(i) <=> IsParallel(j)
BY DEF OneClass, Joins, IsParallel

\* The order of the calls follows from the shape of the batch.
LEMMA OrderFromBatch == IInv => RequestOrder
<1> SUFFICES ASSUME IInv,
                    NEW i \in DOMAIN blocks, NEW j \in DOMAIN blocks,
                    i < j, ~(IsParallel(i) /\ IsParallel(j)), Started(j)
             PROVE  Ended(i)
    BY DEF RequestOrder
<1>1. i \in Nat /\ j \in Nat /\ lo \in Nat /\ hi \in Nat
    BY Positions DEF IInv, TypeOK, Window
<1>2. j <= hi
    BY <1>1 DEF IInv, Window, Started
<1>3. CASE i < lo
    BY <1>3 DEF IInv, Window, Ended
<1>4. CASE i >= lo
    <2>1. i \in lo..hi /\ j \in lo..hi
        BY <1>1, <1>2, <1>4
    <2>2. ~IsParallel(j)
        BY <2>1, BatchClass DEF IInv
    <2>3. i \in lo..(j - 1)
        BY <1>1, <1>4
    <2> QED
        BY <2>1, <2>2, <2>3 DEF IInv, SerialBatch
<1> QED
    BY <1>1, <1>3, <1>4

LEMMA InitInv == Init => IInv
<1> SUFFICES ASSUME Init PROVE IInv
    OBVIOUS
<1>1. TypeOK
    <2>1. DOMAIN blocks = {}
        BY DEF Init
    <2>2. /\ pc \in [DOMAIN blocks -> Phases]
          /\ results \in [DOMAIN blocks -> Outcomes]
          /\ seen \in [DOMAIN blocks -> Dirs \cup {NoDir}]
        BY <2>1 DEF Init
    <2>3. blocks \in Seq(Calls) /\ lo \in Nat /\ hi \in Nat
        BY DEF Init
    <2>4. {aborted, cancelled, detached, over, inTree} \subseteq BOOLEAN
        BY DEF Init
    <2>5. denials \subseteq Calls /\ cwd \in Dirs
          /\ original \in Dirs \cup {NoDir}
        BY DEF Init, Dirs
    <2> QED
        BY <2>2, <2>3, <2>4, <2>5 DEF TypeOK
<1>2. Window /\ OneClass /\ SerialBatch
    BY DEF Init, Window, OneClass, SerialBatch
<1>3. RealDirs /\ NoEarlyResult /\ RefusedOnce
    BY DEF Init, RealDirs, NoEarlyResult, RefusedOnce
<1> QED
    BY <1>1, <1>2, <1>3 DEF IInv

\* Recording a result without running the tool keeps the invariant.
LEMMA SettleKeeps ==
    ASSUME IInv, NEW i \in lo..hi, NEW out \in Outcomes,
           out # "none", IsParallel(i) \/ SerialTurn(i), pc[i] # "done",
           Settle(i, out)
    PROVE  IInv'
<1> USE DEF Settle
<1>1. i \in DOMAIN blocks
    BY Positions DEF IInv, TypeOK, Window
<1>2. TypeOK'
    BY <1>1 DEF IInv, TypeOK, Phases
<1>3. Window'
    BY <1>1, Positions DEF IInv, Window, TypeOK
<1>4. OneClass'
    BY DEF IInv, OneClass, Joins, Batchable, ClassOf
<1>5. SerialBatch'
    BY <1>1 DEF IInv, SerialBatch, SerialTurn, Started, Ended, IsParallel,
                ClassOf, TypeOK, Window
<1>6. RealDirs'
    BY <1>1 DEF IInv, RealDirs, TypeOK
<1>7. NoEarlyResult'
    BY <1>1 DEF IInv, NoEarlyResult, TypeOK
<1>8. RefusedOnce'
    BY <1>1 DEF IInv, RefusedOnce, NoEarlyResult, TypeOK, IsParallel, ClassOf
<1> QED
    BY <1>2, <1>3, <1>4, <1>5, <1>6, <1>7, <1>8 DEF IInv

\* Moving a goroutine of a parallel batch towards its slot keeps it, too.
LEMMA AdmitKeeps ==
    ASSUME IInv, NEW i \in lo..hi, NEW phase \in {"waiting", "admitted"},
           IsParallel(i), pc[i] # "done",
           pc' = [pc EXCEPT ![i] = phase],
           UNCHANGED <<blocks, lo, hi, results, aborted, cancelled, detached,
                       over, denials, cwd, inTree, original, seen>>
    PROVE  IInv'
<1>1. i \in DOMAIN blocks
    BY Positions DEF IInv, TypeOK, Window
<1>2. TypeOK'
    BY <1>1 DEF IInv, TypeOK, Phases
<1>3. Window'
    BY <1>1, Positions DEF IInv, Window, TypeOK
<1>4. OneClass'
    BY DEF IInv, OneClass, Joins, Batchable, ClassOf
<1>5. SerialBatch'
    <2> SUFFICES ASSUME NEW j \in lo..hi, ~IsParallel(j)
                 PROVE  /\ pc'[j] = pc[j]
                        /\ \A k \in lo..(j - 1) : pc'[k] = pc[k]
        BY DEF IInv, SerialBatch, Started, Ended, IsParallel, ClassOf
    <2>1. \A k \in lo..hi : k # i
        BY BatchClass DEF IInv
    <2> QED
        BY <2>1, <1>1 DEF IInv, TypeOK
<1>6. RealDirs' /\ NoEarlyResult'
    BY <1>1 DEF IInv, RealDirs, NoEarlyResult, TypeOK
<1>7. RefusedOnce'
    BY <1>1 DEF IInv, RefusedOnce, TypeOK, IsParallel, ClassOf
<1> QED
    BY <1>2, <1>3, <1>4, <1>5, <1>6, <1>7 DEF IInv

\* Handing a call that was not refused to its tool keeps the invariant.
LEMMA LaunchKeeps ==
    ASSUME IInv, NEW i \in lo..hi, IsParallel(i) \/ SerialTurn(i),
           pc[i] # "done", blocks[i] \notin denials, Launch(i)
    PROVE  IInv'
<1> USE DEF Launch
<1>1. i \in DOMAIN blocks
    BY Positions DEF IInv, TypeOK, Window
<1>2. TypeOK'
    BY <1>1 DEF IInv, TypeOK, Phases
<1>3. Window'
    BY <1>1, Positions DEF IInv, Window, TypeOK
<1>4. OneClass'
    BY DEF IInv, OneClass, Joins, Batchable, ClassOf
<1>5. SerialBatch'
    BY <1>1, BatchClass
       DEF IInv, SerialBatch, SerialTurn, Started, Ended, IsParallel,
           ClassOf, TypeOK, Window
<1>6. RealDirs' /\ NoEarlyResult'
    BY <1>1 DEF IInv, RealDirs, NoEarlyResult, TypeOK
<1>7. RefusedOnce'
    BY <1>1 DEF IInv, RefusedOnce, TypeOK, IsParallel, ClassOf
<1> QED
    BY <1>2, <1>3, <1>4, <1>5, <1>6, <1>7 DEF IInv

\* So does the return of a tool.  When the gate refuses a call, the only
\* other run of the same call is a twin in the same parallel batch.
LEMMA ReturnKeeps ==
    ASSUME IInv, NEW i \in lo..hi, NEW out \in Outcomes, Return(i, out)
    PROVE  IInv'
<1> USE DEF Return
<1>1. i \in DOMAIN blocks
    BY Positions DEF IInv, TypeOK, Window
<1>2. TypeOK'
    <2>1. (blocks \in Seq(Calls) /\ lo \in Nat /\ hi \in Nat)'
        BY DEF IInv, TypeOK
    <2>2. pc' \in [DOMAIN blocks -> Phases]
          /\ results' \in [DOMAIN blocks -> Outcomes]
        BY <1>1 DEF IInv, TypeOK, Phases
    <2>3. inTree' \in BOOLEAN /\ cwd' \in Dirs
          /\ original' \in Dirs \cup {NoDir}
        BY <1>1 DEF IInv, TypeOK, RealDirs, ToolEffect, Dirs
    <2>4. aborted' \in BOOLEAN
        OBVIOUS
    <2>5. {aborted, cancelled, detached, over, inTree}' \subseteq BOOLEAN
        BY <2>3, <2>4 DEF IInv, TypeOK
    <2>6. denials' \subseteq Calls
        BY <1>1, Positions DEF IInv, TypeOK
    <2>7. (seen \in [DOMAIN blocks -> Dirs \cup {NoDir}])'
        BY DEF IInv, TypeOK
    <2> QED
        BY <2>1, <2>2, <2>3, <2>5, <2>6, <2>7 DEF TypeOK
<1>3. Window'
    BY <1>1, Positions DEF IInv, Window, TypeOK
<1>4. OneClass'
    BY DEF IInv, OneClass, Joins, Batchable, ClassOf
<1>5. SerialBatch'
    BY <1>1 DEF IInv, SerialBatch, Started, Ended, IsParallel, ClassOf,
                TypeOK, Window
<1>6. RealDirs'
    BY <1>1 DEF IInv, RealDirs, TypeOK, ToolEffect
<1>7. NoEarlyResult'
    BY <1>1 DEF IInv, NoEarlyResult, TypeOK
<1>8. RefusedOnce'
    <2> SUFFICES ASSUME NEW j \in DOMAIN blocks, pc'[j] = "running",
                        blocks[j] \in denials'
                 PROVE  \E k \in lo..hi :
                            /\ k # j /\ IsParallel(k)
                            /\ blocks[k] = blocks[j] /\ results'[k] = "denied"
        BY DEF RefusedOnce, IsParallel, ClassOf
    <2>1. j # i /\ pc[j] = "running"
        BY <1>1 DEF IInv, TypeOK
    <2>2. CASE blocks[j] \in denials
        <3>1. PICK k \in lo..hi : k # j /\ IsParallel(k)
                    /\ blocks[k] = blocks[j] /\ results[k] = "denied"
            BY <2>1, <2>2 DEF IInv, RefusedOnce
        <3>2. k \in DOMAIN blocks
            BY Positions DEF IInv, TypeOK, Window
        <3>3. k # i
            BY <3>1, <3>2 DEF IInv, NoEarlyResult
        <3> QED
            BY <3>1, <3>2, <3>3 DEF IInv, TypeOK
    <2>3. CASE blocks[j] \notin denials
        <3>1. out = "denied" /\ blocks[j] = blocks[i]
            BY <2>3
        <3>2. j \in lo..hi
            BY <2>1, Positions DEF IInv, TypeOK, Window
        <3>3. IsParallel(i) <=> IsParallel(j)
            BY <3>2, BatchClass DEF IInv
        <3>4. IsParallel(i)
            <4>1. i \in Nat /\ j \in Nat /\ lo \in Nat
                BY Positions DEF IInv, TypeOK
            <4>2. i \in lo..(j - 1) \/ j \in lo..(i - 1)
                BY <4>1, <3>2, <2>1
            <4> QED
                BY <4>2, <3>2, <3>3, <2>1
                   DEF IInv, SerialBatch, Started, Ended
        <3>5. results'[i] = "denied"
            BY <3>1, <1>1 DEF IInv, TypeOK
        <3> QED
            BY <3>1, <3>4, <3>5, <2>1
    <2> QED
        BY <2>2, <2>3
<1> QED
    BY <1>2, <1>3, <1>4, <1>5, <1>6, <1>7, <1>8 DEF IInv

\* A new response starts with nothing executed.
LEMMA ExecuteKeeps ==
    ASSUME IInv, NEW bs \in Responses, Execute(bs)
    PROVE  IInv'
<1> USE DEF Execute
<1>1. bs \in Seq(Calls) /\ Len(bs) \in Nat
    BY BlocksAssumption DEF Responses
<1>2. TypeOK'
    <2>1. (blocks \in Seq(Calls) /\ lo \in Nat /\ hi \in Nat)'
        BY <1>1
    <2>2. pc' \in [DOMAIN bs -> Phases] /\ results' \in [DOMAIN bs -> Outcomes]
          /\ seen' \in [DOMAIN bs -> Dirs \cup {NoDir}]
        BY DEF Phases, Outcomes
    <2>3. {aborted, cancelled, detached, over, inTree}' \subseteq BOOLEAN
        BY DEF IInv, TypeOK
    <2>4. (denials \subseteq Calls /\ cwd \in Dirs
           /\ original \in Dirs \cup {NoDir})'
        BY DEF IInv, TypeOK, Dirs
    <2> QED
        BY <2>1, <2>2, <2>3, <2>4 DEF TypeOK
<1>3. Window' /\ OneClass' /\ SerialBatch'
    BY <1>1 DEF Window, OneClass, SerialBatch
<1>4. RealDirs' /\ NoEarlyResult' /\ RefusedOnce'
    BY DEF IInv, RealDirs, NoEarlyResult, RefusedOnce
<1> QED
    BY <1>2, <1>3, <1>4 DEF IInv

\* The next batch begins when the current one is done.
LEMMA NextGroupKeeps ==
    ASSUME IInv, NextGroup
    PROVE  IInv'
<1>1. PICK j \in (hi + 1)..Len(blocks) :
            IsGroup(hi + 1, j) /\ lo' = hi + 1 /\ hi' = j
    BY DEF NextGroup
<1>2. /\ \A k \in lo..hi : pc[k] = "done"
      /\ aborted' = FALSE
      /\ UNCHANGED <<blocks, pc, results, cancelled, detached, over, denials,
                     cwd, inTree, original, seen>>
    BY DEF NextGroup
<1>3. TypeOK'
    <2>1. {aborted, cancelled, detached, over, inTree}' \subseteq BOOLEAN
        BY <1>2 DEF IInv, TypeOK
    <2>2. lo' \in Nat /\ hi' \in Nat
        BY <1>1 DEF IInv, TypeOK
    <2> QED
        BY <1>2, <2>1, <2>2 DEF IInv, TypeOK
<1>4. \A i \in DOMAIN blocks : i < lo' => pc[i] = "done"
    BY <1>1, <1>2, Positions DEF IInv, Window, TypeOK
<1>5. \A i \in DOMAIN blocks : i >= lo' => pc[i] = "idle"
    BY <1>1, Positions DEF IInv, Window, TypeOK
<1>6. Window'
    BY <1>1, <1>2, <1>4, <1>5, Positions DEF IInv, Window, TypeOK
<1>7. OneClass'
    BY <1>1, <1>2 DEF OneClass, IsGroup, Joins, Batchable, ClassOf
<1>8. SerialBatch'
    BY <1>1, <1>2, <1>5, Positions DEF IInv, TypeOK, Window, SerialBatch, Started
<1>9. RealDirs' /\ NoEarlyResult'
    BY <1>2 DEF IInv, RealDirs, NoEarlyResult
<1>10. RefusedOnce'
    <2>1. \A i \in DOMAIN blocks : i \in Nat /\ pc[i] # "running"
        <3>1. lo' \in Nat /\ DOMAIN blocks \subseteq Nat
            BY <1>1, Positions DEF IInv, TypeOK
        <3> QED
            BY <1>4, <1>5, <3>1
    <2> QED
        BY <1>2, <2>1 DEF RefusedOnce
<1> QED
    BY <1>3, <1>6, <1>7, <1>8, <1>9, <1>10 DEF IInv

\* Collecting the results leaves the executor idle.
LEMMA CollectKeeps ==
    ASSUME IInv, Collect
    PROVE  IInv'
<1> USE DEF Collect
<1>1. TypeOK'
    <2>1. blocks' = <<>> /\ DOMAIN blocks' = {}
        OBVIOUS
    <2>2. /\ pc' \in [DOMAIN blocks' -> Phases]
          /\ results' \in [DOMAIN blocks' -> Outcomes]
          /\ seen' \in [DOMAIN blocks' -> Dirs \cup {NoDir}]
        BY <2>1
    <2>3. detached' \in BOOLEAN /\ cancelled' \in BOOLEAN /\ over' \in BOOLEAN
        BY Zenon
    <2>4. {aborted, cancelled, detached, over, inTree}' \subseteq BOOLEAN
        BY <2>3 DEF IInv, TypeOK
    <2>5. (blocks \in Seq(Calls) /\ lo \in Nat /\ hi \in Nat)'
        OBVIOUS
    <2>6. (denials \subseteq Calls /\ cwd \in Dirs
           /\ original \in Dirs \cup {NoDir})'
        BY DEF IInv, TypeOK
    <2> QED
        BY <2>2, <2>4, <2>5, <2>6 DEF TypeOK
<1>2. Window' /\ OneClass' /\ SerialBatch'
    BY DEF Window, OneClass, SerialBatch
<1>3. RealDirs' /\ NoEarlyResult' /\ RefusedOnce'
    BY DEF IInv, RealDirs, NoEarlyResult, RefusedOnce
<1> QED
    BY <1>1, <1>2, <1>3 DEF IInv

\* Cancelling a query, starting the next one and stuttering leave the
\* execution alone.
LEMMA OutsideKeeps ==
    ASSUME IInv,
           UNCHANGED <<blocks, lo, hi, pc, results, aborted, denials, cwd,
                       inTree, original, seen>>,
           {cancelled, detached, over}' \subseteq BOOLEAN
    PROVE  IInv'
<1>1. TypeOK'
    BY DEF IInv, TypeOK
<1>2. Window' /\ OneClass' /\ SerialBatch'
    BY DEF IInv, Window, OneClass, Joins, Batchable, SerialBatch, Started,
           Ended, IsParallel, ClassOf
<1>3. RealDirs' /\ NoEarlyResult' /\ RefusedOnce'
    BY DEF IInv, RealDirs, NoEarlyResult, RefusedOnce, IsParallel, ClassOf
<1> QED
    BY <1>1, <1>2, <1>3 DEF IInv

\* Every step a block takes keeps the invariant.
LEMMA StepKeeps ==
    ASSUME IInv, NEW i \in lo..hi, Step(i)
    PROVE  IInv'
<1>1. CASE SerialAborted(i)
    BY <1>1, SettleKeeps DEF SerialAborted, SerialTurn, Outcomes
<1>2. CASE SerialUnknown(i)
    BY <1>2, SettleKeeps DEF SerialUnknown, SerialTurn, Outcomes
<1>3. CASE SerialCached(i)
    BY <1>3, SettleKeeps DEF SerialCached, SerialTurn, Outcomes
<1>4. CASE SerialLaunch(i)
    BY <1>4, LaunchKeeps DEF SerialLaunch, SerialTurn
<1>5. CASE GoStart(i)
    BY <1>5, AdmitKeeps DEF GoStart, ParallelTurn
<1>6. CASE GoAborted(i)
    BY <1>6, SettleKeeps DEF GoAborted, ParallelTurn, Outcomes
<1>7. CASE GoAcquire(i)
    BY <1>7, AdmitKeeps DEF GoAcquire, ParallelTurn
<1>8. CASE GoCached(i)
    BY <1>8, SettleKeeps DEF GoCached, ParallelTurn, Outcomes
<1>9. CASE GoLaunch(i)
    BY <1>9, LaunchKeeps DEF GoLaunch, ParallelTurn
<1>10. CASE \E out \in Outcomes : Return(i, out)
    BY <1>10, ReturnKeeps
<1> QED
    BY <1>1, <1>2, <1>3, <1>4, <1>5, <1>6, <1>7, <1>8, <1>9, <1>10 DEF Step

LEMMA Inductive == IInv /\ [Next]_vars => IInv'
<1> SUFFICES ASSUME IInv, [Next]_vars PROVE IInv'
    OBVIOUS
<1>1. CASE \E bs \in Responses : Execute(bs)
    BY <1>1, ExecuteKeeps
<1>2. CASE NextGroup
    BY <1>2, NextGroupKeeps
<1>3. CASE Collect
    BY <1>3, CollectKeeps
<1>4. CASE \E i \in lo..hi : Step(i)
    BY <1>4, StepKeeps
<1>5. CASE Cancel
    <2>1. {cancelled, detached, over}' \subseteq BOOLEAN
        BY <1>5 DEF Cancel, Idle, IInv, TypeOK
    <2> QED
        BY <1>5, <2>1, OutsideKeeps DEF Cancel
<1>6. CASE NextQuery
    BY <1>6, OutsideKeeps DEF NextQuery
<1>7. CASE UNCHANGED vars
    <2>1. {cancelled, detached, over}' \subseteq BOOLEAN
        BY <1>7 DEF vars, IInv, TypeOK
    <2> QED
        BY <1>7, <2>1, OutsideKeeps DEF vars
<1> QED
    BY <1>1, <1>2, <1>3, <1>4, <1>5, <1>6, <1>7 DEF Next, Progress

LEMMA Invariance == Spec => []IInv
BY InitInv, Inductive, PTL DEF Spec

\* Every variable has its type in every reachable state.
THEOREM TypeCorrect == Spec => []TypeOK
<1>1. IInv => TypeOK
    BY DEF IInv
<1> QED
    BY <1>1, Invariance, PTL

\* Whatever the classes of the calls and the interleaving of the goroutines,
\* only calls of one parallel batch overlap (partitionGroups and Execute).
THEOREM CallsInOrder == Spec => []RequestOrder
BY OrderFromBatch, Invariance, PTL

\* A call the permission gate refused is not run again (the denial cache of
\* StreamConfig), but for twins already running in one parallel batch.
THEOREM NoRetryOfRefused == Spec => []RefusedOnce
<1>1. IInv => RefusedOnce
    BY DEF IInv
<1> QED
    BY <1>1, Invariance, PTL
-----------------------------------------------------------------------------
(* The semaphore.                                                          *)

Holders == {i \in DOMAIN blocks : Holding(i)}

LEMMA HoldersFinite ==
    ASSUME TypeOK
    PROVE  IsFiniteSet(Holders) /\ Cardinality(Holders) \in Nat
<1>1. IsFiniteSet(DOMAIN blocks)
    BY Positions, FS_Interval
<1>2. Holders \subseteq DOMAIN blocks
    BY DEF Holders
<1> QED
    BY <1>1, <1>2, FS_Subset, FS_CardinalityType

\* A step that lets no further call hold a slot keeps the bound.
LEMMA FewerHolders ==
    ASSUME TypeOK, SlotBound, Holders' \subseteq Holders
    PROVE  SlotBound'
<1>1. Cardinality(Holders') <= Cardinality(Holders)
    BY HoldersFinite, FS_Subset
<1>2. Cardinality(Holders') \in Nat
    BY HoldersFinite, FS_Subset, FS_CardinalityType
<1> QED
    BY <1>1, <1>2, HoldersFinite, ConcurrencyAssumption DEF SlotBound, Holders

\* Only the batch under execution holds slots.
LEMMA HoldersInBatch == IInv => Holders = SlotsTaken
BY Positions DEF IInv, TypeOK, Window, Holders, SlotsTaken, Holding

\* A goroutine takes a slot only when one is free.
LEMMA AcquireBound ==
    ASSUME IInv, SlotBound, NEW i \in lo..hi, GoAcquire(i)
    PROVE  SlotBound'
<1>1. i \in DOMAIN blocks /\ i \notin Holders
    BY Positions
       DEF IInv, TypeOK, Window, GoAcquire, ParallelTurn, Holders, Holding
<1>2. Holders' = Holders \cup {i}
    BY <1>1 DEF GoAcquire, Holders, Holding, IInv, TypeOK
<1>3. Cardinality(Holders') = Cardinality(Holders) + 1
    BY <1>1, <1>2, HoldersFinite, FS_AddElement DEF IInv
<1>4. Cardinality(Holders) < MaxConcurrency
    BY HoldersInBatch DEF GoAcquire
<1> QED
    BY <1>3, <1>4, HoldersFinite, ConcurrencyAssumption
       DEF SlotBound, Holders, IInv

\* In a serial batch the call that is started is the only one that runs.
LEMMA SerialLaunchBound ==
    ASSUME IInv, NEW i \in lo..hi, SerialLaunch(i)
    PROVE  SlotBound'
<1>1. i \in DOMAIN blocks /\ ~IsParallel(i) /\ pc[i] = "idle"
      /\ \A k \in lo..(i - 1) : pc[k] = "done"
    BY Positions DEF IInv, TypeOK, Window, SerialLaunch, SerialTurn
<1>2. ASSUME NEW k \in Holders PROVE k = i
    <2>1. k \in lo..hi /\ k \in Nat /\ i \in Nat /\ lo \in Nat
        BY Positions DEF IInv, TypeOK, Window, Holders, Holding
    <2>2. ~IsParallel(k)
        BY <1>1, <2>1, BatchClass DEF IInv
    <2>3. Started(k) /\ ~Ended(k)
        BY DEF Holders, Holding, Started, Ended
    <2>4. ~(k < i)
        BY <1>1, <2>1, <2>3 DEF Ended
    <2>5. ~(i < k)
        <3> SUFFICES ASSUME i < k PROVE FALSE
            OBVIOUS
        <3>1. i \in lo..(k - 1)
            BY <2>1
        <3> QED
            BY <1>1, <2>1, <2>2, <2>3, <3>1
               DEF IInv, SerialBatch, Ended
    <2> QED
        BY <2>1, <2>4, <2>5
<1>3. Holders' \subseteq {i}
    BY <1>1, <1>2 DEF SerialLaunch, Launch, Holders, Holding, IInv, TypeOK
<1>4. IsFiniteSet({i}) /\ Cardinality({i}) = 1
    BY FS_Singleton
<1>5. Cardinality(Holders') <= 1 /\ Cardinality(Holders') \in Nat
    BY <1>3, <1>4, FS_Subset, FS_CardinalityType
<1> QED
    BY <1>5, ConcurrencyAssumption DEF SlotBound, Holders

LEMMA StepBound ==
    ASSUME IInv, SlotBound, NEW i \in lo..hi, Step(i)
    PROVE  SlotBound'
<1>1. i \in DOMAIN blocks /\ TypeOK
    BY Positions DEF IInv, TypeOK, Window
<1>2. ASSUME NEW out, Settle(i, out) PROVE SlotBound'
    <2>1. Holders' \subseteq Holders
        BY <1>1, <1>2 DEF Settle, Holders, Holding, TypeOK
    <2> QED
        BY <1>1, <2>1, FewerHolders
<1>3. CASE GoStart(i)
    <2>1. Holders' \subseteq Holders
        BY <1>1, <1>3 DEF GoStart, Holders, Holding, TypeOK
    <2> QED
        BY <1>1, <2>1, FewerHolders
<1>4. CASE GoAcquire(i)
    BY <1>4, AcquireBound
<1>5. CASE GoLaunch(i)
    <2>1. Holders' \subseteq Holders
        BY <1>1, <1>5
           DEF GoLaunch, ParallelTurn, Launch, Holders, Holding, TypeOK
    <2> QED
        BY <1>1, <2>1, FewerHolders
<1>6. CASE SerialLaunch(i)
    BY <1>6, SerialLaunchBound
<1>7. ASSUME NEW out \in Outcomes, Return(i, out) PROVE SlotBound'
    <2>1. Holders' \subseteq Holders
        BY <1>1, <1>7 DEF Return, Holders, Holding, TypeOK
    <2> QED
        BY <1>1, <2>1, FewerHolders
<1> QED
    BY <1>2, <1>3, <1>4, <1>5, <1>6, <1>7
       DEF Step, SerialAborted, SerialUnknown, SerialCached, GoAborted, GoCached

\* However many calls a parallel batch has, no more than MaxConcurrency of
\* them hold the semaphore of executeParallel at a time.
THEOREM SlotsBounded == Spec => []SlotBound
<1>1. Init => SlotBound
    <2> SUFFICES ASSUME Init PROVE SlotBound
        OBVIOUS
    <2>1. Holders = {}
        BY DEF Init, Holders
    <2> QED
        BY <2>1, FS_EmptySet, ConcurrencyAssumption DEF SlotBound, Holders
<1>2. ASSUME IInv, SlotBound, [Next]_vars PROVE SlotBound'
    <2>1. TypeOK
        BY <1>2 DEF IInv
    <2>2. CASE \E i \in lo..hi : Step(i)
        BY <1>2, <2>2, StepBound
    <2>3. CASE \E bs \in Responses : Execute(bs)
        BY <1>2, <2>1, <2>3, FewerHolders DEF Execute, Holders, Holding
    <2>4. CASE Collect
        BY <1>2, <2>1, <2>4, FewerHolders DEF Collect, Holders
    <2>5. CASE NextGroup \/ Cancel \/ NextQuery \/ UNCHANGED vars
        BY <1>2, <2>1, <2>5, FewerHolders
           DEF NextGroup, Cancel, NextQuery, vars, Holders, Holding
    <2> QED
        BY <1>2, <2>2, <2>3, <2>4, <2>5 DEF Next, Progress
<1> QED
    BY <1>1, <1>2, Invariance, PTL DEF Spec
-----------------------------------------------------------------------------
(* The sibling abort of executeSerial.                                     *)

\* A batch is as long as it can be: no shell call before it or behind it
\* belongs to it.
Maximal ==
    /\ hi = 0 \/ lo <= hi
    /\ (lo <= hi /\ hi < Len(blocks)) => ~Joins(lo, hi + 1)
    /\ (1 < lo /\ lo <= hi) => ~(IsShell(lo - 1) /\ IsShell(lo))

\* The context of the batch is cancelled if one of its shell calls failed, and
\* for no other reason.
AbortIsFailure ==
    ~Idle => (aborted <=> \E i \in lo..hi : IsShell(i) /\ Failed(i))

AInv == Maximal /\ AbortIsFailure /\ SiblingAbort

FailedBefore(j) == \E i \in 1..(j - 1) : ShellRun(i, j) /\ Failed(i)

LEMMA SiblingAbortIs ==
    SiblingAbort <=>
        \A j \in DOMAIN blocks :
            /\ FailedBefore(j) => pc[j] # "running" /\ ~Failed(j) /\ results[j] # "ok"
            /\ (results[j] = "aborted" /\ ~cancelled) => FailedBefore(j)
BY DEF SiblingAbort, FailedBefore

LEMMA SiblingAbortNext ==
    SiblingAbort' <=>
        \A j \in DOMAIN blocks' :
            /\ FailedBefore(j)' => pc'[j] # "running" /\ ~Failed(j)' /\ results'[j] # "ok"
            /\ (results'[j] = "aborted" /\ ~cancelled') => FailedBefore(j)'
BY DEF SiblingAbort, FailedBefore

\* The shell calls that matter to a call of the batch are those of the batch.
LEMMA FailedInBatch ==
    ASSUME IInv, Maximal, NEW j \in lo..hi
    PROVE  FailedBefore(j) <=> IsShell(j) /\ \E i \in lo..(j - 1) : IsShell(i) /\ Failed(i)
<1>1. lo \in Nat /\ lo >= 1 /\ hi \in Nat /\ j \in Nat /\ lo <= j /\ j <= hi
    BY DEF IInv, TypeOK, Window
<1>2. ASSUME FailedBefore(j)
      PROVE  IsShell(j) /\ \E i \in lo..(j - 1) : IsShell(i) /\ Failed(i)
    <2>1. PICK i \in 1..(j - 1) : ShellRun(i, j) /\ Failed(i)
        BY <1>2 DEF FailedBefore
    <2>2. i \in i..j /\ j \in i..j
        BY <1>1, <2>1
    <2>3. IsShell(i) /\ IsShell(j)
        BY <2>1, <2>2 DEF ShellRun
    <2>4. CASE i < lo
        <3>1. 1 < lo /\ lo - 1 \in i..j /\ lo \in i..j
            BY <1>1, <2>1, <2>4
        <3>2. IsShell(lo - 1) /\ IsShell(lo)
            BY <2>1, <3>1 DEF ShellRun
        <3> QED
            BY <1>1, <3>1, <3>2 DEF Maximal
    <2>5. CASE ~(i < lo)
        <3>1. i \in lo..(j - 1)
            BY <1>1, <2>1, <2>5
        <3> QED
            BY <2>1, <2>3, <3>1
    <2> QED
        BY <2>4, <2>5
<1>3. ASSUME IsShell(j), NEW i \in lo..(j - 1), IsShell(i), Failed(i)
      PROVE  FailedBefore(j)
    <2>1. i \in 1..(j - 1) /\ \A k \in i..j : k \in lo..hi
        BY <1>1
    <2>2. \A k \in i..j : IsShell(k)
        BY <1>3, <2>1, BatchClass DEF IInv, IsShell
    <2> QED
        BY <1>3, <2>1, <2>2 DEF FailedBefore, ShellRun
<1> QED
    BY <1>2, <1>3

\* A shell call of the batch that failed is behind every call that has not
\* begun.
LEMMA FailedIsEarlier ==
    ASSUME IInv, NEW i \in lo..hi, NEW k \in lo..hi, IsShell(k), Failed(k),
           pc[i] # "done"
    PROVE  k \in lo..(i - 1) /\ IsShell(i)
<1>1. lo \in Nat /\ hi \in Nat /\ i \in Nat /\ k \in Nat
    BY DEF IInv, TypeOK
<1>2. k \in DOMAIN blocks
    BY Positions DEF IInv, TypeOK, Window
<1>3. pc[k] = "done" /\ k # i
    BY <1>2 DEF IInv, NoEarlyResult, Failed
<1>4. IsShell(i)
    BY <1>3, BatchClass DEF IInv, IsShell
<1>5. ~(i < k)
    <2> SUFFICES ASSUME i < k PROVE FALSE
        OBVIOUS
    <2>1. i \in lo..(k - 1)
        BY <1>1
    <2>2. ~IsParallel(k) /\ Started(k)
        BY <1>3 DEF IsShell, IsParallel, Started
    <2> QED
        BY <2>1, <2>2 DEF IInv, SerialBatch, Ended
<1> QED
    BY <1>1, <1>3, <1>4, <1>5

\* What a step that leaves the batch where it is keeps.
Stays == UNCHANGED <<blocks, lo, hi>>

LEMMA MaximalStays == ASSUME Maximal, Stays PROVE Maximal'
BY DEF Maximal, Stays, Joins, Batchable, ClassOf, IsShell

\* As long as no further call fails, only the calls that settle matter.
LEMMA NoFailure ==
    ASSUME IInv, AInv, Stays, cancelled' = cancelled, aborted' = aborted,
           \A k \in DOMAIN blocks : Failed(k)' <=> Failed(k),
           \A j \in DOMAIN blocks :
               \/ /\ pc'[j] = "running" => pc[j] = "running"
                  /\ results'[j] = results[j]
               \/ pc'[j] = "running" /\ results'[j] = results[j] /\ ~FailedBefore(j)
               \/ /\ pc'[j] = "done" /\ results'[j] # "ok"
                  /\ (results'[j] = "aborted" /\ ~cancelled) => FailedBefore(j)
                  /\ ~Failed(j)
    PROVE  AInv'
<1>1. Maximal'
    BY MaximalStays DEF AInv
<1>2. /\ DOMAIN blocks = 1..Len(blocks) /\ Len(blocks) \in Nat
      /\ lo \in Nat \ {0} /\ hi \in Nat /\ hi <= Len(blocks)
    BY Positions DEF IInv, TypeOK, Window
<1>3. AbortIsFailure'
    <2>1. \A i \in lo..hi : i \in DOMAIN blocks
        BY <1>2
    <2>2. \A i : IsShell(i)' <=> IsShell(i)
        BY DEF Stays, IsShell, ClassOf
    <2> QED
        BY <2>1, <2>2 DEF AInv, AbortIsFailure, Stays, Idle
<1>4. SiblingAbort'
    <2>1. ASSUME NEW j \in DOMAIN blocks
          PROVE  FailedBefore(j)' <=> FailedBefore(j)
        <3>1. \A i \in 1..(j - 1) : i \in DOMAIN blocks
            BY <1>2
        <3>2. \A i : ShellRun(i, j)' <=> ShellRun(i, j)
            BY DEF Stays, ShellRun, IsShell, ClassOf
        <3> QED
            BY <3>1, <3>2 DEF FailedBefore
    <2>2. ASSUME NEW j \in DOMAIN blocks
          PROVE  /\ FailedBefore(j) => /\ pc'[j] # "running" /\ ~Failed(j)
                                       /\ results'[j] # "ok"
                 /\ (results'[j] = "aborted" /\ ~cancelled) => FailedBefore(j)
        BY SiblingAbortIs DEF AInv
    <2> QED
        BY <2>1, <2>2, SiblingAbortNext DEF Stays
<1> QED
    BY <1>1, <1>3, <1>4 DEF AInv

LEMMA SettleAborts ==
    ASSUME IInv, AInv, NEW i \in lo..hi, pc[i] # "done", Settle(i, "aborted"),
           cancelled \/ aborted
    PROVE  AInv'
<1>1. i \in DOMAIN blocks /\ DOMAIN pc = DOMAIN blocks /\ DOMAIN results = DOMAIN blocks
      /\ results[i] = "none" /\ ~Idle
    BY Positions DEF IInv, TypeOK, Window, NoEarlyResult, Idle
<1>2. \A k \in DOMAIN blocks : Failed(k)' <=> Failed(k)
    BY <1>1 DEF Settle, Failed
<1>3. ~cancelled => FailedBefore(i)
    <2> SUFFICES ASSUME ~cancelled PROVE FailedBefore(i)
        OBVIOUS
    <2>1. PICK k \in lo..hi : IsShell(k) /\ Failed(k)
        BY <1>1 DEF AInv, AbortIsFailure
    <2> QED
        BY <2>1, FailedIsEarlier, FailedInBatch DEF AInv
<1>4. /\ pc'[i] = "done" /\ results'[i] = "aborted"
      /\ \A j \in DOMAIN blocks \ {i} : pc'[j] = pc[j] /\ results'[j] = results[j]
    BY <1>1 DEF Settle
<1>5. ~Failed(i)
    BY <1>1 DEF Failed
<1> QED
    BY <1>2, <1>3, <1>4, <1>5, NoFailure DEF Settle, Stays

LEMMA SettleSpares ==
    ASSUME IInv, AInv, NEW i \in lo..hi, NEW out \in {"cached", "unknown"},
           pc[i] # "done", Settle(i, out)
    PROVE  AInv'
<1>1. i \in DOMAIN blocks /\ DOMAIN pc = DOMAIN blocks /\ DOMAIN results = DOMAIN blocks
      /\ results[i] = "none"
    BY Positions DEF IInv, TypeOK, Window, NoEarlyResult
<1>2. \A k \in DOMAIN blocks : Failed(k)' <=> Failed(k)
    BY <1>1 DEF Settle, Failed
<1>3. /\ pc'[i] = "done" /\ results'[i] # "ok" /\ results'[i] # "aborted"
      /\ \A j \in DOMAIN blocks \ {i} : pc'[j] = pc[j] /\ results'[j] = results[j]
    BY <1>1 DEF Settle
<1>4. ~Failed(i)
    BY <1>1 DEF Failed
<1> QED
    BY <1>2, <1>3, <1>4, NoFailure DEF Settle, Stays

\* A call is handed to its tool only when no shell call before it in its batch
\* has failed.
LEMMA LaunchSpares ==
    ASSUME IInv, AInv, NEW i \in lo..hi, pc[i] # "done", Launch(i),
           IsParallel(i) \/ ~aborted
    PROVE  AInv'
<1>1. i \in DOMAIN blocks /\ DOMAIN pc = DOMAIN blocks /\ ~Idle
    BY Positions DEF IInv, TypeOK, Window, Idle
<1>2. \A k \in DOMAIN blocks : Failed(k)' <=> Failed(k)
    BY DEF Launch, Failed
<1>3. ~FailedBefore(i)
    <2> SUFFICES ASSUME FailedBefore(i) PROVE FALSE
        OBVIOUS
    <2>1. IsShell(i) /\ \E k \in lo..(i - 1) : IsShell(k) /\ Failed(k)
        BY FailedInBatch DEF AInv
    <2>2. \E k \in lo..hi : IsShell(k) /\ Failed(k)
        BY <2>1 DEF IInv, TypeOK
    <2>3. ~IsParallel(i)
        BY <2>1 DEF IsShell, IsParallel
    <2> QED
        BY <1>1, <2>2, <2>3 DEF AInv, AbortIsFailure
<1>4. /\ pc'[i] = "running" /\ results' = results
      /\ \A j \in DOMAIN blocks \ {i} : pc'[j] = pc[j]
    BY <1>1 DEF Launch
<1> QED
    BY <1>2, <1>3, <1>4, NoFailure DEF Launch, Stays

LEMMA AdmitSpares ==
    ASSUME IInv, AInv, NEW i \in lo..hi, NEW phase \in {"waiting", "admitted"},
           pc' = [pc EXCEPT ![i] = phase],
           UNCHANGED <<blocks, lo, hi, results, aborted, cancelled>>
    PROVE  AInv'
<1>1. i \in DOMAIN blocks /\ DOMAIN pc = DOMAIN blocks
    BY Positions DEF IInv, TypeOK, Window
<1>2. \A k \in DOMAIN blocks : Failed(k)' <=> Failed(k)
    BY DEF Failed
<1>3. \A j \in DOMAIN blocks : pc'[j] = "running" => pc[j] = "running"
    BY <1>1
<1> QED
    BY <1>2, <1>3, NoFailure DEF Stays

\* A shell call that fails has nothing behind it in its batch that was begun.
LEMMA ReturnSpares ==
    ASSUME IInv, AInv, NEW i \in lo..hi, NEW out, Return(i, out)
    PROVE  AInv'
<1>1. /\ i \in DOMAIN blocks /\ DOMAIN pc = DOMAIN blocks /\ DOMAIN results = DOMAIN blocks
      /\ ~Idle /\ pc[i] = "running" /\ results[i] = "none"
    BY Positions DEF IInv, TypeOK, Window, NoEarlyResult, Idle, Return
<1>2. /\ DOMAIN blocks = 1..Len(blocks) /\ Len(blocks) \in Nat
      /\ lo \in Nat \ {0} /\ hi \in Nat /\ hi <= Len(blocks)
    BY Positions DEF IInv, TypeOK, Window
<1>3. /\ Stays /\ cancelled' = cancelled /\ aborted' = (aborted \/ (IsShell(i) /\ out # "ok"))
      /\ out \in {"ok", "error", "denied", "interrupted"}
      /\ pc'[i] = "done" /\ results'[i] = out
      /\ \A j \in DOMAIN blocks \ {i} : pc'[j] = pc[j] /\ results'[j] = results[j]
    BY <1>1 DEF Return, Stays
<1>4. /\ Failed(i)' <=> out # "ok"
      /\ ~Failed(i)
      /\ \A j \in DOMAIN blocks \ {i} : Failed(j)' <=> Failed(j)
    BY <1>1, <1>3 DEF Failed
<1>5. \A k : IsShell(k)' <=> IsShell(k)
    BY <1>3 DEF Stays, IsShell, ClassOf
<1>6. \A k, j : ShellRun(k, j)' <=> ShellRun(k, j)
    BY <1>5 DEF ShellRun
<1>7. Maximal'
    BY <1>3, MaximalStays DEF AInv
<1>8. AbortIsFailure'
    <2>1. \A k \in lo..hi : k \in DOMAIN blocks
        BY <1>2
    <2>2. aborted <=> \E k \in lo..hi : IsShell(k) /\ Failed(k)
        BY <1>1 DEF AInv, AbortIsFailure
    <2>3. aborted' <=> \E k \in lo..hi : IsShell(k)' /\ Failed(k)'
        <3>1. ASSUME aborted PROVE \E k \in lo..hi : IsShell(k)' /\ Failed(k)'
            <4>1. PICK k \in lo..hi : IsShell(k) /\ Failed(k)
                BY <2>2, <3>1
            <4> QED
                BY <1>4, <1>5, <2>1, <4>1
        <3>2. ASSUME IsShell(i), out # "ok"
              PROVE  \E k \in lo..hi : IsShell(k)' /\ Failed(k)'
            BY <1>4, <1>5, <3>2
        <3>3. ASSUME NEW k \in lo..hi, IsShell(k)', Failed(k)' PROVE aborted'
            <4>1. CASE k = i
                BY <1>3, <1>4, <1>5, <3>3, <4>1
            <4>2. CASE k # i
                BY <1>3, <1>4, <1>5, <2>1, <2>2, <3>3, <4>2
            <4> QED
                BY <4>1, <4>2
        <3> QED
            BY <1>3, <3>1, <3>2, <3>3
    <2> QED
        BY <1>3, <2>3 DEF AbortIsFailure, Stays
<1>9. SiblingAbort'
    <2>1. ASSUME NEW j \in DOMAIN blocks, NEW k \in 1..(j - 1)
          PROVE  k \in DOMAIN blocks
        BY <1>2
    <2>2. ASSUME NEW j \in DOMAIN blocks, FailedBefore(j)
          PROVE  FailedBefore(j)'
        <3>1. PICK k \in 1..(j - 1) : ShellRun(k, j) /\ Failed(k)
            BY <2>2 DEF FailedBefore
        <3>2. Failed(k)' /\ ShellRun(k, j)'
            BY <1>4, <1>6, <2>1, <3>1
        <3> QED
            BY <3>2 DEF FailedBefore
    <2>3. ASSUME NEW j \in DOMAIN blocks, FailedBefore(j)', ~FailedBefore(j)
          PROVE  pc[j] = "idle" /\ results[j] = "none" /\ j # i
        <3>1. PICK k \in 1..(j - 1) : ShellRun(k, j)' /\ Failed(k)'
            BY <2>3 DEF FailedBefore
        <3>2. k = i
            BY <1>4, <1>6, <2>1, <2>3, <3>1 DEF FailedBefore
        <3>3. i \in i..j /\ j \in Nat /\ i < j
            BY <1>2, <3>1, <3>2
        <3>4. IsShell(i)
            BY <1>6, <3>1, <3>2, <3>3 DEF ShellRun
        <3>5. pc[j] = "idle"
            <4>1. CASE j > hi
                BY <4>1 DEF IInv, Window
            <4>2. CASE ~(j > hi)
                <5>1. j \in lo..hi /\ i \in lo..(j - 1)
                    BY <1>2, <3>3, <4>2
                <5>2. ~IsParallel(j)
                    BY <3>4, <5>1, BatchClass DEF IInv, IsShell, IsParallel
                <5> QED
                    BY <1>1, <5>1, <5>2 DEF IInv, SerialBatch, Started, Ended
            <4> QED
                BY <4>1, <4>2
        <3> QED
            BY <1>1, <3>3, <3>5 DEF IInv, NoEarlyResult
    <2>4. ~FailedBefore(i)
        BY <1>1, SiblingAbortIs DEF AInv
    <2>5. ASSUME NEW j \in DOMAIN blocks
          PROVE  /\ FailedBefore(j)' => /\ pc'[j] # "running" /\ ~Failed(j)'
                                        /\ results'[j] # "ok"
                 /\ (results'[j] = "aborted" /\ ~cancelled') => FailedBefore(j)'
        <3>1. CASE j = i
            BY <1>3, <2>3, <2>4, <3>1
        <3>2. CASE j # i /\ FailedBefore(j)
            BY <1>3, <1>4, <2>2, <3>2, SiblingAbortIs DEF AInv
        <3>3. CASE j # i /\ ~FailedBefore(j)
            <4>1. results[j] = "aborted" => cancelled
                BY <3>3, SiblingAbortIs DEF AInv
            <4>2. FailedBefore(j)' => pc[j] = "idle" /\ results[j] = "none"
                BY <2>3, <3>3
            <4> QED
                BY <1>3, <1>4, <3>3, <4>1, <4>2 DEF Failed
        <3> QED
            BY <3>1, <3>2, <3>3
    <2> QED
        BY <1>3, <2>5, SiblingAbortNext DEF Stays
<1> QED
    BY <1>7, <1>8, <1>9 DEF AInv

\* A batch that begins has nothing behind it that could have joined it.
LEMMA NextGroupSpares ==
    ASSUME IInv, AInv, NextGroup
    PROVE  AInv'
<1>1. PICK j \in (hi + 1)..Len(blocks) :
            IsGroup(hi + 1, j) /\ lo' = hi + 1 /\ hi' = j
    BY DEF NextGroup
<1>2. /\ aborted' = FALSE /\ UNCHANGED <<blocks, pc, results, cancelled>>
    BY DEF NextGroup
<1>3. /\ DOMAIN blocks = 1..Len(blocks) /\ Len(blocks) \in Nat
      /\ lo \in Nat \ {0} /\ hi \in Nat /\ hi <= Len(blocks)
    BY Positions DEF IInv, TypeOK, Window
<1>4. Maximal'
    <2>1. hi' = 0 \/ lo' <= hi'
        BY <1>1, <1>3
    <2>3. ASSUME 1 < lo', IsShell(hi), IsShell(hi + 1)
          PROVE  FALSE
        <3>1. 1 <= hi /\ hi < Len(blocks) /\ lo <= hi
            BY <1>1, <1>3, <2>3 DEF AInv, Maximal
        <3>2. hi \in lo..hi /\ lo \in lo..hi
            BY <1>3, <3>1
        <3>3. ClassOf(lo) = ClassOf(hi)
            BY <3>2, BatchClass DEF IInv
        <3>4. Joins(lo, hi + 1)
            BY <2>3, <3>3 DEF Joins, Batchable, IsShell
        <3> QED
            BY <3>1, <3>4 DEF AInv, Maximal
    <2>4. lo' - 1 = hi /\ blocks' = blocks
        BY <1>1, <1>2, <1>3
    <2>5. IsShell(lo - 1)' <=> IsShell(hi)
        BY <2>4 DEF IsShell, ClassOf
    <2>6. IsShell(lo)' <=> IsShell(hi + 1)
        BY <1>1, <2>4 DEF IsShell, ClassOf
    <2>7. ((1 < lo /\ lo <= hi) => ~(IsShell(lo - 1) /\ IsShell(lo)))'
        BY <2>3, <2>5, <2>6
    <2>8. ((lo <= hi /\ hi < Len(blocks)) => ~Joins(lo, hi + 1))'
        BY <1>1, <2>4 DEF IsGroup, Joins, Batchable, ClassOf
    <2> QED
        BY <2>1, <2>7, <2>8 DEF Maximal
<1>5. AbortIsFailure'
    <2>1. ASSUME NEW k \in lo'..hi' PROVE ~Failed(k)'
        <3>1. k \in DOMAIN blocks /\ k > hi
            BY <1>1, <1>3
        <3>2. results[k] = "none"
            BY <3>1 DEF IInv, Window, NoEarlyResult
        <3> QED
            BY <1>2, <3>2 DEF Failed
    <2> QED
        BY <1>2, <2>1 DEF AbortIsFailure
<1>6. SiblingAbort'
    BY <1>2 DEF AInv, SiblingAbort, ShellRun, IsShell, ClassOf, Failed
<1> QED
    BY <1>4, <1>5, <1>6 DEF AInv

LEMMA StepSpares ==
    ASSUME IInv, AInv, NEW i \in lo..hi, Step(i)
    PROVE  AInv'
<1>1. CASE SerialAborted(i)
    BY <1>1, SettleAborts DEF SerialAborted, SerialTurn, BatchDone
<1>2. CASE SerialUnknown(i) \/ SerialCached(i) \/ GoCached(i)
    BY <1>2, SettleSpares DEF SerialUnknown, SerialCached, SerialTurn, GoCached, ParallelTurn
<1>3. CASE SerialLaunch(i) \/ GoLaunch(i)
    BY <1>3, LaunchSpares DEF SerialLaunch, SerialTurn, BatchDone, GoLaunch, ParallelTurn
<1>4. CASE GoStart(i) \/ GoAcquire(i)
    BY <1>4, AdmitSpares DEF GoStart, GoAcquire
<1>5. CASE GoAborted(i)
    BY <1>5, SettleAborts DEF GoAborted, ParallelTurn
<1>6. CASE \E out \in Outcomes : Return(i, out)
    BY <1>6, ReturnSpares
<1> QED
    BY <1>1, <1>2, <1>3, <1>4, <1>5, <1>6 DEF Step

\* A failed shell call takes down the shell calls behind it in its batch, and
\* only those, however the response is cut into batches (executeSerial).
THEOREM SiblingsAborted == Spec => []SiblingAbort
<1>1. Init => AInv
    BY DEF Init, AInv, Maximal, AbortIsFailure, Idle, SiblingAbort
<1>2. ASSUME IInv, AInv, [Next]_vars PROVE AInv'
    <2>1. CASE \E i \in lo..hi : Step(i)
        BY <1>2, <2>1, StepSpares
    <2>2. CASE NextGroup
        BY <1>2, <2>2, NextGroupSpares
    <2>3. CASE \E bs \in Responses : Execute(bs)
        <3>1. PICK bs \in Responses : Execute(bs)
            BY <2>3
        <3>2. /\ DOMAIN blocks' = DOMAIN bs /\ lo' = 1 /\ hi' = 0 /\ aborted' = FALSE
              /\ \A j \in DOMAIN bs : pc'[j] = "idle" /\ results'[j] = "none"
            BY <3>1 DEF Execute
        <3>3. Maximal' /\ AbortIsFailure'
            BY <3>2 DEF Maximal, AbortIsFailure
        <3>4. SiblingAbort'
            BY <3>2 DEF SiblingAbort, Failed
        <3> QED
            BY <3>3, <3>4 DEF AInv
    <2>4. CASE Collect
        BY <2>4 DEF Collect, AInv, Maximal, AbortIsFailure, Idle, SiblingAbort
    <2>5. CASE Cancel
        <3>1. Maximal' /\ AbortIsFailure'
            BY <1>2, <2>5, MaximalStays
               DEF Cancel, AInv, Stays, AbortIsFailure, Idle, IsShell, ClassOf, Failed
        <3>2. SiblingAbort'
            BY <1>2, <2>5 DEF Cancel, AInv, SiblingAbort, ShellRun, IsShell, ClassOf, Failed
        <3> QED
            BY <3>1, <3>2 DEF AInv
    <2>6. CASE NextQuery
        <3>1. Maximal'
            BY <1>2, <2>6, MaximalStays DEF NextQuery, AInv, Stays
        <3>2. AbortIsFailure' /\ SiblingAbort'
            BY <2>6 DEF NextQuery, Idle, AbortIsFailure, SiblingAbort
        <3> QED
            BY <3>1, <3>2 DEF AInv
    <2>7. CASE UNCHANGED vars
        BY <1>2, <2>7
           DEF vars, AInv, Maximal, Joins, Batchable, AbortIsFailure, Idle, SiblingAbort,
               ShellRun, IsShell, ClassOf, Failed
    <2> QED
        BY <1>2, <2>1, <2>2, <2>3, <2>4, <2>5, <2>6, <2>7 DEF Next, Progress
<1>3. AInv => SiblingAbort
    BY DEF AInv
<1> QED
    BY <1>1, <1>2, <1>3, Invariance, PTL DEF Spec
-----------------------------------------------------------------------------
(* The directory of a call.                                                *)

\* The executor is in the directory the batches so far left it in, a call has
\* a directory once it runs, and the worktree is left for where the loop began.
Directory ==
    /\ \A i \in DOMAIN blocks :
          pc[i] \in {"idle", "waiting", "admitted"} => seen[i] = NoDir
    /\ ~Idle => cwd = LeftIn(hi + 1) /\ (cwd = Tree => inTree)
    /\ inTree => original = Root

DInv == Directory /\ CallDirectory

LEMMA SameMoves ==
    ASSUME NEW i, blocks' = blocks, \A k \in 1..(i - 1) : Moves(k)' <=> Moves(k)
    PROVE  LeftIn(i)' = LeftIn(i)
<1>1. {k \in 1..(i - 1) : Moves(k)'} = {k \in 1..(i - 1) : Moves(k)}
    OBVIOUS
<1>2. \A k : ClassOf(k)' = ClassOf(k)
    BY DEF ClassOf
<1> QED
    BY <1>1, <1>2 DEF LeftIn

LEMMA NoMoveBetween ==
    ASSUME NEW i \in Nat \ {0}, NEW h \in Nat, i <= h + 1, \A k \in i..h : ~Moves(k)
    PROVE  LeftIn(h + 1) = LeftIn(i)
<1>1. \A k \in 1..h : k \in 1..(i - 1) \/ k \in i..h
    OBVIOUS
<1>2. 1..(i - 1) \subseteq 1..h /\ (h + 1) - 1 = h
    OBVIOUS
<1>3. {k \in 1..h : Moves(k)} = {k \in 1..(i - 1) : Moves(k)}
    BY <1>1, <1>2
<1> QED
    BY <1>2, <1>3 DEF LeftIn

LEMMA LastMove ==
    ASSUME NEW i \in Nat \ {0}, Moves(i)'
    PROVE  LeftIn(i + 1)' = IF ClassOf(i)' = "enter" THEN Tree ELSE Root
<1> DEFINE moves == {k \in 1..i : Moves(k)'}
<1>1. i \in moves /\ \A m \in moves : m <= i
    OBVIOUS
<1>2. ASSUME NEW k \in moves, \A m \in moves : m <= k PROVE k = i
    BY <1>1, <1>2
<1>3. (CHOOSE k \in moves : \A m \in moves : m <= k) = i
    BY <1>1, <1>2
<1>4. (i + 1) - 1 = i /\ moves # {}
    BY <1>1
<1> QED
    BY <1>3, <1>4 DEF LeftIn

\* A switch of the directory is alone in its batch.
LEMMA MoverAlone ==
    ASSUME IInv, NEW i \in lo..hi, ClassOf(i) \in {"enter", "exit"}
    PROVE  i = lo /\ i = hi
<1>1. lo \in Nat /\ hi \in Nat /\ lo \in lo..hi /\ hi \in lo..hi
    BY DEF IInv, TypeOK
<1>2. i = lo
    BY DEF IInv, OneClass, Joins, Batchable
<1>3. hi = lo
    BY <1>1, <1>2 DEF IInv, OneClass, Joins, Batchable
<1> QED
    BY <1>2, <1>3

\* A call that has not ended has the directory of the executor before it.
LEMMA DirectoryAhead ==
    ASSUME IInv, Directory, NEW i \in lo..hi, pc[i] # "done"
    PROVE  cwd = LeftIn(i)
<1>1. /\ DOMAIN blocks = 1..Len(blocks) /\ Len(blocks) \in Nat
      /\ lo \in Nat \ {0} /\ hi \in Nat /\ hi <= Len(blocks) /\ ~Idle
    BY Positions DEF IInv, TypeOK, Window, Idle
<1>2. ASSUME NEW k \in i..hi, Moves(k) PROVE FALSE
    <2>1. k \in lo..hi /\ k \in DOMAIN blocks
        BY <1>1
    <2>2. i = k
        BY <1>2, <2>1, MoverAlone, <1>1 DEF Moves
    <2> QED
        BY <1>2, <2>1, <2>2 DEF IInv, NoEarlyResult, Moves
<1>3. i \in Nat \ {0} /\ i <= hi + 1
    BY <1>1
<1>4. LeftIn(hi + 1) = LeftIn(i)
    BY <1>1, <1>2, <1>3, NoMoveBetween
<1> QED
    BY <1>1, <1>4 DEF Directory

\* A step in which nobody switches the directory.
LEMMA NobodyMoves ==
    ASSUME IInv, DInv, Stays, UNCHANGED <<cwd, inTree, original>>,
           \A k \in DOMAIN blocks : Moves(k)' <=> Moves(k),
           \A j \in DOMAIN blocks :
               /\ seen'[j] = seen[j] \/ seen'[j] = LeftIn(j)
               /\ pc'[j] \in {"idle", "waiting", "admitted"} =>
                     pc[j] \in {"idle", "waiting", "admitted"} /\ seen'[j] = seen[j]
    PROVE  DInv'
<1>1. /\ DOMAIN blocks = 1..Len(blocks) /\ Len(blocks) \in Nat
      /\ hi \in Nat /\ hi <= Len(blocks)
    BY Positions DEF IInv, TypeOK, Window
<1>2. ASSUME NEW j \in 1..(Len(blocks) + 1) PROVE LeftIn(j)' = LeftIn(j)
    <2>1. \A k \in 1..(j - 1) : k \in DOMAIN blocks
        BY <1>1
    <2> QED
        BY <2>1, SameMoves DEF Stays
<1>3. CallDirectory'
    <2>1. ASSUME NEW j \in DOMAIN blocks, seen'[j] # NoDir
          PROVE  seen'[j] = LeftIn(j)'
        <3>1. LeftIn(j)' = LeftIn(j)
            BY <1>1, <1>2
        <3> QED
            BY <2>1, <3>1 DEF DInv, CallDirectory
    <2> QED
        BY <2>1 DEF CallDirectory, Stays
<1>4. Directory'
    <2>1. PICK h \in 1..(Len(blocks) + 1) : h = hi + 1
        BY <1>1
    <2>2. LeftIn(hi + 1)' = LeftIn(h)'
        BY <2>1 DEF Stays, LeftIn, Moves, ClassOf
    <2>3. LeftIn(hi + 1)' = LeftIn(hi + 1)
        BY <1>2, <2>1, <2>2
    <2> QED
        BY <2>3 DEF DInv, Directory, Stays, Idle
<1> QED
    BY <1>3, <1>4 DEF DInv

LEMMA SettleStaysPut ==
    ASSUME IInv, DInv, NEW i \in lo..hi, NEW out \in Outcomes, out # "ok",
           pc[i] # "done", Settle(i, out)
    PROVE  DInv'
<1>1. /\ i \in DOMAIN blocks /\ DOMAIN pc = DOMAIN blocks
      /\ DOMAIN results = DOMAIN blocks /\ results[i] = "none"
    BY Positions DEF IInv, TypeOK, Window, NoEarlyResult
<1>2. \A k \in DOMAIN blocks : Moves(k)' <=> Moves(k)
    BY <1>1 DEF Settle, Moves, ClassOf
<1>3. /\ pc'[i] = "done" /\ \A j \in DOMAIN blocks \ {i} : pc'[j] = pc[j]
      /\ seen' = seen /\ Stays /\ UNCHANGED <<cwd, inTree, original>>
    BY <1>1 DEF Settle, Stays
<1> QED
    BY <1>2, <1>3, NobodyMoves

LEMMA LaunchStaysPut ==
    ASSUME IInv, DInv, NEW i \in lo..hi, pc[i] # "done", Launch(i)
    PROVE  DInv'
<1>1. /\ i \in DOMAIN blocks /\ DOMAIN pc = DOMAIN blocks /\ DOMAIN seen = DOMAIN blocks
      /\ cwd = LeftIn(i)
    BY Positions, DirectoryAhead DEF IInv, TypeOK, Window, DInv
<1>2. \A k \in DOMAIN blocks : Moves(k)' <=> Moves(k)
    BY DEF Launch, Moves, ClassOf
<1>3. /\ pc'[i] = "running" /\ seen'[i] = cwd
      /\ \A j \in DOMAIN blocks \ {i} : pc'[j] = pc[j] /\ seen'[j] = seen[j]
      /\ Stays /\ UNCHANGED <<cwd, inTree, original>>
    BY <1>1 DEF Launch, Stays
<1> QED
    BY <1>1, <1>2, <1>3, NobodyMoves

LEMMA AdmitStaysPut ==
    ASSUME IInv, DInv, NEW i \in lo..hi, NEW phase \in {"waiting", "admitted"},
           pc[i] \in {"idle", "waiting"}, pc' = [pc EXCEPT ![i] = phase],
           UNCHANGED <<blocks, lo, hi, results, cwd, inTree, original, seen>>
    PROVE  DInv'
<1>1. i \in DOMAIN blocks /\ DOMAIN pc = DOMAIN blocks
    BY Positions DEF IInv, TypeOK, Window
<1>2. \A k \in DOMAIN blocks : Moves(k)' <=> Moves(k)
    BY DEF Moves, ClassOf
<1>3. \A j \in DOMAIN blocks \ {i} : pc'[j] = pc[j]
    BY <1>1
<1> QED
    BY <1>2, <1>3, NobodyMoves DEF Stays

\* Every other return leaves the directory alone; a switch is the last call of
\* the batches so far, and the worktree hands back the directory of the start.
LEMMA ReturnMoves ==
    ASSUME IInv, DInv, NEW i \in lo..hi, NEW out \in Outcomes, Return(i, out)
    PROVE  DInv'
<1>1. /\ i \in DOMAIN blocks /\ DOMAIN pc = DOMAIN blocks /\ DOMAIN results = DOMAIN blocks
      /\ results[i] = "none" /\ pc[i] = "running" /\ seen[i] \in Dirs
    BY Positions DEF IInv, TypeOK, Window, NoEarlyResult, RealDirs, Return
<1>2. /\ pc'[i] = "done" /\ results'[i] = out /\ seen' = seen /\ Stays
      /\ \A j \in DOMAIN blocks \ {i} : pc'[j] = pc[j] /\ results'[j] = results[j]
    BY <1>1 DEF Return, Stays
<1>3. /\ DOMAIN blocks = 1..Len(blocks) /\ Len(blocks) \in Nat /\ ~Idle
      /\ lo \in Nat \ {0} /\ hi \in Nat /\ hi <= Len(blocks) /\ i \in Nat \ {0}
    BY Positions DEF IInv, TypeOK, Window, Idle
<1>4. \A k : ClassOf(k)' = ClassOf(k)
    BY <1>2 DEF Stays, ClassOf
<1>5. CASE ~(ClassOf(i) \in {"enter", "exit"} /\ out = "ok")
    <2>1. \A k \in DOMAIN blocks : Moves(k)' <=> Moves(k)
        BY <1>1, <1>2, <1>4, <1>5 DEF Moves
    <2>2. UNCHANGED <<cwd, inTree, original>>
        BY <1>5 DEF Return, ToolEffect
    <2> QED
        BY <1>2, <2>1, <2>2, NobodyMoves
<1>6. CASE ClassOf(i) \in {"enter", "exit"} /\ out = "ok"
    <2>1. i = lo /\ i = hi
        BY <1>6, MoverAlone
    <2>2. LeftIn(hi + 1)' = IF ClassOf(i) = "enter" THEN Tree ELSE Root
        <3>1. LeftIn(i + 1)' = IF ClassOf(i)' = "enter" THEN Tree ELSE Root
            BY <1>2, <1>3, <1>4, <1>6, LastMove DEF Moves
        <3>2. LeftIn(hi + 1)' = LeftIn(i + 1)'
            BY <1>2, <2>1 DEF Stays, LeftIn, Moves, ClassOf
        <3> QED
            BY <1>4, <3>1, <3>2
    <2>3. seen[i] = cwd
        BY <1>1, DirectoryAhead DEF DInv, CallDirectory, Dirs, NoDir, Root, Tree
    <2>4. /\ cwd' = LeftIn(hi + 1)'
          /\ cwd' = Tree => inTree'
          /\ inTree' => original' = Root
        <3>1. CASE ClassOf(i) = "enter"
            <4>1. ~inTree /\ inTree' = TRUE /\ original' = seen[i] /\ cwd' = Tree
                BY <1>6, <3>1 DEF Return, ToolEffect
            <4>2. seen[i] = Root
                BY <1>1, <1>3, <2>3, <4>1 DEF DInv, Directory, Dirs
            <4> QED
                BY <2>2, <3>1, <4>1, <4>2
        <3>2. CASE ClassOf(i) = "exit"
            <4>1. inTree /\ inTree' = FALSE /\ cwd' = original
                BY <1>6, <3>2 DEF Return, ToolEffect
            <4>2. original = Root
                BY <4>1 DEF DInv, Directory
            <4> QED
                BY <2>2, <3>2, <4>1, <4>2 DEF Root, Tree
        <3> QED
            BY <1>6, <3>1, <3>2
    <2>5. CallDirectory'
        <3>1. ASSUME NEW j \in DOMAIN blocks, seen[j] # NoDir
              PROVE  seen[j] = LeftIn(j)'
            <4>1. j <= i
                BY <1>3, <2>1, <3>1 DEF IInv, Window, DInv, Directory
            <4>2. \A k \in 1..(j - 1) : k \in DOMAIN blocks \ {i}
                BY <1>3, <4>1
            <4>3. \A k \in 1..(j - 1) : Moves(k)' <=> Moves(k)
                BY <1>2, <1>4, <4>2 DEF Moves
            <4>4. LeftIn(j)' = LeftIn(j)
                BY <1>2, <4>3, SameMoves DEF Stays
            <4> QED
                BY <3>1, <4>4 DEF DInv, CallDirectory
        <3> QED
            BY <1>2, <3>1 DEF CallDirectory, Stays
    <2>6. \A j \in DOMAIN blocks :
             pc'[j] \in {"idle", "waiting", "admitted"} => seen'[j] = NoDir
        BY <1>2 DEF DInv, Directory
    <2> QED
        BY <1>2, <2>4, <2>5, <2>6 DEF DInv, Directory, Stays
<1> QED
    BY <1>5, <1>6

LEMMA StepMoves ==
    ASSUME IInv, DInv, NEW i \in lo..hi, Step(i)
    PROVE  DInv'
<1>1. CASE SerialAborted(i) \/ SerialUnknown(i) \/ SerialCached(i)
    BY <1>1, SettleStaysPut
       DEF SerialAborted, SerialUnknown, SerialCached, SerialTurn, Outcomes
<1>2. CASE GoAborted(i) \/ GoCached(i)
    BY <1>2, SettleStaysPut DEF GoAborted, GoCached, ParallelTurn, Outcomes
<1>3. CASE SerialLaunch(i) \/ GoLaunch(i)
    BY <1>3, LaunchStaysPut DEF SerialLaunch, SerialTurn, GoLaunch, ParallelTurn
<1>4. CASE GoStart(i) \/ GoAcquire(i)
    BY <1>4, AdmitStaysPut DEF GoStart, GoAcquire, ParallelTurn
<1>5. CASE \E out \in Outcomes : Return(i, out)
    BY <1>5, ReturnMoves
<1> QED
    BY <1>1, <1>2, <1>3, <1>4, <1>5 DEF Step

LEMMA NextGroupStaysPut ==
    ASSUME IInv, DInv, NextGroup
    PROVE  DInv'
<1>1. PICK j \in (hi + 1)..Len(blocks) : lo' = hi + 1 /\ hi' = j
    BY DEF NextGroup
<1>2. UNCHANGED <<blocks, pc, results, cwd, inTree, original, seen>>
    BY DEF NextGroup
<1>3. /\ DOMAIN blocks = 1..Len(blocks) /\ Len(blocks) \in Nat
      /\ hi \in Nat /\ hi <= Len(blocks)
    BY Positions DEF IInv, TypeOK, Window
<1>4. ASSUME NEW k \in (hi + 1)..j PROVE ~Moves(k)
    <2>1. k \in DOMAIN blocks /\ k > hi
        BY <1>1, <1>3
    <2> QED
        BY <2>1 DEF IInv, Window, NoEarlyResult, Moves
<1>5. LeftIn(j + 1) = LeftIn(hi + 1)
    BY <1>1, <1>3, <1>4, NoMoveBetween
<1>6. LeftIn(hi + 1)' = LeftIn(j + 1)
    BY <1>1, <1>2 DEF LeftIn, Moves, ClassOf
<1>7. CallDirectory'
    <2>1. \A k : Moves(k)' <=> Moves(k)
        BY <1>2 DEF Moves, ClassOf
    <2>2. \A i : LeftIn(i)' = LeftIn(i)
        BY <1>2, <2>1, SameMoves
    <2> QED
        BY <1>2, <2>2 DEF DInv, CallDirectory
<1> QED
    BY <1>2, <1>5, <1>6, <1>7 DEF DInv, Directory, Idle

\* Every call is given the directory the calls before it left the loop in, and
\* the worktree is left for where the loop began (Execute, the worktree tools).
THEOREM DirectoryOfCalls == Spec => []CallDirectory
<1>1. Init => DInv
    BY DEF Init, DInv, Directory, CallDirectory, Idle
<1>2. ASSUME IInv, DInv, [Next]_vars PROVE DInv'
    <2>1. CASE \E i \in lo..hi : Step(i)
        BY <1>2, <2>1, StepMoves
    <2>2. CASE NextGroup
        BY <1>2, <2>2, NextGroupStaysPut
    <2>3. CASE \E bs \in Responses : Execute(bs)
        <3>1. PICK bs \in Responses : Execute(bs)
            BY <2>3
        <3>2. /\ blocks' = bs /\ hi' = 0 /\ cwd' = Root /\ Idle
              /\ UNCHANGED <<inTree, original>>
              /\ \A j \in DOMAIN bs : seen'[j] = NoDir
            BY <3>1 DEF Execute
        <3>3. LeftIn(hi + 1)' = Root
            <4>1. {k \in 1..((hi + 1) - 1) : Moves(k)}' = {}
                BY <3>2
            <4> QED
                BY <4>1 DEF LeftIn
        <3>4. CallDirectory'
            BY <3>2 DEF CallDirectory
        <3> QED
            BY <1>2, <3>2, <3>3, <3>4 DEF DInv, Directory, Root, Tree
    <2>4. CASE Collect
        BY <1>2, <2>4 DEF Collect, DInv, Directory, CallDirectory, Idle
    <2>5. CASE Cancel \/ NextQuery \/ UNCHANGED vars
        <3>1. UNCHANGED <<blocks, lo, hi, pc, results, cwd, inTree, original, seen>>
            BY <2>5 DEF Cancel, NextQuery, vars
        <3>2. \A k : Moves(k)' <=> Moves(k)
            BY <3>1 DEF Moves, ClassOf
        <3> QED
            BY <1>2, <3>1, <3>2, NobodyMoves DEF Stays
    <2> QED
        BY <1>2, <2>1, <2>2, <2>3, <2>4, <2>5 DEF Next, Progress
<1>3. DInv => CallDirectory
    BY DEF DInv
<1> QED
    BY <1>1, <1>2, <1>3, Invariance, PTL DEF Spec
=============================================================================
