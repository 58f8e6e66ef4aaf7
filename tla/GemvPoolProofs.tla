---------------------------- MODULE GemvPoolProofs ----------------------------
(* Theorems about GemvPool, for any callers, workers, jobs and bound. *)
EXTENDS GemvPool, FiniteSetTheorems, TLAPS

-------------------------------------------------------------------------------
(* Arithmetic of the chunks. *)

\* A claim number times a positive chunk size is at least the claim number, and
\* claim numbers and their first rows are ordered alike.
LEMMA ChunkOrder ==
    ASSUME NEW a \in Nat, NEW b \in Nat, NEW c \in Nat \ {0}
    PROVE  /\ a * c \in Nat
           /\ a <= a * c
           /\ a <= b => a * c <= b * c
<1>1. PICK d \in Nat : c = d + 1
  BY c - 1 \in Nat, c = (c - 1) + 1
<1>2. a * c = a * d + a
  BY <1>1
<1>3. a * d \in Nat /\ a * c \in Nat
  OBVIOUS
<1>4. ASSUME a <= b PROVE a * c <= b * c
  <2>1. PICK e \in Nat : b = a + e
    BY <1>4, b - a \in Nat, b = a + (b - a)
  <2>2. b * c = a * c + e * c /\ e * c \in Nat
    BY <2>1
  <2>. QED BY <2>2, <1>3
<1>. QED BY <1>2, <1>3, <1>4

\* A claim number whose first row is not a row of the job is beyond every chunk,
\* and one whose first row is, is a chunk.
LEMMA ChunkBound ==
    ASSUME NEW j \in [n_out : Nat, chunk : Nat \ {0}], NEW k \in Nat
    PROVE  /\ k * j.chunk < j.n_out => k \in Chunks(j)
           /\ k * j.chunk >= j.n_out => \A i \in Chunks(j) : i < k
<1>1. ASSUME k * j.chunk < j.n_out PROVE k \in Chunks(j)
  BY <1>1, ChunkOrder DEF Chunks
<1>2. ASSUME k * j.chunk >= j.n_out, NEW i \in Chunks(j) PROVE i < k
  <2>1. i \in Nat /\ i * j.chunk < j.n_out
    BY DEF Chunks
  <2>2. i * j.chunk \in Nat /\ k * j.chunk \in Nat
    BY <2>1, ChunkOrder
  <2>3. k <= i => k * j.chunk <= i * j.chunk
    BY <2>1, ChunkOrder
  <2>. QED BY <1>2, <2>1, <2>2, <2>3
<1>. QED BY <1>1, <1>2

-------------------------------------------------------------------------------
(* Type correctness. *)

LEMMA JobFacts ==
    ASSUME NEW j \in Jobs
    PROVE  j \in [n_out : Nat, chunk : Nat \ {0}] /\ j.n_out \in Nat /\ j.chunk \in Nat \ {0}
BY PoolAssumption

LEMMA TypeInit == Init => TypeOK
<1> SUFFICES ASSUME Init PROVE TypeOK
  OBVIOUS
<1>1. job \in Jobs
  BY PoolAssumption DEF Init, NoJob
<1>2. mine \in [Threads -> Jobs] /\ seen \in [Workers -> Nat] /\ chunk \in [Threads -> Nat]
  BY <1>1 DEF Init
<1>3. pc \in [Threads -> {"idle", "unborn"}]
  BY DEF Init
<1>4. /\ next \in Nat /\ done \in Nat /\ gen \in Nat /\ nthreads \in Nat \ {0}
      /\ ts \in SUBSET Workers /\ ran \in SUBSET Nat
  BY DEF Init
<1>5. /\ stopping \in BOOLEAN /\ life \in {"ctor", "live", "notify", "join"}
      /\ mu \in Threads \cup {None} /\ dispatch_mu \in Callers \cup {None}
  BY DEF Init
<1>. QED BY <1>1, <1>2, <1>3, <1>4, <1>5 DEF TypeOK

LEMMA WidthType ==
    ASSUME ts \in SUBSET Workers PROVE Width \in Nat \ {0}
BY PoolAssumption, FS_Subset, FS_CardinalityType DEF Width

LEMMA TypeStep == TypeOK /\ [Next]_vars => TypeOK'
<1> SUFFICES ASSUME TypeOK, [Next]_vars PROVE TypeOK'
  OBVIOUS
<1> USE DEF TypeOK, Goto, Threads
<1>1. CASE Built
  BY <1>1, WidthType DEF Built
<1>2. CASE Stop
  BY <1>2 DEF Stop
<1>3. CASE NotifyStop
  BY <1>3 DEF NotifyStop, Notified
<1>4. CASE UNCHANGED vars
  BY <1>4 DEF vars
<1>5. ASSUME NEW w \in Workers, CreateWorker(w) PROVE TypeOK'
  BY <1>5 DEF CreateWorker
<1>6. ASSUME NEW w \in Workers, SpuriousWake(w) PROVE TypeOK'
  BY <1>6 DEF SpuriousWake
<1>7. ASSUME NEW w \in Workers, WorkerStep(w) PROVE TypeOK'
  <2>1. CASE LockWorker(w)
    BY <2>1 DEF LockWorker
  <2>2. CASE Park(w)
    BY <2>2 DEF Park
  <2>3. CASE Snapshot(w)
    BY <2>3 DEF Snapshot
  <2>4. CASE Exit(w)
    BY <2>4 DEF Exit
  <2>5. CASE Done(w)
    BY <2>5 DEF Done
  <2>. QED BY <1>7, <2>1, <2>2, <2>3, <2>4, <2>5 DEF WorkerStep
<1>8. ASSUME NEW c \in Callers, CallerStep(c) PROVE TypeOK'
  <2>1. CASE LockDispatch(c)
    BY <2>1 DEF LockDispatch
  <2>2. CASE LockPublish(c)
    BY <2>2 DEF LockPublish
  <2>3. CASE StoreJob(c)
    BY <2>3 DEF StoreJob
  <2>4. CASE ResetNext(c)
    BY <2>4 DEF ResetNext
  <2>5. CASE ResetDone(c)
    BY <2>5 DEF ResetDone, FreshDone
  <2>6. CASE Publish(c)
    BY <2>6 DEF Publish, Notified
  <2>7. CASE Return(c)
    BY <2>7 DEF Return
  <2>. QED BY <1>8, <2>1, <2>2, <2>3, <2>4, <2>5, <2>6, <2>7 DEF CallerStep
<1>9. ASSUME NEW c \in Callers, NEW j \in Jobs, Dispatch(c, j) PROVE TypeOK'
  BY <1>9 DEF Dispatch
<1>10. ASSUME NEW t \in Threads, Claim(t) PROVE TypeOK'
  BY <1>10 DEF Claim, AfterSlices
<1>11. ASSUME NEW t \in Threads, Kernel(t) PROVE TypeOK'
  BY <1>11 DEF Kernel
<1>. QED
  BY <1>1, <1>2, <1>3, <1>4, <1>5, <1>6, <1>7, <1>8, <1>9, <1>10, <1>11
     DEF Next, Terminated

\* Every field of the pool keeps its type, whatever the interleaving.
THEOREM TypeCorrect == Spec => []TypeOK
BY TypeInit, TypeStep, PTL DEF Spec

-------------------------------------------------------------------------------
(* The inductive invariant, conjunct by conjunct. *)

LEMMA ControlStep == IInv /\ TypeOK' /\ [Next]_vars => Control'
<1> SUFFICES ASSUME IInv, TypeOK', [Next]_vars PROVE Control'
  OBVIOUS
<1> USE PoolAssumption DEF IInv, TypeOK, Control, Goto, Threads, Owning, Publishing
<1>1. CASE Built
  BY <1>1 DEF Built, Width
<1>2. CASE Stop
  BY <1>2 DEF Stop
<1>3. CASE NotifyStop
  BY <1>3 DEF NotifyStop, Notified
<1>4. CASE UNCHANGED vars
  BY <1>4 DEF vars
<1>5. ASSUME NEW w \in Workers, CreateWorker(w) PROVE Control'
  BY <1>5 DEF CreateWorker
<1>6. ASSUME NEW w \in Workers, SpuriousWake(w) PROVE Control'
  BY <1>6 DEF SpuriousWake
<1>7. ASSUME NEW w \in Workers, LockWorker(w) PROVE Control'
  BY <1>7 DEF LockWorker
<1>8. ASSUME NEW w \in Workers, Park(w) PROVE Control'
  BY <1>8 DEF Park, Awaited
<1>9. ASSUME NEW w \in Workers, Snapshot(w) PROVE Control'
  BY <1>9 DEF Snapshot, Awaited
<1>10. ASSUME NEW w \in Workers, Exit(w) PROVE Control'
  BY <1>10 DEF Exit, Awaited
<1>11. ASSUME NEW w \in Workers, Done(w) PROVE Control'
  BY <1>11 DEF Done
<1>12. ASSUME NEW c \in Callers, LockDispatch(c) PROVE Control'
  BY <1>12 DEF LockDispatch, DispatchFree
<1>13. ASSUME NEW c \in Callers, LockPublish(c) PROVE Control'
  BY <1>13 DEF LockPublish
<1>14. ASSUME NEW c \in Callers, StoreJob(c) PROVE Control'
  BY <1>14 DEF StoreJob
<1>15. ASSUME NEW c \in Callers, ResetNext(c) PROVE Control'
  BY <1>15 DEF ResetNext
<1>16. ASSUME NEW c \in Callers, ResetDone(c) PROVE Control'
  BY <1>16 DEF ResetDone, FreshDone
<1>17. ASSUME NEW c \in Callers, Publish(c) PROVE Control'
  BY <1>17 DEF Publish, Notified
<1>18. ASSUME NEW c \in Callers, Return(c) PROVE Control'
  BY <1>18 DEF Return, BarrierOpen
<1>19. ASSUME NEW c \in Callers, NEW j \in Jobs, Dispatch(c, j) PROVE Control'
  BY <1>19 DEF Dispatch
<1>20. ASSUME NEW t \in Threads, Claim(t) PROVE Control'
  BY <1>20 DEF Claim, AfterSlices
<1>21. ASSUME NEW t \in Threads, Kernel(t) PROVE Control'
  BY <1>21 DEF Kernel
<1>. QED
  BY <1>1, <1>2, <1>3, <1>4, <1>5, <1>6, <1>7, <1>8, <1>9, <1>10, <1>11,
     <1>12, <1>13, <1>14, <1>15, <1>16, <1>17, <1>18, <1>19, <1>20, <1>21
     DEF Next, CallerStep, WorkerStep, Terminated

LEMMA LocksStep == IInv /\ TypeOK' /\ [Next]_vars => Locks'
<1> SUFFICES ASSUME IInv, TypeOK', [Next]_vars PROVE Locks'
  OBVIOUS
<1> USE PoolAssumption DEF IInv, TypeOK, Control, Locks, Goto, Threads, Owning, Publishing
<1>1. CASE Built
  BY <1>1 DEF Built, Width
<1>2. CASE Stop
  BY <1>2 DEF Stop
<1>3. CASE NotifyStop
  BY <1>3 DEF NotifyStop, Notified
<1>4. CASE UNCHANGED vars
  BY <1>4 DEF vars
<1>5. ASSUME NEW w \in Workers, CreateWorker(w) PROVE Locks'
  BY <1>5 DEF CreateWorker
<1>6. ASSUME NEW w \in Workers, SpuriousWake(w) PROVE Locks'
  BY <1>6 DEF SpuriousWake
<1>7. ASSUME NEW w \in Workers, LockWorker(w) PROVE Locks'
  BY <1>7 DEF LockWorker
<1>8. ASSUME NEW w \in Workers, Park(w) PROVE Locks'
  BY <1>8 DEF Park, Awaited
<1>9. ASSUME NEW w \in Workers, Snapshot(w) PROVE Locks'
  BY <1>9 DEF Snapshot, Awaited
<1>10. ASSUME NEW w \in Workers, Exit(w) PROVE Locks'
  BY <1>10 DEF Exit, Awaited
<1>11. ASSUME NEW w \in Workers, Done(w) PROVE Locks'
  BY <1>11 DEF Done
<1>12. ASSUME NEW c \in Callers, LockDispatch(c) PROVE Locks'
  BY <1>12 DEF LockDispatch, DispatchFree
<1>13. ASSUME NEW c \in Callers, LockPublish(c) PROVE Locks'
  BY <1>13 DEF LockPublish
<1>14. ASSUME NEW c \in Callers, StoreJob(c) PROVE Locks'
  BY <1>14 DEF StoreJob
<1>15. ASSUME NEW c \in Callers, ResetNext(c) PROVE Locks'
  BY <1>15 DEF ResetNext
<1>16. ASSUME NEW c \in Callers, ResetDone(c) PROVE Locks'
  BY <1>16 DEF ResetDone, FreshDone
<1>17. ASSUME NEW c \in Callers, Publish(c) PROVE Locks'
  BY <1>17 DEF Publish, Notified
<1>18. ASSUME NEW c \in Callers, Return(c) PROVE Locks'
  BY <1>18 DEF Return, BarrierOpen
<1>19. ASSUME NEW c \in Callers, NEW j \in Jobs, Dispatch(c, j) PROVE Locks'
  BY <1>19 DEF Dispatch
<1>20. ASSUME NEW t \in Threads, Claim(t) PROVE Locks'
  BY <1>20 DEF Claim, AfterSlices
<1>21. ASSUME NEW t \in Threads, Kernel(t) PROVE Locks'
  BY <1>21 DEF Kernel
<1>. QED
  BY <1>1, <1>2, <1>3, <1>4, <1>5, <1>6, <1>7, <1>8, <1>9, <1>10, <1>11,
     <1>12, <1>13, <1>14, <1>15, <1>16, <1>17, <1>18, <1>19, <1>20, <1>21
     DEF Next, CallerStep, WorkerStep, Terminated

\* While one caller prepares its job nobody works on another.
LEMMA PublisherAlone ==
    ASSUME IInv, NEW c \in Callers, pc[c] \in Publishing
    PROVE  ~InProgress /\ \A t \in Threads : pc[t] \notin {"claim", "kernel", "done", "barrier"}
<1>. USE PoolAssumption DEF IInv, Threads, Control, Locks
<1>1. \A d \in Callers : ~Running(d)
  BY DEF Running, Publishing, Owning
<1>2. \A w \in Workers : ~Busy(w)
  BY <1>1 DEF InProgress, Quiet, Busy
<1>3. \A w \in Workers : pc[w] # "barrier"
  OBVIOUS
<1>4. \A d \in Callers : pc[d] \notin {"claim", "kernel", "done", "barrier"}
  BY <1>1 DEF Running, Owning, Publishing
<1>5. ~InProgress
  BY <1>1 DEF InProgress
<1>6. \A w \in Workers : pc[w] \notin {"claim", "kernel", "done", "barrier"}
  BY <1>2, <1>3 DEF Busy
<1>. QED BY <1>4, <1>5, <1>6

LEMMA PreparedStep == IInv /\ TypeOK' /\ [Next]_vars => Prepared'
<1> SUFFICES ASSUME IInv, TypeOK', [Next]_vars PROVE Prepared'
  OBVIOUS
<1> USE PoolAssumption DEF IInv, TypeOK, Control, Locks, Prepared, Goto, Threads, Owning, Publishing
<1>1. CASE Built
  BY <1>1 DEF Built, Width
<1>2. CASE Stop
  BY <1>2 DEF Stop
<1>3. CASE NotifyStop
  BY <1>3 DEF NotifyStop, Notified
<1>4. CASE UNCHANGED vars
  BY <1>4 DEF vars
<1>5. ASSUME NEW w \in Workers, CreateWorker(w) PROVE Prepared'
  BY <1>5 DEF CreateWorker
<1>6. ASSUME NEW w \in Workers, SpuriousWake(w) PROVE Prepared'
  BY <1>6 DEF SpuriousWake
<1>7. ASSUME NEW w \in Workers, LockWorker(w) PROVE Prepared'
  BY <1>7 DEF LockWorker
<1>8. ASSUME NEW w \in Workers, Park(w) PROVE Prepared'
  BY <1>8 DEF Park, Awaited
<1>9. ASSUME NEW w \in Workers, Snapshot(w) PROVE Prepared'
  BY <1>9 DEF Snapshot, Awaited
<1>10. ASSUME NEW w \in Workers, Exit(w) PROVE Prepared'
  BY <1>10 DEF Exit, Awaited
<1>11. ASSUME NEW w \in Workers, Done(w) PROVE Prepared'
  BY <1>11, PublisherAlone DEF Done
<1>12. ASSUME NEW c \in Callers, LockDispatch(c) PROVE Prepared'
  BY <1>12 DEF LockDispatch, DispatchFree
<1>13. ASSUME NEW c \in Callers, LockPublish(c) PROVE Prepared'
  BY <1>13 DEF LockPublish
<1>14. ASSUME NEW c \in Callers, StoreJob(c) PROVE Prepared'
  BY <1>14 DEF StoreJob
<1>15. ASSUME NEW c \in Callers, ResetNext(c) PROVE Prepared'
  BY <1>15 DEF ResetNext
<1>16. ASSUME NEW c \in Callers, ResetDone(c) PROVE Prepared'
  BY <1>16 DEF ResetDone, FreshDone
<1>17. ASSUME NEW c \in Callers, Publish(c) PROVE Prepared'
  BY <1>17 DEF Publish, Notified
<1>18. ASSUME NEW c \in Callers, Return(c) PROVE Prepared'
  BY <1>18 DEF Return, BarrierOpen
<1>19. ASSUME NEW c \in Callers, NEW j \in Jobs, Dispatch(c, j) PROVE Prepared'
  BY <1>19 DEF Dispatch
<1>20. ASSUME NEW t \in Threads, Claim(t) PROVE Prepared'
  BY <1>20, PublisherAlone DEF Claim, AfterSlices
<1>21. ASSUME NEW t \in Threads, Kernel(t) PROVE Prepared'
  BY <1>21, PublisherAlone DEF Kernel
<1>. QED
  BY <1>1, <1>2, <1>3, <1>4, <1>5, <1>6, <1>7, <1>8, <1>9, <1>10, <1>11,
     <1>12, <1>13, <1>14, <1>15, <1>16, <1>17, <1>18, <1>19, <1>20, <1>21
     DEF Next, CallerStep, WorkerStep, Terminated

\* The workers counted by `done` are created workers, so they are finitely many.
LEMMA FinishedFinite ==
    ASSUME TypeOK
    PROVE  /\ IsFiniteSet(ts) /\ IsFiniteSet(Finished)
           /\ Cardinality(ts) \in Nat /\ Cardinality(Finished) \in Nat
           /\ Cardinality(Finished) = Cardinality(ts) => Finished = ts
           /\ Cardinality(Finished) <= Cardinality(ts)
<1>1. IsFiniteSet(ts) /\ Cardinality(ts) \in Nat
  BY PoolAssumption, FS_Subset, FS_CardinalityType DEF TypeOK
<1>2. Finished \in SUBSET ts
  BY DEF Finished
<1>. QED BY <1>1, <1>2, FS_Subset, FS_CardinalityType

\* When the barrier is open, every worker has finished the generation.
LEMMA BarrierMeansFinished ==
    ASSUME IInv, NEW c \in Callers, pc[c] = "barrier", BarrierOpen
    PROVE  Finished = ts
<1>1. life = "live" /\ nthreads = Cardinality(ts) + 1
  BY DEF IInv, Control
<1>2. done = Cardinality(Finished)
  BY DEF IInv, Active, Running
<1>3. TypeOK
  BY DEF IInv
<1>4. done >= Cardinality(ts)
  BY <1>1, <1>3, FinishedFinite DEF BarrierOpen
<1>. QED BY <1>2, <1>3, <1>4, FinishedFinite

LEMMA QuietStep == IInv /\ TypeOK' /\ [Next]_vars => Quiet'
<1> SUFFICES ASSUME IInv, TypeOK', [Next]_vars PROVE Quiet'
  OBVIOUS
<1> USE PoolAssumption DEF IInv, TypeOK, Control, Locks, Quiet, Goto, Threads, Owning, Publishing, InProgress, Running, Busy
<1>1. CASE Built
  BY <1>1 DEF Built, Width
<1>2. CASE Stop
  BY <1>2 DEF Stop
<1>3. CASE NotifyStop
  BY <1>3 DEF NotifyStop, Notified
<1>4. CASE UNCHANGED vars
  BY <1>4 DEF vars
<1>5. ASSUME NEW w \in Workers, CreateWorker(w) PROVE Quiet'
  BY <1>5 DEF CreateWorker
<1>6. ASSUME NEW w \in Workers, SpuriousWake(w) PROVE Quiet'
  BY <1>6 DEF SpuriousWake
<1>7. ASSUME NEW w \in Workers, LockWorker(w) PROVE Quiet'
  BY <1>7 DEF LockWorker
<1>8. ASSUME NEW w \in Workers, Park(w) PROVE Quiet'
  BY <1>8 DEF Park, Awaited
<1>9. ASSUME NEW w \in Workers, Snapshot(w) PROVE Quiet'
  BY <1>9 DEF Snapshot, Awaited
<1>10. ASSUME NEW w \in Workers, Exit(w) PROVE Quiet'
  BY <1>10 DEF Exit, Awaited
<1>11. ASSUME NEW w \in Workers, Done(w) PROVE Quiet'
  BY <1>11 DEF Done
<1>12. ASSUME NEW c \in Callers, LockDispatch(c) PROVE Quiet'
  BY <1>12 DEF LockDispatch, DispatchFree
<1>13. ASSUME NEW c \in Callers, LockPublish(c) PROVE Quiet'
  BY <1>13 DEF LockPublish
<1>14. ASSUME NEW c \in Callers, StoreJob(c) PROVE Quiet'
  BY <1>14 DEF StoreJob
<1>15. ASSUME NEW c \in Callers, ResetNext(c) PROVE Quiet'
  BY <1>15 DEF ResetNext
<1>16. ASSUME NEW c \in Callers, ResetDone(c) PROVE Quiet'
  BY <1>16 DEF ResetDone, FreshDone
<1>17. ASSUME NEW c \in Callers, Publish(c) PROVE Quiet'
  BY <1>17 DEF Publish, Notified
<1>18. ASSUME NEW c \in Callers, Return(c) PROVE Quiet'
  <2>1. Finished = ts
    BY <1>18, BarrierMeansFinished DEF Return
  <2>. QED BY <1>18, <2>1 DEF Return, Finished
<1>19. ASSUME NEW c \in Callers, NEW j \in Jobs, Dispatch(c, j) PROVE Quiet'
  BY <1>19 DEF Dispatch
<1>20. ASSUME NEW t \in Threads, Claim(t) PROVE Quiet'
  BY <1>20 DEF Claim, AfterSlices
<1>21. ASSUME NEW t \in Threads, Kernel(t) PROVE Quiet'
  BY <1>21 DEF Kernel
<1>. QED
  BY <1>1, <1>2, <1>3, <1>4, <1>5, <1>6, <1>7, <1>8, <1>9, <1>10, <1>11,
     <1>12, <1>13, <1>14, <1>15, <1>16, <1>17, <1>18, <1>19, <1>20, <1>21
     DEF Next, CallerStep, WorkerStep, Terminated

LEMMA ActiveStep == IInv /\ TypeOK' /\ [Next]_vars => Active'
<1> SUFFICES ASSUME IInv, TypeOK', [Next]_vars PROVE Active'
  OBVIOUS
<1> USE PoolAssumption DEF IInv, TypeOK, Control, Locks, Active, Goto, Threads, Owning, Publishing, Running, Busy
<1>1. CASE Built
  BY <1>1 DEF Built, Width
<1>2. CASE Stop
  <2>1. Finished' = Finished
    BY <1>2 DEF Finished, Stop
  <2>. QED BY <1>2, <2>1 DEF Stop
<1>3. CASE NotifyStop
  <2>1. Finished' = Finished
    BY <1>3 DEF Finished, NotifyStop, Notified
  <2>. QED BY <1>3, <2>1 DEF NotifyStop, Notified
<1>4. CASE UNCHANGED vars
  <2>1. Finished' = Finished
    BY <1>4 DEF Finished, vars
  <2>. QED BY <1>4, <2>1 DEF vars
<1>5. ASSUME NEW w \in Workers, CreateWorker(w) PROVE Active'
  BY <1>5 DEF CreateWorker
<1>6. ASSUME NEW w \in Workers, SpuriousWake(w) PROVE Active'
  <2>1. Finished' = Finished
    BY <1>6 DEF Finished, SpuriousWake
  <2>. QED BY <1>6, <2>1 DEF SpuriousWake
<1>7. ASSUME NEW w \in Workers, LockWorker(w) PROVE Active'
  <2>1. Finished' = Finished
    BY <1>7 DEF Finished, LockWorker
  <2>. QED BY <1>7, <2>1 DEF LockWorker
<1>8. ASSUME NEW w \in Workers, Park(w) PROVE Active'
  <2>1. Finished' = Finished
    BY <1>8 DEF Finished, Park, Awaited
  <2>. QED BY <1>8, <2>1 DEF Park, Awaited
<1>9. ASSUME NEW w \in Workers, Snapshot(w) PROVE Active'
  <2>1. Finished' = Finished
    BY <1>9 DEF Finished, Snapshot, Awaited
  <2>. QED BY <1>9, <2>1 DEF Snapshot, Awaited
<1>10. ASSUME NEW w \in Workers, Exit(w) PROVE Active'
  <2>1. Finished' = Finished
    BY <1>10 DEF Finished, Exit, Awaited
  <2>. QED BY <1>10, <2>1 DEF Exit, Awaited
<1>11. ASSUME NEW w \in Workers, Done(w) PROVE Active'
  <2>1. SUFFICES ASSUME NEW c \in Callers, Running(c) PROVE Active'
    BY <1>11 DEF Done
  <2>2. w \in ts /\ w \notin Finished /\ seen[w] = gen
    BY <1>11, <2>1 DEF Done, Finished
  <2>3. Finished' = Finished \cup {w}
    BY <1>11, <2>2 DEF Finished, Done
  <2>4. done = Cardinality(Finished) /\ Cardinality(Finished') = done + 1
    BY <2>1, <2>2, <2>3, FinishedFinite, FS_AddElement
  <2>. QED BY <1>11, <2>4 DEF Done
<1>12. ASSUME NEW c \in Callers, LockDispatch(c) PROVE Active'
  <2>1. Finished' = Finished
    BY <1>12 DEF Finished, LockDispatch, DispatchFree
  <2>. QED BY <1>12, <2>1 DEF LockDispatch, DispatchFree
<1>13. ASSUME NEW c \in Callers, LockPublish(c) PROVE Active'
  <2>1. Finished' = Finished
    BY <1>13 DEF Finished, LockPublish
  <2>. QED BY <1>13, <2>1 DEF LockPublish
<1>14. ASSUME NEW c \in Callers, StoreJob(c) PROVE Active'
  <2>1. ~InProgress
    BY <1>14, PublisherAlone DEF StoreJob
  <2>. QED BY <1>14, <2>1 DEF StoreJob, InProgress
<1>15. ASSUME NEW c \in Callers, ResetNext(c) PROVE Active'
  <2>1. ~InProgress
    BY <1>15, PublisherAlone DEF ResetNext
  <2>. QED BY <1>15, <2>1 DEF ResetNext, InProgress
<1>16. ASSUME NEW c \in Callers, ResetDone(c) PROVE Active'
  <2>1. ~InProgress
    BY <1>16, PublisherAlone DEF ResetDone
  <2>. QED BY <1>16, <2>1 DEF ResetDone, FreshDone, InProgress
<1>17. ASSUME NEW c \in Callers, Publish(c) PROVE Active'
  <2>1. \A w \in Workers : ~Busy(w)
    BY <1>17, PublisherAlone DEF Publish
  <2>2. ~InProgress
    BY <1>17, PublisherAlone DEF Publish
  <2>3. job = mine[c] /\ done = 0
    BY <1>17 DEF Publish, Prepared
  <2>4. Finished' = {}
    BY <1>17 DEF Finished, Publish, Notified
  <2>. QED BY <1>17, <2>1, <2>2, <2>3, <2>4, FS_EmptySet DEF Publish, Notified, InProgress
<1>18. ASSUME NEW c \in Callers, Return(c) PROVE Active'
  <2>1. Finished' = Finished
    BY <1>18 DEF Finished, Return, BarrierOpen
  <2>. QED BY <1>18, <2>1 DEF Return, BarrierOpen
<1>19. ASSUME NEW c \in Callers, NEW j \in Jobs, Dispatch(c, j) PROVE Active'
  <2>1. Finished' = Finished
    BY <1>19 DEF Finished, Dispatch
  <2>. QED BY <1>19, <2>1 DEF Dispatch
<1>20. ASSUME NEW t \in Threads, Claim(t) PROVE Active'
  <2>1. Finished' = Finished
    BY <1>20 DEF Finished, Claim, AfterSlices
  <2>. QED BY <1>20, <2>1 DEF Claim, AfterSlices
<1>21. ASSUME NEW t \in Threads, Kernel(t) PROVE Active'
  <2>1. Finished' = Finished
    BY <1>21 DEF Finished, Kernel
  <2>. QED BY <1>21, <2>1 DEF Kernel
<1>. QED
  BY <1>1, <1>2, <1>3, <1>4, <1>5, <1>6, <1>7, <1>8, <1>9, <1>10, <1>11,
     <1>12, <1>13, <1>14, <1>15, <1>16, <1>17, <1>18, <1>19, <1>20, <1>21
     DEF Next, CallerStep, WorkerStep, Terminated

\* A thread in run_slices works on the job in progress.
LEMMA SharesJob ==
    ASSUME IInv, NEW t \in Threads, pc[t] \in {"claim", "kernel"}
    PROVE  InProgress /\ mine[t] = job
<1>. USE PoolAssumption DEF IInv, Threads
<1>1. CASE t \in Callers
  BY <1>1 DEF InProgress, Running, Active
<1>2. CASE t \in Workers
  <2>1. Busy(t) /\ t \in ts
    BY <1>2 DEF Busy, Control
  <2>2. InProgress
    BY <2>1 DEF Quiet
  <2>. QED BY <1>2, <2>1, <2>2 DEF InProgress, Active
<1>. QED BY <1>1, <1>2

LEMMA ClaimsStep == IInv /\ TypeOK' /\ [Next]_vars => Claims'
<1> SUFFICES ASSUME IInv, TypeOK', [Next]_vars PROVE Claims'
  OBVIOUS
<1> USE PoolAssumption DEF IInv, TypeOK, Control, Locks, Claims, Goto, Threads, Owning, Publishing, Running, InProgress
<1>1. CASE Built
  BY <1>1 DEF Built, Width
<1>2. CASE Stop
  BY <1>2 DEF Stop
<1>3. CASE NotifyStop
  BY <1>3 DEF NotifyStop, Notified
<1>4. CASE UNCHANGED vars
  BY <1>4 DEF vars
<1>5. ASSUME NEW w \in Workers, CreateWorker(w) PROVE Claims'
  BY <1>5 DEF CreateWorker
<1>6. ASSUME NEW w \in Workers, SpuriousWake(w) PROVE Claims'
  BY <1>6 DEF SpuriousWake
<1>7. ASSUME NEW w \in Workers, LockWorker(w) PROVE Claims'
  BY <1>7 DEF LockWorker
<1>8. ASSUME NEW w \in Workers, Park(w) PROVE Claims'
  BY <1>8 DEF Park, Awaited
<1>9. ASSUME NEW w \in Workers, Snapshot(w) PROVE Claims'
  BY <1>9 DEF Snapshot, Awaited
<1>10. ASSUME NEW w \in Workers, Exit(w) PROVE Claims'
  BY <1>10 DEF Exit, Awaited
<1>11. ASSUME NEW w \in Workers, Done(w) PROVE Claims'
  BY <1>11 DEF Done
<1>12. ASSUME NEW c \in Callers, LockDispatch(c) PROVE Claims'
  BY <1>12 DEF LockDispatch, DispatchFree
<1>13. ASSUME NEW c \in Callers, LockPublish(c) PROVE Claims'
  BY <1>13 DEF LockPublish
<1>14. ASSUME NEW c \in Callers, StoreJob(c) PROVE Claims'
  <2>1. ~InProgress
    BY <1>14, PublisherAlone DEF StoreJob
  <2>. QED BY <1>14, <2>1 DEF StoreJob
<1>15. ASSUME NEW c \in Callers, ResetNext(c) PROVE Claims'
  <2>1. ~InProgress
    BY <1>15, PublisherAlone DEF ResetNext
  <2>. QED BY <1>15, <2>1 DEF ResetNext
<1>16. ASSUME NEW c \in Callers, ResetDone(c) PROVE Claims'
  <2>1. ~InProgress
    BY <1>16, PublisherAlone DEF ResetDone
  <2>. QED BY <1>16, <2>1 DEF ResetDone, FreshDone
<1>17. ASSUME NEW c \in Callers, Publish(c) PROVE Claims'
  <2>1. \A t \in Threads : pc[t] # "kernel"
    BY <1>17, PublisherAlone DEF Publish
  <2>2. next = 0 /\ ran = {}
    BY <1>17 DEF Publish, Prepared
  <2>3. \A t \in Threads : pc'[t] # "kernel"
    BY <1>17, <2>1 DEF Publish, Notified
  <2>. QED BY <1>17, <2>2, <2>3 DEF Publish, Chunks
<1>18. ASSUME NEW c \in Callers, Return(c) PROVE Claims'
  BY <1>18 DEF Return, BarrierOpen
<1>19. ASSUME NEW c \in Callers, NEW j \in Jobs, Dispatch(c, j) PROVE Claims'
  BY <1>19 DEF Dispatch
<1>20. ASSUME NEW t \in Threads, Claim(t) PROVE Claims'
  <2>1. InProgress /\ mine[t] = job
    BY <1>20, SharesJob DEF Claim
  <2>2. job \in [n_out : Nat, chunk : Nat \ {0}] /\ next \in Nat
    BY JobFacts
  <2>3. UNCHANGED <<job, ran>> /\ next' = next + 1 /\ chunk' = [chunk EXCEPT ![t] = next]
    BY <1>20 DEF Claim
  <2>4. CASE next * job.chunk >= job.n_out
    <3>1. \A u \in Threads : pc'[u] = "kernel" => u # t /\ pc[u] = "kernel" /\ chunk'[u] = chunk[u]
      BY <1>20, <2>1, <2>4 DEF Claim, AfterSlices
    <3>2. \A u \in Threads : pc[u] = "kernel" => pc'[u] = "kernel" /\ chunk'[u] = chunk[u]
      BY <1>20, <2>1, <2>4 DEF Claim, AfterSlices
    <3>3. \A k \in Chunks(job) : k < next
      BY <2>2, <2>4, ChunkBound
    <3>. QED BY <2>1, <2>2, <2>3, <3>1, <3>2, <3>3
  <2>5. CASE next * job.chunk < job.n_out
    <3>1. next \in Chunks(job) /\ Chunks(job) \subseteq Nat
      BY <2>2, <2>5, ChunkBound DEF Chunks
    <3>2. next * mine[t].chunk < mine[t].n_out
      BY <2>1, <2>5
    <3>3. next * mine[t].chunk \in Nat /\ mine[t].n_out \in Nat
      BY <2>1, <2>2, ChunkOrder
    <3>4. ~(next * mine[t].chunk >= mine[t].n_out)
      BY <3>2, <3>3
    <3>5. pc' = [pc EXCEPT ![t] = "kernel"] /\ pc[t] = "claim"
      BY <1>20, <3>4 DEF Claim
    <3>6. next \notin ran /\ \A u \in Threads : pc[u] = "kernel" => chunk[u] # next
      BY <2>1, <2>2
    <3>. QED BY <2>1, <2>2, <2>3, <3>1, <3>5, <3>6
  <2>. QED BY <2>2, <2>4, <2>5, ChunkOrder
<1>21. ASSUME NEW t \in Threads, Kernel(t) PROVE Claims'
  <2>1. InProgress
    BY <1>21, SharesJob DEF Kernel
  <2>2. /\ UNCHANGED <<job, next, chunk>> /\ ran' = ran \cup {chunk[t]}
        /\ pc[t] = "kernel" /\ pc' = [pc EXCEPT ![t] = "claim"]
    BY <1>21 DEF Kernel
  <2>. QED BY <2>1, <2>2 DEF Chunks
<1>. QED
  BY <1>1, <1>2, <1>3, <1>4, <1>5, <1>6, <1>7, <1>8, <1>9, <1>10, <1>11,
     <1>12, <1>13, <1>14, <1>15, <1>16, <1>17, <1>18, <1>19, <1>20, <1>21
     DEF Next, CallerStep, WorkerStep, Terminated

-------------------------------------------------------------------------------
(* Safety. *)

LEMMA IInvInit == Init => IInv
<1> SUFFICES ASSUME Init PROVE IInv
  OBVIOUS
<1>1. \A t \in Threads : pc[t] \in {"idle", "unborn"}
  BY DEF Init
<1>2. \A c \in Callers : pc[c] = "idle"
  BY DEF Init, Threads
<1>3. \A w \in Workers : pc[w] = "unborn" /\ seen[w] = 0
  BY PoolAssumption DEF Init, Threads
<1>4. ~InProgress
  BY <1>2 DEF InProgress, Running
<1>5. Control
  BY <1>2, <1>3 DEF Init, Control
<1>6. Locks
  BY <1>1, <1>2, PoolAssumption DEF Init, Locks, Owning, Publishing, Threads
<1>7. Quiet
  BY DEF Init, Quiet
<1>8. Prepared /\ Active /\ Claims
  BY <1>2, <1>4 DEF Prepared, Active, Claims, Running
<1>. QED BY <1>5, <1>6, <1>7, <1>8, TypeInit DEF IInv

LEMMA IInvStep == IInv /\ [Next]_vars => IInv'
<1>1. IInv /\ [Next]_vars => TypeOK'
  BY TypeStep DEF IInv
<1>. QED
  BY <1>1, ControlStep, LocksStep, QuietStep, PreparedStep, ActiveStep, ClaimsStep DEF IInv

\* The inductive invariant of the publication, claim and barrier protocol.
THEOREM Invariant == Spec => []IInv
BY IInvInit, IInvStep, PTL DEF Spec

\* Whatever the number of callers and workers, no chunk of a dispatch is ever
\* computed twice or by two threads.
THEOREM ChunksRunOnce == Spec => []ExactlyOnce
<1>1. IInv => ExactlyOnce
  <2> SUFFICES ASSUME IInv, NEW t \in Threads, pc[t] = "kernel"
               PROVE  /\ chunk[t] \in Chunks(mine[t]) \ ran
                      /\ \A u \in Threads \ {t} : pc[u] = "kernel" => chunk[u] # chunk[t]
    BY DEF ExactlyOnce
  <2>1. InProgress /\ mine[t] = job
    BY SharesJob
  <2>. QED BY <2>1 DEF IInv, Claims
<1>. QED BY <1>1, Invariant, PTL

\* dispatch returns only after every chunk of its job has been computed, and
\* while nobody is inside a kernel.
THEOREM DispatchComplete == Spec => []CompleteAtReturn
<1>1. IInv => CompleteAtReturn
  <2> SUFFICES ASSUME IInv, NEW c \in Callers, pc[c] = "barrier", BarrierOpen
               PROVE  ran = Chunks(mine[c]) /\ \A t \in Threads : pc[t] # "kernel"
    BY DEF CompleteAtReturn
  <2>1. Finished = ts
    BY BarrierMeansFinished
  <2>2. InProgress /\ Running(c)
    BY DEF InProgress, Running
  <2>3. job = mine[c] /\ next * job.chunk >= job.n_out /\ job \in Jobs /\ next \in Nat
    BY <2>2 DEF IInv, Active, TypeOK
  <2>4. \A k \in Chunks(job) : k < next
    BY <2>3, JobFacts, ChunkBound
  <2>5. \A w \in Workers : pc[w] # "kernel"
    BY <2>1 DEF Finished, Busy, IInv, Control
  <2>6. \A d \in Callers : pc[d] # "kernel"
    <3>1. dispatch_mu = c
      BY DEF IInv, Locks, Owning
    <3>. QED BY <3>1 DEF IInv, Locks, Owning
  <2>7. \A t \in Threads : pc[t] # "kernel"
    BY <2>5, <2>6 DEF Threads
  <2>. QED BY <2>2, <2>3, <2>4, <2>7 DEF IInv, Claims
<1>. QED BY <1>1, Invariant, PTL

\* A worker never touches the spans of a dispatch that has returned.
THEOREM BuffersOutliveKernels == Spec => []KernelsOwnTheirBuffers
<1>1. IInv => KernelsOwnTheirBuffers
  <2> SUFFICES ASSUME IInv, NEW w \in Workers, pc[w] \in {"claim", "kernel"}
               PROVE  \E c \in Callers : Running(c) /\ mine[c] = mine[w] /\ seen[w] = gen
    BY DEF KernelsOwnTheirBuffers
  <2>1. InProgress /\ mine[w] = job
    BY SharesJob DEF Threads
  <2>2. PICK c \in Callers : Running(c)
    BY <2>1 DEF InProgress
  <2>. QED BY <2>1, <2>2 DEF IInv, Active, Busy
<1>. QED BY <1>1, Invariant, PTL

-------------------------------------------------------------------------------
(* The refinement. *)

\* A step the abstract specification does not see.
Stutter == UNCHANGED <<InProgress, Todo, Doing>>

\* What such a step leaves alone: what is left to claim, which callers are
\* inside a dispatch, and which thread computes which chunk.
SameWork ==
    /\ UNCHANGED <<job, next>>
    /\ \A c \in Callers : (pc'[c] \in {"claim", "kernel", "barrier"}) <=> Running(c)
    /\ \A t \in Threads : (pc'[t] = "kernel") <=> (pc[t] = "kernel")
    /\ \A t \in Threads : pc[t] = "kernel" => mine'[t] = mine[t] /\ chunk'[t] = chunk[t]

LEMMA SameView == SameWork => Stutter
<1> SUFFICES ASSUME SameWork PROVE Stutter
  OBVIOUS
<1>1. InProgress' = InProgress
  BY DEF InProgress, Running, SameWork
<1>2. Todo' = Todo
  BY <1>1 DEF Todo, SameWork
<1>3. Doing' = Doing
  BY DEF Doing, Rows, SameWork
<1>. QED BY <1>1, <1>2, <1>3 DEF Stutter

LEMMA RefineInit == Init => Abstract!FJInit
<1> SUFFICES ASSUME Init PROVE Abstract!FJInit
  OBVIOUS
<1>1. \A t \in Threads : pc[t] \in {"idle", "unborn"}
  BY DEF Init
<1>2. InProgress = FALSE
  BY <1>1 DEF InProgress, Running, Threads
<1>3. Todo = {} /\ Doing = [t \in Threads |-> {}]
  BY <1>1, <1>2 DEF Todo, Doing
<1>. QED BY <1>2, <1>3 DEF Abstract!FJInit

\* Moving the generation begins the abstract job.
LEMMA RefinePublish ==
    ASSUME IInv, TypeOK', NEW c \in Callers, Publish(c) PROVE Abstract!Begin
<1>. USE DEF IInv
<1>1. ~InProgress /\ \A t \in Threads : pc[t] # "kernel"
  BY PublisherAlone DEF Publish, Publishing
<1>2. next = 0 /\ UNCHANGED <<job, next, mine, chunk>>
  BY DEF Publish, Prepared
<1>3. \A t \in Threads : pc'[t] # "kernel"
  BY <1>1 DEF Publish, Notified, TypeOK
<1>4. InProgress'
  <2>1. pc'[c] = "claim"
    BY DEF Publish, Notified, TypeOK, Threads
  <2>. QED BY <2>1 DEF InProgress, Running
<1>5. job.n_out \in {j.n_out : j \in Jobs} /\ job.n_out \in Nat /\ job.chunk \in Nat
  BY JobFacts DEF TypeOK
<1>6. Todo' = 0 .. job.n_out - 1
  BY <1>2, <1>4, <1>5 DEF Todo
<1>7. Doing' = Doing
  BY <1>1, <1>3 DEF Doing
<1>8. InProgress = FALSE /\ InProgress' = TRUE
  BY <1>1, <1>4 DEF InProgress
<1>. QED BY <1>5, <1>6, <1>7, <1>8 DEF Abstract!Begin

\* A claim with rows hands them to its thread; one without stutters.
LEMMA RefineClaim ==
    ASSUME IInv, TypeOK', NEW t \in Threads, Claim(t)
    PROVE  Abstract!Take(t) \/ UNCHANGED <<InProgress, Todo, Doing>>
<1>. USE DEF IInv
<1>1. InProgress /\ mine[t] = job /\ pc[t] = "claim"
  BY SharesJob DEF Claim
<1>2. job \in [n_out : Nat, chunk : Nat \ {0}] /\ next \in Nat
  BY JobFacts DEF TypeOK
<1>3. next * job.chunk \in Nat /\ job.n_out \in Nat /\ job.chunk \in Nat \ {0}
  BY <1>2, ChunkOrder
<1>4. UNCHANGED <<job, mine>> /\ next' = next + 1 /\ chunk' = [chunk EXCEPT ![t] = next]
  BY DEF Claim
<1>5. next' * job.chunk = next * job.chunk + job.chunk
  BY <1>2, <1>3, <1>4
<1>6. InProgress'
  <2>1. PICK c \in Callers : Running(c)
    BY <1>1 DEF InProgress
  <2>2. Running(c)'
    BY <2>1 DEF Running, Claim, AfterSlices, TypeOK
  <2>. QED BY <2>2 DEF InProgress
<1>7. InProgress' = InProgress
  BY <1>1, <1>6 DEF InProgress
<1>8. /\ Todo = {r \in 0 .. job.n_out - 1 : next * job.chunk <= r}
      /\ Todo' = {r \in 0 .. job.n_out - 1 : next * job.chunk + job.chunk <= r}
  BY <1>1, <1>4, <1>5, <1>6 DEF Todo
<1>9. CASE next * job.chunk >= job.n_out
  <2>1. Todo = {} /\ Todo' = {}
    BY <1>3, <1>8, <1>9
  <2>2. pc'[t] # "kernel" /\ \A u \in Threads \ {t} : pc'[u] = pc[u] /\ chunk'[u] = chunk[u]
    BY <1>1, <1>4, <1>9 DEF Claim, AfterSlices, TypeOK
  <2>3. Doing' = Doing
    BY <1>1, <1>4, <2>2 DEF Doing
  <2>. QED BY <1>7, <2>1, <2>3
<1>10. CASE ~(next * job.chunk >= job.n_out)
  <2>1. pc' = [pc EXCEPT ![t] = "kernel"]
    BY <1>1, <1>10 DEF Claim
  <2>2. Rows(next, job) \in SUBSET Todo /\ Todo' = Todo \ Rows(next, job)
    BY <1>3, <1>8 DEF Rows
  <2>3. next * job.chunk \in Rows(next, job)
    BY <1>3, <1>10 DEF Rows
  <2>4. Doing' = [Doing EXCEPT ![t] = Rows(next, job)]
    BY <1>1, <1>4, <2>1 DEF Doing, TypeOK
  <2>5. Doing[t] = {}
    BY <1>1 DEF Doing
  <2>. QED BY <1>1, <1>7, <2>2, <2>3, <2>4, <2>5 DEF Abstract!Take
<1>. QED BY <1>9, <1>10

LEMMA RefineKernel ==
    ASSUME IInv, TypeOK', NEW t \in Threads, Kernel(t) PROVE Abstract!Finish(t)
<1>. USE DEF IInv
<1>1. InProgress /\ mine[t] = job /\ pc[t] = "kernel" /\ chunk[t] \in Chunks(job)
  BY SharesJob DEF Kernel, Goto, Claims
<1>2. /\ UNCHANGED <<job, next, chunk, mine>>
      /\ pc' = [pc EXCEPT ![t] = "claim"]
  BY DEF Kernel, Goto
<1>3. InProgress'
  <2>1. PICK c \in Callers : Running(c)
    BY <1>1 DEF InProgress
  <2>2. Running(c)'
    BY <1>2, <2>1 DEF Running, TypeOK
  <2>. QED BY <2>2 DEF InProgress
<1>4. InProgress' = InProgress /\ Todo' = Todo
  BY <1>1, <1>2, <1>3 DEF InProgress, Todo
<1>5. chunk[t] * job.chunk \in Rows(chunk[t], job)
  <2>1. chunk[t] \in Nat /\ job.chunk \in Nat \ {0} /\ job.n_out \in Nat
    BY JobFacts DEF TypeOK
  <2>2. chunk[t] * job.chunk \in Nat /\ chunk[t] * job.chunk < job.n_out
    BY <1>1, <2>1, ChunkOrder DEF Chunks
  <2>. QED BY <2>1, <2>2 DEF Rows
<1>6. Doing[t] # {} /\ Doing' = [Doing EXCEPT ![t] = {}]
  BY <1>1, <1>2, <1>5 DEF Doing, TypeOK
<1>. QED BY <1>1, <1>4, <1>6 DEF Abstract!Finish

\* The barrier ends the abstract job.
LEMMA RefineReturn ==
    ASSUME IInv, TypeOK', NEW c \in Callers, Return(c) PROVE Abstract!End
<1>. USE DEF IInv
<1>1. Finished = ts /\ pc[c] = "barrier" /\ pc' = [pc EXCEPT ![c] = "idle"]
  BY BarrierMeansFinished DEF Return, Goto
<1>2. InProgress /\ Running(c) /\ \A d \in Callers \ {c} : ~Running(d)
  BY <1>1 DEF InProgress, Running, Locks, Owning
<1>3. ~InProgress'
  BY <1>1, <1>2 DEF InProgress, Running, TypeOK, Threads
<1>4. job \in Jobs /\ next \in Nat /\ next * job.chunk >= job.n_out
  BY <1>1, <1>2 DEF Active, TypeOK
<1>5. Todo = {}
  <2>1. next * job.chunk \in Nat /\ job.n_out \in Nat
    BY <1>4, JobFacts, ChunkOrder
  <2>. QED BY <1>4, <2>1 DEF Todo
<1>6. \A t \in Threads : pc[t] # "kernel"
  BY <1>1, <1>2 DEF Running, Finished, Busy, Control, Threads
<1>7. Doing' = Doing /\ \A t \in Threads : Doing[t] = {}
  <2>1. \A t \in Threads : pc'[t] # "kernel"
    BY <1>1, <1>6 DEF TypeOK
  <2>. QED BY <1>6, <2>1 DEF Doing
<1>8. InProgress = TRUE /\ InProgress' = FALSE /\ Todo' = {}
  BY <1>2, <1>3 DEF InProgress, Todo
<1>. QED BY <1>5, <1>7, <1>8 DEF Abstract!End

\* The publisher's stores are invisible: no job is in progress yet.
LEMMA RefinePrepare ==
    ASSUME IInv, TypeOK', NEW c \in Callers, StoreJob(c) \/ ResetNext(c) \/ ResetDone(c)
    PROVE  UNCHANGED <<InProgress, Todo, Doing>>
<1>. USE DEF IInv
<1>1. ~InProgress /\ pc[c] \in Publishing
  BY PublisherAlone DEF StoreJob, ResetNext, ResetDone, Goto, Publishing
<1>2. /\ \A d \in Callers : Running(d)' <=> Running(d)
      /\ \A t \in Threads : pc'[t] = "kernel" <=> pc[t] = "kernel"
      /\ UNCHANGED <<mine, chunk>>
  BY DEF StoreJob, ResetNext, ResetDone, Goto, Running, TypeOK, Threads
<1>3. InProgress = FALSE /\ InProgress' = FALSE
  BY <1>1, <1>2 DEF InProgress
<1>. QED BY <1>2, <1>3 DEF Todo, Doing

LEMMA RefineStep ==
    IInv /\ TypeOK' /\ [Next]_vars => [Abstract!FJNext]_<<InProgress, Todo, Doing>>
<1> SUFFICES ASSUME IInv, TypeOK', [Next]_vars
             PROVE  Abstract!FJNext \/ UNCHANGED <<InProgress, Todo, Doing>>
  OBVIOUS
<1>1. ASSUME Built PROVE Stutter
  BY <1>1, PoolAssumption, SameView DEF SameWork, Built, Width, Goto, Running, IInv, TypeOK, Threads
<1>2. ASSUME Stop PROVE Stutter
  BY <1>2, PoolAssumption, SameView DEF SameWork, Stop, Goto, Running, IInv, TypeOK, Threads
<1>3. ASSUME NotifyStop PROVE Stutter
  BY <1>3, PoolAssumption, SameView DEF SameWork, NotifyStop, Notified, Goto, Running, IInv, TypeOK, Threads
<1>4. ASSUME NEW w \in Workers, CreateWorker(w) PROVE Stutter
  BY <1>4, PoolAssumption, SameView DEF SameWork, CreateWorker, Goto, Running, IInv, TypeOK, Threads
<1>5. ASSUME NEW w \in Workers, SpuriousWake(w) PROVE Stutter
  BY <1>5, PoolAssumption, SameView DEF SameWork, SpuriousWake, Goto, Running, IInv, TypeOK, Threads
<1>6. ASSUME NEW w \in Workers, LockWorker(w) PROVE Stutter
  BY <1>6, PoolAssumption, SameView DEF SameWork, LockWorker, Goto, Running, IInv, TypeOK, Threads
<1>7. ASSUME NEW w \in Workers, Park(w) PROVE Stutter
  BY <1>7, PoolAssumption, SameView DEF SameWork, Park, Awaited, Goto, Running, IInv, TypeOK, Threads
<1>8. ASSUME NEW w \in Workers, Snapshot(w) PROVE Stutter
  <2>1. /\ pc[w] = "check" /\ pc' = [pc EXCEPT ![w] = "claim"]
        /\ UNCHANGED <<job, next, chunk>>
        /\ \A t \in Threads \ {w} : mine'[t] = mine[t]
    BY <1>8 DEF Snapshot, Awaited, Goto, IInv, TypeOK
  <2>2. w \in Threads /\ \A t \in Threads : pc'[t] = "kernel" <=> pc[t] = "kernel"
    BY <2>1 DEF IInv, TypeOK, Threads
  <2>3. \A d \in Callers : (pc'[d] \in {"claim", "kernel", "barrier"}) <=> Running(d)
    BY <2>1, PoolAssumption DEF Running, IInv, TypeOK, Threads
  <2>. QED BY <2>1, <2>2, <2>3, SameView DEF SameWork
<1>9. ASSUME NEW w \in Workers, Exit(w) PROVE Stutter
  BY <1>9, PoolAssumption, SameView DEF SameWork, Exit, Awaited, Goto, Running, IInv, TypeOK, Threads
<1>10. ASSUME NEW w \in Workers, Done(w) PROVE Stutter
  BY <1>10, PoolAssumption, SameView DEF SameWork, Done, Goto, Running, IInv, TypeOK, Threads
<1>11. ASSUME NEW c \in Callers, LockDispatch(c) PROVE Stutter
  BY <1>11, PoolAssumption, SameView DEF SameWork, LockDispatch, DispatchFree, Goto, Running, IInv, TypeOK, Threads
<1>12. ASSUME NEW c \in Callers, LockPublish(c) PROVE Stutter
  BY <1>12, PoolAssumption, SameView DEF SameWork, LockPublish, Goto, Running, IInv, TypeOK, Threads
<1>13. ASSUME NEW c \in Callers, NEW j \in Jobs, Dispatch(c, j) PROVE Stutter
  <2>1. /\ pc[c] = "idle" /\ pc' = [pc EXCEPT ![c] = "dispatch"]
        /\ UNCHANGED <<job, next, chunk>>
        /\ \A t \in Threads \ {c} : mine'[t] = mine[t]
    BY <1>13 DEF Dispatch, Goto, IInv, TypeOK
  <2>2. c \in Threads /\ \A t \in Threads : pc'[t] = "kernel" <=> pc[t] = "kernel"
    BY <2>1 DEF IInv, TypeOK, Threads
  <2>3. \A d \in Callers : (pc'[d] \in {"claim", "kernel", "barrier"}) <=> Running(d)
    BY <2>1, PoolAssumption DEF Running, IInv, TypeOK, Threads
  <2>. QED BY <2>1, <2>2, <2>3, SameView DEF SameWork
<1>14. ASSUME UNCHANGED vars PROVE Stutter
  BY <1>14, SameView DEF SameWork, vars, Running
<1>15. ASSUME NEW c \in Callers, StoreJob(c) \/ ResetNext(c) \/ ResetDone(c) PROVE Stutter
  BY <1>15, RefinePrepare DEF Stutter
<1>16. ASSUME NEW c \in Callers, Publish(c) \/ Return(c) PROVE Abstract!FJNext
  BY <1>16, RefinePublish, RefineReturn DEF Abstract!FJNext
<1>17. ASSUME NEW t \in Threads, Claim(t) \/ Kernel(t) PROVE Abstract!FJNext \/ Stutter
  BY <1>17, RefineClaim, RefineKernel DEF Abstract!FJNext, Stutter
<1>. QED
  BY <1>1, <1>2, <1>3, <1>4, <1>5, <1>6, <1>7, <1>8, <1>9, <1>10,
     <1>11, <1>12, <1>13, <1>14, <1>15, <1>16, <1>17
     DEF Next, CallerStep, WorkerStep, Terminated, Stutter

\* The pool implements the abstract fork/join: each row of a dispatch is given
\* to one thread once, and dispatch returns when all of them are computed.
THEOREM PoolImplementsForkJoin == Spec => ImplementsForkJoin
<1>1. IInv => TypeOK
  BY DEF IInv
<1>. QED
  BY <1>1, Invariant, RefineInit, RefineStep, PTL
  DEF Spec, ImplementsForkJoin, Abstract!FJSpec, Abstract!fjVars
===============================================================================
