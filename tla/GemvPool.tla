------------------------------- MODULE GemvPool -------------------------------
(***************************************************************************)
(* tensormark/gemv_pool.h: the thread pool every quantised matrix-vector   *)
(* product of the Llama runtime is dispatched to.  Callers serialise whole *)
(* dispatches on dispatch_mu, publish a job under mu with a new generation *)
(* number, and claim chunks of rows together with the workers from the     *)
(* atomic counter `next`; the caller returns once every worker has         *)
(* incremented `done`.                                                     *)
(*                                                                         *)
(* One variable per field of GemvPool; pc, mine and chunk are the threads' *)
(* control points and locals.  The bounded spin before a worker takes mu   *)
(* reads gen and changes nothing, so a worker is simply at "lock" for as   *)
(* long as it likes.  `ran` is a history variable: the chunks of the       *)
(* current generation whose kernel call has returned.                      *)
(***************************************************************************)
EXTENDS Integers, FiniteSets

CONSTANTS Callers,   (* threads that call dispatch                          *)
          Workers,   (* the target-1 pthreads the constructor asks for      *)
          Jobs,      (* the jobs dispatched: [n_out, chunk]                 *)
          MaxGen,    (* bound: no dispatch begins after this many have      *)
          None       (* no thread holds the mutex                           *)

ASSUME PoolAssumption ==
    /\ Callers \cap Workers = {}
    /\ None \notin Callers \cup Workers
    /\ IsFiniteSet(Workers)
    /\ Jobs \subseteq [n_out : Nat, chunk : Nat \ {0}]
    /\ Jobs # {}
    /\ MaxGen \in Nat

VARIABLES job, next, done, gen, mu, dispatch_mu, stopping, nthreads,
          ts,        (* the workers pthread_create delivered                *)
          life,      (* "ctor", "live", then the destructor: "notify", "join" *)
          pc, mine, chunk, seen, ran

vars == <<job, next, done, gen, mu, dispatch_mu, stopping, nthreads, ts, life,
          pc, mine, chunk, seen, ran>>

Threads == Callers \cup Workers

Rows_Unclamped(k, j) == {r \in 0 .. j.n_out + j.chunk : k * j.chunk <= r /\ r < k * j.chunk + j.chunk}
\* The rows of claim k of job j: [k*chunk, min(k*chunk + chunk, n_out)).
Rows(k, j) == {r \in 0 .. j.n_out - 1 : k * j.chunk <= r /\ r < k * j.chunk + j.chunk}

\* The claims of job j that have rows: the others end the thread's run_slices.
Chunks(j) == {k \in 0 .. j.n_out : k * j.chunk < j.n_out}

\* GemvJob{}: no one reads it before gen moves.
NoJob == CHOOSE j \in Jobs : TRUE

Init == /\ job = NoJob
        /\ next = 0 /\ done = 0 /\ gen = 0
        /\ mu = None /\ dispatch_mu = None
        /\ stopping = FALSE
        /\ nthreads = 1 /\ ts = {} /\ life = "ctor"
        /\ pc = [t \in Threads |-> IF t \in Callers THEN "idle" ELSE "unborn"]
        /\ mine = [t \in Threads |-> job]
        /\ chunk = [t \in Threads |-> 0]
        /\ seen = [w \in Workers |-> 0]
        /\ ran = {}

Goto(t, from, to) == pc[t] = from /\ pc' = [pc EXCEPT ![t] = to]

-------------------------------------------------------------------------------
(* The constructor: workers start running as soon as they are created.     *)

CreateWorker(w) ==
    /\ life = "ctor"
    /\ Goto(w, "unborn", "lock")
    /\ ts' = ts \cup {w}
    /\ UNCHANGED <<job, next, done, gen, mu, dispatch_mu, stopping, nthreads, life,
                   mine, chunk, seen, ran>>

Width_WorkersOnly == Cardinality(ts)
\* The barrier's width counts the calling thread too.
Width == Cardinality(ts) + 1

\* Every worker was created, or pthread_create failed and the loop broke off.
Built == /\ life = "ctor"
         /\ life' = "live"
         /\ nthreads' = Width
         /\ UNCHANGED <<job, next, done, gen, mu, dispatch_mu, stopping, ts,
                        pc, mine, chunk, seen, ran>>

-------------------------------------------------------------------------------
(* dispatch *)

Dispatch(c, j) ==
    /\ life = "live"
    /\ gen < MaxGen
    /\ Goto(c, "idle", "dispatch")
    /\ mine' = [mine EXCEPT ![c] = j]
    /\ UNCHANGED <<job, next, done, gen, mu, dispatch_mu, stopping, nthreads, ts, life,
                   chunk, seen, ran>>

DispatchFree_Unguarded == TRUE
DispatchFree == dispatch_mu = None

LockDispatch(c) ==
    /\ DispatchFree
    /\ Goto(c, "dispatch", "publish")
    /\ dispatch_mu' = c
    /\ UNCHANGED <<job, next, done, gen, mu, stopping, nthreads, ts, life,
                   mine, chunk, seen, ran>>

LockPublish(c) ==
    /\ mu = None
    /\ Goto(c, "publish", "job")
    /\ mu' = c
    /\ UNCHANGED <<job, next, done, gen, dispatch_mu, stopping, nthreads, ts, life,
                   mine, chunk, seen, ran>>

StoreJob(c) ==
    /\ Goto(c, "job", "next")
    /\ job' = mine[c]
    /\ UNCHANGED <<next, done, gen, mu, dispatch_mu, stopping, nthreads, ts, life,
                   mine, chunk, seen, ran>>

ResetNext(c) ==
    /\ Goto(c, "next", "reset")
    /\ next' = 0
    /\ ran' = {}
    /\ UNCHANGED <<job, done, gen, mu, dispatch_mu, stopping, nthreads, ts, life,
                   mine, chunk, seen>>

FreshDone_Stale == done
FreshDone == 0

ResetDone(c) ==
    /\ Goto(c, "reset", "gen")
    /\ done' = FreshDone
    /\ UNCHANGED <<job, next, gen, mu, dispatch_mu, stopping, nthreads, ts, life,
                   mine, chunk, seen, ran>>

Notified_Nobody == pc
\* notify_all: every worker waiting on start_cv goes back to taking mu.
Notified == [t \in Threads |-> IF pc[t] = "parked" THEN "lock" ELSE pc[t]]

\* gen.fetch_add, notify_all, and the end of mu's scope.
Publish(c) ==
    /\ pc[c] = "gen"
    /\ pc' = [Notified EXCEPT ![c] = "claim"]
    /\ gen' = gen + 1
    /\ mu' = None
    /\ UNCHANGED <<job, next, done, dispatch_mu, stopping, nthreads, ts, life,
                   mine, chunk, seen, ran>>

BarrierOpen_OneShort == done >= nthreads - 2
BarrierOpen == done >= nthreads - 1

\* `while (done < nthreads - 1) yield`, then the end of dispatch_mu's scope.
Return(c) ==
    /\ BarrierOpen
    /\ Goto(c, "barrier", "idle")
    /\ dispatch_mu' = None
    /\ UNCHANGED <<job, next, done, gen, mu, stopping, nthreads, ts, life,
                   mine, chunk, seen, ran>>

-------------------------------------------------------------------------------
(* run_slices, by the caller and by every worker *)

AfterSlices(t) == IF t \in Callers THEN "barrier" ELSE "done"

Claim(t) ==
    /\ pc[t] = "claim"
    /\ next' = next + 1
    /\ chunk' = [chunk EXCEPT ![t] = next]
    /\ pc' = [pc EXCEPT ![t] =
                 IF next * mine[t].chunk >= mine[t].n_out THEN AfterSlices(t) ELSE "kernel"]
    /\ UNCHANGED <<job, done, gen, mu, dispatch_mu, stopping, nthreads, ts, life,
                   mine, seen, ran>>

Kernel(t) ==
    /\ Goto(t, "kernel", "claim")
    /\ ran' = ran \cup {chunk[t]}
    /\ UNCHANGED <<job, next, done, gen, mu, dispatch_mu, stopping, nthreads, ts, life,
                   mine, chunk, seen>>

-------------------------------------------------------------------------------
(* worker *)

Awaited_NewJobOnly(w) == gen # seen[w]
\* The predicate start_cv waits for.
Awaited(w) == stopping \/ gen # seen[w]

LockWorker(w) ==
    /\ mu = None
    /\ Goto(w, "lock", "check")
    /\ mu' = w
    /\ UNCHANGED <<job, next, done, gen, dispatch_mu, stopping, nthreads, ts, life,
                   mine, chunk, seen, ran>>

\* The wait's predicate is false: release mu and sleep on start_cv.
Park(w) ==
    /\ ~Awaited(w)
    /\ Goto(w, "check", "parked")
    /\ mu' = None
    /\ UNCHANGED <<job, next, done, gen, dispatch_mu, stopping, nthreads, ts, life,
                   mine, chunk, seen, ran>>

SpuriousWake(w) ==
    /\ Goto(w, "parked", "lock")
    /\ UNCHANGED <<job, next, done, gen, mu, dispatch_mu, stopping, nthreads, ts, life,
                   mine, chunk, seen, ran>>

Snapshot(w) ==
    /\ Awaited(w) /\ ~stopping
    /\ Goto(w, "check", "claim")
    /\ seen' = [seen EXCEPT ![w] = gen]
    /\ mine' = [mine EXCEPT ![w] = job]
    /\ mu' = None
    /\ UNCHANGED <<job, next, done, gen, dispatch_mu, stopping, nthreads, ts, life,
                   chunk, ran>>

Exit(w) ==
    /\ Awaited(w) /\ stopping
    /\ Goto(w, "check", "exit")
    /\ mu' = None
    /\ UNCHANGED <<job, next, done, gen, dispatch_mu, stopping, nthreads, ts, life,
                   mine, chunk, seen, ran>>

Done(w) ==
    /\ Goto(w, "done", "lock")
    /\ done' = done + 1
    /\ UNCHANGED <<job, next, gen, mu, dispatch_mu, stopping, nthreads, ts, life,
                   mine, chunk, seen, ran>>

-------------------------------------------------------------------------------
(* The destructor, once every caller has finished: stopping is set under   *)
(* mu; notify_all comes after mu is released.  join has no effect of its   *)
(* own: Joined is the state it waits for.                                  *)

Stop == /\ life = "live"
        /\ \A c \in Callers : pc[c] = "idle"
        /\ mu = None
        /\ stopping' = TRUE
        /\ life' = "notify"
        /\ UNCHANGED <<job, next, done, gen, mu, dispatch_mu, nthreads, ts,
                       pc, mine, chunk, seen, ran>>

NotifyStop == /\ life = "notify"
              /\ pc' = Notified
              /\ life' = "join"
              /\ UNCHANGED <<job, next, done, gen, mu, dispatch_mu, stopping, nthreads,
                             ts, mine, chunk, seen, ran>>

Joined == life = "join" /\ \A w \in ts : pc[w] = "exit"

Terminated == Joined /\ UNCHANGED vars

-------------------------------------------------------------------------------
CallerStep(c) == \/ LockDispatch(c) \/ LockPublish(c) \/ StoreJob(c) \/ ResetNext(c)
                 \/ ResetDone(c) \/ Publish(c) \/ Return(c)

WorkerStep(w) == LockWorker(w) \/ Park(w) \/ Snapshot(w) \/ Exit(w) \/ Done(w)

Next == \/ Built \/ Stop \/ NotifyStop \/ Terminated
        \/ \E w \in Workers : CreateWorker(w) \/ SpuriousWake(w) \/ WorkerStep(w)
        \/ \E c \in Callers : CallerStep(c) \/ \E j \in Jobs : Dispatch(c, j)
        \/ \E t \in Threads : Claim(t) \/ Kernel(t)

Spec == Init /\ [][Next]_vars

\* Every started thread keeps running and a mutex is eventually granted to
\* whoever keeps asking for it.  Nobody owes a dispatch, a thread creation,
\* a spurious wake-up or the destruction of the pool.
Fairness ==
    /\ WF_vars(Built) /\ WF_vars(NotifyStop)
    /\ \A c \in Callers : SF_vars(CallerStep(c) \/ Claim(c) \/ Kernel(c))
    /\ \A w \in Workers : SF_vars(WorkerStep(w) \/ Claim(w) \/ Kernel(w))

FairSpec == Spec /\ Fairness

-------------------------------------------------------------------------------
TypeOK ==
    /\ job \in Jobs
    /\ next \in Nat /\ done \in Nat /\ gen \in Nat
    /\ mu \in Threads \cup {None}
    /\ dispatch_mu \in Callers \cup {None}
    /\ stopping \in BOOLEAN
    /\ nthreads \in Nat \ {0}
    /\ ts \in SUBSET Workers
    /\ life \in {"ctor", "live", "notify", "join"}
    /\ pc \in [Threads -> {"idle", "dispatch", "publish", "job", "next", "reset", "gen",
                           "claim", "kernel", "barrier",
                           "unborn", "lock", "check", "parked", "done", "exit"}]
    /\ mine \in [Threads -> Jobs]
    /\ chunk \in [Threads -> Nat]
    /\ seen \in [Workers -> Nat]
    /\ ran \in SUBSET Nat

\* The dispatch in progress: its generation is published, it has not returned.
Running(c) == pc[c] \in {"claim", "kernel", "barrier"}

\* No chunk of a generation is computed twice: a claimed chunk has not been
\* run, and two threads never hold the same one (run_slices, next.fetch_add).
ExactlyOnce ==
    \A t \in Threads : pc[t] = "kernel" =>
        /\ chunk[t] \in Chunks(mine[t]) \ ran
        /\ \A u \in Threads \ {t} : pc[u] = "kernel" => chunk[u] # chunk[t]

\* When the barrier lets a caller out of dispatch, every chunk of its job has
\* been run and no thread is still inside a kernel (dispatch, the done loop).
CompleteAtReturn ==
    \A c \in Callers : pc[c] = "barrier" /\ BarrierOpen =>
        /\ ran = Chunks(mine[c])
        /\ \A t \in Threads : pc[t] # "kernel"

\* A worker computes only for a caller that is inside dispatch with that very
\* job: the caller-owned input and output spans outlive every kernel call, and
\* no worker brings a job of an earlier generation to the counter of a later.
KernelsOwnTheirBuffers ==
    \A w \in Workers : pc[w] \in {"claim", "kernel"} =>
        \E c \in Callers : Running(c) /\ mine[c] = mine[w] /\ seen[w] = gen

-------------------------------------------------------------------------------
(* The inductive invariant behind the three properties above, by parts.    *)

Publishing == {"job", "next", "reset", "gen"}
Owning == Publishing \cup {"publish", "claim", "kernel", "barrier"}
Busy(w) == pc[w] \in {"claim", "kernel", "done"}
InProgress == \E c \in Callers : Running(c)

\* The workers that have taken the current generation and come back from it.
Finished == {w \in ts : seen[w] = gen /\ ~Busy(w)}

Control ==
    /\ \A c \in Callers : pc[c] \in {"idle", "dispatch"} \cup Owning
    /\ \A w \in Workers :
          /\ pc[w] \in {"unborn", "lock", "check", "parked", "claim", "kernel", "done", "exit"}
          /\ w \in ts <=> pc[w] # "unborn"
          /\ seen[w] <= gen
    /\ stopping <=> life \in {"notify", "join"}
    /\ life # "live" => \A c \in Callers : pc[c] = "idle"
    /\ life = "ctor" => gen = 0
    /\ life # "ctor" => nthreads = Cardinality(ts) + 1

Locks ==
    /\ \A c \in Callers : pc[c] \in Owning <=> dispatch_mu = c
    /\ \A t \in Threads : pc[t] \in Publishing \cup {"check"} <=> mu = t

\* Between dispatches every worker has been through the last generation.
Quiet == ~InProgress => \A w \in ts : seen[w] = gen /\ ~Busy(w)

\* What the publisher has prepared by the time it moves gen.
Prepared ==
    \A c \in Callers :
        /\ pc[c] \in {"next", "reset", "gen"} => job = mine[c]
        /\ pc[c] \in {"reset", "gen"} => next = 0 /\ ran = {}
        /\ pc[c] = "gen" => done = 0

\* During a dispatch: who works on what, and what `done` counts.
Active ==
    \A c \in Callers : Running(c) =>
        /\ job = mine[c]
        /\ \A w \in Workers : Busy(w) => seen[w] = gen /\ mine[w] = job
        /\ done = Cardinality(Finished)
        /\ pc[c] = "barrier" => next * job.chunk >= job.n_out

\* The claims below `next` are run or being run, by one thread each.
Claims ==
    InProgress =>
        /\ ran \subseteq Chunks(job)
        /\ \A k \in ran : k < next
        /\ \A t \in Threads : pc[t] = "kernel" =>
              /\ chunk[t] \in Chunks(job) \ ran
              /\ chunk[t] < next
              /\ \A u \in Threads \ {t} : pc[u] = "kernel" => chunk[u] # chunk[t]
        /\ \A k \in Chunks(job) : k < next =>
              k \in ran \/ \E t \in Threads : pc[t] = "kernel" /\ chunk[t] = k

IInv == TypeOK /\ Control /\ Locks /\ Quiet /\ Prepared /\ Active /\ Claims

-------------------------------------------------------------------------------
\* A dispatch that has begun returns (spin, cv, generation and barrier
\* protocol together: no wake-up is lost and no worker is counted short).
DispatchReturns == \A c \in Callers : pc[c] = "dispatch" ~> pc[c] = "idle"

\* Destruction joins every worker, parked ones included (~GemvPool).
StopJoins == stopping ~> Joined

\* The refinement: a job is in progress from the publication of its generation
\* to the return of its caller.
Todo == IF InProgress THEN {r \in 0 .. job.n_out - 1 : next * job.chunk <= r} ELSE {}
Doing == [t \in Threads |-> IF pc[t] = "kernel" THEN Rows(chunk[t], mine[t]) ELSE {}]

Abstract == INSTANCE ForkJoin
                WITH Sizes <- {j.n_out : j \in Jobs},
                     busy <- InProgress, todo <- Todo, doing <- Doing

\* The pool implements the abstract fork/join: each row is handed to exactly
\* one thread, and a dispatch ends only when all its rows are finished.
ImplementsForkJoin == Abstract!FJSpec
===============================================================================
