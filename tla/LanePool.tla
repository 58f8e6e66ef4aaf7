------------------------------- MODULE LanePool -------------------------------
(***************************************************************************)
(* examples/from_ollama.py: the lanes of the Ollama-compatible server.     *)
(* A lane is one engine process with its own lock.  Handler threads admit  *)
(* a request to a lane, wait for its lock, load the engine if it is gone,  *)
(* serve, release the lane, and only then settle the books and re-arm the  *)
(* idle deadline.  The reaper thread collects the lanes whose deadline has *)
(* passed and then drops them one after the other; the controller thread   *)
(* parks and re-probes the extra lanes.                                    *)
(*                                                                         *)
(* A critical section of the state lock waits for nothing, so each is one  *)
(* action; the lane locks are explicit because they are held across the    *)
(* engine.  A deadline is the time left to it and parked_at the time       *)
(* since, which keeps the clock out of the state.  Rates are an            *)
(* environment: after a measured request lane l has any rate of Rates[l].  *)
(* A resident engine may be dead: a request may fail on it at any time.    *)
(***************************************************************************)
EXTENDS Integers, Sequences, FiniteSets, SequencesExt

CONSTANTS
    NLanes,        (* lanes are 1 .. NLanes; lane 1 is never an extra       *)
    Handlers,      (* handler threads; each serves request after request    *)
    Keeps,         (* keep_alive of a request: "default", "zero", "forever" *)
    TTL,           (* idle_ttl in ticks                                     *)
    Reprobe,       (* LANE_REPROBE_S in ticks                               *)
    Rates,         (* Rates[l]: tokens per unit of time lane l may measure  *)
    SeedRate,      (* SeedRate[l]: the rate a lane starts with              *)
    KeepNum, KeepDen,  (* LANE_KEEP_FRACTION = KeepNum / KeepDen            *)
    Evidence,      (* requests judge waits for (4 in the code)              *)
    Budgets,       (* est_tokens of a request                               *)
    Reaper, Nobody (* the reaper thread; no holder                          *)

ASSUME LanesAssumption ==
    /\ NLanes \in Nat \ {0}
    /\ Keeps \subseteq {"default", "zero", "forever"}
    /\ TTL \in Nat \ {0} /\ Reprobe \in Nat \ {0}
    /\ Rates \in [1 .. NLanes -> SUBSET (Nat \ {0})]
    /\ \A l \in 1 .. NLanes : SeedRate[l] \in Rates[l]
    /\ KeepNum \in Nat /\ KeepDen \in Nat \ {0}
    /\ Evidence \in Nat /\ Budgets \subseteq Nat
    /\ IsFiniteSet(Handlers)
    /\ Reaper \notin Handlers /\ Nobody \notin Handlers /\ Reaper # Nobody

ASSUME SeedAssumption == SeedRate \in [1 .. NLanes -> Nat \ {0}]

VARIABLES
    session,    (* session[l]: lane l has an engine                         *)
    lock,       (* lock[l]: who holds the lane's lock                       *)
    left,       (* left[l]: ticks to the deadline                           *)
    inflight, parked, parkedFor, rate, served, best_solo,
    pc, lane, keep,               (* the handler threads                    *)
    due,                          (* the reaper's list                      *)
    expiring    (* history: the lane was last armed by the default policy   *)

handlerVars == <<pc, lane, keep>>
controlVars == <<parked, parkedFor, rate, served, best_solo>>
vars == <<session, lock, left, inflight, controlVars, handlerVars, due, expiring>>

Lanes == 1 .. NLanes
Extras == 2 .. NLanes
Never == -1     \* float("inf")

\* Lane.arm: the policy's ttl, and zero like infinity is "no deadline".
Armed(k) == IF k = "default" THEN TTL ELSE Never

Arm(l, k) == /\ left' = [left EXCEPT ![l] = Armed(k)]
             /\ expiring' = [expiring EXCEPT ![l] = k = "default"]

\* main loads every lane before it announces the port.
Init ==
    /\ session = [l \in Lanes |-> TRUE]
    /\ lock = [l \in Lanes |-> Nobody]
    /\ left = [l \in Lanes |-> TTL] /\ expiring = [l \in Lanes |-> TRUE]
    /\ inflight = [l \in Lanes |-> 0]
    /\ parked = [l \in Lanes |-> FALSE] /\ parkedFor = [l \in Lanes |-> 0]
    /\ rate = SeedRate /\ served = [l \in Lanes |-> 0]
    /\ best_solo = Max({SeedRate[l] : l \in Lanes})
    /\ pc = [h \in Handlers |-> "idle"]
    /\ lane = [h \in Handlers |-> 1] /\ keep = [h \in Handlers |-> "default"]
    /\ due = <<>>

Goto(h, from, to) == pc[h] = from /\ pc' = [pc EXCEPT ![h] = to]

\* The request is over: its thread's locals die with it.
Leave(h, from) == /\ Goto(h, from, "idle")
                  /\ lane' = [lane EXCEPT ![h] = 1]
                  /\ keep' = [keep EXCEPT ![h] = "default"]

-------------------------------------------------------------------------------
(* run_on_lane *)

\* The lanes admit chooses from.
Candidates == LET live == {l \in Lanes : ~parked[l]} IN IF live = {} THEN Lanes ELSE live

\* a is predicted to finish a request of est tokens no later than b.
NoLater(a, b, est) == (inflight[a] + 1) * est * rate[b] <= (inflight[b] + 1) * est * rate[a]

\* min() keeps the first of equals.
Fastest(est) == Min({l \in Candidates : \A m \in Candidates : NoLater(l, m, est)})

Admit(h, k, est) ==
    /\ Goto(h, "idle", "queued")
    /\ lane' = [lane EXCEPT ![h] = Fastest(est)]
    /\ keep' = [keep EXCEPT ![h] = k]
    /\ inflight' = [inflight EXCEPT ![Fastest(est)] = @ + 1]
    /\ UNCHANGED <<session, lock, left, controlVars, due, expiring>>

Held(l, who) == [lock EXCEPT ![l] = who]
Freed_Leaky(l) == lock
Freed(l) == [lock EXCEPT ![l] = Nobody]

\* The deadline ensure leaves on a lane it has just loaded.
LoadDeadline_Unset == Never
LoadDeadline == Armed("default")

\* The lane's lock, then Lane.ensure: the resident engine, or a new one.
Acquire(h) ==
    /\ lock[lane[h]] = Nobody
    /\ Goto(h, "queued", IF session[lane[h]] THEN "serve" ELSE "start")
    /\ lock' = Held(lane[h], h)
    /\ UNCHANGED <<session, left, inflight, controlVars, lane, keep, due, expiring>>

Started(h) ==
    /\ Goto(h, "start", "arm")
    /\ session' = [session EXCEPT ![lane[h]] = TRUE]
    /\ UNCHANGED <<lock, left, inflight, controlVars, lane, keep, due, expiring>>

ArmLoaded(h) ==
    /\ Goto(h, "arm", "serve")
    /\ left' = [left EXCEPT ![lane[h]] = LoadDeadline]
    /\ expiring' = [expiring EXCEPT ![lane[h]] = TRUE]
    /\ UNCHANGED <<session, lock, inflight, controlVars, lane, keep, due>>

\* The engine does not start: the exception passes through run_on_lane.
StartFails(h) ==
    /\ Goto(h, "start", "failed")
    /\ lock' = Freed(lane[h])
    /\ UNCHANGED <<session, left, inflight, controlVars, lane, keep, due, expiring>>

\* The handler's body replies or answers an error, or else raises (the client
\* went away); either way the lane is released first.
Serve(h) ==
    /\ \/ Goto(h, "serve", "settle")
       \/ Goto(h, "serve", "failed")
    /\ lock' = Freed(lane[h])
    /\ UNCHANGED <<session, left, inflight, controlVars, lane, keep, due, expiring>>

Settled_Leaky(n) == n
Settled_Twice(n) == n - 2
Settled(n) == IF n > 0 THEN n - 1 ELSE 0

\* settle, observe and arm_idle, in one critical section of the state lock.  A
\* request without a reply gives no sample, and nor does an embedding.  served
\* saturates at Evidence, beyond which it makes no difference.
SettleBooks(h, measured) ==
    LET l == lane[h] IN
    /\ inflight' = [inflight EXCEPT ![l] = Settled(@)]
    /\ served' = [served EXCEPT ![l] = Min({@ + 1, Evidence})]
    /\ \E r \in measured \cup {rate[l]} : rate' = [rate EXCEPT ![l] = r]
    /\ best_solo' = IF NLanes = 1 /\ inflight'[l] = 0 THEN Max({best_solo, rate'[l]})
                                                      ELSE best_solo
    /\ Arm(l, keep[h])
    /\ UNCHANGED <<session, lock, parked, parkedFor, due>>

\* An explicit keep_alive 0 is acted on after the books are closed.
Settle(h) ==
    /\ SettleBooks(h, Rates[lane[h]])
    /\ \/ keep[h] = "zero" /\ Goto(h, "settle", "drop") /\ UNCHANGED <<lane, keep>>
       \/ keep[h] # "zero" /\ Leave(h, "settle")

\* The finally clause alone: the exception ends the request here.
SettleFailed(h) == SettleBooks(h, {}) /\ Leave(h, "failed")

-------------------------------------------------------------------------------
(* Lane.drop: under the lane's lock, swap the session out, close it, and   *)
(* then clear the deadline.                                                *)

DropFree_Unlocked(l) == TRUE
DropFree(l) == lock[l] = Nobody

BeginDrop(l, who) ==
    /\ DropFree(l) /\ session[l]
    /\ session' = [session EXCEPT ![l] = FALSE]
    /\ lock' = Held(l, who)
    /\ UNCHANGED <<left, inflight, controlVars, expiring>>

NothingToDrop(l) ==
    /\ DropFree(l) /\ ~session[l]
    /\ UNCHANGED <<session, lock, left, inflight, controlVars, expiring>>

EndDrop(l) ==
    /\ lock' = Freed(l)
    /\ left' = [left EXCEPT ![l] = Never]
    /\ UNCHANGED <<session, inflight, controlVars, expiring>>

\* keep_alive 0, after the reply.
DropAfterReply(h) ==
    /\ \/ Goto(h, "drop", "closing") /\ BeginDrop(lane[h], h) /\ UNCHANGED <<lane, keep>>
       \/ Leave(h, "drop") /\ NothingToDrop(lane[h])
    /\ UNCHANGED due

Closed(h) == Leave(h, "closing") /\ EndDrop(lane[h]) /\ UNCHANGED due

-------------------------------------------------------------------------------
(* idle_reaper *)

IsDue_Unparked(l) == session[l] /\ left[l] = 0 /\ ~parked[l]
IsDue(l) == session[l] /\ left[l] = 0

Reaping == due # <<>> /\ lock[Head(due)] = Reaper

Collect ==
    /\ due = <<>>
    /\ \E l \in Lanes : IsDue(l)
    /\ due' = FlattenSeq([l \in Lanes |-> IF IsDue(l) THEN <<l>> ELSE <<>>])
    /\ UNCHANGED <<session, lock, left, inflight, controlVars, handlerVars, expiring>>

ReaperDrop ==
    /\ due # <<>> /\ ~Reaping
    /\ \/ BeginDrop(Head(due), Reaper) /\ UNCHANGED due
       \/ NothingToDrop(Head(due)) /\ due' = Tail(due)
    /\ UNCHANGED handlerVars

ReaperClosed ==
    /\ Reaping
    /\ EndDrop(Head(due))
    /\ due' = Tail(due)
    /\ UNCHANGED handlerVars

-------------------------------------------------------------------------------
(* lane_controller: LanePool.judge *)

Reprobed == {e \in Extras : parked[e] /\ parkedFor[e] >= Reprobe}

\* The books once the re-probe is decided.
ServedNow == [l \in Lanes |-> IF l \in Reprobed THEN 0 ELSE served[l]]
StillParked == {e \in Extras : parked[e]} \ Reprobed

Earning == FoldFunction(+, 0, rate) * KeepDen >= KeepNum * best_solo

Retreating == /\ StillParked = {}
              /\ FoldFunction(+, 0, ServedNow) >= Evidence
              /\ ~Earning

RetreatSet_All == Lanes
RetreatSet == Extras

Judge ==
    /\ NLanes > 1
    /\ served' = ServedNow
    /\ parked' = [l \in Lanes |-> l \in IF Retreating THEN RetreatSet ELSE StillParked]
    /\ parkedFor' = [l \in Lanes |-> IF Retreating \/ l \in Reprobed THEN 0 ELSE parkedFor[l]]
    /\ <<served', parked', parkedFor'>> # <<served, parked, parkedFor>>
    /\ UNCHANGED <<session, lock, left, inflight, rate, best_solo, handlerVars, due, expiring>>

-------------------------------------------------------------------------------
(* time.monotonic() *)

Down(n) == IF n > 0 THEN n - 1 ELSE n

Tick ==
    /\ left' = [l \in Lanes |-> Down(left[l])]
    /\ parkedFor' = [l \in Lanes |-> IF parked[l] THEN Min({parkedFor[l] + 1, Reprobe}) ELSE 0]
    /\ <<left', parkedFor'>> # <<left, parkedFor>>
    /\ UNCHANGED <<session, lock, inflight, parked, rate, served, best_solo, handlerVars, due,
                   expiring>>

-------------------------------------------------------------------------------
HandlerStep(h) == \/ Acquire(h) \/ Started(h) \/ ArmLoaded(h) \/ StartFails(h) \/ Serve(h)
                  \/ Settle(h) \/ SettleFailed(h) \/ DropAfterReply(h) \/ Closed(h)

ReaperStep == Collect \/ ReaperDrop \/ ReaperClosed

Next == \/ Tick \/ Judge \/ ReaperStep
        \/ \E h \in Handlers : \/ HandlerStep(h)
                               \/ \E k \in Keeps, est \in Budgets : Admit(h, k, est)

Spec == Init /\ [][Next]_vars

\* Time passes, every read of the engine times out in the end, and a lock is
\* eventually granted to a thread that waits for it.  No client owes a request.
Fairness == /\ WF_vars(Tick)
            /\ SF_vars(ReaperStep)
            /\ \A h \in Handlers : SF_vars(HandlerStep(h))

FairSpec == Spec /\ Fairness

-------------------------------------------------------------------------------
\* The types; a rate is never zero, so that predictions can be compared.
TypeOK ==
    /\ session \in [Lanes -> BOOLEAN]
    /\ lock \in [Lanes -> Handlers \cup {Reaper, Nobody}]
    /\ left \in [Lanes -> 0 .. TTL \cup {Never}]
    /\ inflight \in [Lanes -> Nat]
    /\ parked \in [Lanes -> BOOLEAN] /\ parkedFor \in [Lanes -> 0 .. Reprobe]
    /\ rate \in [Lanes -> Nat \ {0}] /\ served \in [Lanes -> 0 .. Evidence]
    /\ best_solo \in Nat \ {0}
    /\ pc \in [Handlers -> {"idle", "queued", "start", "arm", "serve", "settle", "failed",
                           "drop", "closing"}]
    /\ lane \in [Handlers -> Lanes] /\ keep \in [Handlers -> Keeps \cup {"default"}]
    /\ due \in Seq(Lanes)
    /\ expiring \in [Lanes -> BOOLEAN]

Serving(h, l) == lane[h] = l /\ pc[h] = "serve"
Unsettled == {"queued", "start", "arm", "serve", "settle", "failed"}
Requests(l) == {h \in Handlers : lane[h] = l /\ pc[h] \in Unsettled}

\* An engine serves one request at a time and is never taken away from the
\* request that uses it, whoever unloads lanes (run_on_lane, Lane.drop).
EngineHeld ==
    \A h \in Handlers, l \in Lanes : Serving(h, l) => lock[l] = h /\ session[l]

\* The queue length admit plans with is the number of unsettled requests of
\* the lane, however they ended (LanePool.admit, settle in a finally).
InflightCounts ==
    \A l \in Lanes : inflight[l] = Cardinality(Requests(l))

\* A resident engine nobody uses, last armed by the default policy, is on its
\* way to being unloaded: no order of settle, drop and load loses the deadline.
ResidentHasDeadline ==
    \A l \in Lanes : session[l] /\ lock[l] = Nobody /\ expiring[l] => left[l] # Never

\* The inductive invariant behind these three, by parts.
Types ==
    /\ session \in [Lanes -> BOOLEAN]
    /\ lock \in [Lanes -> Handlers \cup {Reaper, Nobody}]
    /\ left \in [Lanes -> 0 .. TTL \cup {Never}] /\ expiring \in [Lanes -> BOOLEAN]
    /\ inflight \in [Lanes -> Nat]
    /\ DOMAIN pc = Handlers /\ DOMAIN lane = Handlers

Holding == {"start", "arm", "serve", "closing"}

\* A lane's lock is a handler's exactly while that handler starts, uses or
\* closes its engine.
Owners == \A h \in Handlers, l \in Lanes : lock[l] = h <=> lane[h] = l /\ pc[h] \in Holding

\* Where the engine is there, and where it has been taken out.
Engines ==
    /\ \A h \in Handlers, l \in Lanes : lane[h] = l =>
          /\ pc[h] \in {"arm", "serve"} => session[l]
          /\ pc[h] = "closing" => ~session[l]
    /\ \A l \in Lanes : lock[l] = Reaper => ~session[l]

\* An engine without the deadline it should have is being loaded.
Deadlines ==
    \A l \in Lanes : session[l] /\ expiring[l] /\ left[l] = Never =>
        \E h \in Handlers : lane[h] = l /\ pc[h] = "arm"

IInv == Types /\ Owners /\ Engines /\ Deadlines /\ InflightCounts

\* A parked lane is given no new request (judge never parks the lane that
\* admit falls back on).
ParkedGetsNoRequest ==
    [][\A h \in Handlers : pc[h] = "idle" /\ pc'[h] = "queued" => ~parked[lane'[h]]]_vars

\* Every admitted request is settled, whatever the reaper and the other
\* requests of its lane do and even if its engine fails.
RequestsSettle == \A h \in Handlers : pc[h] = "queued" ~> pc[h] = "idle"

\* An engine whose deadline runs is unloaded, unless a request comes for it.
IdleUnloaded ==
    \A l \in Lanes : session[l] /\ left[l] # Never
                        ~> ~session[l] \/ inflight[l] > 0 \/ left[l] = Never

-------------------------------------------------------------------------------
(* What the comments say and the code does not do.                         *)

\* "Unload each lane once nothing has used it for `idle_ttl` seconds": the
\* reaper takes no engine that was used since its deadline was last reckoned.
ReapsOnlyIdle ==
    [][\A l \in Lanes : lock'[l] = Reaper /\ lock[l] # Reaper =>
          left[l] = 0 /\ ~\E h \in Handlers : lane[h] = l /\ pc[h] \in {"settle", "failed"}]_vars

\* "The re-probe is to UN-park it and let it serve again - fresh samples, then
\* the next judgement decides": a judgement does not park the lane it re-probes.
ReprobeServes == [][Judge => \A l \in Reprobed : ~parked'[l]]_vars
===============================================================================
