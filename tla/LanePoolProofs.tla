----------------------------- MODULE LanePoolProofs -----------------------------
(* Theorems about LanePool, for any lanes, handlers, rates and policies. *)
EXTENDS LanePool, InductionLemmas

(* Lemmas about the settlement of a request. *)

\* What the settlement of a request changes of the lanes, replied or not.
LEMMA Books ==
    ASSUME Types, NEW h \in Handlers, Settle(h) \/ SettleFailed(h)
    PROVE  /\ UNCHANGED <<session, lock>>
           /\ left' = [left EXCEPT ![lane[h]] = Armed(keep[h])]
           /\ expiring' = [expiring EXCEPT ![lane[h]] = keep[h] = "default"]
           /\ inflight' = [inflight EXCEPT ![lane[h]] = Settled(inflight[lane[h]])]
           /\ pc[h] \in {"settle", "failed"} /\ pc'[h] \in {"idle", "drop"}
           /\ pc' = [pc EXCEPT ![h] = pc'[h]]
           /\ DOMAIN lane' = Handlers
           /\ \A g \in Handlers \ {h} : lane'[g] = lane[g]
           /\ lane' = lane \/ pc'[h] = "idle"
<1>1. PICK m : SettleBooks(h, m)
  BY DEF Settle, SettleFailed
<1>2. \/ Goto(h, "settle", "drop") /\ UNCHANGED <<lane, keep>>
      \/ Leave(h, "settle")
      \/ Leave(h, "failed")
  BY DEF Settle, SettleFailed
<1>3. /\ pc[h] \in {"settle", "failed"} /\ pc'[h] \in {"idle", "drop"}
      /\ pc' = [pc EXCEPT ![h] = pc'[h]]
      /\ DOMAIN lane' = Handlers
      /\ \A g \in Handlers \ {h} : lane'[g] = lane[g]
      /\ lane' = lane \/ pc'[h] = "idle"
  BY <1>2 DEF Leave, Goto, Types
<1>. QED BY <1>1, <1>3 DEF SettleBooks, Arm

\* A function stays of its type when it is given a value of the type at a point.
LEMMA Update ==
    ASSUME NEW S, NEW T, NEW f \in [S -> T], NEW x, NEW v, x \in S => v \in T
    PROVE  [f EXCEPT ![x] = v] \in [S -> T]
OBVIOUS

\* A deadline that arm leaves behind is one of the type.
LEMMA ArmedType == \A k : Armed(k) \in 0 .. TTL \cup {Never}
BY LanesAssumption DEF Armed, Never

-------------------------------------------------------------------------------
(* One lemma per part of the invariant, one step per action. *)

\* The parts of the type invariant the other parts need.
LEMMA TypesStep == Types /\ [Next]_vars => Types'
<1> SUFFICES ASSUME Types, [Next]_vars PROVE Types'
  OBVIOUS
<1>. USE LanesAssumption DEF Types
<1>1. ASSUME NEW h \in Handlers, NEW k \in Keeps, NEW est \in Budgets, Admit(h, k, est)
     PROVE Types'
  <2>1. inflight' \in [Lanes -> Nat]
    <3>. DEFINE f == Fastest(est)
    <3>1. inflight' = [inflight EXCEPT ![f] = inflight[f] + 1]
      BY <1>1 DEF Admit
    <3>2. f \in Lanes => inflight[f] + 1 \in Nat
      BY DEF Types
    <3>3. inflight \in [Lanes -> Nat]
      OBVIOUS
    <3>. DEFINE n == inflight[f] + 1
    <3>4. inflight' = [inflight EXCEPT ![f] = n] /\ (f \in Lanes => n \in Nat)
      BY <3>1, <3>2
    <3>. HIDE DEF f, n
    <3>. QED BY <3>3, <3>4, Update, Zenon
  <2>2. DOMAIN pc' = Handlers /\ DOMAIN lane' = Handlers
    BY <1>1 DEF Admit, Goto
  <2>. QED BY <1>1, <2>1, <2>2 DEF Admit
<1>2. ASSUME NEW h \in Handlers, Acquire(h) PROVE Types'
  BY <1>2 DEF Acquire, Goto, Held
<1>3. ASSUME NEW h \in Handlers, Started(h) PROVE Types'
  BY <1>3 DEF Started, Goto
<1>4. ASSUME NEW h \in Handlers, ArmLoaded(h) PROVE Types'
  <2>1. left' \in [Lanes -> 0 .. TTL \cup {Never}]
    BY <1>4, ArmedType DEF ArmLoaded, LoadDeadline
  <2>2. expiring' \in [Lanes -> BOOLEAN] /\ DOMAIN pc' = Handlers
    BY <1>4 DEF ArmLoaded, Goto
  <2>. QED BY <1>4, <2>1, <2>2 DEF ArmLoaded
<1>5. ASSUME NEW h \in Handlers, StartFails(h) PROVE Types'
  BY <1>5 DEF StartFails, Goto, Freed
<1>6. ASSUME NEW h \in Handlers, Serve(h) PROVE Types'
  BY <1>6 DEF Serve, Goto, Freed
<1>7. ASSUME NEW h \in Handlers, Settle(h) PROVE Types'
  <2>1. left' \in [Lanes -> 0 .. TTL \cup {Never}]
    <3>1. left' = [left EXCEPT ![lane[h]] = Armed(keep[h])]
      BY <1>7, Books
    <3>2. left \in [Lanes -> 0 .. TTL \cup {Never}]
      OBVIOUS
    <3>. QED BY <3>1, <3>2, ArmedType, Update, Zenon
  <2>2. expiring' \in [Lanes -> BOOLEAN]
    <3>1. (keep[h] = "default") \in BOOLEAN
      OBVIOUS
    <3>2. expiring' = [expiring EXCEPT ![lane[h]] = keep[h] = "default"]
      BY <1>7, Books, Zenon
    <3>3. expiring \in [Lanes -> BOOLEAN]
      OBVIOUS
    <3>. QED BY <1>7, <3>1, <3>2, <3>3, Update, Zenon
  <2>3. inflight' \in [Lanes -> Nat]
    <3>1. lane[h] \in Lanes => Settled(inflight[lane[h]]) \in Nat
      BY DEF Settled
    <3>2. inflight' = [inflight EXCEPT ![lane[h]] = Settled(inflight[lane[h]])]
      BY <1>7, Books
    <3>3. inflight \in [Lanes -> Nat]
      OBVIOUS
    <3>. DEFINE l == lane[h]  n == Settled(inflight[lane[h]])
    <3>4. inflight' = [inflight EXCEPT ![l] = n] /\ (l \in Lanes => n \in Nat)
      BY <3>1, <3>2
    <3>. HIDE DEF l, n
    <3>. QED BY <3>3, <3>4, Update, Zenon
  <2>4. DOMAIN pc' = Handlers /\ DOMAIN lane' = Handlers
    BY <1>7, Books
  <2>. QED BY <1>7, <2>1, <2>2, <2>3, <2>4, Books
<1>8. ASSUME NEW h \in Handlers, SettleFailed(h) PROVE Types'
  <2>1. left' \in [Lanes -> 0 .. TTL \cup {Never}]
    <3>1. left' = [left EXCEPT ![lane[h]] = Armed(keep[h])]
      BY <1>8, Books
    <3>2. left \in [Lanes -> 0 .. TTL \cup {Never}]
      OBVIOUS
    <3>. QED BY <3>1, <3>2, ArmedType, Update, Zenon
  <2>2. expiring' \in [Lanes -> BOOLEAN]
    <3>1. (keep[h] = "default") \in BOOLEAN
      OBVIOUS
    <3>2. expiring' = [expiring EXCEPT ![lane[h]] = keep[h] = "default"]
      BY <1>8, Books, Zenon
    <3>3. expiring \in [Lanes -> BOOLEAN]
      OBVIOUS
    <3>. QED BY <1>8, <3>1, <3>2, <3>3, Update, Zenon
  <2>3. inflight' \in [Lanes -> Nat]
    <3>1. lane[h] \in Lanes => Settled(inflight[lane[h]]) \in Nat
      BY DEF Settled
    <3>2. inflight' = [inflight EXCEPT ![lane[h]] = Settled(inflight[lane[h]])]
      BY <1>8, Books
    <3>3. inflight \in [Lanes -> Nat]
      OBVIOUS
    <3>. DEFINE l == lane[h]  n == Settled(inflight[lane[h]])
    <3>4. inflight' = [inflight EXCEPT ![l] = n] /\ (l \in Lanes => n \in Nat)
      BY <3>1, <3>2
    <3>. HIDE DEF l, n
    <3>. QED BY <3>3, <3>4, Update, Zenon
  <2>4. DOMAIN pc' = Handlers /\ DOMAIN lane' = Handlers
    BY <1>8, Books
  <2>. QED BY <1>8, <2>1, <2>2, <2>3, <2>4, Books
<1>9. ASSUME NEW h \in Handlers, DropAfterReply(h) PROVE Types'
  <2>1. CASE Leave(h, "drop") /\ NothingToDrop(lane[h])
    BY <1>9, <2>1 DEF Leave, Goto, NothingToDrop
  <2>2. CASE Goto(h, "drop", "closing") /\ BeginDrop(lane[h], h) /\ UNCHANGED <<lane, keep>>
    BY <1>9, <2>2 DEF Goto, BeginDrop, Held
  <2>. QED BY <1>9, <2>1, <2>2 DEF DropAfterReply
<1>10. ASSUME NEW h \in Handlers, Closed(h) PROVE Types'
  BY <1>10 DEF Closed, EndDrop, Freed, Leave, Goto
<1>11. CASE Collect
  BY <1>11 DEF Collect, handlerVars
<1>12. CASE ReaperDrop
  BY <1>12 DEF ReaperDrop, BeginDrop, NothingToDrop, DropFree, Held, handlerVars
<1>13. CASE ReaperClosed
  BY <1>13 DEF ReaperClosed, EndDrop, Freed, Reaping, handlerVars
<1>14. CASE Judge
  BY <1>14 DEF Judge, handlerVars
<1>15. CASE Tick
  BY <1>15 DEF Tick, Down, handlerVars, Never
<1>16. CASE UNCHANGED vars
  BY <1>16 DEF vars, handlerVars, controlVars
<1>. QED
  BY <1>1, <1>2, <1>3, <1>4, <1>5, <1>6, <1>7, <1>8, <1>9,
     <1>10, <1>11, <1>12, <1>13, <1>14, <1>15, <1>16
  DEF Next, HandlerStep, ReaperStep

\* A lane's lock changes hands only with the thread's control point.
LEMMA OwnersStep == IInv /\ [Next]_vars => Owners'
<1> SUFFICES ASSUME IInv, [Next]_vars PROVE Owners'
  OBVIOUS
<1>. USE LanesAssumption DEF IInv, Types, Owners, Holding, Lanes
<1>1. ASSUME NEW h \in Handlers, NEW k \in Keeps, NEW est \in Budgets, Admit(h, k, est)
     PROVE Owners'
  BY <1>1 DEF Admit, Goto
<1>2. ASSUME NEW h \in Handlers, Acquire(h) PROVE Owners'
  BY <1>2 DEF Acquire, Goto, Held
<1>3. ASSUME NEW h \in Handlers, Started(h) PROVE Owners'
  BY <1>3 DEF Started, Goto
<1>4. ASSUME NEW h \in Handlers, ArmLoaded(h) PROVE Owners'
  BY <1>4 DEF ArmLoaded, Goto, LoadDeadline, Armed
<1>5. ASSUME NEW h \in Handlers, StartFails(h) PROVE Owners'
  BY <1>5 DEF StartFails, Goto, Freed
<1>6. ASSUME NEW h \in Handlers, Serve(h) PROVE Owners'
  BY <1>6 DEF Serve, Goto, Freed
<1>7. ASSUME NEW h \in Handlers, Settle(h) PROVE Owners'
  BY <1>7 DEF Settle, SettleBooks, Arm, Armed, Settled, Leave, Goto
<1>8. ASSUME NEW h \in Handlers, SettleFailed(h) PROVE Owners'
  BY <1>8 DEF SettleFailed, SettleBooks, Arm, Armed, Settled, Leave, Goto
<1>9. ASSUME NEW h \in Handlers, DropAfterReply(h) PROVE Owners'
  BY <1>9 DEF DropAfterReply, BeginDrop, NothingToDrop, DropFree, Held, Leave, Goto
<1>10. ASSUME NEW h \in Handlers, Closed(h) PROVE Owners'
  BY <1>10 DEF Closed, EndDrop, Freed, Leave, Goto
<1>11. CASE Collect
  BY <1>11 DEF Collect, handlerVars
<1>12. CASE ReaperDrop
  BY <1>12 DEF ReaperDrop, BeginDrop, NothingToDrop, DropFree, Held, handlerVars
<1>13. CASE ReaperClosed
  BY <1>13 DEF ReaperClosed, EndDrop, Freed, Reaping, handlerVars
<1>14. CASE Judge
  BY <1>14 DEF Judge, handlerVars
<1>15. CASE Tick
  BY <1>15 DEF Tick, Down, handlerVars, Never
<1>16. CASE UNCHANGED vars
  BY <1>16 DEF vars, handlerVars, controlVars
<1>. QED
  BY <1>1, <1>2, <1>3, <1>4, <1>5, <1>6, <1>7, <1>8, <1>9,
     <1>10, <1>11, <1>12, <1>13, <1>14, <1>15, <1>16
  DEF Next, HandlerStep, ReaperStep

\* An engine comes and goes only under its lane's lock.
LEMMA EnginesStep == IInv /\ [Next]_vars => Engines'
<1> SUFFICES ASSUME IInv, [Next]_vars PROVE Engines'
  OBVIOUS
<1>. USE LanesAssumption DEF IInv, Types, Owners, Holding, Engines, Lanes
<1>1. ASSUME NEW h \in Handlers, NEW k \in Keeps, NEW est \in Budgets, Admit(h, k, est)
     PROVE Engines'
  BY <1>1 DEF Admit, Goto
<1>2. ASSUME NEW h \in Handlers, Acquire(h) PROVE Engines'
  BY <1>2 DEF Acquire, Goto, Held
<1>3. ASSUME NEW h \in Handlers, Started(h) PROVE Engines'
  BY <1>3 DEF Started, Goto
<1>4. ASSUME NEW h \in Handlers, ArmLoaded(h) PROVE Engines'
  BY <1>4 DEF ArmLoaded, Goto, LoadDeadline, Armed
<1>5. ASSUME NEW h \in Handlers, StartFails(h) PROVE Engines'
  BY <1>5 DEF StartFails, Goto, Freed
<1>6. ASSUME NEW h \in Handlers, Serve(h) PROVE Engines'
  BY <1>6 DEF Serve, Goto, Freed
<1>7. ASSUME NEW h \in Handlers, Settle(h) PROVE Engines'
  BY <1>7 DEF Settle, SettleBooks, Arm, Armed, Settled, Leave, Goto
<1>8. ASSUME NEW h \in Handlers, SettleFailed(h) PROVE Engines'
  BY <1>8 DEF SettleFailed, SettleBooks, Arm, Armed, Settled, Leave, Goto
<1>9. ASSUME NEW h \in Handlers, DropAfterReply(h) PROVE Engines'
  <2>1. CASE Leave(h, "drop") /\ NothingToDrop(lane[h])
    BY <1>9, <2>1 DEF Leave, Goto, NothingToDrop
  <2>2. CASE Goto(h, "drop", "closing") /\ BeginDrop(lane[h], h) /\ UNCHANGED <<lane, keep>>
    <3>1. /\ pc' = [pc EXCEPT ![h] = "closing"] /\ pc[h] = "drop"
          /\ lock[lane[h]] = Nobody /\ session[lane[h]]
          /\ session' = [session EXCEPT ![lane[h]] = FALSE]
          /\ lock' = [lock EXCEPT ![lane[h]] = h]
          /\ lane' = lane
      BY <2>2 DEF Goto, BeginDrop, Held, DropFree
    <3>2. ASSUME NEW g \in Handlers, NEW l \in Lanes, lane[g] = l
          PROVE  /\ pc'[g] \in {"arm", "serve"} => session'[l]
                 /\ pc'[g] = "closing" => ~session'[l]
      <4>1. CASE g = h
        BY <3>1, <3>2, <4>1
      <4>2. CASE g # h
        BY <3>1, <3>2, <4>2
      <4>. QED BY <4>1, <4>2
    <3>3. ASSUME NEW l \in Lanes, lock'[l] = Reaper PROVE ~session'[l]
      BY <3>1, <3>3
    <3>. QED BY <3>1, <3>2, <3>3
  <2>. QED BY <1>9, <2>1, <2>2 DEF DropAfterReply
<1>10. ASSUME NEW h \in Handlers, Closed(h) PROVE Engines'
  BY <1>10 DEF Closed, EndDrop, Freed, Leave, Goto
<1>11. CASE Collect
  BY <1>11 DEF Collect, handlerVars
<1>12. CASE ReaperDrop
  <2>. DEFINE l == Head(due)
  <2>1. CASE BeginDrop(l, Reaper)
    <3>. HIDE DEF l
    <3>. QED BY <1>12, <2>1 DEF ReaperDrop, BeginDrop, Held, DropFree, handlerVars
  <2>2. CASE NothingToDrop(l)
    BY <1>12, <2>2 DEF ReaperDrop, NothingToDrop, handlerVars
  <2>. QED BY <1>12, <2>1, <2>2 DEF ReaperDrop
<1>13. CASE ReaperClosed
  BY <1>13 DEF ReaperClosed, EndDrop, Freed, Reaping, handlerVars
<1>14. CASE Judge
  BY <1>14 DEF Judge, handlerVars
<1>15. CASE Tick
  BY <1>15 DEF Tick, Down, handlerVars, Never
<1>16. CASE UNCHANGED vars
  BY <1>16 DEF vars, handlerVars, controlVars
<1>. QED
  BY <1>1, <1>2, <1>3, <1>4, <1>5, <1>6, <1>7, <1>8, <1>9,
     <1>10, <1>11, <1>12, <1>13, <1>14, <1>15, <1>16
  DEF Next, HandlerStep, ReaperStep

\* Settlement, load and unload in any order leave no engine without deadline.
LEMMA DeadlinesStep == IInv /\ [Next]_vars => Deadlines'
<1> SUFFICES ASSUME IInv, [Next]_vars PROVE Deadlines'
  OBVIOUS
<1>. USE LanesAssumption DEF IInv, Types, Owners, Holding, Engines, Deadlines, Lanes, Never
<1>1. ASSUME NEW h \in Handlers, NEW k \in Keeps, NEW est \in Budgets, Admit(h, k, est)
     PROVE Deadlines'
  BY <1>1 DEF Admit, Goto
<1>2. ASSUME NEW h \in Handlers, Acquire(h) PROVE Deadlines'
  BY <1>2 DEF Acquire, Goto, Held
<1>3. ASSUME NEW h \in Handlers, Started(h) PROVE Deadlines'
  BY <1>3 DEF Started, Goto
<1>4. ASSUME NEW h \in Handlers, ArmLoaded(h) PROVE Deadlines'
  BY <1>4 DEF ArmLoaded, Goto, LoadDeadline, Armed
<1>5. ASSUME NEW h \in Handlers, StartFails(h) PROVE Deadlines'
  BY <1>5 DEF StartFails, Goto, Freed
<1>6. ASSUME NEW h \in Handlers, Serve(h) PROVE Deadlines'
  BY <1>6 DEF Serve, Goto, Freed
<1>7. ASSUME NEW h \in Handlers, Settle(h) PROVE Deadlines'
  <2> SUFFICES ASSUME NEW l \in Lanes, session'[l], expiring'[l], left'[l] = Never
               PROVE  \E g \in Handlers : lane'[g] = l /\ pc'[g] = "arm"
    OBVIOUS
  <2>1. l # lane[h]
    <3> SUFFICES ASSUME l = lane[h] PROVE FALSE
      OBVIOUS
    <3>1. left'[l] = Armed(keep[h])
      BY <1>7, Books
    <3>2. expiring' = [expiring EXCEPT ![lane[h]] = keep[h] = "default"]
      BY <1>7, Books, Zenon
    <3>3. keep[h] = "default"
      <4> SUFFICES ASSUME keep[h] # "default" PROVE FALSE
        OBVIOUS
      <4>1. (keep[h] = "default") = FALSE
        OBVIOUS
      <4>2. expiring' = [expiring EXCEPT ![lane[h]] = FALSE]
        BY <3>2, <4>1, Zenon
      <4>. QED BY <4>2
    <3>. QED BY <3>1, <3>3, LanesAssumption DEF Armed, Never
  <2>2. session[l] /\ expiring[l] /\ left[l] = Never
    BY <1>7, <2>1, Books
  <2>3. PICK g \in Handlers : lane[g] = l /\ pc[g] = "arm"
    BY <2>2
  <2>. QED BY <1>7, <2>1, <2>3, Books
<1>8. ASSUME NEW h \in Handlers, SettleFailed(h) PROVE Deadlines'
  <2> SUFFICES ASSUME NEW l \in Lanes, session'[l], expiring'[l], left'[l] = Never
               PROVE  \E g \in Handlers : lane'[g] = l /\ pc'[g] = "arm"
    OBVIOUS
  <2>1. l # lane[h]
    <3> SUFFICES ASSUME l = lane[h] PROVE FALSE
      OBVIOUS
    <3>1. left'[l] = Armed(keep[h])
      BY <1>8, Books
    <3>2. expiring' = [expiring EXCEPT ![lane[h]] = keep[h] = "default"]
      BY <1>8, Books, Zenon
    <3>3. keep[h] = "default"
      <4> SUFFICES ASSUME keep[h] # "default" PROVE FALSE
        OBVIOUS
      <4>1. (keep[h] = "default") = FALSE
        OBVIOUS
      <4>2. expiring' = [expiring EXCEPT ![lane[h]] = FALSE]
        BY <3>2, <4>1, Zenon
      <4>. QED BY <4>2
    <3>. QED BY <3>1, <3>3, LanesAssumption DEF Armed, Never
  <2>2. session[l] /\ expiring[l] /\ left[l] = Never
    BY <1>8, <2>1, Books
  <2>3. PICK g \in Handlers : lane[g] = l /\ pc[g] = "arm"
    BY <2>2
  <2>. QED BY <1>8, <2>1, <2>3, Books
<1>9. ASSUME NEW h \in Handlers, DropAfterReply(h) PROVE Deadlines'
  BY <1>9 DEF DropAfterReply, BeginDrop, NothingToDrop, DropFree, Held, Leave, Goto
<1>10. ASSUME NEW h \in Handlers, Closed(h) PROVE Deadlines'
  BY <1>10 DEF Closed, EndDrop, Freed, Leave, Goto
<1>11. CASE Collect
  BY <1>11 DEF Collect, handlerVars
<1>12. CASE ReaperDrop
  <2>. DEFINE l == Head(due)
  <2>1. CASE BeginDrop(l, Reaper)
    <3>. HIDE DEF l
    <3>. QED BY <1>12, <2>1 DEF ReaperDrop, BeginDrop, Held, DropFree, handlerVars
  <2>2. CASE NothingToDrop(l)
    BY <1>12, <2>2 DEF ReaperDrop, NothingToDrop, handlerVars
  <2>. QED BY <1>12, <2>1, <2>2 DEF ReaperDrop
<1>13. CASE ReaperClosed
  BY <1>13 DEF ReaperClosed, EndDrop, Freed, Reaping, handlerVars
<1>14. CASE Judge
  BY <1>14 DEF Judge, handlerVars
<1>15. CASE Tick
  BY <1>15 DEF Tick, Down, handlerVars, Never
<1>16. CASE UNCHANGED vars
  BY <1>16 DEF vars, handlerVars, controlVars
<1>. QED
  BY <1>1, <1>2, <1>3, <1>4, <1>5, <1>6, <1>7, <1>8, <1>9,
     <1>10, <1>11, <1>12, <1>13, <1>14, <1>15, <1>16
  DEF Next, HandlerStep, ReaperStep

-------------------------------------------------------------------------------
(* The books. *)

\* The requests of a lane can be counted.
LEMMA RequestsFinite ==
    ASSUME NEW l \in Lanes
    PROVE  IsFiniteSet(Requests(l)) /\ Cardinality(Requests(l)) \in Nat
<1>1. Requests(l) \in SUBSET Handlers
  BY DEF Requests
<1>. QED BY <1>1, LanesAssumption, FS_Subset, FS_CardinalityType

\* The requests of every lane stay the same, and so does its count.
SameRequests == inflight' = inflight /\ \A l \in Lanes : Requests(l)' = Requests(l)

\* Then the count still agrees.
LEMMA BooksKept == InflightCounts /\ SameRequests => InflightCounts'
BY DEF InflightCounts, SameRequests

\* An admission adds one request and its settlement takes one away; nothing
\* else touches the books.
LEMMA InflightStep == IInv /\ [Next]_vars => InflightCounts'
<1> SUFFICES ASSUME IInv, [Next]_vars PROVE InflightCounts'
  OBVIOUS
<1>. USE DEF IInv, Types
<1>1. ASSUME NEW h \in Handlers, NEW k \in Keeps, NEW est \in Budgets, Admit(h, k, est)
     PROVE InflightCounts'
  <2>. DEFINE f == Fastest(est)
  <2>1. /\ inflight' = [inflight EXCEPT ![f] = inflight[f] + 1]
        /\ lane' = [lane EXCEPT ![h] = f]
        /\ pc[h] = "idle" /\ pc' = [pc EXCEPT ![h] = "queued"]
    BY <1>1 DEF Admit, Goto
  <2>. HIDE DEF f
  <2>. SUFFICES ASSUME NEW l \in Lanes PROVE inflight'[l] = Cardinality(Requests(l)')
    BY DEF InflightCounts
  <2>2. inflight[l] = Cardinality(Requests(l))
    BY DEF InflightCounts
  <2>3. CASE l = f
    <3>1. Requests(l)' = Requests(l) \cup {h} /\ h \notin Requests(l)
      BY <2>1, <2>3 DEF Requests, Unsettled
    <3>2. Cardinality(Requests(l)') = Cardinality(Requests(l)) + 1
      BY <3>1, RequestsFinite, FS_AddElement
    <3>3. inflight'[l] = inflight[l] + 1
      BY <2>1, <2>3
    <3>. QED BY <2>2, <3>2, <3>3
  <2>4. CASE l # f
    <3>1. Requests(l)' = Requests(l)
      BY <2>1, <2>4 DEF Requests, Unsettled
    <3>. QED BY <2>1, <2>2, <2>4, <3>1
  <2>. QED BY <2>3, <2>4
<1>2. ASSUME NEW h \in Handlers, Settle(h) \/ SettleFailed(h) PROVE InflightCounts'
  <2>. SUFFICES ASSUME NEW l \in Lanes PROVE inflight'[l] = Cardinality(Requests(l)')
    BY DEF InflightCounts
  <2>1. inflight[l] = Cardinality(Requests(l))
    BY DEF InflightCounts
  <2>2. CASE l = lane[h]
    <3>1. h \in Requests(l) /\ Requests(l)' = Requests(l) \ {h}
      BY <1>2, <2>2, Books DEF Requests, Unsettled
    <3>2. Cardinality(Requests(l)') = Cardinality(Requests(l)) - 1 /\ Cardinality(Requests(l)') \in Nat
      BY <3>1, RequestsFinite, FS_RemoveElement, FS_CardinalityType
    <3>3. Settled(inflight[l]) = inflight[l] - 1
      BY <2>1, <3>2, RequestsFinite DEF Settled
    <3>. QED BY <1>2, <2>1, <2>2, <3>2, <3>3, Books
  <2>3. CASE l # lane[h]
    <3>1. Requests(l)' = Requests(l)
      BY <1>2, <2>3, Books DEF Requests, Unsettled
    <3>. QED BY <1>2, <2>1, <2>3, <3>1, Books
  <2>. QED BY <2>2, <2>3
<1>3. ASSUME NEW h \in Handlers, Acquire(h) PROVE InflightCounts'
  <2>1. SameRequests
    BY <1>3 DEF SameRequests, Requests, Unsettled, Acquire, Goto
  <2>. QED BY <2>1, BooksKept
<1>4. ASSUME NEW h \in Handlers, Started(h) PROVE InflightCounts'
  <2>1. SameRequests
    BY <1>4 DEF SameRequests, Requests, Unsettled, Started, Goto
  <2>. QED BY <2>1, BooksKept
<1>5. ASSUME NEW h \in Handlers, ArmLoaded(h) PROVE InflightCounts'
  <2>1. SameRequests
    BY <1>5 DEF SameRequests, Requests, Unsettled, ArmLoaded, Goto
  <2>. QED BY <2>1, BooksKept
<1>6. ASSUME NEW h \in Handlers, StartFails(h) PROVE InflightCounts'
  <2>1. SameRequests
    BY <1>6 DEF SameRequests, Requests, Unsettled, StartFails, Goto
  <2>. QED BY <2>1, BooksKept
<1>7. ASSUME NEW h \in Handlers, Serve(h) PROVE InflightCounts'
  <2>1. SameRequests
    BY <1>7 DEF SameRequests, Requests, Unsettled, Serve, Goto
  <2>. QED BY <2>1, BooksKept
<1>8. ASSUME NEW h \in Handlers, DropAfterReply(h) PROVE InflightCounts'
  <2>1. SameRequests
    BY <1>8 DEF SameRequests, Requests, Unsettled, DropAfterReply, BeginDrop, NothingToDrop, Leave, Goto
  <2>. QED BY <2>1, BooksKept
<1>9. ASSUME NEW h \in Handlers, Closed(h) PROVE InflightCounts'
  <2>1. SameRequests
    BY <1>9 DEF SameRequests, Requests, Unsettled, Closed, EndDrop, Leave, Goto
  <2>. QED BY <2>1, BooksKept
<1>10. CASE Collect
  <2>1. SameRequests
    BY <1>10 DEF SameRequests, Requests, Collect, handlerVars
  <2>. QED BY <2>1, BooksKept
<1>11. CASE ReaperDrop
  <2>1. SameRequests
    BY <1>11 DEF SameRequests, Requests, ReaperDrop, BeginDrop, NothingToDrop, handlerVars
  <2>. QED BY <2>1, BooksKept
<1>12. CASE ReaperClosed
  <2>1. SameRequests
    BY <1>12 DEF SameRequests, Requests, ReaperClosed, EndDrop, handlerVars
  <2>. QED BY <2>1, BooksKept
<1>13. CASE Judge
  <2>1. SameRequests
    BY <1>13 DEF SameRequests, Requests, Judge, handlerVars
  <2>. QED BY <2>1, BooksKept
<1>14. CASE Tick
  <2>1. SameRequests
    BY <1>14 DEF SameRequests, Requests, Tick, handlerVars
  <2>. QED BY <2>1, BooksKept
<1>15. CASE UNCHANGED vars
  <2>1. SameRequests
    BY <1>15 DEF SameRequests, Requests, vars, handlerVars
  <2>. QED BY <2>1, BooksKept
<1>. QED
  BY <1>1, <1>2, <1>3, <1>4, <1>5, <1>6, <1>7, <1>8, <1>9,
     <1>10, <1>11, <1>12, <1>13, <1>14, <1>15
  DEF Next, HandlerStep, ReaperStep

-------------------------------------------------------------------------------
(* The invariant and the theorems. *)

\* It holds when main has loaded every lane.
LEMMA IInvInit == Init => IInv
<1> SUFFICES ASSUME Init PROVE IInv
  OBVIOUS
<1>1. Types
  BY LanesAssumption DEF Init, Types, Never
<1>2. Owners
  BY LanesAssumption DEF Init, Owners, Holding
<1>3. Engines
  BY LanesAssumption DEF Init, Engines
<1>4. Deadlines
  BY LanesAssumption DEF Init, Deadlines, Never
<1>5. InflightCounts
  <2>1. \A l \in Lanes : Requests(l) = {}
    BY DEF Init, Requests, Unsettled
  <2>. QED BY <2>1, FS_EmptySet DEF Init, InflightCounts
<1>. QED BY <1>1, <1>2, <1>3, <1>4, <1>5 DEF IInv

\* Every step preserves it.
LEMMA IInvStep == IInv /\ [Next]_vars => IInv'
BY TypesStep, OwnersStep, EnginesStep, DeadlinesStep, InflightStep DEF IInv

\* Whatever handlers, reaper and controller do, and however requests end, every
\* lane's lock, engine, deadline and queue length agree with the threads.
THEOREM Invariant == Spec => []IInv
<1>1. Init => IInv
  BY IInvInit
<1>2. IInv /\ [Next]_vars => IInv'
  BY IInvStep
<1>. QED BY <1>1, <1>2, PTL DEF Spec

\* An engine that serves a request is locked by that request's thread and is not
\* unloaded under it (run_on_lane, Lane.ensure, Lane.drop).
THEOREM EngineNotTaken == Spec => []EngineHeld
<1>1. IInv => EngineHeld
  BY DEF IInv, Owners, Holding, Engines, EngineHeld, Serving
<1>. QED BY <1>1, Invariant, PTL

\* The queue length admit plans with is the number of unsettled requests.
THEOREM BooksAgree == Spec => []InflightCounts
<1>1. IInv => InflightCounts
  BY DEF IInv
<1>. QED BY <1>1, Invariant, PTL

\* A resident engine that nobody uses keeps the deadline the policy gave it.
THEOREM DeadlineKept == Spec => []ResidentHasDeadline
<1>1. IInv => ResidentHasDeadline
  <2> SUFFICES ASSUME IInv, NEW l \in Lanes, session[l], lock[l] = Nobody, expiring[l],
                    left[l] = Never
               PROVE  FALSE
    BY DEF ResidentHasDeadline
  <2>1. PICK h \in Handlers : lane[h] = l /\ pc[h] = "arm"
    BY DEF IInv, Deadlines
  <2>2. lock[l] = h
    BY <2>1 DEF IInv, Owners, Holding
  <2>. QED BY <2>2, LanesAssumption
<1>. QED BY <1>1, Invariant, PTL

-------------------------------------------------------------------------------
(* The lane admit chooses: the comparison of two predicted finishes is total  *)
(* and transitive, so the candidates have a fastest lane.                     *)

\* A factor can be put on both sides of an inequality, or taken from them.
LEMMA Factor ==
    ASSUME NEW a \in Nat, NEW b \in Nat, NEW c \in Nat
    PROVE  /\ a <= b => a * c <= b * c
           /\ a * c <= b * c /\ c # 0 => a <= b
<1>1. ASSUME a <= b PROVE a * c <= b * c
  <2> DEFINE d == b - a
  <2>1. d \in Nat /\ b = a + d
    BY <1>1
  <2> HIDE DEF d
  <2>2. b * c = a * c + d * c
    BY <2>1
  <2>3. d * c \in Nat /\ a * c \in Nat
    BY <2>1
  <2>4. QED
    BY <2>2, <2>3
<1>2. ASSUME a * c <= b * c, c # 0 PROVE a <= b
  <2> SUFFICES ASSUME b < a PROVE FALSE
    OBVIOUS
  <2> DEFINE d == a - b
  <2>1. d \in Nat /\ d >= 1 /\ a = b + d
    OBVIOUS
  <2> HIDE DEF d
  <2>2. a * c = b * c + d * c
    BY <2>1
  <2>3. d * c >= 1
    BY <1>2, <2>1
  <2>4. b * c \in Nat /\ d * c \in Nat
    BY <2>1
  <2>5. QED
    BY <1>2, <2>2, <2>3, <2>4
<1>3. QED
  BY <1>1, <1>2

\* Fractions are compared by cross multiplication, which is transitive.
LEMMA Fractions ==
    ASSUME NEW x \in Nat, NEW y \in Nat, NEW z \in Nat,
           NEW p \in Nat \ {0}, NEW q \in Nat \ {0}, NEW r \in Nat \ {0},
           x * q <= y * p, y * r <= z * q
    PROVE  x * r <= z * p
<1>1. /\ x * q \in Nat /\ y * p \in Nat /\ y * r \in Nat /\ z * q \in Nat
      /\ x * r \in Nat /\ z * p \in Nat
  OBVIOUS
<1>2. (x * q) * r <= (y * p) * r
  BY <1>1, Factor
<1>3. (y * r) * p <= (z * q) * p
  BY <1>1, Factor
<1>4. /\ (x * q) * r = (x * r) * q /\ (y * p) * r = (y * r) * p /\ (z * q) * p = (z * p) * q
  OBVIOUS
<1>5. (x * r) * q <= (z * p) * q
  <2>1. (x * r) * q \in Nat /\ (y * p) * r \in Nat /\ (z * p) * q \in Nat
    BY <1>1
  <2>2. QED
    BY <1>2, <1>3, <1>4, <2>1
<1>6. QED
  BY <1>1, <1>5, Factor

\* The rates and queue lengths that a choice compares.
Comparable == inflight \in [Lanes -> Nat] /\ rate \in [Lanes -> Nat \ {0}]

\* NoLater orders the lanes.
LEMMA NoLaterOrders ==
    ASSUME Comparable, NEW est \in Nat, NEW a \in Lanes, NEW b \in Lanes, NEW c \in Lanes
    PROVE  /\ NoLater(a, b, est) \/ NoLater(b, a, est)
           /\ NoLater(a, b, est) /\ NoLater(b, c, est) => NoLater(a, c, est)
<1> DEFINE x == (inflight[a] + 1) * est
           y == (inflight[b] + 1) * est
           z == (inflight[c] + 1) * est
           p == rate[a]
           q == rate[b]
           r == rate[c]
<1>1. /\ x \in Nat /\ y \in Nat /\ z \in Nat
      /\ p \in Nat \ {0} /\ q \in Nat \ {0} /\ r \in Nat \ {0}
  <2>1. inflight[a] + 1 \in Nat /\ inflight[b] + 1 \in Nat /\ inflight[c] + 1 \in Nat
    BY DEF Comparable
  <2>2. \A i, j \in Nat : i * j \in Nat
    OBVIOUS
  <2>3. QED
    BY <2>1, <2>2 DEF Comparable
<1>2. /\ NoLater(a, b, est) <=> x * q <= y * p
      /\ NoLater(b, a, est) <=> y * p <= x * q
      /\ NoLater(b, c, est) <=> y * r <= z * q
      /\ NoLater(a, c, est) <=> x * r <= z * p
  BY Zenon DEF NoLater
<1> HIDE DEF x, y, z, p, q, r
<1>3. x * q \in Nat /\ y * p \in Nat
  BY <1>1
<1>4. x * q <= y * p \/ y * p <= x * q
  BY <1>3
<1>5. x * q <= y * p /\ y * r <= z * q => x * r <= z * p
  BY <1>1, Fractions
<1>6. QED
  BY <1>2, <1>4, <1>5, Zenon

\* A finite set of lanes has one that no other beats: by induction on the
\* largest lane of the set.
LEMMA FastestExists ==
    ASSUME Comparable, NEW est \in Nat, NEW C, C \subseteq Lanes, C # {}
    PROVE  \E l \in C : \A m \in C : NoLater(l, m, est)
<1> DEFINE Best(D) == \E l \in D : \A m \in D : NoLater(l, m, est)
           T == {n \in Nat : \A D \in SUBSET Lanes : D # {} /\ D \subseteq 1 .. n => Best(D)}
<1>1. 0 \in T
  <2>1. \A D \in SUBSET Lanes : D \subseteq 1 .. 0 => D = {}
    OBVIOUS
  <2> HIDE DEF Best
  <2>2. QED
    BY <2>1
<1>2. ASSUME NEW n \in Nat, n \in T
      PROVE  n + 1 \in T
  <2> SUFFICES ASSUME NEW D \in SUBSET Lanes, D # {}, D \subseteq 1 .. n + 1
               PROVE  Best(D)
    <3> HIDE DEF Best
    <3>1. QED
      OBVIOUS
  <2> DEFINE E == D \ {n + 1}
  <2>1. E \in SUBSET Lanes /\ E \subseteq 1 .. n
    OBVIOUS
  <2>2. CASE E = {}
    <3>1. D = {n + 1} /\ n + 1 \in Lanes
      BY <2>2
    <3>2. NoLater(n + 1, n + 1, est)
      BY <3>1, NoLaterOrders, Zenon
    <3>3. QED
      BY <3>1, <3>2, Zenon
  <2>3. CASE E # {} /\ n + 1 \notin D
    <3>1. E = D
      BY <2>3
    <3> HIDE DEF Best
    <3>2. QED
      BY <1>2, <2>1, <2>3, <3>1
  <2>4. CASE E # {} /\ n + 1 \in D
    <3>1. Best(E)
      <4> HIDE DEF Best
      <4>1. QED
        BY <1>2, <2>1, <2>4
    <3>2. PICK l \in E : \A m \in E : NoLater(l, m, est)
      BY <3>1, Zenon
    <3>3. l \in Lanes /\ l \in D /\ n + 1 \in Lanes /\ \A m \in D : m \in E \/ m = n + 1
      BY <2>1, <2>4
    <3>4. CASE NoLater(l, n + 1, est)
      BY <3>2, <3>3, <3>4, Zenon
    <3>5. CASE ~NoLater(l, n + 1, est)
      <4>1. NoLater(n + 1, l, est) /\ NoLater(n + 1, n + 1, est)
        BY <3>3, <3>5, NoLaterOrders, Zenon
      <4>2. \A m \in E : m \in Lanes
        BY <2>1
      <4>3. \A m \in E : NoLater(n + 1, m, est)
        BY <3>2, <3>3, <4>1, <4>2, NoLaterOrders, Zenon
      <4>4. QED
        BY <2>4, <3>3, <4>1, <4>3, Zenon
    <3>6. QED
      BY <3>4, <3>5
  <2>5. QED
    BY <2>2, <2>3, <2>4
<1>3. Nat \subseteq T
  <2> HIDE DEF T
  <2>1. QED
    BY <1>1, <1>2, SetInduction
<1>4. NLanes \in T /\ C \in SUBSET Lanes /\ C \subseteq 1 .. NLanes
  BY <1>3, LanesAssumption DEF Lanes
<1>5. Best(C)
  <2> HIDE DEF Best
  <2>1. QED
    BY <1>4
<1>6. QED
  BY <1>5, Zenon

\* The lane of a new request is a candidate, and no candidate beats it.
LEMMA FastestIs ==
    ASSUME Comparable, NEW est \in Nat
    PROVE  /\ Fastest(est) \in Candidates /\ Candidates \subseteq Lanes
           /\ \A m \in Candidates : NoLater(Fastest(est), m, est)
<1> DEFINE B == {l \in Candidates : \A m \in Candidates : NoLater(l, m, est)}
<1>1. Lanes \subseteq Nat /\ Lanes # {}
  BY LanesAssumption DEF Lanes
<1>2. Candidates \subseteq Lanes /\ Candidates # {}
  BY <1>1 DEF Candidates
<1>3. B # {}
  BY <1>2, FastestExists, Zenon
<1>4. B \subseteq Nat
  BY <1>1, <1>2
<1>5. Fastest(est) = Min(B)
  BY Zenon DEF Fastest
<1> HIDE DEF B
<1>6. Fastest(est) \in B
  BY <1>3, <1>4, <1>5, LeastElement, Zenon
<1>7. QED
  BY <1>2, <1>6, Zenon DEF B

-------------------------------------------------------------------------------
(* The rest of the types, and the lane that is never parked. *)

\* The controller's books; the first lane is no extra and is never parked.
Control ==
    /\ parked \in [Lanes -> BOOLEAN] /\ parkedFor \in [Lanes -> 0 .. Reprobe]
    /\ rate \in [Lanes -> Nat \ {0}] /\ served \in [Lanes -> 0 .. Evidence]
    /\ best_solo \in Nat \ {0}
    /\ ~parked[1]

Points == {"idle", "queued", "start", "arm", "serve", "settle", "failed", "drop", "closing"}

\* The handler threads and the reaper's list.
Threads ==
    /\ pc \in [Handlers -> Points] /\ lane \in [Handlers -> Lanes]
    /\ keep \in [Handlers -> Keeps \cup {"default"}]
    /\ due \in Seq(Lanes)

LaneTypes == Types /\ Control /\ Threads

\* They hold when main has loaded every lane.
LEMMA LaneTypesInit == Init => LaneTypes
<1> SUFFICES ASSUME Init PROVE LaneTypes
  OBVIOUS
<1>1. Types
  BY IInvInit, Zenon DEF IInv
<1>2. NLanes \in Nat \ {0} /\ 1 \in Lanes /\ Reprobe \in Nat /\ Evidence \in Nat
  BY LanesAssumption DEF Lanes
<1>3. /\ parked = [l \in Lanes |-> FALSE] /\ parkedFor = [l \in Lanes |-> 0]
      /\ rate = SeedRate /\ served = [l \in Lanes |-> 0]
      /\ best_solo = Max({SeedRate[l] : l \in Lanes})
      /\ pc = [h \in Handlers |-> "idle"] /\ lane = [h \in Handlers |-> 1]
      /\ keep = [h \in Handlers |-> "default"] /\ due = <<>>
  BY Zenon DEF Init
<1>4. best_solo \in Nat \ {0}
  <2>1. \A l \in 1 .. NLanes : SeedRate[l] \in Nat \ {0}
    BY SeedAssumption
  <2> DEFINE V == {SeedRate[l] : l \in 1 .. NLanes}
  <2>2. Max(V) \in V
    BY <1>2, <2>1, GreatestValue
  <2>3. V \subseteq Nat \ {0}
    BY <2>1
  <2> HIDE DEF V
  <2>4. Max(V) \in Nat \ {0}
    BY <2>2, <2>3
  <2>5. QED
    BY <1>3, <2>4 DEF V, Lanes
<1>5. Control
  <2>1. rate \in [Lanes -> Nat \ {0}]
    BY <1>3, SeedAssumption DEF Lanes
  <2>2. QED
    BY <1>2, <1>3, <1>4, <2>1 DEF Control
<1>6. Threads
  BY <1>2, <1>3 DEF Threads, Points
<1>7. QED
  BY <1>1, <1>5, <1>6, Zenon DEF LaneTypes

\* A settlement measures a positive rate, and counts the request up to Evidence.
LEMMA BooksControl ==
    ASSUME LaneTypes, NEW h \in Handlers, NEW m, SettleBooks(h, m), m \subseteq Rates[lane[h]]
    PROVE  Control'
<1> DEFINE l == lane[h]
<1>1. l \in Lanes
  BY DEF LaneTypes, Threads
<1>2. \A r \in m \cup {rate[l]} : r \in Nat \ {0}
  <2>1. Rates[l] \subseteq Nat \ {0}
    BY <1>1, LanesAssumption DEF Lanes
  <2>2. rate[l] \in Nat \ {0}
    BY <1>1 DEF LaneTypes, Control
  <2>3. QED
    BY <2>1, <2>2, Zenon
<1>3. /\ served' = [served EXCEPT ![l] = Min({served[l] + 1, Evidence})]
      /\ \E r \in m \cup {rate[l]} : rate' = [rate EXCEPT ![l] = r]
      /\ best_solo' = IF NLanes = 1 /\ inflight'[l] = 0 THEN Max({best_solo, rate'[l]})
                                                        ELSE best_solo
      /\ parked' = parked /\ parkedFor' = parkedFor
  BY DEF SettleBooks
<1> HIDE DEF l
<1>4. /\ parked \in [Lanes -> BOOLEAN] /\ parkedFor \in [Lanes -> 0 .. Reprobe]
      /\ rate \in [Lanes -> Nat \ {0}] /\ served \in [Lanes -> 0 .. Evidence]
      /\ best_solo \in Nat \ {0} /\ ~parked[1]
  BY Zenon DEF LaneTypes, Control
<1>5. rate' \in [Lanes -> Nat \ {0}]
  <2>1. PICK r \in m \cup {rate[l]} : rate' = [rate EXCEPT ![l] = r]
    BY <1>3, Zenon
  <2>2. r \in Nat \ {0}
    BY <1>2
  <2>3. QED
    BY <1>4, <2>1, <2>2, Update, Zenon
<1>6. served' \in [Lanes -> 0 .. Evidence]
  <2> DEFINE n == Min({served[l] + 1, Evidence})
  <2>1. Evidence \in Nat
    BY LanesAssumption
  <2>2. served[l] + 1 \in Nat
    BY <1>1, <1>4
  <2>3. n \in {served[l] + 1, Evidence} /\ n <= Evidence
    BY <2>1, <2>2, SmallerOfTwo
  <2>4. n \in 0 .. Evidence
    BY <2>1, <2>2, <2>3
  <2> HIDE DEF n
  <2>5. served' = [served EXCEPT ![l] = n]
    BY <1>3 DEF n
  <2>6. QED
    BY <1>4, <2>4, <2>5, Update, Zenon
<1>7. best_solo' \in Nat \ {0}
  <2>1. rate'[l] \in Nat \ {0}
    BY <1>1, <1>5
  <2>2. best_solo \in Nat /\ rate'[l] \in Nat
    BY <1>4, <2>1
  <2>3. Max({best_solo, rate'[l]}) \in {best_solo, rate'[l]}
    BY <2>2, GreaterOfTwo, Zenon
  <2>4. QED
    BY <1>3, <1>4, <2>1, <2>3
<1>8. QED
  BY <1>3, <1>4, <1>5, <1>6, <1>7, Zenon DEF Control

\* The controller's books keep their types, and judge parks extras only.
LEMMA ControlStep == LaneTypes /\ [Next]_vars => Control'
<1> SUFFICES ASSUME LaneTypes, [Next]_vars PROVE Control'
  OBVIOUS
<1>1. /\ parked \in [Lanes -> BOOLEAN] /\ parkedFor \in [Lanes -> 0 .. Reprobe]
      /\ rate \in [Lanes -> Nat \ {0}] /\ served \in [Lanes -> 0 .. Evidence]
      /\ best_solo \in Nat \ {0} /\ ~parked[1]
  BY Zenon DEF LaneTypes, Control
<1>2. NLanes \in Nat \ {0} /\ 1 \in Lanes /\ Reprobe \in Nat /\ Evidence \in Nat
  BY LanesAssumption DEF Lanes
<1>3. ASSUME UNCHANGED controlVars PROVE Control'
  BY <1>1, <1>3, Zenon DEF controlVars, Control
<1>4. ASSUME NEW h \in Handlers, Settle(h) PROVE Control'
  <2>1. SettleBooks(h, Rates[lane[h]])
    BY <1>4, Zenon DEF Settle
  <2>2. Rates[lane[h]] \subseteq Rates[lane[h]]
    OBVIOUS
  <2>3. QED
    BY <2>1, <2>2, BooksControl, Zenon
<1>5. ASSUME NEW h \in Handlers, SettleFailed(h) PROVE Control'
  <2>1. SettleBooks(h, {})
    BY <1>5, Zenon DEF SettleFailed
  <2>2. {} \subseteq Rates[lane[h]]
    OBVIOUS
  <2>3. QED
    BY <2>1, <2>2, BooksControl, Zenon
<1>6. CASE Judge
  <2>1. /\ served' = ServedNow /\ rate' = rate /\ best_solo' = best_solo
        /\ parked' = [l \in Lanes |-> l \in IF Retreating THEN RetreatSet ELSE StillParked]
        /\ parkedFor' = [l \in Lanes |-> IF Retreating \/ l \in Reprobed THEN 0 ELSE parkedFor[l]]
    BY <1>6, Zenon DEF Judge
  <2>2. ServedNow \in [Lanes -> 0 .. Evidence]
    BY <1>1, <1>2 DEF ServedNow
  <2>3. parkedFor' \in [Lanes -> 0 .. Reprobe]
    BY <1>1, <1>2, <2>1
  <2>4. parked' \in [Lanes -> BOOLEAN] /\ ~parked'[1]
    <3>1. 1 \notin RetreatSet /\ 1 \notin StillParked
      BY <1>2 DEF RetreatSet, StillParked, Extras
    <3> DEFINE P == IF Retreating THEN RetreatSet ELSE StillParked
    <3>2. 1 \notin P /\ parked' = [l \in Lanes |-> l \in P]
      BY <2>1, <3>1, Zenon
    <3> HIDE DEF P
    <3>3. \A l : (l \in P) \in BOOLEAN
      OBVIOUS
    <3>4. parked' \in [Lanes -> BOOLEAN]
      BY <3>2, <3>3, Zenon
    <3>5. parked'[1] = (1 \in P)
      BY <1>2, <3>2, Zenon
    <3>6. QED
      BY <3>2, <3>4, <3>5, Zenon
  <2>5. QED
    BY <1>1, <2>1, <2>2, <2>3, <2>4, Zenon DEF Control
<1>7. CASE Tick
  <2>1. /\ served' = served /\ rate' = rate /\ best_solo' = best_solo /\ parked' = parked
        /\ parkedFor' = [l \in Lanes |-> IF parked[l] THEN Min({parkedFor[l] + 1, Reprobe}) ELSE 0]
    BY <1>7, Zenon DEF Tick
  <2>2. \A l \in Lanes : Min({parkedFor[l] + 1, Reprobe}) \in 0 .. Reprobe
    <3> SUFFICES ASSUME NEW l \in Lanes PROVE Min({parkedFor[l] + 1, Reprobe}) \in 0 .. Reprobe
      OBVIOUS
    <3> DEFINE n == Min({parkedFor[l] + 1, Reprobe})
    <3>1. parkedFor[l] + 1 \in Nat
      BY <1>1
    <3>2. n \in {parkedFor[l] + 1, Reprobe} /\ n <= Reprobe
      BY <1>2, <3>1, SmallerOfTwo
    <3> HIDE DEF n
    <3>3. n \in 0 .. Reprobe
      BY <1>2, <3>1, <3>2
    <3>4. QED
      BY <3>3 DEF n
  <2>3. parkedFor' \in [Lanes -> 0 .. Reprobe]
    BY <1>2, <2>1, <2>2
  <2>4. QED
    BY <1>1, <2>1, <2>3, Zenon DEF Control
<1>8. CASE ReaperStep
  <2>1. UNCHANGED controlVars
    BY <1>8, Zenon DEF ReaperStep, Collect, ReaperDrop, ReaperClosed, BeginDrop, NothingToDrop,
                       EndDrop
  <2>2. QED
    BY <1>3, <2>1
<1>9. ASSUME NEW h \in Handlers, HandlerStep(h) PROVE Control'
  <2>1. CASE UNCHANGED controlVars
    BY <1>3, <2>1
  <2>2. CASE ~UNCHANGED controlVars
    <3>1. Settle(h) \/ SettleFailed(h)
      BY <1>9, <2>2, Zenon DEF HandlerStep, Acquire, Started, ArmLoaded, StartFails, Serve,
                               DropAfterReply, BeginDrop, NothingToDrop, Closed, EndDrop
    <3>2. QED
      BY <1>4, <1>5, <3>1
  <2>3. QED
    BY <2>1, <2>2
<1>10. ASSUME NEW h \in Handlers, NEW k \in Keeps, NEW est \in Budgets, Admit(h, k, est)
       PROVE  Control'
  <2>1. UNCHANGED controlVars
    BY <1>10, Zenon DEF Admit
  <2>2. QED
    BY <1>3, <2>1
<1>11. CASE UNCHANGED vars
  BY <1>3, <1>11, Zenon DEF vars
<1>12. QED
  BY <1>6, <1>7, <1>8, <1>9, <1>10, <1>11, Zenon DEF Next

\* The reaper's list names lanes.
LEMMA CollectType ==
    FlattenSeq([l \in Lanes |-> IF IsDue(l) THEN <<l>> ELSE <<>>]) \in Seq(Lanes)
<1> DEFINE pieces == [l \in Lanes |-> IF IsDue(l) THEN <<l>> ELSE <<>>]
<1>1. \A l \in Lanes : (IF IsDue(l) THEN <<l>> ELSE <<>>) \in Seq(Lanes)
  <2>1. <<>> \in Seq(Lanes) /\ \A l \in Lanes : <<l>> \in Seq(Lanes)
    OBVIOUS
  <2>2. QED
    BY <2>1, Zenon
<1>2. pieces \in [1 .. NLanes -> Seq(Lanes)] /\ NLanes \in Nat
  BY <1>1, LanesAssumption DEF Lanes
<1> HIDE DEF pieces
<1>3. pieces \in Seq(Seq(Lanes))
  BY <1>2, SeqOfFunction, Zenon
<1>4. FlattenSeq(pieces) \in Seq(Lanes)
  BY <1>3, FlattenType
<1>5. QED
  BY <1>4 DEF pieces

\* Every thread stays at a point of its program, on a lane.
LEMMA ThreadsStep == LaneTypes /\ [Next]_vars => Threads'
<1> SUFFICES ASSUME LaneTypes, [Next]_vars PROVE Threads'
  OBVIOUS
<1>1. /\ pc \in [Handlers -> Points] /\ lane \in [Handlers -> Lanes]
      /\ keep \in [Handlers -> Keeps \cup {"default"}] /\ due \in Seq(Lanes)
  BY Zenon DEF LaneTypes, Threads
<1>2. \A p \in {"idle", "queued", "start", "arm", "serve", "settle", "failed", "drop",
               "closing"} : p \in Points
  BY DEF Points
<1>3. ASSUME NEW h \in Handlers, NEW a, NEW b \in Points, Goto(h, a, b)
      PROVE  pc' \in [Handlers -> Points]
  BY <1>1, <1>3, Update, Zenon DEF Goto
<1>4. ASSUME NEW h \in Handlers, NEW a, Leave(h, a)
      PROVE  /\ pc' \in [Handlers -> Points] /\ lane' \in [Handlers -> Lanes]
             /\ keep' \in [Handlers -> Keeps \cup {"default"}]
  <2>1. 1 \in Lanes /\ "default" \in Keeps \cup {"default"} /\ "idle" \in Points
    BY LanesAssumption DEF Lanes, Points
  <2>2. /\ Goto(h, a, "idle") /\ lane' = [lane EXCEPT ![h] = 1]
        /\ keep' = [keep EXCEPT ![h] = "default"]
    BY <1>4, Zenon DEF Leave
  <2>3. pc' \in [Handlers -> Points]
    BY <1>3, <2>1, <2>2, Zenon
  <2>4. lane' \in [Handlers -> Lanes]
    BY <1>1, <2>1, <2>2, Update, Zenon
  <2>5. keep' \in [Handlers -> Keeps \cup {"default"}]
    BY <1>1, <2>1, <2>2, Update, Zenon
  <2>6. QED
    BY <2>3, <2>4, <2>5
<1>5. ASSUME NEW h \in Handlers, HandlerStep(h) PROVE Threads'
  <2>1. due' = due
    BY <1>5, Zenon DEF HandlerStep, Acquire, Started, ArmLoaded, StartFails, Serve, Settle,
                       SettleFailed, SettleBooks, DropAfterReply, Closed
  <2>2. \/ \E a : Leave(h, a)
        \/ UNCHANGED <<lane, keep>> /\ \E a : \E b \in Points : Goto(h, a, b)
    <3>1. CASE Acquire(h)
      <4>1. (IF session[lane[h]] THEN "serve" ELSE "start") \in Points
        BY DEF Points
      <4>2. Goto(h, "queued", IF session[lane[h]] THEN "serve" ELSE "start")
            /\ UNCHANGED <<lane, keep>>
        BY <3>1, Zenon DEF Acquire
      <4>3. QED
        BY <4>1, <4>2, Zenon
    <3>2. CASE ~Acquire(h)
      BY <1>2, <1>5, <3>2, Zenon DEF HandlerStep, Started, ArmLoaded, StartFails, Serve, Settle,
                          SettleFailed, DropAfterReply, Closed
    <3>3. QED
      BY <3>1, <3>2
  <2>3. CASE \E a : Leave(h, a)
    BY <1>1, <1>4, <2>1, <2>3, Zenon DEF Threads
  <2>4. CASE UNCHANGED <<lane, keep>> /\ \E a : \E b \in Points : Goto(h, a, b)
    BY <1>1, <1>3, <2>1, <2>4, Zenon DEF Threads
  <2>5. QED
    BY <2>2, <2>3, <2>4
<1>6. ASSUME NEW h \in Handlers, NEW k \in Keeps, NEW est \in Budgets, Admit(h, k, est)
      PROVE  Threads'
  <2>1. /\ Goto(h, "idle", "queued") /\ lane' = [lane EXCEPT ![h] = Fastest(est)]
        /\ keep' = [keep EXCEPT ![h] = k] /\ due' = due
    BY <1>6, Zenon DEF Admit
  <2>2. Fastest(est) \in Lanes
    <3>1. est \in Nat
      BY LanesAssumption
    <3>2. Comparable
      BY Zenon DEF LaneTypes, Types, Control, Comparable
    <3>3. QED
      BY <3>1, <3>2, FastestIs, Zenon
  <2>3. lane' \in [Handlers -> Lanes]
    BY <1>1, <2>1, <2>2, Update, Zenon
  <2>4. keep' \in [Handlers -> Keeps \cup {"default"}]
    <3>1. k \in Keeps \cup {"default"}
      OBVIOUS
    <3>2. QED
      BY <1>1, <2>1, <3>1, Update, Zenon
  <2>5. pc' \in [Handlers -> Points]
    BY <1>2, <1>3, <2>1, Zenon
  <2>6. QED
    BY <1>1, <2>1, <2>3, <2>4, <2>5, Zenon DEF Threads
<1>7. CASE ReaperStep
  <2>1. UNCHANGED handlerVars
    BY <1>7, Zenon DEF ReaperStep, Collect, ReaperDrop, ReaperClosed
  <2>2. due' \in Seq(Lanes)
    <3>1. CASE Collect
      BY <3>1, CollectType, Zenon DEF Collect
    <3>2. CASE ~Collect
      <4>1. due # <<>> /\ (due' = due \/ due' = Tail(due))
        BY <1>7, <3>2, Zenon DEF ReaperStep, ReaperDrop, ReaperClosed, Reaping
      <4>2. Tail(due) \in Seq(Lanes)
        <5>1. \A s \in Seq(Lanes) : s # <<>> => Tail(s) \in Seq(Lanes)
          OBVIOUS
        <5>2. QED
          BY <1>1, <4>1, <5>1, Zenon
      <4>3. QED
        BY <1>1, <4>1, <4>2, Zenon
    <3>3. QED
      BY <3>1, <3>2
  <2>3. QED
    BY <1>1, <2>1, <2>2, Zenon DEF handlerVars, Threads
<1>8. ASSUME UNCHANGED <<handlerVars, due>> PROVE Threads'
  BY <1>1, <1>8, Zenon DEF handlerVars, Threads
<1>9. CASE Judge \/ Tick \/ UNCHANGED vars
  <2>1. UNCHANGED <<handlerVars, due>>
    BY <1>9, Zenon DEF Judge, Tick, vars
  <2>2. QED
    BY <1>8, <2>1
<1>10. QED
  BY <1>5, <1>6, <1>7, <1>9, Zenon DEF Next

\* The whole type invariant holds at every moment.
THEOREM LanesTyped == Spec => []LaneTypes
<1>1. LaneTypes /\ [Next]_vars => LaneTypes'
  BY TypesStep, ControlStep, ThreadsStep, Zenon DEF LaneTypes
<1>2. QED
  BY <1>1, LaneTypesInit, PTL DEF Spec

\* The types of the shim's shared state, of its threads and of the reaper's list.
THEOREM TypeCorrect == Spec => []TypeOK
<1>1. LaneTypes => TypeOK
  BY Zenon DEF LaneTypes, Types, Control, Threads, Points, TypeOK
<1>2. QED
  BY <1>1, LanesTyped, PTL

\* A parked lane is given no new request: admit chooses among the lanes that
\* are not parked, and judge leaves it one, the first.
THEOREM ParkedIdle == Spec => ParkedGetsNoRequest
<1>1. ASSUME LaneTypes, Next, NEW h \in Handlers, pc[h] = "idle", pc'[h] = "queued"
      PROVE  ~parked[lane'[h]]
  <2>1. PICK g \in Handlers, k \in Keeps, est \in Budgets : Admit(g, k, est)
    <3>1. CASE \E g \in Handlers : HandlerStep(g)
      <4>1. PICK g \in Handlers : HandlerStep(g)
        BY <3>1
      <4>2. \E a \in Points \ {"idle"} : \E b \in Points \ {"queued"} : Goto(g, a, b)
        <5>1. "idle" \notin Points \ {"idle"}
          OBVIOUS
        <5>2. (IF session[lane[g]] THEN "serve" ELSE "start") \in Points \ {"queued"}
          BY DEF Points
        <5>3. \A p \in {"queued", "start", "arm", "serve", "settle", "failed", "drop",
                         "closing"} : p \in Points \ {"idle"}
          BY DEF Points
        <5>4. \A p \in {"idle", "start", "arm", "serve", "settle", "failed", "drop",
                         "closing"} : p \in Points \ {"queued"}
          BY DEF Points
        <5>5. QED
          BY <4>1, <5>2, <5>3, <5>4, Zenon
             DEF HandlerStep, Acquire, Started, ArmLoaded, StartFails, Serve, Settle,
                 SettleFailed, DropAfterReply, Closed, Leave
      <4>3. PICK a \in Points \ {"idle"}, b \in Points \ {"queued"} : Goto(g, a, b)
        BY <4>2
      <4>4. pc' = [pc EXCEPT ![g] = b] /\ pc[g] # "idle" /\ b # "queued" /\ pc \in [Handlers -> Points]
        <5>1. a # "idle" /\ b # "queued"
          OBVIOUS
        <5>2. pc[g] = a /\ pc' = [pc EXCEPT ![g] = b]
          BY <4>3, Zenon DEF Goto
        <5>3. pc \in [Handlers -> Points]
          BY <1>1, Zenon DEF LaneTypes, Threads
        <5>4. QED
          BY <5>1, <5>2, <5>3, Zenon
      <4>5. QED
        BY <1>1, <4>4
    <3>2. CASE ~\E g \in Handlers : HandlerStep(g)
      <4>1. CASE pc' = pc
        BY <1>1, <4>1
      <4>2. CASE pc' # pc
        BY <1>1, <3>2, <4>2, Zenon DEF Next, Tick, Judge, ReaperStep, Collect, ReaperDrop,
                                       ReaperClosed, handlerVars
      <4>3. QED
        BY <4>1, <4>2
    <3>3. QED
      BY <3>1, <3>2
  <2>2. g = h
    <3>1. pc' = [pc EXCEPT ![g] = "queued"] /\ pc \in [Handlers -> Points]
      BY <1>1, <2>1, Zenon DEF Admit, Goto, LaneTypes, Threads
    <3>2. QED
      BY <1>1, <3>1
  <2>3. lane'[h] = Fastest(est)
    <3>1. lane' = [lane EXCEPT ![g] = Fastest(est)] /\ lane \in [Handlers -> Lanes]
      BY <1>1, <2>1, Zenon DEF Admit, LaneTypes, Threads
    <3>2. QED
      BY <2>2, <3>1
  <2>4. Fastest(est) \in Candidates
    <3>1. est \in Nat
      BY LanesAssumption
    <3>2. Comparable
      BY <1>1, Zenon DEF LaneTypes, Types, Control, Comparable
    <3>3. QED
      BY <3>1, <3>2, FastestIs, Zenon
  <2>5. Candidates = {l \in Lanes : ~parked[l]}
    <3>1. 1 \in Lanes /\ ~parked[1]
      BY <1>1, LanesAssumption DEF Lanes, LaneTypes, Control
    <3>2. QED
      BY <3>1 DEF Candidates
  <2>6. QED
    BY <2>3, <2>4, <2>5
<1>2. LaneTypes /\ [Next]_vars =>
        [\A h \in Handlers : pc[h] = "idle" /\ pc'[h] = "queued" => ~parked[lane'[h]]]_vars
  BY <1>1, Zenon
<1>3. QED
  BY <1>2, LanesTyped, PTL DEF Spec, ParkedGetsNoRequest
===============================================================================
