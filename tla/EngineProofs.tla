------------------------------ MODULE EngineProofs ------------------------------
(* Theorems about Engine, for any sizes of the cache, prompts, budgets, chains,  *)
(* numbers of layers and of failures: the tail of a split prefill reads finished *)
(* rows, every chosen token is fed exactly once, the cache and the turn stay     *)
(* within their bounds, a batch turn keeps the conversation it continues, and the *)
(* rows the next token attends to are the conversation's own.                    *)
EXTENDS Engine, TLAPS

-------------------------------------------------------------------------------
(* The split prefill: the event never runs ahead of the queue.                  *)

Pres == [at : 0 .. Layers + 1, gpu_rows : Int, cpu_rows : Int, early : BOOLEAN]
Events == [n : {0, Layers}, failed : BOOLEAN, value : 0 .. Layers]

\* The loop stands before its first layer, at one, or behind the last.
Loop == /\ pre \in Pres /\ event \in Events
        /\ pre.early = FALSE /\ event.failed = FALSE
        /\ event.n = IF pre.at = 0 THEN 0 ELSE Layers
        /\ event.value <= event.n
        /\ pre.at - 1 <= event.value
        /\ pre.at = 0 => pre = NoPre

Command == [layer : 1 .. Layers, value : 1 .. Layers, rows : SUBSET Int, current : BOOLEAN]

\* What is in the queue has not been signalled and comes in the order of its values.
Queued == /\ queue \in Seq(Command)
          /\ \A i \in 1 .. Len(queue) : /\ queue[i].value = queue[i].layer
                                        /\ event.value < queue[i].value
          /\ \A i, j \in 1 .. Len(queue) : i < j => queue[i].value < queue[j].value
          /\ pre.at = 0 => queue = <<>>

\* The inductive invariant, for as long as no prefill was given up on.
InOrder == Loop /\ Queued

\* Somebody waits for every command the GPU still has.
Awaited == \A i \in 1 .. Len(queue) : queue[i].current

LEMMA StartInOrder == HInit => InOrder /\ Awaited
BY LayersAssumption DEF HInit, InOrder, Loop, Queued, NoPre, Pres, Events, Awaited

\* A prefill that begins finds the queue empty and the event at its base.
LEMMA BeginInOrder ==
    ASSUME InOrder, NEW first, NEW g \in Int, NEW r \in Int, HBegin(first, g, r)
    PROVE  InOrder' /\ Awaited'
<1>. USE LayersAssumption DEF InOrder, Pres, Events
<1>. DEFINE cmds == Commands(first .. first + g - 1)
<1>1. pre.at = 0 /\ event.n = 0 /\ event.value = 0 /\ queue = <<>>
  BY DEF HBegin, Loop, Queued, NoPre
<1>2. /\ cmds \in Seq(Command) /\ Len(cmds) = Layers
      /\ \A i \in 1 .. Layers : cmds[i].value = i /\ cmds[i].layer = i
      /\ \A i \in 1 .. Layers : cmds[i].current
  <2>1. first .. first + g - 1 \in SUBSET Int
    OBVIOUS
  <2>2. cmds \in [1 .. Layers -> Command]
    BY <2>1 DEF Commands, Command
  <2>3. cmds \in Seq(Command) /\ Len(cmds) = Layers
    BY <2>2
  <2>. QED BY <2>3 DEF Commands
<1>3. queue' = cmds
  BY <1>1, <1>2 DEF HBegin
<1>4. /\ event' = [n |-> Layers, failed |-> FALSE, value |-> 0]
      /\ pre' = [at |-> 1, gpu_rows |-> g, cpu_rows |-> r, early |-> FALSE]
  BY <1>1 DEF HBegin, Loop
<1>5. Loop'
  BY <1>4 DEF Loop
<1>. HIDE DEF cmds
<1>6. Queued'
  BY <1>2, <1>3, <1>4 DEF Queued
<1>7. Awaited'
  BY <1>2, <1>3 DEF Awaited
<1>. QED BY <1>5, <1>6, <1>7

\* The host takes a layer only when the GPU has finished it.
LEMMA LayerInOrder == InOrder /\ HLayer => InOrder' 
<1> SUFFICES ASSUME InOrder, HLayer PROVE InOrder'
  OBVIOUS
<1>. USE LayersAssumption DEF InOrder
<1>1. pre.at \in 1 .. Layers /\ pre.at <= event.value /\ UNCHANGED <<event, queue>>
  BY DEF HLayer, Signalled
<1>2. ~Unfinished(pre.at)
  <2>1. \A i \in 1 .. Len(queue) : queue[i].layer # pre.at
    BY <1>1 DEF Queued, Loop, Pres, Events
  <2>. QED BY <2>1, Zenon DEF Unfinished
<1>3. pre' = [pre EXCEPT !.at = pre.at + 1, !.early = FALSE]
  <2>1. (pre.early \/ Unfinished(pre.at)) = FALSE
    <3>1. pre.early = FALSE
      BY DEF Loop
    <3>. QED BY <1>2, <3>1
  <2>2. pre' = [pre EXCEPT !.at = pre.at + 1, !.early = pre.early \/ Unfinished(pre.at)]
    BY DEF HLayer
  <2>. QED BY <2>1, <2>2, Zenon
<1>4. pre' \in Pres
  <2>1. pre \in Pres /\ pre.at + 1 \in 0 .. Layers + 1
    BY <1>1 DEF Loop
  <2>. QED BY <1>3, <2>1, Zenon DEF Pres
<1>5. pre'.at = pre.at + 1 /\ pre'.early = FALSE
  BY <1>3 DEF Loop, Pres
<1>6. Loop'
  BY <1>1, <1>4, <1>5 DEF Loop, Pres
<1>7. Queued'
  BY <1>1, <1>5 DEF Queued, Loop, Pres
<1>. QED BY <1>6, <1>7

\* A prefill that succeeded leaves an empty queue and the event at its new base.
LEMMA LeaveInOrder ==
    ASSUME InOrder, NEW ok, HLeave(ok)
    PROVE  InOrder' /\ queue' = <<>>
<1>. USE LayersAssumption DEF InOrder
<1>1. event.failed = FALSE
  BY DEF Loop
<1>2. ok = TRUE
  BY <1>1, Zenon DEF HLeave
<1>3. pre.at > Layers \/ (pre.at >= 1 /\ event.failed)
  BY DEF HLeave
<1>4. pre.at = Layers + 1 /\ event.value = Layers /\ event.n = Layers
  BY <1>1, <1>3 DEF Loop, Pres, Events
<1>5. Len(queue) = 0
  <2>1. Len(queue) \in Nat /\ (Len(queue) # 0 => 1 \in 1 .. Len(queue) /\ queue[1] \in Command)
    BY DEF Queued
  <2>. QED BY <1>4, <2>1 DEF Queued, Command
<1>6. Moved(ok) = Layers
  BY <1>2, <1>4 DEF Moved
<1>7. queue' = <<>>
  BY <1>5 DEF HLeave
<1>8. event' = [event EXCEPT !.n = 0, !.value = @ - Moved(ok)]
  BY DEF HLeave
<1>9. event' = [event EXCEPT !.n = 0, !.value = event.value - Layers] /\ pre' = NoPre
  BY <1>6, <1>8 DEF HLeave
<1>10. event' \in Events
  <2>1. event \in Events /\ event.value - Layers \in 0 .. Layers
    BY <1>4 DEF Loop
  <2>. QED BY <1>9, <2>1, Zenon DEF Events
<1>11. event'.n = 0 /\ event'.failed = FALSE /\ event'.value = 0
  BY <1>1, <1>4, <1>9 DEF Loop, Events
<1>12. pre'.at = 0 /\ pre' \in Pres /\ pre'.early = FALSE
  BY <1>9 DEF NoPre, Pres
<1>13. Loop'
  BY <1>9, <1>10, <1>11, <1>12 DEF Loop
<1>14. Queued'
  BY <1>7, <1>11, <1>12 DEF Queued
<1>. QED BY <1>7, <1>13, <1>14

\* The GPU signals the values in order, and none past the prefill's own.
LEMMA GpuInOrder == InOrder /\ HGpu => InOrder'
<1> SUFFICES ASSUME InOrder, HGpu PROVE InOrder'
  OBVIOUS
<1>. USE LayersAssumption DEF InOrder
<1>0. queue # <<>> /\ queue' = Tail(queue) /\ UNCHANGED pre
  BY DEF HGpu
<1>1. /\ Len(queue) \in Nat \ {0} /\ Head(queue) = queue[1] /\ queue[1] \in Command
      /\ Len(Tail(queue)) = Len(queue) - 1
      /\ \A i \in 1 .. Len(queue) - 1 : Tail(queue)[i] = queue[i + 1]
      /\ Tail(queue) \in Seq(Command)
  BY <1>0 DEF Queued
<1>2. event.value < queue[1].value /\ queue[1].value \in 1 .. Layers
  BY <1>1 DEF Queued, Command
<1>3. event' = [event EXCEPT !.value = queue[1].value]
  <2>1. event' = [event EXCEPT !.value = IF Head(queue).value > event.value THEN Head(queue).value ELSE event.value]
    BY DEF HGpu
  <2>2. (IF Head(queue).value > event.value THEN Head(queue).value ELSE event.value) = queue[1].value
    BY <1>1, <1>2 DEF Loop
  <2>. QED BY <2>1, <2>2, Zenon
<1>4. pre.at # 0
  BY <1>0 DEF Queued
<1>5. Loop'
  <2>1. event' \in Events
    BY <1>2, <1>3 DEF Loop, Events
  <2>2. event'.n = event.n /\ event'.failed = FALSE /\ event'.value = queue[1].value
    BY <1>3 DEF Loop, Events
  <2>. QED BY <1>0, <1>2, <1>4, <2>1, <2>2 DEF Loop, Pres, Events
<1>6. Queued'
  <2>1. \A i \in 1 .. Len(queue') : queue'[i] = queue[i + 1] /\ i + 1 \in 1 .. Len(queue)
    BY <1>0, <1>1
  <2>2. queue' \in Seq(Command)
    BY <1>0, <1>1
  <2>3. \A i \in 1 .. Len(queue') : queue'[i].value = queue'[i].layer /\ queue[1].value < queue'[i].value
    BY <2>1, <1>1 DEF Queued
  <2>4. \A i, j \in 1 .. Len(queue') : i < j => queue'[i].value < queue'[j].value
    BY <2>1, <1>1 DEF Queued
  <2>5. event'.value = queue[1].value
    BY <1>3 DEF Loop, Events
  <2>. QED BY <1>0, <1>4, <2>2, <2>3, <2>4, <2>5 DEF Queued
<1>. QED BY <1>5, <1>6

LEMMA GpuAwaited == InOrder /\ Awaited /\ HGpu => Awaited' /\ LateRows = {}
<1> SUFFICES ASSUME InOrder, Awaited, HGpu PROVE Awaited' /\ LateRows = {}
  OBVIOUS
<1>1. queue \in Seq(Command) /\ queue # <<>> /\ queue' = Tail(queue)
  BY DEF InOrder, Queued, HGpu
<1>2. Len(queue) \in Nat \ {0} /\ Len(Tail(queue)) = Len(queue) - 1 /\ Head(queue) = queue[1]
      /\ \A i \in 1 .. Len(queue) - 1 : Tail(queue)[i] = queue[i + 1]
  BY <1>1
<1>3. Awaited'
  BY <1>1, <1>2 DEF Awaited
<1>4. Head(queue).current
  BY <1>2 DEF Awaited
<1>. QED BY <1>3, <1>4 DEF LateRows

TurnFields == {"kind", "n", "left", "room", "unfed"}

\* The inductive invariant of the split prefill inside the engine.
QueueInv == /\ DOMAIN turn = TurnFields /\ turn.n \in Int
            /\ trust => InOrder /\ Awaited

LEMMA QueueInit == Init => QueueInv
BY StartInOrder DEF Init, QueueInv, TurnFields, NoTurn

LEMMA QueueStep ==
    ASSUME QueueInv, [Next]_vars
    PROVE  QueueInv'
<1>1. ASSUME UNCHANGED <<turn, hvars>>, trust' => trust
      PROVE  QueueInv'
  BY <1>1 DEF QueueInv, InOrder, Loop, Queued, Awaited, hvars
<1>2. ASSUME UNCHANGED hvars, trust' => trust, DOMAIN turn' = TurnFields, turn'.n \in Int
      PROVE  QueueInv'
  BY <1>2 DEF QueueInv, InOrder, Loop, Queued, Awaited, hvars
<1>3. ASSUME NEW r, Account(r) PROVE trust' => trust
  BY <1>3, Zenon DEF Account
<1>4. CASE UNCHANGED vars
  BY <1>1, <1>4 DEF vars, evars
<1>5. CASE Reset
  BY <1>1, <1>5 DEF Reset
<1>6. CASE Rewind
  BY <1>1, <1>6 DEF Rewind
<1>7. ASSUME NEW n \in Prompts, NEW b \in Budgets, StartTurn(n, b) PROVE QueueInv'
  <2>1. \E left, room : turn' = [kind |-> "turn", n |-> n, room |-> room, unfed |-> 0, left |-> left]
    BY <1>7, Zenon DEF StartTurn
  <2>2. UNCHANGED <<trust, hvars>>
    BY <1>7 DEF StartTurn
  <2>. QED BY <1>2, <2>1, <2>2, EngineAssumption DEF TurnFields
<1>8. ASSUME NEW n \in Prompts \cup SessionPrompts, StartPrefill(n) PROVE QueueInv'
  <2>1. turn' = [NoTurn EXCEPT !.kind = "prefill", !.n = n] /\ UNCHANGED <<trust, hvars>>
    BY <1>8, Zenon DEF StartPrefill
  <2>. QED BY <1>2, <2>1, EngineAssumption DEF NoTurn, TurnFields
<1>9. ASSUME NEW n \in Prompts \cup {0}, StartEmbed(n) PROVE QueueInv'
  <2>1. turn' = [NoTurn EXCEPT !.kind = "embed", !.n = n] /\ UNCHANGED <<trust, hvars>>
    BY <1>9, Zenon DEF StartEmbed
  <2>. QED BY <1>2, <2>1, EngineAssumption DEF NoTurn, TurnFields
<1>10. CASE Prompt
  BY <1>1, <1>3, <1>10, Zenon DEF Prompt
<1>11. ASSUME NEW tail \in 1 .. Ctx, SplitPrompt(tail) PROVE QueueInv'
  <2>1. turn.n - tail \in Int /\ tail \in Int
    BY DEF QueueInv
  <2>2. HBegin(k.seen, turn.n - tail, tail) /\ UNCHANGED <<turn, trust>>
    BY <1>11, Zenon DEF SplitPrompt
  <2>. QED BY <2>1, <2>2, BeginInOrder DEF QueueInv
<1>12. CASE TailLayer
  BY <1>12, LayerInOrder DEF TailLayer, HLayer, Awaited, evars, QueueInv
<1>13. CASE TailTimeout
  BY <1>13 DEF TailTimeout, QueueInv
<1>14. CASE EndSplit
  <2>1. UNCHANGED <<turn, trust>> /\ \E ok : HLeave(ok)
    BY <1>14, Zenon DEF EndSplit
  <2>. QED BY <2>1, LeaveInOrder DEF QueueInv, Awaited
<1>15. CASE StopDecoding
  BY <1>1, <1>15 DEF StopDecoding
<1>16. CASE DecodeToken
  <2>1. \E r : Account(r)
    BY <1>16, Zenon DEF DecodeToken
  <2>2. turn' = [turn EXCEPT !.left = @ - 1] /\ UNCHANGED hvars
    BY <1>16, Zenon DEF DecodeToken
  <2>. QED BY <1>2, <1>3, <2>1, <2>2 DEF QueueInv, TurnFields
<1>17. CASE CloseDocument
  BY <1>2, <1>17 DEF CloseDocument, QueueInv, TurnFields
<1>18. CASE CloseTurn
  BY <1>1, <1>3, <1>18, Zenon DEF CloseTurn
<1>19. CASE Step
  BY <1>1, <1>3, <1>19, Zenon DEF Step
<1>20. CASE Choose
  BY <1>2, <1>20 DEF Choose, QueueInv, TurnFields
<1>21. CASE BeginChain
  BY <1>1, <1>21, Zenon DEF BeginChain
<1>22. CASE ChainLands
  BY <1>1, <1>22 DEF ChainLands
<1>23. CASE ChainLost
  BY <1>1, <1>23 DEF ChainLost
<1>24. CASE ChainTold
  BY <1>1, <1>24 DEF ChainTold
<1>25. CASE EndChain
  BY <1>2, <1>25 DEF EndChain, QueueInv, TurnFields
<1>26. CASE FeedLast
  BY <1>1, <1>3, <1>26, Zenon DEF FeedLast
<1>27. ASSUME NEW n \in Budgets, StartSpec(n) PROVE QueueInv'
  <2>1. \E r : Account(r)
    BY <1>27, Zenon DEF StartSpec
  <2>2. turn' = [NoTurn EXCEPT !.kind = "spec", !.left = n - 1] /\ UNCHANGED hvars
    BY <1>27, Zenon DEF StartSpec
  <2>. QED BY <1>2, <1>3, <2>1, <2>2 DEF NoTurn, TurnFields
<1>28. CASE SpecPlain
  <2>1. \E r : Account(r)
    BY <1>28, Zenon DEF SpecPlain
  <2>2. turn' = [turn EXCEPT !.left = @ - 1] /\ UNCHANGED hvars
    BY <1>28, Zenon DEF SpecPlain
  <2>. QED BY <1>2, <1>3, <2>1, <2>2 DEF QueueInv, TurnFields
<1>29. CASE SpecVerify
  <2>1. \E r : Account(r)
    BY <1>29, Zenon DEF SpecVerify
  <2>2. UNCHANGED hvars /\ (UNCHANGED turn \/ \E took : turn' = [turn EXCEPT !.left = @ - took])
    BY <1>29, Zenon DEF SpecVerify
  <2>. QED BY <1>2, <1>3, <2>1, <2>2 DEF QueueInv, TurnFields
<1>30. CASE GpuLayer
  BY <1>30, GpuInOrder, GpuAwaited DEF GpuLayer, QueueInv
<1>. QED BY <1>4, <1>5, <1>6, <1>7, <1>8, <1>9, <1>10, <1>11, <1>12, <1>13, <1>14, <1>15, <1>16, <1>17,
             <1>18, <1>19, <1>20, <1>21, <1>22, <1>23, <1>24, <1>25, <1>26, <1>27, <1>28, <1>29, <1>30, Zenon
         DEF Next

\* The event of one prefill is never signalled by a command of another: the rows of
\* a layer this thread reads are finished (TailReadsFinishedRows), whatever the
\* number of layers and the split, as long as no prefill was given up on.
THEOREM TailReads == Spec => []TailReadsFinishedRows
<1>1. QueueInv => TailReadsFinishedRows
  BY DEF QueueInv, InOrder, Loop, TailReadsFinishedRows
<1>. QED BY QueueInit, QueueStep, <1>1, PTL DEF Spec


-------------------------------------------------------------------------------
(* What the operators of KVMirror do to the bookkeeping.                          *)

CacheFields == {"seen", "uploaded", "from", "valid", "on", "cpu", "gpu", "rec", "lg"}
Cache(e) == /\ DOMAIN e = CacheFields
            /\ e.seen \in Nat /\ e.from \in Int /\ e.valid \in Int

LEMMA CpuRunMoves ==
    ASSUME NEW cc, NEW e, Cache(e), NEW n \in Nat
    PROVE  LET f == CpuRun(cc, e, n)
           IN  Cache(f) /\ f.seen = e.seen + n /\ f.lg = e.seen + n /\ f.uploaded = e.uploaded /\ f.from = e.from
                /\ f.valid = e.valid /\ f.on = e.on
BY DEF Cache, CacheFields, CpuRun

LEMMA UploadMoves ==
    ASSUME NEW e, Cache(e)
    PROVE  LET f == Upload(e) IN Cache(f) /\ f.seen = e.seen /\ f.lg = e.lg /\ f.on = e.on
BY DEF Cache, CacheFields, Upload

LEMMA DownloadMoves ==
    ASSUME NEW e, Cache(e)
    PROVE  /\ Cache(Download(e)) /\ Download(e).seen = e.seen
           /\ Cache(DownloadLost(e)) /\ DownloadLost(e).seen = e.seen
BY DEF Cache, CacheFields, Download, DownloadLost

LEMMA GpuRunMoves ==
    ASSUME NEW e, Cache(e), NEW n \in Nat
    PROVE  LET f == GpuRun(e, n) IN Cache(f) /\ f.seen = e.seen + n /\ f.lg = e.seen + n /\ f.on = e.on
<1>. DEFINE u == Upload(e)
<1>1. Cache(u) /\ u.seen = e.seen /\ u.on = e.on
  BY UploadMoves
<1>. HIDE DEF u
<1>2. LET f == [u EXCEPT !.gpu = GpuRows(@, u.seen, n), !.seen = @ + n, !.lg = u.seen + n]
      IN Cache(f) /\ f.seen = e.seen + n /\ f.lg = e.seen + n /\ f.on = e.on
  BY <1>1 DEF Cache, CacheFields
<1>. QED BY <1>2 DEF GpuRun, u

LEMMA SwitchedMoves ==
    ASSUME NEW cc, NEW e, Cache(e), NEW n
    PROVE  LET f == Switched(cc, e, n) IN Cache(f) /\ f.seen = e.seen /\ f.uploaded = e.uploaded /\ f.from = e.from
                /\ f.valid = e.valid /\ f.cpu = e.cpu /\ f.gpu = e.gpu /\ f.rec = e.rec
BY DEF Cache, CacheFields, Switched

LEMMA OneOnGpuMoves ==
    ASSUME NEW cc, NEW e, Cache(e), NEW r \in OneOnGpu(cc, e)
    PROVE  Cache(r.k) /\ (r.ok => r.k.seen = e.seen + 1 /\ r.k.lg = r.k.seen)
<1>1. Cache(GpuRun(e, 1)) /\ GpuRun(e, 1).seen = e.seen + 1 /\ GpuRun(e, 1).lg = e.seen + 1
  BY GpuRunMoves
<1>2. Cache(Upload(e))
  BY UploadMoves
<1>. DEFINE d == [e EXCEPT !.on = FALSE]  f == CpuRun(cc, d, 1)
<1>3. Cache(d) /\ d.seen = e.seen
  BY DEF Cache, CacheFields
<1>. HIDE DEF d
<1>4. Cache(f) /\ f.seen = e.seen + 1 /\ f.lg = e.seen + 1
  BY <1>3, CpuRunMoves
<1>. HIDE DEF f
<1>5. \/ r = Done(GpuRun(e, 1)) \/ r = Threw(Upload(e), 1) \/ r = Threw(e, 1)
      \/ r = [Done(f) EXCEPT !.fault = 1]
  BY DEF OneOnGpu, d, f
<1>. QED BY <1>1, <1>2, <1>4, <1>5 DEF Done, Threw

LEMMA ForwardMoves ==
    ASSUME NEW cc, NEW e, Cache(e), NEW n \in Nat, NEW m, NEW all, NEW r \in Forward(cc, e, n, m, all)
    PROVE  Cache(r.k) /\ (r.ok => r.k.seen = e.seen + n /\ r.k.lg = r.k.seen)
<1>. DEFINE s == Switched(cc, e, n)
<1>1. Cache(s) /\ s.seen = e.seen
  BY SwitchedMoves
<1>. HIDE DEF s
<1>2. CASE r = Threw(e, 0)
  BY <1>2 DEF Threw
<1>3. CASE n = 1 /\ r \in OneOnGpu(cc, s)
  BY <1>1, <1>3, OneOnGpuMoves
<1>4. CASE r = Done(GpuRun(s, n)) \/ \E i \in 0 .. n - 1 : r = Threw(GpuRun(s, i), 1)
  BY <1>1, <1>4, GpuRunMoves DEF Done, Threw
<1>5. CASE n = 1 /\ r = Done(CpuRun(cc, s, 1))
  BY <1>1, <1>5, CpuRunMoves DEF Done
<1>6. CASE r = Done(CpuRun(cc, Download(s), n))
  BY <1>1, <1>6, DownloadMoves, CpuRunMoves DEF Done
<1>7. CASE r = [Done(CpuRun(cc, DownloadLost(s), n)) EXCEPT !.fault = 1, !.trust = FALSE]
  BY <1>1, <1>7, DownloadMoves, CpuRunMoves DEF Done
<1>. QED BY <1>2, <1>3, <1>4, <1>5, <1>6, <1>7 DEF Forward, s

\* Recurrent layers leave a single token to the CPU.
LEMMA LinearOne ==
    ASSUME NEW cc, NEW e, Cache(e), ~cc.usable, e.seen + 1 <= Ctx, NEW m, NEW r \in Forward(cc, e, 1, m, FALSE)
    PROVE  r.ok /\ r = Done(CpuRun(cc, Switched(cc, e, 1), 1))
<1>1. r = Done(CpuRun(cc, Switched(cc, e, 1), 1))
  BY MirrorAssumption DEF Forward, ShortLoop, Cache
<1>. QED BY <1>1 DEF Done

LEMMA ForwardFits ==
    ASSUME NEW cc, NEW e, Cache(e), NEW n \in Nat, NEW m, NEW all, NEW r \in Forward(cc, e, n, m, all), r.ok
    PROVE  e.seen + n <= Ctx
BY MirrorAssumption DEF Forward, Threw, Cache

LEMMA FreshMoves ==
    ASSUME NEW e, Cache(e)
    PROVE  Cache(Fresh(e)) /\ Fresh(e).seen = SysLen
<1>1. Cache(Cleared(e)) /\ Cleared(e).seen = 0
  BY DEF Cache, CacheFields, Cleared
<1>. QED BY <1>1, CpuRunMoves, EngineAssumption DEF Fresh

LEMMA RewoundMoves ==
    ASSUME NEW e, Cache(e), NEW n \in Nat
    PROVE  Cache(Rewound(e, n)) /\ Rewound(e, n).seen = n
BY DEF Cache, CacheFields, Rewound

LEMMA SplitRunMoves ==
    ASSUME Cache(k), NEW n \in Nat
    PROVE  LET f == SplitRun(n) IN Cache(f) /\ f.seen = k.seen + n /\ f.lg = f.seen
<1>. DEFINE e == CpuRun(c, k, n)
<1>1. Cache(e) /\ e.seen = k.seen + n /\ e.lg = k.seen + n
  BY CpuRunMoves
<1>. HIDE DEF e
<1>2. LET f == IF pre.early THEN [e EXCEPT !.cpu = @ \cap Below(k.seen)] ELSE e
      IN  Cache(f) /\ f.seen = k.seen + n /\ f.lg = f.seen
  BY <1>1 DEF Cache, CacheFields
<1>. QED BY <1>2 DEF SplitRun, e

-------------------------------------------------------------------------------
(* Every chosen token is fed exactly once.                                        *)

ChainFields == {"n", "seen0", "landed", "told", "stop", "lost"}

Shape == /\ c \in Loaded /\ Cache(k) /\ said \in Int /\ boundary \in Int
         /\ DOMAIN turn = TurnFields /\ turn.n \in Nat /\ turn.unfed \in Int
         /\ DOMAIN chain = ChainFields
         /\ chain.seen0 \in Int /\ chain.told \in Nat

\* Where the host holds a token it has put out and not fed, or none.
Counted == /\ pc \in {"idle", "prompt", "split", "decode", "choose", "spec"} => said = k.seen
           /\ pc = "close" => said = k.seen + turn.unfed
           /\ pc = "last" => said = k.seen + 1
           /\ pc = "chain" => said = k.seen + 1 + chain.told
           /\ pc \in {"decode", "choose", "spec"} => k.lg = k.seen
           /\ pc \notin {"close", "idle", "dead"} => turn.unfed = 0
           /\ pc # "chain" => chain.n = 0
           /\ chain.n = 0 => chain.told = 0 /\ chain.landed = 0
           /\ chain.n # 0 => chain.seen0 = k.seen

FedInv == Shape /\ Counted

LEMMA FedInit == Init => FedInv
<1> SUFFICES ASSUME Init PROVE FedInv
  OBVIOUS
<1>1. Cache(Empty) /\ Empty.seen = 0
  BY DEF Empty, Cache, CacheFields
<1>2. Cache(CpuRun(c, Empty, SysLen)) /\ Cache([Empty EXCEPT !.on = TRUE])
  BY <1>1, CpuRunMoves, EngineAssumption DEF Cache, CacheFields
<1>3. Cache(k)
  BY <1>1, <1>2 DEF Init
<1>4. Shape
  BY <1>3 DEF Init, Shape, NoTurn, TurnFields, NoChain, ChainFields, Cache
<1>5. Counted
  BY DEF Init, Counted, NoTurn, NoChain
<1>. QED BY <1>4, <1>5 DEF FedInv

\* The host takes the cache another way and owes nothing.
LEMMA ThrownFed ==
    ASSUME FedInv, NEW e, Cache(e), Thrown(e), UNCHANGED <<c, chain>>, chain.n = 0,
           DOMAIN turn' = TurnFields, turn'.n \in Nat, turn'.unfed \in Int
    PROVE  FedInv'
<1>1. Cache(k') /\ said' = k'.seen /\ pc' \in {"idle", "dead"} /\ boundary' = boundary
  BY FreshMoves DEF Thrown
<1>2. Shape'
  BY <1>1 DEF FedInv, Shape, Cache
<1>3. Counted'
  BY <1>1 DEF FedInv, Counted
<1>. QED BY <1>2, <1>3 DEF FedInv

LEMMA RunMoves ==
    ASSUME Cache(k), NEW n \in Nat, NEW all, NEW r \in Run(n, all)
    PROVE  Cache(r.k) /\ (r.ok => r.k.seen = k.seen + n /\ r.k.lg = r.k.seen)
<1>1. r \in Forward(c, k, n, emb, all)
  BY DEF Run
<1>. QED BY <1>1, ForwardMoves

\* Between turns.
LEMMA CommandFed ==
    ASSUME FedInv, Reset \/ Rewind \/ (\E n \in Prompts \cup {0} : StartEmbed(n))
    PROVE  FedInv'
<1>1. CASE Reset
  <2>1. Cache(k') /\ k'.seen = SysLen /\ said' = SysLen
    BY <1>1, FreshMoves DEF Reset, FedInv, Shape
  <2>. QED BY <1>1, <2>1 DEF Reset, FedInv, Shape, Counted, Idle, Cache
<1>2. CASE Rewind
  <2>1. boundary \in Nat /\ k' = Rewound(k, boundary) /\ said' = boundary
    BY <1>2 DEF Rewind, CanRewind, FedInv, Shape, Cache
  <2>2. Cache(k') /\ k'.seen = boundary
    BY <2>1, RewoundMoves DEF FedInv, Shape
  <2>. QED BY <1>2, <2>1, <2>2 DEF Rewind, FedInv, Shape, Counted, Idle, Cache
<1>3. ASSUME NEW n \in Prompts \cup {0}, StartEmbed(n) PROVE FedInv'
  <2>1. Cache(k') /\ k'.seen = 0 /\ said' = 0
    <3>1. Cache(Cleared(k)) /\ Cleared(k).seen = 0
      BY DEF FedInv, Shape, Cache, CacheFields, Cleared
    <3>. QED BY <1>3, <3>1 DEF StartEmbed
  <2>2. turn' = [NoTurn EXCEPT !.kind = "embed", !.n = n]
    BY <1>3, Zenon DEF StartEmbed
  <2>3. DOMAIN turn' = TurnFields /\ turn'.n \in Nat /\ turn'.unfed = 0
    BY <2>2, EngineAssumption DEF NoTurn, TurnFields
  <2>4. pc = "idle" /\ pc' = "prompt" /\ UNCHANGED <<c, chain, boundary>>
    BY <1>3 DEF StartEmbed, Idle
  <2>. QED BY <2>1, <2>3, <2>4 DEF FedInv, Shape, Counted
<1>. QED BY <1>1, <1>2, <1>3

LEMMA StartTurnFed ==
    ASSUME FedInv, NEW n \in Prompts, NEW b \in Budgets, StartTurn(n, b)
    PROVE  FedInv'
<1>1. Cache(k') /\ said' = k'.seen
  <2>1. pc = "idle" /\ k' = (IF Fits(n, b) THEN k ELSE Fresh(k)) /\ said' = (IF Fits(n, b) THEN said ELSE SysLen)
    BY DEF StartTurn, Idle
  <2>. QED BY <2>1, FreshMoves DEF FedInv, Shape, Counted
<1>2. \E left, room : turn' = [kind |-> "turn", n |-> n, room |-> room, unfed |-> 0, left |-> left]
  BY Zenon DEF StartTurn
<1>3. DOMAIN turn' = TurnFields /\ turn'.n \in Nat /\ turn'.unfed = 0
  BY <1>2, EngineAssumption DEF TurnFields
<1>4. pc = "idle" /\ pc' = "prompt" /\ UNCHANGED <<c, chain, boundary>>
  BY DEF StartTurn, Idle
<1>. QED BY <1>1, <1>3, <1>4 DEF FedInv, Shape, Counted, Cache

LEMMA StartPrefillFed ==
    ASSUME FedInv, NEW n \in Prompts \cup SessionPrompts, StartPrefill(n)
    PROVE  FedInv'
<1>1. Cache(k') /\ said' = k'.seen
  <2>1. pc = "idle" /\ (k' = k \/ k' = Fresh(k)) /\ said' = (IF k' = k THEN said ELSE SysLen)
    BY DEF StartPrefill, Idle
  <2>. QED BY <2>1, FreshMoves DEF FedInv, Shape, Counted
<1>2. turn' = [NoTurn EXCEPT !.kind = "prefill", !.n = n]
  BY Zenon DEF StartPrefill
<1>3. DOMAIN turn' = TurnFields /\ turn'.n \in Nat /\ turn'.unfed = 0
  BY <1>2, EngineAssumption DEF NoTurn, TurnFields
<1>4. pc = "idle" /\ pc' \in {"idle", "prompt"} /\ UNCHANGED <<c, chain>> /\ boundary' \in {k.seen, boundary}
  BY DEF StartPrefill, Idle
<1>. QED BY <1>1, <1>3, <1>4 DEF FedInv, Shape, Counted, Cache

\* The prompt, in one piece and split.
LEMMA PromptedFed ==
    ASSUME FedInv, NEW e, Cache(e), e.seen = k.seen + turn.n, e.lg = e.seen, Prompted(e),
           pc \in {"prompt", "split"}, UNCHANGED <<c, turn, chain>>
    PROVE  FedInv'
<1>1. k' = e /\ said' = said + turn.n /\ pc' \in {"idle", "choose", "decode"}
      /\ boundary' \in {e.seen - HdrLen, boundary}
  BY DEF Prompted
<1>2. Shape'
  BY <1>1, EngineAssumption DEF FedInv, Shape, Cache
<1>3. Counted'
  BY <1>1 DEF FedInv, Shape, Cache, Counted
<1>. QED BY <1>2, <1>3 DEF FedInv

LEMMA PromptFed == FedInv /\ Prompt => FedInv'
<1> SUFFICES ASSUME FedInv, Prompt PROVE FedInv'
  OBVIOUS
<1>1. PICK r \in Run(turn.n, FALSE) : IF r.ok THEN Prompted(r.k) ELSE Thrown(r.k)
  BY Zenon DEF Prompt
<1>2. pc = "prompt" /\ UNCHANGED <<c, turn, chain>>
  BY DEF Prompt
<1>3. Cache(r.k) /\ (r.ok => r.k.seen = k.seen + turn.n /\ r.k.lg = r.k.seen)
  BY RunMoves DEF FedInv, Shape
<1>4. CASE r.ok
  BY <1>1, <1>2, <1>3, <1>4, PromptedFed
<1>5. CASE ~r.ok
  <2>1. chain.n = 0 /\ DOMAIN turn' = TurnFields /\ turn'.n \in Nat /\ turn'.unfed \in Int
    BY <1>2 DEF FedInv, Shape, Counted
  <2>. QED BY <1>1, <1>2, <1>3, <1>5, <2>1, ThrownFed
<1>. QED BY <1>4, <1>5

LEMMA SplitFed ==
    ASSUME FedInv, (\E r \in 1 .. Ctx : SplitPrompt(r)) \/ TailLayer \/ TailTimeout \/ EndSplit
    PROVE  FedInv'
<1>1. ASSUME NEW r, SplitPrompt(r) PROVE FedInv'
  <2>1. Cache(k') /\ k'.seen = k.seen
    BY <1>1, DownloadMoves DEF SplitPrompt, FedInv, Shape
  <2>. QED BY <1>1, <2>1 DEF SplitPrompt, FedInv, Shape, Counted
<1>2. CASE TailLayer
  BY <1>2 DEF TailLayer, evars, FedInv, Shape, Counted
<1>3. CASE TailTimeout
  BY <1>3 DEF TailTimeout, FedInv, Shape, Counted
<1>4. CASE EndSplit
  <2>1. pc = "split" /\ UNCHANGED <<c, turn, chain>> /\ (Prompted(SplitRun(turn.n)) \/ Thrown(k))
    BY <1>4 DEF EndSplit
  <2>2. CASE Prompted(SplitRun(turn.n))
    BY <2>1, <2>2, SplitRunMoves, PromptedFed DEF FedInv, Shape
  <2>3. CASE Thrown(k)
    <3>1. Cache(k) /\ chain.n = 0 /\ DOMAIN turn' = TurnFields /\ turn'.n \in Nat /\ turn'.unfed \in Int
      BY <2>1 DEF FedInv, Shape, Counted
    <3>. QED BY <2>1, <2>3, <3>1, ThrownFed
  <2>. QED BY <2>1, <2>2, <2>3
<1>. QED BY <1>1, <1>2, <1>3, <1>4

\* Decoding on the host: one forward per token, the last of them included.
LEMMA RanFed ==
    ASSUME FedInv, NEW r, Cache(r.k), ~r.ok, Thrown(r.k), UNCHANGED <<c, chain>>, pc # "chain",
           NEW left, turn' = turn \/ turn' = [turn EXCEPT !.left = left]
    PROVE  FedInv'
<1>1. DOMAIN turn' = TurnFields /\ turn'.n \in Nat /\ turn'.unfed \in Int
  BY DEF FedInv, Shape, TurnFields
<1>2. chain.n = 0
  BY DEF FedInv, Counted
<1>. QED BY <1>1, <1>2, ThrownFed

LEMMA DecodeFed == FedInv /\ DecodeToken => FedInv'
<1> SUFFICES ASSUME FedInv, DecodeToken PROVE FedInv'
  OBVIOUS
<1>1. PICK r \in Run(1, FALSE) :
         IF r.ok THEN /\ k' = r.k /\ said' = said + 1
                      /\ pc' = IF turn.left = 1 THEN "close" ELSE "decode"
                      /\ UNCHANGED <<emb, boundary>>
         ELSE Thrown(r.k)
  BY Zenon DEF DecodeToken
<1>2. pc = "decode" /\ UNCHANGED <<c, chain>> /\ turn' = [turn EXCEPT !.left = turn.left - 1]
  BY DEF DecodeToken
<1>3. Cache(r.k) /\ (r.ok => r.k.seen = k.seen + 1 /\ r.k.lg = r.k.seen)
  BY RunMoves DEF FedInv, Shape
<1>4. CASE r.ok
  <2>1. DOMAIN turn' = TurnFields /\ turn'.n = turn.n /\ turn'.unfed = turn.unfed
    BY <1>2 DEF FedInv, Shape, TurnFields
  <2>2. k' = r.k /\ said' = said + 1 /\ pc' \in {"close", "decode"} /\ boundary' = boundary
    BY <1>1, <1>4
  <2>. QED BY <1>2, <1>3, <1>4, <2>1, <2>2 DEF FedInv, Shape, Cache, Counted
<1>5. CASE ~r.ok
  BY <1>1, <1>2, <1>3, <1>5, RanFed
<1>. QED BY <1>4, <1>5

LEMMA CloseFed == FedInv /\ CloseTurn => FedInv'
<1> SUFFICES ASSUME FedInv, CloseTurn PROVE FedInv'
  OBVIOUS
<1>1. PICK r \in Run(CloseLen, FALSE) :
         IF r.ok THEN /\ k' = r.k /\ said' = (said - turn.unfed) + CloseLen
                      /\ pc' = "idle" /\ UNCHANGED <<emb, boundary>>
         ELSE Thrown(r.k)
  BY Zenon DEF CloseTurn
<1>2. pc = "close" /\ UNCHANGED <<c, turn, chain>> /\ CloseLen \in Nat
  BY EngineAssumption DEF CloseTurn
<1>3. Cache(r.k) /\ (r.ok => r.k.seen = k.seen + CloseLen /\ r.k.lg = r.k.seen)
  BY <1>2, RunMoves DEF FedInv, Shape
<1>4. CASE r.ok
  BY <1>1, <1>2, <1>3, <1>4 DEF FedInv, Shape, Cache, Counted
<1>5. CASE ~r.ok
  BY <1>1, <1>2, <1>3, <1>5, RanFed
<1>. QED BY <1>4, <1>5

LEMMA StepFed == FedInv /\ Step => FedInv'
<1> SUFFICES ASSUME FedInv, Step PROVE FedInv'
  OBVIOUS
<1>1. PICK r \in Run(1, FALSE) :
         IF r.ok THEN k' = r.k /\ said' = said + 1 /\ UNCHANGED <<emb, boundary, pc>>
         ELSE Thrown(r.k)
  BY Zenon DEF Step
<1>2. pc = "idle" /\ UNCHANGED <<c, turn, chain>>
  BY DEF Step, Idle
<1>3. Cache(r.k) /\ (r.ok => r.k.seen = k.seen + 1 /\ r.k.lg = r.k.seen)
  BY RunMoves DEF FedInv, Shape
<1>4. CASE r.ok
  BY <1>1, <1>2, <1>3, <1>4 DEF FedInv, Shape, Cache, Counted
<1>5. CASE ~r.ok
  BY <1>1, <1>2, <1>3, <1>5, RanFed
<1>. QED BY <1>4, <1>5

LEMMA LastFed == FedInv /\ FeedLast => FedInv'
<1> SUFFICES ASSUME FedInv, FeedLast PROVE FedInv'
  OBVIOUS
<1>1. PICK r \in Run(1, FALSE) :
         IF r.ok THEN k' = r.k /\ pc' = "close" /\ UNCHANGED <<emb, boundary, said>>
         ELSE Thrown(r.k)
  BY Zenon DEF FeedLast
<1>2. pc = "last" /\ UNCHANGED <<c, turn, chain>>
  BY DEF FeedLast
<1>3. Cache(r.k) /\ (r.ok => r.k.seen = k.seen + 1 /\ r.k.lg = r.k.seen)
  BY RunMoves DEF FedInv, Shape
<1>4. CASE r.ok
  BY <1>1, <1>2, <1>3, <1>4 DEF FedInv, Shape, Cache, Counted
<1>5. CASE ~r.ok
  BY <1>1, <1>2, <1>3, <1>5, RanFed
<1>. QED BY <1>4, <1>5

LEMMA StopFed == FedInv /\ (StopDecoding \/ CloseDocument) => FedInv'
<1>1. FedInv /\ StopDecoding => FedInv'
  BY DEF StopDecoding, FedInv, Shape, Counted
<1>2. FedInv /\ CloseDocument => FedInv'
  <2> SUFFICES ASSUME FedInv, CloseDocument PROVE FedInv'
    OBVIOUS
  <2>1. turn' = [turn EXCEPT !.unfed = 1]
    BY DEF CloseDocument
  <2>2. DOMAIN turn' = TurnFields /\ turn'.n = turn.n /\ turn'.unfed = 1
    BY <2>1 DEF FedInv, Shape, TurnFields
  <2>. QED BY <2>2 DEF CloseDocument, FedInv, Shape, Counted, Cache
<1>. QED BY <1>1, <1>2

-------------------------------------------------------------------------------
(* The chains: every token put out but the last is in the cache when one ends.    *)

LEMMA ChooseFed == FedInv /\ Choose => FedInv'
<1> SUFFICES ASSUME FedInv, Choose PROVE FedInv'
  OBVIOUS
<1>1. pc = "choose" /\ UNCHANGED <<c, chain, boundary>> /\ k' \in {k, Claimed(c, k)}
  BY DEF Choose
<1>2. Cache(k') /\ k'.seen = k.seen /\ k'.lg = k.lg
  BY <1>1 DEF FedInv, Shape, Cache, CacheFields, Claimed
<1>3. turn' \in {turn, [turn EXCEPT !.left = turn.left - 1]}
  BY DEF Choose
<1>4. DOMAIN turn' = TurnFields /\ turn'.n = turn.n /\ turn'.unfed = turn.unfed
  BY <1>3 DEF FedInv, Shape, TurnFields
<1>5. \/ pc' = "chain" /\ said' = said + 1
      \/ pc' \in {"close", "decode"} /\ said' = said
  BY DEF Choose
<1>. QED BY <1>1, <1>2, <1>4, <1>5 DEF FedInv, Shape, Counted, Cache

LEMMA BeginFed == FedInv /\ BeginChain => FedInv'
<1> SUFFICES ASSUME FedInv, BeginChain PROVE FedInv'
  OBVIOUS
<1>. DEFINE n == Least(ChainLen, turn.left)
<1>1. pc = "chain" /\ chain.n = 0 /\ UNCHANGED <<c, turn>>
  BY DEF BeginChain
<1>2. \/ Thrown(k) /\ UNCHANGED chain
      \/ /\ k' = Upload(k) /\ UNCHANGED <<pc, boundary, said>>
         /\ chain' = [NoChain EXCEPT !.n = n, !.seen0 = k.seen]
  BY DEF BeginChain
<1>3. CASE Thrown(k) /\ UNCHANGED chain
  BY <1>1, <1>3, ThrownFed DEF FedInv, Shape
<1>4. CASE /\ k' = Upload(k) /\ UNCHANGED <<pc, boundary, said>>
           /\ chain' = [NoChain EXCEPT !.n = n, !.seen0 = k.seen]
  <2>1. Cache(k') /\ k'.seen = k.seen
    BY <1>4, UploadMoves DEF FedInv, Shape
  <2>2. DOMAIN chain' = ChainFields /\ chain'.seen0 = k.seen /\ chain'.told = 0 /\ chain'.landed = 0
    BY <1>4 DEF NoChain, ChainFields
  <2>. QED BY <1>1, <1>4, <2>1, <2>2 DEF FedInv, Shape, Counted, Cache
<1>. QED BY <1>2, <1>3, <1>4

LEMMA RunsFed == FedInv /\ (ChainLands \/ ChainLost \/ ChainTold) => FedInv'
<1>1. FedInv /\ ChainLands => FedInv'
  <2> SUFFICES ASSUME FedInv, ChainLands PROVE FedInv'
    OBVIOUS
  <2>1. Cache(k') /\ k'.seen = k.seen /\ k'.lg = k.lg
    BY DEF ChainLands, FedInv, Shape, Cache, CacheFields
  <2>2. /\ DOMAIN chain' = ChainFields /\ chain'.n = chain.n /\ chain'.seen0 = chain.seen0
        /\ chain'.told = chain.told /\ chain.n # 0
    BY DEF ChainLands, FedInv, Shape, Counted, ChainFields
  <2>. QED BY <2>1, <2>2 DEF ChainLands, FedInv, Shape, Counted
<1>2. FedInv /\ ChainLost => FedInv'
  <2> SUFFICES ASSUME FedInv, ChainLost PROVE FedInv'
    OBVIOUS
  <2>2. /\ DOMAIN chain' = ChainFields /\ chain'.n = chain.n /\ chain'.seen0 = chain.seen0
        /\ chain'.told = chain.told /\ chain'.landed = chain.landed
    BY DEF ChainLost, FedInv, Shape, ChainFields
  <2>. QED BY <2>2 DEF ChainLost, FedInv, Shape, Counted
<1>3. FedInv /\ ChainTold => FedInv'
  <2> SUFFICES ASSUME FedInv, ChainTold PROVE FedInv'
    OBVIOUS
  <2>1. \/ said' = said + 1 /\ chain' = [chain EXCEPT !.told = chain.told + 1] /\ chain.told < chain.landed
        \/ said' = said /\ chain' = [chain EXCEPT !.stop = TRUE]
    BY DEF ChainTold
  <2>2. /\ DOMAIN chain' = ChainFields /\ chain'.n = chain.n /\ chain'.seen0 = chain.seen0
        /\ chain'.landed = chain.landed
        /\ \/ said' = said + 1 /\ chain'.told = chain.told + 1
           \/ said' = said /\ chain'.told = chain.told
    BY <2>1 DEF FedInv, Shape, ChainFields
  <2>. QED BY <2>1, <2>2 DEF ChainTold, FedInv, Shape, Counted
<1>. QED BY <1>1, <1>2, <1>3

LEMMA EndFed == FedInv /\ EndChain => FedInv'
<1> SUFFICES ASSUME FedInv, EndChain PROVE FedInv'
  OBVIOUS
<1>. DEFINE left == turn.left - (IF chain.stop THEN chain.told + 1 ELSE chain.n)
            rows == k.gpu \cap Below(chain.seen0 + chain.told + 1)
<1>1. /\ pc = "chain" /\ chain.n # 0 /\ UNCHANGED <<c, boundary, said>> /\ chain' = NoChain
      /\ chain.stop \/ chain.told = chain.n
      /\ turn' = [turn EXCEPT !.left = left]
      /\ pc' = AfterChain(chain, left)
      /\ k' = [k EXCEPT !.seen = Advance(chain), !.gpu = rows, !.lg = chain.seen0 + chain.n]
  BY DEF EndChain, FedInv, Counted
<1>. HIDE DEF left, rows
<1>2. DOMAIN turn' = TurnFields /\ turn'.n = turn.n /\ turn'.unfed = turn.unfed
  BY <1>1 DEF FedInv, Shape, TurnFields
<1>3. chain'.n = 0 /\ chain'.seen0 = 0 /\ chain'.told = 0 /\ chain'.landed = 0 /\ DOMAIN chain' = ChainFields
  BY <1>1 DEF NoChain, ChainFields
<1>4. chain.seen0 = k.seen /\ said = k.seen + 1 + chain.told /\ turn.unfed = 0
  BY <1>1 DEF FedInv, Counted
<1>5. Advance(chain) = (IF chain.stop THEN said ELSE said - 1)
  BY <1>1, <1>4 DEF Advance, FedInv, Shape, Cache
<1>6. DOMAIN k' = CacheFields /\ k'.seen = Advance(chain) /\ k'.from = k.from /\ k'.valid = k.valid
  BY <1>1 DEF FedInv, Shape, Cache, CacheFields
<1>7. Cache(k')
  BY <1>4, <1>5, <1>6 DEF FedInv, Shape, Cache
<1>8. \/ chain.stop /\ pc' = "close"
      \/ ~chain.stop /\ pc' \in {"chain", "last"}
  BY <1>1 DEF AfterChain
<1>9. Shape'
  BY <1>1, <1>2, <1>3, <1>7 DEF FedInv, Shape
<1>10. Counted'
  BY <1>1, <1>2, <1>3, <1>4, <1>5, <1>6, <1>8 DEF FedInv, Shape, Counted, Cache
<1>. QED BY <1>9, <1>10 DEF FedInv

-------------------------------------------------------------------------------
(* Speculative decoding: a rejected draft leaves the token before it.             *)

LEMMA SpecFed == FedInv /\ (SpecPlain \/ (\E n \in Budgets : StartSpec(n))) => FedInv'
<1>1. ASSUME FedInv, NEW n \in Budgets, StartSpec(n) PROVE FedInv'
  <2>1. PICK r \in Run(1, FALSE) :
           IF r.ok THEN k' = r.k /\ said' = said + 1 /\ pc' = "spec" /\ UNCHANGED <<emb, boundary>>
           ELSE Thrown(r.k)
    BY <1>1, Zenon DEF StartSpec
  <2>2. pc = "idle" /\ UNCHANGED <<c, chain>> /\ turn' = [NoTurn EXCEPT !.kind = "spec", !.left = n - 1]
    BY <1>1 DEF StartSpec, Idle
  <2>3. Cache(r.k) /\ (r.ok => r.k.seen = k.seen + 1 /\ r.k.lg = r.k.seen)
    BY <1>1, RunMoves DEF FedInv, Shape
  <2>4. DOMAIN turn' = TurnFields /\ turn'.n = 0 /\ turn'.unfed = 0 /\ chain.n = 0
    BY <1>1, <2>2 DEF NoTurn, TurnFields, FedInv, Counted
  <2>5. CASE r.ok
    BY <1>1, <2>1, <2>2, <2>3, <2>4, <2>5 DEF FedInv, Shape, Cache, Counted
  <2>6. CASE ~r.ok
    BY <1>1, <2>1, <2>2, <2>3, <2>4, <2>6, ThrownFed
  <2>. QED BY <2>5, <2>6
<1>2. ASSUME FedInv, SpecPlain PROVE FedInv'
  <2>1. PICK r \in Run(1, FALSE) :
           IF r.ok THEN /\ k' = r.k /\ said' = said + 1
                        /\ pc' = IF turn.left = 1 THEN "idle" ELSE "spec"
                        /\ UNCHANGED <<emb, boundary>>
           ELSE Thrown(r.k)
    BY <1>2, Zenon DEF SpecPlain
  <2>2. pc = "spec" /\ UNCHANGED <<c, chain>> /\ turn' = [turn EXCEPT !.left = turn.left - 1]
    BY <1>2 DEF SpecPlain
  <2>3. Cache(r.k) /\ (r.ok => r.k.seen = k.seen + 1 /\ r.k.lg = r.k.seen)
    BY <1>2, RunMoves DEF FedInv, Shape
  <2>4. CASE r.ok
    <3>1. DOMAIN turn' = TurnFields /\ turn'.n = turn.n /\ turn'.unfed = turn.unfed
      BY <1>2, <2>2 DEF FedInv, Shape, TurnFields
    <3>2. k' = r.k /\ said' = said + 1 /\ pc' \in {"idle", "spec"} /\ boundary' = boundary
      BY <2>1, <2>4
    <3>. QED BY <1>2, <2>2, <2>3, <2>4, <3>1, <3>2 DEF FedInv, Shape, Cache, Counted
  <2>5. CASE ~r.ok
    BY <1>2, <2>1, <2>2, <2>3, <2>5, RanFed
  <2>. QED BY <2>4, <2>5
<1>. QED BY <1>1, <1>2

LEMMA RejectedMoves ==
    ASSUME c \in Loaded, Cache(k), NEW v, Cache(v), k.seen + 2 <= Ctx, NEW e \in Rejected(v)
    PROVE  Cache(e) /\ e.seen = k.seen + 1 /\ e.lg = e.seen
<1>1. CASE ~c.linear
  <2>. DEFINE f == [v EXCEPT !.seen = k.seen + 1, !.cpu = @ \cap Below(k.seen + 1), !.lg = k.seen + 1,
                             !.valid = Least(@, k.seen + 1)]
  <2>1. e = f
    BY <1>1 DEF Rejected
  <2>2. DOMAIN f = CacheFields /\ f.seen = k.seen + 1 /\ f.lg = k.seen + 1 /\ f.from = v.from
        /\ f.valid = Least(v.valid, k.seen + 1)
    BY DEF Cache, CacheFields
  <2>. QED BY <2>1, <2>2 DEF Cache, Least
<1>2. CASE c.linear
  <2>. DEFINE d == [v EXCEPT !.rec = k.rec, !.seen = k.seen, !.cpu = @ \cap Below(k.seen)]
  <2>1. PICK r \in Forward(c, d, 1, emb, FALSE) : e = [r.k EXCEPT !.valid = Least(@, r.k.seen)]
    BY <1>2 DEF Rejected
  <2>2. Cache(d) /\ d.seen = k.seen /\ ~c.usable
    BY <1>2 DEF Cache, CacheFields, Loaded
  <2>. HIDE DEF d
  <2>3. r.ok /\ Cache(r.k) /\ r.k.seen = k.seen + 1 /\ r.k.lg = r.k.seen
    <3>1. k.seen + 1 <= Ctx
      BY MirrorAssumption DEF Cache
    <3>2. r.ok
      BY <2>2, <3>1, LinearOne
    <3>3. 1 \in Nat
      OBVIOUS
    <3>4. (r.ok => r.k.seen = d.seen + 1 /\ r.k.lg = r.k.seen) /\ Cache(r.k)
      BY <2>2, <3>3, ForwardMoves, Zenon
    <3>. QED BY <2>2, <3>2, <3>4
  <2>. QED BY <2>1, <2>3 DEF Cache, CacheFields, Least
<1>. QED BY <1>1, <1>2

LEMMA VerifyFed == FedInv /\ SpecVerify => FedInv'
<1> SUFFICES ASSUME FedInv, SpecVerify PROVE FedInv'
  OBVIOUS
<1>1. PICK r \in Run(2, TRUE) :
         IF ~r.ok THEN Thrown(r.k) /\ UNCHANGED turn
         ELSE \E took \in {1, 2} :
                /\ k' \in (IF took = 2 THEN {r.k} ELSE Rejected(r.k))
                /\ said' = said + took
                /\ turn' = [turn EXCEPT !.left = @ - took]
                /\ pc' = IF turn.left = took THEN "idle" ELSE "spec"
                /\ UNCHANGED <<emb, boundary>>
  BY Zenon DEF SpecVerify
<1>2. pc = "spec" /\ UNCHANGED <<c, chain>> /\ Cache(k) /\ c \in Loaded
  BY DEF SpecVerify, FedInv, Shape
<1>3. Cache(r.k) /\ (r.ok => r.k.seen = k.seen + 2 /\ r.k.lg = r.k.seen)
  BY <1>2, RunMoves
<1>4. CASE ~r.ok
  BY <1>1, <1>2, <1>3, <1>4, RanFed
<1>5. CASE r.ok
  <2>1. PICK took \in {1, 2} :
                /\ k' \in (IF took = 2 THEN {r.k} ELSE Rejected(r.k))
                /\ said' = said + took
                /\ turn' = [turn EXCEPT !.left = turn.left - took]
                /\ pc' = IF turn.left = took THEN "idle" ELSE "spec"
                /\ UNCHANGED <<emb, boundary>>
    BY <1>1, <1>5
  <2>2. k.seen + 2 <= Ctx
    BY <1>2, <1>5, ForwardFits DEF Run
  <2>3. Cache(k') /\ k'.seen = k.seen + took /\ k'.lg = k'.seen
    BY <1>2, <1>3, <1>5, <2>1, <2>2, RejectedMoves
  <2>4. DOMAIN turn' = TurnFields /\ turn'.n = turn.n /\ turn'.unfed = turn.unfed
    BY <2>1 DEF FedInv, Shape, TurnFields
  <2>5. pc' \in {"idle", "spec"} /\ said' = said + took /\ boundary' = boundary
    BY <2>1
  <2>. QED BY <1>2, <2>3, <2>4, <2>5 DEF FedInv, Shape, Counted, Cache
<1>. QED BY <1>4, <1>5

-------------------------------------------------------------------------------
LEMMA FedStep ==
    ASSUME FedInv, [Next]_vars
    PROVE  FedInv'
<1>1. CASE UNCHANGED vars
  BY <1>1 DEF vars, evars, FedInv, Shape, Counted
<1>2. CASE GpuLayer
  <2>1. Cache(k') /\ k'.seen = k.seen /\ k'.lg = k.lg
    BY <1>2 DEF GpuLayer, FedInv, Shape, Cache, CacheFields
  <2>. QED BY <1>2, <2>1 DEF GpuLayer, FedInv, Shape, Counted
<1>3. ASSUME NEW n \in Prompts \cup SessionPrompts, StartPrefill(n) PROVE FedInv'
  BY <1>3, StartPrefillFed
<1>4. (\E n \in IF c.driver = "session" THEN SessionPrompts ELSE Prompts : StartPrefill(n)) => FedInv'
  BY <1>3
<1>. QED BY <1>1, <1>2, <1>4, CommandFed, StartTurnFed, PromptFed, SplitFed, StopFed, DecodeFed, CloseFed,
            StepFed, ChooseFed, BeginFed, RunsFed, EndFed, LastFed, SpecFed, VerifyFed, Zenon DEF Next

\* Through prompts, chains that stop early or run out, rejected drafts, rewinds and
\* failures, the cache holds one row for each token of the conversation when the
\* host chooses the next one (FedExactlyOnce).
THEOREM FedOnce == Spec => []FedExactlyOnce
<1>1. FedInv => FedExactlyOnce
  BY DEF FedInv, Shape, Cache, Counted, FedExactlyOnce
<1>. QED BY FedInit, FedStep, <1>1, PTL DEF Spec

-------------------------------------------------------------------------------
(* The operators of KVMirror keep a cache within its context.                     *)

LEMMA CachesCache == \A e \in Caches : Cache(e) /\ e.seen \in 0 .. Ctx /\ e.lg \in Int
BY MirrorAssumption DEF Caches, Cache, CacheFields, Diverged

LEMMA ExtendTyped ==
    ASSUME NEW rows \in SUBSET (0 .. Ctx - 1), NEW base \in Nat, NEW n \in Nat, base + n <= Ctx, NEW sound
    PROVE  Extend(rows, base, n, sound) \in SUBSET (0 .. Ctx - 1)
<1>1. base .. base + n - 1 \subseteq 0 .. Ctx - 1
  BY MirrorAssumption
<1>2. {p \in rows : p < base} \subseteq 0 .. Ctx - 1
  OBVIOUS
<1>. QED BY <1>1, <1>2, Zenon DEF Extend

LEMMA CpuRunTyped ==
    ASSUME NEW cc, NEW e \in Caches, NEW n \in Nat, e.seen + n <= Ctx
    PROVE  CpuRun(cc, e, n) \in Caches
<1>. DEFINE rows == Extend(e.cpu, e.seen, n, CpuSound(cc, e))
<1>1. rows \in SUBSET (0 .. Ctx - 1)
  BY ExtendTyped DEF Caches
<1>2. CpuRun(cc, e, n) = [e EXCEPT !.cpu = rows, !.rec = IF e.rec = e.seen THEN e.seen + n ELSE Diverged,
                                   !.seen = e.seen + n, !.lg = e.seen + n]
  BY DEF CpuRun
<1>. HIDE DEF rows
<1>3. e.seen + n \in 0 .. Ctx
  BY MirrorAssumption DEF Caches
<1>. QED BY <1>1, <1>2, <1>3 DEF Caches

LEMMA UploadTyped == \A e \in Caches : Upload(e) \in Caches
<1> SUFFICES ASSUME NEW e \in Caches PROVE Upload(e) \in Caches
  OBVIOUS
<1>. DEFINE r0 == Least(e.valid, e.seen)
            rows == (e.gpu \cap Below(r0)) \cup {p \in e.cpu : r0 <= p /\ p < e.seen}
<1>1. rows \in SUBSET (0 .. Ctx - 1)
  BY DEF Caches
<1>2. Upload(e) = IF e.uploaded THEN e
                  ELSE [e EXCEPT !.gpu = rows, !.valid = e.seen, !.uploaded = TRUE, !.from = e.seen]
  BY DEF Upload
<1>. HIDE DEF rows
<1>. QED BY <1>1, <1>2 DEF Caches

LEMMA DownloadTyped == \A e \in Caches : Download(e) \in Caches /\ DownloadLost(e) \in Caches
<1> SUFFICES ASSUME NEW e \in Caches PROVE Download(e) \in Caches /\ DownloadLost(e) \in Caches
  OBVIOUS
<1>. DEFINE kept == e.cpu \cap Below(e.from)
            rows == kept \cup {p \in e.gpu : e.from <= p /\ p < e.seen}
<1>1. rows \in SUBSET (0 .. Ctx - 1) /\ kept \in SUBSET (0 .. Ctx - 1)
  BY DEF Caches
<1>2. /\ Download(e) = IF ~e.uploaded THEN e
                       ELSE [e EXCEPT !.cpu = rows, !.uploaded = FALSE, !.valid = e.seen]
      /\ DownloadLost(e) = [e EXCEPT !.cpu = kept, !.uploaded = FALSE, !.valid = e.seen]
  BY DEF Download, DownloadLost
<1>. HIDE DEF rows, kept
<1>. QED BY <1>1, <1>2 DEF Caches

LEMMA GpuRunTyped ==
    ASSUME NEW e \in Caches, NEW n \in Nat, e.seen + n <= Ctx
    PROVE  GpuRun(e, n) \in Caches
<1>. DEFINE u == Upload(e)  rows == GpuRows(u.gpu, u.seen, n)
<1>1. u \in Caches /\ u.seen = e.seen
  BY CachesCache, UploadTyped, UploadMoves
<1>. HIDE DEF u
<1>2. rows \in SUBSET (0 .. Ctx - 1)
  BY <1>1, ExtendTyped DEF Caches, GpuRows
<1>3. GpuRun(e, n) = [u EXCEPT !.gpu = rows, !.seen = u.seen + n, !.lg = u.seen + n]
  BY DEF GpuRun, u
<1>. HIDE DEF rows
<1>4. u.seen + n \in 0 .. Ctx
  BY <1>1, MirrorAssumption DEF Caches
<1>. QED BY <1>1, <1>2, <1>3, <1>4 DEF Caches

LEMMA SwitchedTyped ==
    ASSUME NEW cc, NEW e \in Caches, NEW n
    PROVE  Switched(cc, e, n) \in Caches
<1>1. PICK b \in BOOLEAN : Switched(cc, e, n) = [e EXCEPT !.on = b]
  BY DEF Switched, Caches
<1>. QED BY <1>1 DEF Caches

\* A call that throws with room for its tokens was failed by the accelerator.
Outcome(r) == r.k \in Caches /\ r.fault \in {0, 1} /\ r.ok \in BOOLEAN

LEMMA OneOnGpuTyped ==
    ASSUME NEW cc, NEW e \in Caches, e.seen + 1 <= Ctx, NEW r \in OneOnGpu(cc, e)
    PROVE  Outcome(r) /\ (~r.ok => r.fault = 1)
<1>. DEFINE d == [e EXCEPT !.on = FALSE]  f == CpuRun(cc, d, 1)
<1>1. GpuRun(e, 1) \in Caches /\ Upload(e) \in Caches
  BY GpuRunTyped, UploadTyped
<1>2. d \in Caches /\ d.seen = e.seen
  BY DEF Caches
<1>. HIDE DEF d
<1>3. f \in Caches
  BY <1>2, CpuRunTyped
<1>. HIDE DEF f
<1>4. \/ r = Done(GpuRun(e, 1)) \/ r = Threw(Upload(e), 1) \/ r = Threw(e, 1)
      \/ r = [Done(f) EXCEPT !.fault = 1]
  BY DEF OneOnGpu, d, f
<1>5. CASE r = Done(GpuRun(e, 1))
  BY <1>1, <1>5 DEF Done, Outcome
<1>6. CASE r = Threw(Upload(e), 1) \/ r = Threw(e, 1)
  <2>1. \A g \in Caches : Outcome(Threw(g, 1)) /\ Threw(g, 1).fault = 1
    BY DEF Threw, Outcome
  <2>. QED BY <1>1, <1>6, <2>1
<1>7. CASE r = [Done(f) EXCEPT !.fault = 1]
  BY <1>3, <1>7 DEF Done, Outcome
<1>. QED BY <1>4, <1>5, <1>6, <1>7

LEMMA ForwardTyped ==
    ASSUME NEW cc, NEW e \in Caches, NEW n \in Nat, NEW m, NEW all, NEW r \in Forward(cc, e, n, m, all)
    PROVE  Outcome(r) /\ (~r.ok /\ 0 < n /\ e.seen + n <= Ctx => r.fault = 1)
<1>. DEFINE s == Switched(cc, e, n)
<1>1. s \in Caches /\ s.seen = e.seen
  BY SwitchedTyped, CachesCache, SwitchedMoves
<1>. HIDE DEF s
<1>2. CASE n = 0 \/ n > Ctx - e.seen
  <2>1. r = Threw(e, 0)
    BY <1>2 DEF Forward
  <2>. QED BY <1>2, <2>1, MirrorAssumption DEF Threw, Outcome, Caches
<1>3. CASE ~(n = 0 \/ n > Ctx - e.seen)
  <2>1. s.seen + n <= Ctx
    BY <1>1, <1>3, MirrorAssumption DEF Caches
  <2>2. CASE n = 1 /\ r \in OneOnGpu(cc, s)
    BY <1>1, <2>1, <2>2, OneOnGpuTyped
  <2>3. CASE r = Done(GpuRun(s, n))
    BY <1>1, <2>1, <2>3, GpuRunTyped DEF Done, Outcome
  <2>4. ASSUME NEW i \in 0 .. n - 1, r = Threw(GpuRun(s, i), 1) PROVE Outcome(r) /\ r.fault = 1
    <3>1. i \in Nat /\ s.seen + i <= Ctx
      BY <1>1, <2>1, MirrorAssumption DEF Caches
    <3>. QED BY <1>1, <2>4, <3>1, GpuRunTyped DEF Threw, Outcome
  <2>5. CASE r = Done(CpuRun(cc, s, n))
    BY <1>1, <2>1, <2>5, CpuRunTyped DEF Done, Outcome
  <2>6. CASE r = Done(CpuRun(cc, Download(s), n))
    BY <1>1, <2>1, <2>6, CachesCache, DownloadTyped, DownloadMoves, CpuRunTyped DEF Done, Outcome
  <2>7. CASE r = [Done(CpuRun(cc, DownloadLost(s), n)) EXCEPT !.fault = 1, !.trust = FALSE]
    BY <1>1, <2>1, <2>7, CachesCache, DownloadTyped, DownloadMoves, CpuRunTyped DEF Done, Outcome
  <2>8. \/ n = 1 /\ r \in OneOnGpu(cc, s)
        \/ r = Done(GpuRun(s, n)) \/ \E i \in 0 .. n - 1 : r = Threw(GpuRun(s, i), 1)
        \/ r = Done(CpuRun(cc, s, n)) \/ r = Done(CpuRun(cc, Download(s), n))
        \/ r = [Done(CpuRun(cc, DownloadLost(s), n)) EXCEPT !.fault = 1, !.trust = FALSE]
    BY <1>3 DEF Forward, s
  <2>. QED BY <2>2, <2>3, <2>4, <2>5, <2>6, <2>7, <2>8
<1>. QED BY <1>2, <1>3

LEMMA FreshTyped == \A e \in Caches : Fresh(e) \in Caches
<1> SUFFICES ASSUME NEW e \in Caches PROVE Fresh(e) \in Caches
  OBVIOUS
<1>1. Cleared(e) \in Caches /\ Cleared(e).seen = 0
  <2>1. 0 \in 0 .. Ctx /\ {} \in SUBSET (0 .. Ctx - 1) /\ FALSE \in BOOLEAN
    BY MirrorAssumption
  <2>. QED BY <2>1 DEF Cleared, Caches
<1>. QED BY <1>1, CpuRunTyped, EngineAssumption DEF Fresh

LEMMA RejectedTyped ==
    ASSUME c \in Loaded, k \in Caches, NEW v \in Caches, k.seen + 2 <= Ctx, NEW e \in Rejected(v)
    PROVE  e \in Caches
<1>0. k.seen \in Nat
  BY CachesCache
<1>1. CASE ~c.linear
  <2>. DEFINE rows == v.cpu \cap Below(k.seen + 1)
  <2>1. e = [v EXCEPT !.seen = k.seen + 1, !.cpu = rows, !.lg = k.seen + 1,
                      !.valid = Least(v.valid, k.seen + 1)]
    BY <1>1 DEF Rejected
  <2>2. rows \in SUBSET (0 .. Ctx - 1) /\ k.seen + 1 \in 0 .. Ctx
    BY <1>0, MirrorAssumption DEF Caches
  <2>3. Least(v.valid, k.seen + 1) \in 0 .. Ctx
    BY <2>2 DEF Caches, Least
  <2>. HIDE DEF rows
  <2>. QED BY <2>1, <2>2, <2>3 DEF Caches
<1>2. CASE c.linear
  <2>. DEFINE rows == v.cpu \cap Below(k.seen)
              d == [v EXCEPT !.rec = k.rec, !.seen = k.seen, !.cpu = rows]
  <2>1. PICK r \in Forward(c, d, 1, emb, FALSE) : e = [r.k EXCEPT !.valid = Least(r.k.valid, r.k.seen)]
    BY <1>2 DEF Rejected
  <2>2. rows \in SUBSET (0 .. Ctx - 1)
    BY DEF Caches
  <2>. HIDE DEF rows
  <2>3. d \in Caches
    BY <2>2 DEF Caches
  <2>. HIDE DEF d
  <2>4. r.k \in Caches
    BY <2>3, ForwardTyped DEF Outcome
  <2>5. Least(r.k.valid, r.k.seen) \in 0 .. Ctx
    BY <2>4 DEF Caches, Least
  <2>. QED BY <2>1, <2>4, <2>5 DEF Caches
<1>. QED BY <1>1, <1>2

-------------------------------------------------------------------------------
(* Types: the cache within its context, the turn within its budget, the chain      *)
(* within the turn, and the room a batch turn was promised.                        *)

Places == {"idle", "prompt", "split", "decode", "close", "choose", "chain", "last", "spec", "dead"}

CacheTypes == /\ k \in Caches /\ emb \in BOOLEAN /\ trust \in BOOLEAN /\ faults \in 0 .. MaxFaults
              /\ boundary \in {-1} \cup 0 .. Ctx
              /\ pc \in Places
              /\ pc = "dead" => said \in Nat

\* A turn that decodes has a token of its budget left, and one that is split fits;
\* only the interactive program chooses its first token for a chain.
TurnTypes == /\ turn.left \in Nat /\ turn.room \in Int /\ turn.unfed \in {0, 1}
             /\ turn.kind = "turn" => turn.n \in Prompts
             /\ pc \in {"decode", "choose", "spec", "chain"} => turn.left >= 1
             /\ pc \in {"prompt", "split"} /\ turn.kind = "turn" => turn.left >= 1
             /\ pc = "split" => k.seen + turn.n <= Ctx
             /\ pc \in {"choose", "chain", "last"} => c.driver = "chat"

ChainTypes == /\ chain.n \in Nat /\ chain.landed \in 0 .. chain.n /\ chain.told \in 0 .. chain.landed
              /\ chain.stop => chain.told < chain.landed
              /\ chain.n # 0 => chain.seen0 + chain.n <= Ctx /\ chain.n <= turn.left

\* What is left of a batch turn's budget, and the tokens that close it, still fit.
RoomLeft == c.driver = "batch" /\ turn.room > 0 =>
              /\ pc \in {"prompt", "split"} => k.seen + turn.n + turn.left + CloseLen <= Ctx
              /\ pc = "decode" => k.seen + turn.left + CloseLen <= Ctx
              /\ pc = "close" => k.seen + CloseLen <= Ctx

TypeInv == CacheTypes /\ TurnTypes /\ ChainTypes /\ RoomLeft

LEMMA TypeInit == Init => TypeInv
<1> SUFFICES ASSUME Init PROVE TypeInv
  OBVIOUS
<1>1. /\ 0 \in 0 .. Ctx /\ {} \in SUBSET (0 .. Ctx - 1) /\ FALSE \in BOOLEAN /\ TRUE \in BOOLEAN
      /\ 0 \in 0 .. MaxFaults /\ -1 \in {-1} \cup 0 .. Ctx
  BY MirrorAssumption, EngineAssumption
<1>2. Empty \in Caches /\ [Empty EXCEPT !.on = TRUE] \in Caches /\ Empty.seen = 0
  BY <1>1 DEF Empty, Caches
<1>3. CpuRun(c, Empty, SysLen) \in Caches
  BY <1>2, CpuRunTyped, EngineAssumption
<1>4. k \in Caches
  BY <1>2, <1>3, Zenon DEF Init
<1>5. emb = FALSE /\ pc = "idle" /\ turn = NoTurn /\ chain = NoChain /\ boundary = -1 /\ trust = TRUE /\ faults = 0
  BY DEF Init
<1>6. CacheTypes
  BY <1>1, <1>4, <1>5 DEF CacheTypes, Places
<1>7. TurnTypes /\ ChainTypes /\ RoomLeft
  BY <1>5 DEF TurnTypes, ChainTypes, RoomLeft, NoTurn, NoChain
<1>. QED BY <1>6, <1>7 DEF TypeInv

LEMMA RunTyped ==
    ASSUME CacheTypes, NEW n \in Nat, NEW all, NEW r \in Run(n, all), Account(r)
    PROVE  /\ Outcome(r) /\ faults' \in 0 .. MaxFaults /\ trust' \in BOOLEAN
           /\ ~r.ok /\ 0 < n /\ k.seen + n <= Ctx => faults' > faults
<1>1. r \in Forward(c, k, n, emb, all) /\ faults + r.fault <= MaxFaults
  BY DEF Run
<1>2. Outcome(r) /\ (~r.ok /\ 0 < n /\ k.seen + n <= Ctx => r.fault = 1)
  BY <1>1, ForwardTyped DEF CacheTypes
<1>3. faults \in Nat /\ MaxFaults \in Nat
  BY EngineAssumption DEF CacheTypes
<1>4. faults' = faults + r.fault /\ r.fault \in {0, 1}
  BY <1>2 DEF Account, Outcome
<1>5. trust' \in BOOLEAN
  BY DEF Account
<1>. QED BY <1>1, <1>2, <1>3, <1>4, <1>5

LEMMA ThrownTyped ==
    ASSUME CacheTypes, NEW e \in Caches, Thrown(e), faults' \in 0 .. MaxFaults, trust' \in BOOLEAN
    PROVE  CacheTypes' /\ pc' \in {"idle", "dead"}
<1>1. k' \in {e, Fresh(e)} /\ said' = k'.seen /\ pc' \in {"idle", "dead"} /\ UNCHANGED <<emb, boundary>>
  BY DEF Thrown
<1>2. k' \in Caches /\ said' \in Nat
  BY <1>1, FreshTyped, CachesCache
<1>. QED BY <1>1, <1>2 DEF CacheTypes, Places

\* A step that keeps a cache keeps the types.
LEMMA KeptTyped ==
    ASSUME CacheTypes, k' \in Caches, emb' = emb, boundary' = boundary, pc' \in Places,
           pc' # "dead", faults' \in 0 .. MaxFaults, trust' \in BOOLEAN
    PROVE  CacheTypes'
BY DEF CacheTypes

LEMMA PromptedTyped ==
    ASSUME CacheTypes, TurnTypes, c \in Loaded, NEW e \in Caches, e.seen = k.seen + turn.n, Prompted(e),
           faults' \in 0 .. MaxFaults, trust' \in BOOLEAN
    PROVE  CacheTypes' /\ pc' \in {"idle", "choose", "decode"}
<1>1. k' = e /\ emb' = (emb /\ turn.kind # "embed")
      /\ boundary' = (IF turn.kind = "turn" /\ c.driver = "batch" THEN e.seen - HdrLen ELSE boundary)
      /\ pc' \in {"idle", "choose", "decode"}
  BY DEF Prompted
<1>2. emb' \in BOOLEAN
  BY <1>1
<1>3. boundary' \in {-1} \cup 0 .. Ctx
  <2>1. CASE turn.kind = "turn" /\ c.driver = "batch"
    <3>1. turn.n \in Prompts /\ HdrLen \in Nat /\ turn.n \in Nat /\ HdrLen <= turn.n
      BY <2>1, EngineAssumption, HeaderAssumption DEF TurnTypes
    <3>2. k.seen \in 0 .. Ctx /\ e.seen \in 0 .. Ctx
      BY CachesCache DEF CacheTypes
    <3>3. e.seen - HdrLen \in 0 .. Ctx
      BY <3>1, <3>2, MirrorAssumption
    <3>. QED BY <1>1, <2>1, <3>3
  <2>2. CASE ~(turn.kind = "turn" /\ c.driver = "batch")
    BY <1>1, <2>2 DEF CacheTypes
  <2>. QED BY <2>1, <2>2
<1>4. k' \in Caches /\ pc' \in Places /\ pc' # "dead"
  BY <1>1 DEF Places
<1>. QED BY <1>1, <1>2, <1>3, <1>4 DEF CacheTypes

\* A forward of n tokens that either goes on with the cache it returns or is thrown.
LEMMA RanTyped ==
    ASSUME CacheTypes, NEW n \in Nat, NEW all, NEW r \in Run(n, all), Account(r),
           IF r.ok THEN k' = r.k /\ UNCHANGED <<emb, boundary>> /\ pc' \in Places \ {"dead"} ELSE Thrown(r.k)
    PROVE  CacheTypes' /\ (~r.ok => pc' \in {"idle", "dead"})
<1>1. Outcome(r) /\ faults' \in 0 .. MaxFaults /\ trust' \in BOOLEAN
  BY RunTyped
<1>2. CASE r.ok
  BY <1>1, <1>2, KeptTyped DEF Outcome
<1>3. CASE ~r.ok
  BY <1>1, <1>3, ThrownTyped DEF Outcome
<1>. QED BY <1>2, <1>3

LEMMA CacheTypesStep ==
    ASSUME FedInv, TypeInv, [Next]_vars
    PROVE  CacheTypes'
<1>. USE DEF TypeInv
<1>a. c \in Loaded /\ Cache(k) /\ turn.n \in Nat
  BY DEF FedInv, Shape
<1>b. k \in Caches /\ faults \in 0 .. MaxFaults /\ trust \in BOOLEAN /\ faults \in Nat /\ MaxFaults \in Nat
  BY EngineAssumption DEF CacheTypes
<1>c. {"idle", "prompt", "split", "decode", "close", "choose", "chain", "last", "spec"} = Places \ {"dead"}
  BY DEF Places
<1>d. 1 \in Nat /\ 2 \in Nat /\ CloseLen \in Nat /\ FALSE \in BOOLEAN /\ TRUE \in BOOLEAN
  BY EngineAssumption
\* A step that leaves the accelerator and the cache's place alone.
<1>e. ASSUME k' \in Caches, UNCHANGED <<emb, boundary, trust, faults>>, pc' \in Places \ {"dead"}
      PROVE  CacheTypes'
  BY <1>b, <1>e, KeptTyped
<1>1. CASE UNCHANGED vars
  BY <1>1 DEF vars, evars, CacheTypes
<1>2. CASE Reset
  BY <1>2, <1>b, <1>c, <1>e, FreshTyped DEF Reset, Idle
<1>3. CASE Rewind
  <2>1. boundary \in 0 .. k.seen /\ k' = Rewound(k, boundary) /\ pc' = "idle" /\ UNCHANGED <<emb, boundary, trust, faults>>
    BY <1>3 DEF Rewind, CanRewind, Idle
  <2>2. boundary \in 0 .. Ctx /\ 0 \in 0 .. Ctx
    BY <1>b, <2>1, CachesCache, MirrorAssumption
  <2>3. Rewound(k, boundary) \in Caches
    BY <1>b, <1>d, <2>2 DEF Rewound, Caches
  <2>. QED BY <1>c, <1>e, <2>1, <2>3
<1>4. ASSUME NEW n \in Prompts, NEW b \in Budgets, StartTurn(n, b) PROVE CacheTypes'
  <2>1. k' \in {k, Fresh(k)} /\ pc' = "prompt" /\ UNCHANGED <<emb, boundary, trust, faults>>
    BY <1>4 DEF StartTurn
  <2>. QED BY <1>b, <1>c, <1>e, <2>1, FreshTyped
<1>5. ASSUME NEW n \in Prompts \cup SessionPrompts, StartPrefill(n) PROVE CacheTypes'
  <2>1. /\ k' \in {k, Fresh(k)} /\ pc' \in {"idle", "prompt"} /\ UNCHANGED <<emb, trust, faults>>
        /\ boundary' \in {k.seen, boundary}
    BY <1>5 DEF StartPrefill
  <2>2. k' \in Caches /\ k.seen \in 0 .. Ctx
    BY <1>b, <2>1, FreshTyped, CachesCache
  <2>3. boundary' \in {-1} \cup 0 .. Ctx
    BY <2>1, <2>2 DEF CacheTypes
  <2>. QED BY <1>c, <2>1, <2>2, <2>3 DEF CacheTypes
<1>6. ASSUME NEW n \in Prompts \cup {0}, StartEmbed(n) PROVE CacheTypes'
  <2>1. k' = Cleared(k) /\ emb' = TRUE /\ pc' = "prompt" /\ UNCHANGED <<boundary, trust, faults>>
    BY <1>6 DEF StartEmbed
  <2>2. 0 \in 0 .. Ctx
    BY MirrorAssumption
  <2>3. Cleared(k) \in Caches
    BY <1>b, <1>d, <2>2 DEF Cleared, Caches
  <2>. QED BY <1>c, <1>d, <2>1, <2>3 DEF CacheTypes
<1>7. CASE Prompt
  <2>1. PICK r \in Run(turn.n, FALSE) : Account(r) /\ IF r.ok THEN Prompted(r.k) ELSE Thrown(r.k)
    BY <1>7, Zenon DEF Prompt
  <2>2. Outcome(r) /\ faults' \in 0 .. MaxFaults /\ trust' \in BOOLEAN
    BY <1>a, <2>1, RunTyped
  <2>3. r.ok => r.k.seen = k.seen + turn.n
    BY <1>a, <2>1, RunMoves
  <2>. QED BY <1>a, <2>1, <2>2, <2>3, PromptedTyped, ThrownTyped DEF Outcome
<1>8. ASSUME NEW r, SplitPrompt(r) PROVE CacheTypes'
  BY <1>8, <1>b, <1>c, <1>e, DownloadTyped DEF SplitPrompt
<1>9. CASE TailLayer
  BY <1>9 DEF TailLayer, evars, CacheTypes
<1>10. CASE TailTimeout
  <2>1. UNCHANGED <<k, emb, boundary>> /\ pc' = "split" /\ trust' = FALSE /\ faults' = faults + 1 /\ faults < MaxFaults
    BY <1>10 DEF TailTimeout
  <2>2. trust' \in BOOLEAN
    BY <2>1
  <2>3. faults' \in 0 .. MaxFaults /\ pc' \in Places /\ pc' # "dead"
    BY <1>b, <1>c, <2>1
  <2>. QED BY <1>b, <2>1, <2>2, <2>3, KeptTyped
<1>11. CASE EndSplit
  <2>1. pc = "split" /\ UNCHANGED <<trust, faults>> /\ (Prompted(SplitRun(turn.n)) \/ Thrown(k))
    BY <1>11 DEF EndSplit
  <2>2. CASE Prompted(SplitRun(turn.n))
    <3>. DEFINE e == CpuRun(c, k, turn.n)  rows == e.cpu \cap Below(k.seen)
    <3>1. e \in Caches
      BY <1>a, <1>b, <2>1, CpuRunTyped DEF TurnTypes
    <3>2. rows \in SUBSET (0 .. Ctx - 1)
      BY <3>1 DEF Caches
    <3>3. SplitRun(turn.n) = IF pre.early THEN [e EXCEPT !.cpu = rows] ELSE e
      BY DEF SplitRun
    <3>. HIDE DEF e, rows
    <3>4. SplitRun(turn.n) \in Caches
      BY <3>1, <3>2, <3>3 DEF Caches
    <3>5. SplitRun(turn.n).seen = k.seen + turn.n
      BY <1>a, SplitRunMoves
    <3>. QED BY <1>a, <1>b, <2>1, <2>2, <3>4, <3>5, PromptedTyped
  <2>3. CASE Thrown(k)
    BY <1>b, <2>1, <2>3, ThrownTyped
  <2>. QED BY <2>1, <2>2, <2>3
<1>12. CASE StopDecoding
  BY <1>12, <1>b, <1>c, <1>e DEF StopDecoding
<1>13. CASE DecodeToken
  <2>1. PICK r \in Run(1, FALSE) : Account(r) /\ IF r.ok THEN k' = r.k /\ UNCHANGED <<emb, boundary>> /\ pc' \in {"close", "decode"} ELSE Thrown(r.k)
    <3>1. PICK r \in Run(1, FALSE) : Account(r) /\ IF r.ok THEN k' = r.k /\ said' = said + 1 /\ pc' = (IF turn.left = 1 THEN "close" ELSE "decode") /\ UNCHANGED <<emb, boundary>> ELSE Thrown(r.k)
      BY <1>13, Zenon DEF DecodeToken
    <3>. QED BY <3>1
  <2>. QED BY <1>c, <1>d, <2>1, RanTyped
<1>14. CASE CloseDocument
  BY <1>14, <1>b, <1>c, <1>e DEF CloseDocument
<1>15. CASE CloseTurn
  <2>1. PICK r \in Run(CloseLen, FALSE) : Account(r) /\ IF r.ok THEN k' = r.k /\ UNCHANGED <<emb, boundary>> /\ pc' = "idle" ELSE Thrown(r.k)
    BY <1>15, Zenon DEF CloseTurn
  <2>. QED BY <1>c, <1>d, <2>1, RanTyped
<1>16. CASE Step
  <2>1. PICK r \in Run(1, FALSE) : Account(r) /\ IF r.ok THEN k' = r.k /\ UNCHANGED <<emb, boundary>> /\ pc' = pc ELSE Thrown(r.k)
    BY <1>16, Zenon DEF Step
  <2>2. pc = "idle"
    BY <1>16 DEF Step, Idle
  <2>. QED BY <1>c, <1>d, <2>1, <2>2, RanTyped
<1>17. CASE Choose
  <2>1. k' \in {k, Claimed(c, k)} /\ pc' \in {"chain", "close", "decode"} /\ UNCHANGED <<emb, boundary, trust, faults>>
    BY <1>17 DEF Choose
  <2>2. PICK b \in BOOLEAN : Claimed(c, k) = [k EXCEPT !.on = b]
    BY <1>a, <1>b DEF Claimed, Loaded, Caches
  <2>3. Claimed(c, k) \in Caches
    BY <1>b, <2>2 DEF Caches
  <2>. QED BY <1>b, <1>c, <1>e, <2>1, <2>3
<1>18. CASE BeginChain
  <2>1. \/ Thrown(k) /\ faults' \in {faults, faults + 1} /\ faults' <= MaxFaults /\ trust' = trust
        \/ k' = Upload(k) /\ pc' = "chain" /\ UNCHANGED <<emb, boundary, trust, faults>>
    BY <1>18, <1>b DEF BeginChain
  <2>2. CASE Thrown(k) /\ faults' \in {faults, faults + 1} /\ faults' <= MaxFaults /\ trust' = trust
    BY <1>b, <2>2, ThrownTyped
  <2>3. CASE k' = Upload(k) /\ pc' = "chain" /\ UNCHANGED <<emb, boundary, trust, faults>>
    BY <1>b, <1>c, <1>e, <2>3, UploadTyped
  <2>. QED BY <2>1, <2>2, <2>3
<1>19. CASE ChainLands
  <2>. DEFINE p == chain.seen0 + chain.landed  rows == GpuRows(k.gpu, p, 1)
  <2>1. k' = [k EXCEPT !.gpu = rows] /\ pc' = "chain" /\ UNCHANGED <<emb, boundary, trust, faults>>
    BY <1>19 DEF ChainLands
  <2>2. chain.seen0 = k.seen /\ chain.n # 0
    BY <1>19 DEF ChainLands, FedInv, Counted
  <2>3. p \in Nat /\ p + 1 <= Ctx
    BY <1>19, <1>a, <2>2, MirrorAssumption DEF ChainLands, ChainTypes, Cache
  <2>4. rows \in SUBSET (0 .. Ctx - 1)
    BY <1>b, <2>3, ExtendTyped DEF GpuRows, Caches
  <2>. HIDE DEF rows
  <2>5. k' \in Caches
    BY <1>b, <2>1, <2>4 DEF Caches
  <2>. QED BY <1>c, <1>e, <2>1, <2>5
<1>20. CASE ChainLost
  <2>1. UNCHANGED <<k, emb, boundary, trust>> /\ pc' = "chain" /\ faults' = faults + 1 /\ faults < MaxFaults
    BY <1>20 DEF ChainLost
  <2>. QED BY <1>b, <1>c, <2>1, KeptTyped
<1>21. CASE ChainTold
  BY <1>21, <1>b, <1>c, <1>e DEF ChainTold
<1>22. CASE EndChain
  <2>. DEFINE rows == k.gpu \cap Below(chain.seen0 + chain.told + 1)
  <2>1. /\ chain.n # 0 /\ k' = [k EXCEPT !.seen = Advance(chain), !.gpu = rows, !.lg = chain.seen0 + chain.n]
        /\ pc' \in {"close", "chain", "last"} /\ UNCHANGED <<emb, boundary, trust, faults>>
    BY <1>22 DEF EndChain, AfterChain, ChainTypes
  <2>2. rows \in SUBSET (0 .. Ctx - 1)
    BY <1>b DEF Caches
  <2>3. chain.seen0 = k.seen /\ k.seen \in Nat
    BY <1>a, <2>1 DEF FedInv, Counted, Cache
  <2>4. Advance(chain) \in 0 .. Ctx /\ chain.seen0 + chain.n \in 0 .. Ctx
    BY <2>1, <2>3, MirrorAssumption DEF Advance, ChainTypes
  <2>. HIDE DEF rows
  <2>5. k' \in Caches
    BY <1>b, <2>1, <2>2, <2>4 DEF Caches
  <2>. QED BY <1>c, <1>e, <2>1, <2>5
<1>23. CASE FeedLast
  <2>1. PICK r \in Run(1, FALSE) : Account(r) /\ IF r.ok THEN k' = r.k /\ UNCHANGED <<emb, boundary>> /\ pc' = "close" ELSE Thrown(r.k)
    BY <1>23, Zenon DEF FeedLast
  <2>. QED BY <1>c, <1>d, <2>1, RanTyped
<1>24. ASSUME NEW n \in Budgets, StartSpec(n) PROVE CacheTypes'
  <2>1. PICK r \in Run(1, FALSE) : Account(r) /\ IF r.ok THEN k' = r.k /\ UNCHANGED <<emb, boundary>> /\ pc' = "spec" ELSE Thrown(r.k)
    BY <1>24, Zenon DEF StartSpec
  <2>. QED BY <1>c, <1>d, <2>1, RanTyped
<1>25. CASE SpecPlain
  <2>1. PICK r \in Run(1, FALSE) : Account(r) /\ IF r.ok THEN k' = r.k /\ UNCHANGED <<emb, boundary>> /\ pc' \in {"idle", "spec"} ELSE Thrown(r.k)
    <3>1. PICK r \in Run(1, FALSE) : Account(r) /\ IF r.ok THEN k' = r.k /\ said' = said + 1 /\ pc' = (IF turn.left = 1 THEN "idle" ELSE "spec") /\ UNCHANGED <<emb, boundary>> ELSE Thrown(r.k)
      BY <1>25, Zenon DEF SpecPlain
    <3>. QED BY <3>1
  <2>. QED BY <1>c, <1>d, <2>1, RanTyped
<1>26. CASE SpecVerify
  <2>1. PICK r \in Run(2, TRUE) : Account(r) /\
           IF ~r.ok THEN Thrown(r.k) /\ UNCHANGED turn
           ELSE \E took \in {1, 2} :
                  /\ k' \in (IF took = 2 THEN {r.k} ELSE Rejected(r.k))
                  /\ said' = said + took
                  /\ turn' = [turn EXCEPT !.left = @ - took]
                  /\ pc' = IF turn.left = took THEN "idle" ELSE "spec"
                  /\ UNCHANGED <<emb, boundary>>
    BY <1>26, Zenon DEF SpecVerify
  <2>2. Outcome(r) /\ faults' \in 0 .. MaxFaults /\ trust' \in BOOLEAN
    BY <1>d, <2>1, RunTyped
  <2>3. CASE ~r.ok
    BY <2>1, <2>2, <2>3, ThrownTyped DEF Outcome
  <2>4. CASE r.ok
    <3>1. (k' = r.k \/ k' \in Rejected(r.k)) /\ pc' \in {"idle", "spec"} /\ UNCHANGED <<emb, boundary>>
      BY <2>1, <2>4
    <3>2. k.seen + 2 <= Ctx
      BY <1>a, <1>d, <2>1, <2>4, ForwardFits DEF Run
    <3>3. k' \in Caches
      BY <1>a, <1>b, <2>2, <3>1, <3>2, RejectedTyped DEF Outcome
    <3>. QED BY <1>c, <2>2, <3>1, <3>3, KeptTyped
  <2>. QED BY <2>3, <2>4
<1>27. CASE GpuLayer
  <2>. DEFINE rows == k.cpu \ LateRows
  <2>1. k' = [k EXCEPT !.cpu = rows] /\ UNCHANGED <<emb, pc, boundary, said, trust, faults>>
    BY <1>27 DEF GpuLayer
  <2>2. rows \in SUBSET (0 .. Ctx - 1)
    BY <1>b DEF Caches
  <2>. HIDE DEF rows
  <2>3. k' \in Caches
    BY <1>b, <2>1, <2>2 DEF Caches
  <2>. QED BY <2>1, <2>3 DEF CacheTypes
<1>28. (\E n \in IF c.driver = "session" THEN SessionPrompts ELSE Prompts : StartPrefill(n)) => CacheTypes'
  BY <1>5
<1>. QED BY <1>1, <1>2, <1>3, <1>4, <1>28, <1>6, <1>7, <1>8, <1>9, <1>10, <1>11, <1>12, <1>13, <1>14, <1>15, <1>16,
            <1>17, <1>18, <1>19, <1>20, <1>21, <1>22, <1>23, <1>24, <1>25, <1>26, <1>27, Zenon DEF Next

-------------------------------------------------------------------------------
\* One token of the budget less.
LEMMA LessTyped ==
    ASSUME TurnTypes, DOMAIN turn = TurnFields, NEW j \in {1, 2}, j <= turn.left,
           turn' = [turn EXCEPT !.left = turn.left - j]
    PROVE  /\ turn'.left = turn.left - j /\ turn'.left \in Nat /\ turn'.room = turn.room /\ turn'.room \in Int /\ turn'.unfed = turn.unfed
           /\ turn'.unfed \in {0, 1} /\ turn'.n = turn.n /\ turn'.kind = turn.kind
           /\ turn'.kind = "turn" => turn'.n \in Prompts
BY DEF TurnTypes, TurnFields

LEMMA BudgetTyped ==
    ASSUME NEW b \in Nat \ {0}, NEW room \in Int
    PROVE  Budget(b, room) \in Nat \ {0} /\ (room > 0 => Budget(b, room) <= room)
BY DEF Budget, Most, Least

LEMMA StartTurnTyped ==
    ASSUME FedInv, TypeInv, NEW n \in Prompts, NEW b \in Budgets, StartTurn(n, b)
    PROVE  TurnTypes' /\ RoomLeft'
<1>. DEFINE k0 == IF Fits(n, b) THEN k ELSE Fresh(k)
            room == Ctx - k0.seen - n - CloseLen
            left == IF c.driver = "chat" THEN b ELSE Budget(b, room)
<1>1. /\ k' = k0 /\ pc' = "prompt" /\ UNCHANGED c
      /\ turn' = [kind |-> "turn", n |-> n, room |-> room, unfed |-> 0, left |-> left]
  BY Zenon DEF StartTurn
<1>2. k0.seen \in Int /\ n \in Nat /\ b \in Nat \ {0} /\ Ctx \in Int /\ CloseLen \in Int
  BY FreshMoves, MirrorAssumption, EngineAssumption DEF FedInv, Shape, Cache
<1>. HIDE DEF k0
<1>3. room \in Int
  BY <1>2
<1>4. left \in Nat \ {0} /\ (c.driver = "batch" /\ room > 0 => left <= room)
  BY <1>2, <1>3, BudgetTyped
<1>5. room = Ctx - k0.seen - n - CloseLen
  OBVIOUS
<1>. HIDE DEF room, left
<1>6. /\ turn'.kind = "turn" /\ turn'.n = n /\ turn'.room = room /\ turn'.unfed = 0 /\ turn'.left = left
  BY <1>1
<1>7. TurnTypes'
  BY <1>1, <1>3, <1>4, <1>6 DEF TurnTypes
<1>8. c.driver = "batch" /\ room > 0 => k0.seen + n + left + CloseLen <= Ctx
  BY <1>2, <1>3, <1>4, <1>5
<1>9. RoomLeft'
  BY <1>1, <1>6, <1>8 DEF RoomLeft
<1>. QED BY <1>7, <1>9

LEMMA OtherStartTyped ==
    ASSUME NEW n \in Nat,
           \/ StartPrefill(n) \/ StartEmbed(n)
           \/ n > 0 /\ StartSpec(n)
    PROVE  TurnTypes' /\ RoomLeft'
<1>1. /\ turn'.kind \in {"prefill", "embed", "spec"} /\ turn'.room = 0 /\ turn'.unfed = 0 /\ turn'.left \in Nat
      /\ pc' \in {"prompt", "idle", "dead"} \/ (pc' = "spec" /\ turn'.left >= 1)
  <2>1. CASE StartPrefill(n)
    <3>1. turn' = [NoTurn EXCEPT !.kind = "prefill", !.n = n]
      BY <2>1, Zenon DEF StartPrefill
    <3>2. pc' \in {"prompt", "idle"}
      BY <2>1 DEF StartPrefill
    <3>. QED BY <3>1, <3>2 DEF NoTurn
  <2>2. CASE StartEmbed(n)
    <3>1. turn' = [NoTurn EXCEPT !.kind = "embed", !.n = n] /\ pc' = "prompt"
      BY <2>2, Zenon DEF StartEmbed
    <3>. QED BY <3>1 DEF NoTurn
  <2>3. CASE StartSpec(n)
    <3>1. turn' = [NoTurn EXCEPT !.kind = "spec", !.left = n - 1] /\ n > 1
      BY <2>3, Zenon DEF StartSpec
    <3>2. PICK r : IF r.ok THEN pc' = "spec" ELSE Thrown(r.k)
      BY <2>3, Zenon DEF StartSpec
    <3>3. pc' \in {"spec", "idle", "dead"}
      BY <3>2 DEF Thrown
    <3>. QED BY <3>1, <3>3 DEF NoTurn
  <2>. QED BY <2>1, <2>2, <2>3
<1>3. TurnTypes'
  BY <1>1 DEF TurnTypes
<1>4. RoomLeft'
  BY <1>1 DEF RoomLeft
<1>. QED BY <1>3, <1>4

LEMMA PromptedTurn ==
    ASSUME FedInv, TypeInv, NEW e, e.seen = k.seen + turn.n, Prompted(e), UNCHANGED <<c, turn>>,
           pc \in {"prompt", "split"}
    PROVE  TurnTypes' /\ RoomLeft'
<1>1. k' = e
  BY DEF Prompted
<1>2. \/ pc' = "idle"
      \/ turn.kind = "turn" /\ pc' = "choose" /\ c.driver = "chat"
      \/ turn.kind = "turn" /\ pc' = "decode" /\ c.driver # "chat"
  BY DEF Prompted
<1>3. TurnTypes'
  BY <1>2 DEF TypeInv, TurnTypes
<1>4. RoomLeft'
  BY <1>1, <1>2 DEF TypeInv, RoomLeft
<1>. QED BY <1>3, <1>4

LEMMA EndedTyped ==
    ASSUME pc' \in {"idle", "dead"}, turn'.left \in Nat, turn'.room \in Int, turn'.unfed \in {0, 1},
           turn'.kind = "turn" => turn'.n \in Prompts
    PROVE  TurnTypes' /\ RoomLeft'
BY DEF TurnTypes, RoomLeft

LEMMA SameEnded ==
    ASSUME TypeInv, UNCHANGED turn, pc' \in {"idle", "dead"}
    PROVE  TurnTypes' /\ RoomLeft'
BY EndedTyped DEF TypeInv, TurnTypes

LEMMA ThrownPc == ASSUME NEW e, Thrown(e) PROVE pc' \in {"idle", "dead"}
BY DEF Thrown

LEMMA DecodeTyped == FedInv /\ TypeInv /\ DecodeToken => TurnTypes' /\ RoomLeft'
<1> SUFFICES ASSUME FedInv, TypeInv, DecodeToken PROVE TurnTypes' /\ RoomLeft'
  OBVIOUS
<1>1. PICK r \in Run(1, FALSE) :
         IF r.ok THEN /\ k' = r.k /\ said' = said + 1
                      /\ pc' = IF turn.left = 1 THEN "close" ELSE "decode"
                      /\ UNCHANGED <<emb, boundary>>
         ELSE Thrown(r.k)
  BY Zenon DEF DecodeToken
<1>2. pc = "decode" /\ UNCHANGED <<c, chain>> /\ turn' = [turn EXCEPT !.left = turn.left - 1]
  BY DEF DecodeToken
<1>3. turn.left >= 1 /\ turn.left \in Nat /\ turn.room \in Int /\ k.seen \in Nat
  BY <1>2 DEF TypeInv, TurnTypes, FedInv, Shape, Cache
<1>4. /\ turn'.left = turn.left - 1 /\ turn'.left \in Nat /\ turn'.room = turn.room /\ turn'.room \in Int
      /\ turn'.unfed \in {0, 1} /\ turn'.n = turn.n /\ turn'.kind = turn.kind
      /\ turn'.kind = "turn" => turn'.n \in Prompts
  BY <1>2, <1>3, LessTyped DEF TypeInv, FedInv, Shape
<1>5. CASE ~r.ok
  BY <1>1, <1>4, <1>5, ThrownPc, EndedTyped
<1>6. CASE r.ok
  <2>1. k'.seen = k.seen + 1
    BY <1>1, <1>6, RunMoves DEF FedInv, Shape
  <2>2. \/ pc' = "close" /\ turn.left = 1
        \/ pc' = "decode" /\ turn.left > 1
    BY <1>1, <1>3, <1>6
  <2>3. TurnTypes'
    BY <1>3, <1>4, <2>2 DEF TurnTypes
  <2>4. c.driver = "batch" /\ turn.room > 0 => k.seen + turn.left + CloseLen <= Ctx
    BY <1>2 DEF TypeInv, RoomLeft
  <2>5. RoomLeft'
    BY <1>2, <1>3, <1>4, <2>1, <2>2, <2>4, EngineAssumption, MirrorAssumption DEF RoomLeft
  <2>. QED BY <2>3, <2>5
<1>. QED BY <1>5, <1>6

LEMMA VerifyTyped == FedInv /\ TypeInv /\ SpecVerify => TurnTypes' /\ RoomLeft'
<1> SUFFICES ASSUME FedInv, TypeInv, SpecVerify PROVE TurnTypes' /\ RoomLeft'
  OBVIOUS
<1>1. PICK r \in Run(2, TRUE) :
         IF ~r.ok THEN Thrown(r.k) /\ UNCHANGED turn
         ELSE \E took \in {1, 2} :
                /\ k' \in (IF took = 2 THEN {r.k} ELSE Rejected(r.k))
                /\ said' = said + took
                /\ turn' = [turn EXCEPT !.left = @ - took]
                /\ pc' = IF turn.left = took THEN "idle" ELSE "spec"
                /\ UNCHANGED <<emb, boundary>>
  BY Zenon DEF SpecVerify
<1>2. pc = "spec" /\ turn.left > 1 /\ UNCHANGED c /\ turn.left \in Nat
  BY DEF SpecVerify, TypeInv, TurnTypes
<1>3. CASE ~r.ok
  BY <1>1, <1>3, ThrownPc, SameEnded
<1>4. CASE r.ok
  <2>1. PICK took \in {1, 2} :
           /\ turn' = [turn EXCEPT !.left = turn.left - took]
           /\ pc' = IF turn.left = took THEN "idle" ELSE "spec"
    BY <1>1, <1>4
  <2>2. /\ turn'.left = turn.left - took /\ turn'.left \in Nat /\ turn'.room \in Int
        /\ turn'.unfed \in {0, 1} /\ (turn'.kind = "turn" => turn'.n \in Prompts)
    BY <1>2, <2>1, LessTyped DEF TypeInv, FedInv, Shape
  <2>3. TurnTypes'
    BY <1>2, <2>1, <2>2 DEF TypeInv, TurnTypes
  <2>. QED BY <2>1, <2>3 DEF RoomLeft
<1>. QED BY <1>3, <1>4

LEMMA PlainTyped == FedInv /\ TypeInv /\ SpecPlain => TurnTypes' /\ RoomLeft'
<1> SUFFICES ASSUME FedInv, TypeInv, SpecPlain PROVE TurnTypes' /\ RoomLeft'
  OBVIOUS
<1>1. PICK r \in Run(1, FALSE) :
           IF r.ok THEN /\ k' = r.k /\ said' = said + 1
                        /\ pc' = IF turn.left = 1 THEN "idle" ELSE "spec"
                        /\ UNCHANGED <<emb, boundary>>
           ELSE Thrown(r.k)
  BY Zenon DEF SpecPlain
<1>2. pc = "spec" /\ UNCHANGED c /\ turn' = [turn EXCEPT !.left = turn.left - 1] /\ turn.left \in Nat /\ turn.left >= 1
  BY DEF SpecPlain, TypeInv, TurnTypes
<1>3. /\ turn'.left = turn.left - 1 /\ turn'.left \in Nat /\ turn'.room \in Int
      /\ turn'.unfed \in {0, 1} /\ (turn'.kind = "turn" => turn'.n \in Prompts)
  BY <1>2, LessTyped DEF TypeInv, FedInv, Shape
<1>4. CASE ~r.ok
  BY <1>1, <1>3, <1>4, ThrownPc, EndedTyped
<1>5. CASE r.ok
  <2>1. \/ pc' = "idle"
        \/ pc' = "spec" /\ turn.left # 1
    BY <1>1, <1>5
  <2>2. TurnTypes'
    BY <1>2, <1>3, <2>1 DEF TurnTypes
  <2>. QED BY <2>1, <2>2 DEF RoomLeft
<1>. QED BY <1>4, <1>5

LEMMA EndChainTyped == FedInv /\ TypeInv /\ EndChain => TurnTypes' /\ RoomLeft'
<1> SUFFICES ASSUME FedInv, TypeInv, EndChain PROVE TurnTypes' /\ RoomLeft'
  OBVIOUS
<1>. DEFINE left == turn.left - (IF chain.stop THEN chain.told + 1 ELSE chain.n)
<1>1. /\ pc = "chain" /\ chain.n > 0 /\ chain.landed = chain.n /\ UNCHANGED c
      /\ turn' = [turn EXCEPT !.left = left] /\ pc' = AfterChain(chain, left)
  BY DEF EndChain
<1>2. left \in Nat
  BY <1>1 DEF TypeInv, TurnTypes, ChainTypes
<1>. HIDE DEF left
<1>3. pc' = "close" \/ pc' = "last" \/ (pc' = "chain" /\ left > 0)
  BY <1>1 DEF AfterChain
<1>4. /\ turn'.left = left /\ turn'.room = turn.room /\ turn'.unfed = turn.unfed /\ turn'.n = turn.n /\ turn'.kind = turn.kind
  BY <1>1 DEF FedInv, Shape, TurnFields
<1>5. c.driver = "chat"
  BY <1>1 DEF TypeInv, TurnTypes
<1>6. TurnTypes'
  BY <1>1, <1>2, <1>3, <1>4, <1>5 DEF TypeInv, TurnTypes
<1>7. RoomLeft'
  BY <1>1, <1>5 DEF RoomLeft
<1>. QED BY <1>6, <1>7

LEMMA ChooseTyped == FedInv /\ TypeInv /\ Choose => TurnTypes' /\ RoomLeft'
<1> SUFFICES ASSUME FedInv, TypeInv, Choose PROVE TurnTypes' /\ RoomLeft'
  OBVIOUS
<1>1. pc = "choose" /\ UNCHANGED c
  BY DEF Choose
<1>2. c.driver = "chat" /\ turn.left >= 1
  BY <1>1 DEF TypeInv, TurnTypes
<1>3. \/ pc' = "chain" /\ turn.left > 1 /\ turn' = [turn EXCEPT !.left = turn.left - 1]
      \/ pc' \in {"close", "decode"} /\ turn' = turn
  BY DEF Choose
<1>4. CASE pc' = "chain" /\ turn.left > 1 /\ turn' = [turn EXCEPT !.left = turn.left - 1]
  <2>1. /\ turn'.left = turn.left - 1 /\ turn'.left \in Nat /\ turn'.room \in Int
        /\ turn'.unfed \in {0, 1} /\ (turn'.kind = "turn" => turn'.n \in Prompts)
    BY <1>2, <1>4, LessTyped DEF TypeInv, FedInv, Shape
  <2>2. turn'.left >= 1
    BY <1>4, <2>1 DEF TypeInv, TurnTypes
  <2>3. TurnTypes'
    BY <1>1, <1>2, <1>4, <2>1, <2>2 DEF TurnTypes
  <2>. QED BY <1>1, <1>2, <2>3 DEF RoomLeft
<1>5. CASE pc' \in {"close", "decode"} /\ turn' = turn
  <2>1. TurnTypes'
    BY <1>1, <1>2, <1>5 DEF TypeInv, TurnTypes
  <2>. QED BY <1>1, <1>2, <2>1 DEF RoomLeft
<1>. QED BY <1>3, <1>4, <1>5

LEMMA TurnTypesStep ==
    ASSUME FedInv, TypeInv, [Next]_vars
    PROVE  TurnTypes' /\ RoomLeft'
<1>a. Cache(k) /\ turn.n \in Nat /\ k.seen \in Nat /\ DOMAIN turn = TurnFields /\ turn.left \in Nat
  BY DEF FedInv, Shape, Cache, TypeInv, TurnTypes
\* The host and its turn are where they were.
<1>b. ASSUME UNCHANGED <<c, turn, pc>>, k'.seen = k.seen PROVE TurnTypes' /\ RoomLeft'
  BY <1>b DEF TypeInv, TurnTypes, RoomLeft
<1>1. CASE UNCHANGED vars
  BY <1>1, <1>b DEF vars, evars
<1>2. CASE Reset \/ Rewind
  BY <1>2, SameEnded DEF Reset, Rewind, Idle
<1>3. ASSUME NEW n \in Prompts, NEW b \in Budgets, StartTurn(n, b) PROVE TurnTypes' /\ RoomLeft'
  BY <1>3, StartTurnTyped
<1>4. ASSUME NEW n \in Prompts \cup SessionPrompts, StartPrefill(n) PROVE TurnTypes' /\ RoomLeft'
  BY <1>4, OtherStartTyped, EngineAssumption
<1>5. ASSUME NEW n \in Prompts \cup {0}, StartEmbed(n) PROVE TurnTypes' /\ RoomLeft'
  <2>1. n \in Nat
    BY EngineAssumption
  <2>. QED BY <1>5, <2>1, OtherStartTyped, Zenon
<1>6. CASE Prompt
  <2>1. PICK r \in Run(turn.n, FALSE) : IF r.ok THEN Prompted(r.k) ELSE Thrown(r.k)
    BY <1>6, Zenon DEF Prompt
  <2>2. pc = "prompt" /\ UNCHANGED <<c, turn>>
    BY <1>6 DEF Prompt
  <2>3. r.ok => r.k.seen = k.seen + turn.n
    BY <1>a, RunMoves
  <2>4. CASE r.ok
    BY <2>1, <2>2, <2>3, <2>4, PromptedTurn
  <2>5. CASE ~r.ok
    BY <2>1, <2>2, <2>5, ThrownPc, SameEnded
  <2>. QED BY <2>4, <2>5
<1>7. ASSUME NEW r, SplitPrompt(r) PROVE TurnTypes' /\ RoomLeft'
  <2>1. pc = "prompt" /\ pc' = "split" /\ UNCHANGED <<c, turn>> /\ k' = Download(k) /\ turn.n <= Ctx - k.seen
    BY <1>7 DEF SplitPrompt
  <2>2. k'.seen = k.seen /\ k.seen + turn.n <= Ctx
    BY <1>a, <2>1, DownloadMoves, MirrorAssumption
  <2>3. TurnTypes'
    BY <2>1, <2>2 DEF TypeInv, TurnTypes
  <2>. QED BY <2>1, <2>2, <2>3 DEF TypeInv, RoomLeft
<1>8. CASE TailLayer
  BY <1>8, <1>b DEF TailLayer, evars
<1>9. CASE TailTimeout
  BY <1>9, <1>b DEF TailTimeout
<1>10. CASE EndSplit
  <2>1. pc = "split" /\ UNCHANGED <<c, turn>> /\ (Prompted(SplitRun(turn.n)) \/ Thrown(k))
    BY <1>10 DEF EndSplit
  <2>2. SplitRun(turn.n).seen = k.seen + turn.n
    BY <1>a, SplitRunMoves
  <2>3. CASE Thrown(k)
    BY <2>1, <2>3, ThrownPc, SameEnded
  <2>4. CASE Prompted(SplitRun(turn.n))
    BY <2>1, <2>2, <2>4, PromptedTurn
  <2>. QED BY <2>1, <2>3, <2>4
<1>11. CASE StopDecoding
  <2>1. pc = "decode" /\ pc' = "close" /\ UNCHANGED <<c, k, turn>>
    BY <1>11 DEF StopDecoding
  <2>2. TurnTypes'
    BY <2>1 DEF TypeInv, TurnTypes
  <2>. QED BY <1>a, <2>1, <2>2, EngineAssumption, MirrorAssumption DEF TypeInv, RoomLeft
<1>12. CASE DecodeToken
  BY <1>12, DecodeTyped
<1>13. CASE CloseDocument
  <2>1. pc = "decode" /\ pc' = "close" /\ UNCHANGED <<c, k>> /\ turn' = [turn EXCEPT !.unfed = 1]
    BY <1>13 DEF CloseDocument
  <2>2. /\ turn'.left = turn.left /\ turn'.room = turn.room /\ turn'.unfed = 1 /\ turn'.n = turn.n /\ turn'.kind = turn.kind
    BY <1>a, <2>1 DEF TurnFields
  <2>3. TurnTypes'
    BY <2>1, <2>2 DEF TypeInv, TurnTypes
  <2>. QED BY <1>a, <2>1, <2>2, <2>3, EngineAssumption, MirrorAssumption DEF TypeInv, RoomLeft
<1>14. CASE CloseTurn
  <2>1. UNCHANGED <<c, turn>> /\ \E r : pc' = "idle" \/ Thrown(r.k)
    BY <1>14, Zenon DEF CloseTurn
  <2>. QED BY <2>1, ThrownPc, SameEnded
<1>15. CASE Step
  <2>1. pc = "idle" /\ UNCHANGED <<c, turn>> /\ \E r : pc' = pc \/ Thrown(r.k)
    BY <1>15, Zenon DEF Step, Idle
  <2>. QED BY <2>1, ThrownPc, SameEnded
<1>16. CASE Choose
  BY <1>16, ChooseTyped
<1>17. CASE BeginChain
  <2>1. pc = "chain" /\ UNCHANGED <<c, turn>> /\ (Thrown(k) \/ (k' = Upload(k) /\ pc' = pc))
    BY <1>17 DEF BeginChain
  <2>2. CASE Thrown(k)
    BY <2>1, <2>2, ThrownPc, SameEnded
  <2>3. CASE k' = Upload(k) /\ pc' = pc
    BY <1>a, <1>b, <2>1, <2>3, UploadMoves
  <2>. QED BY <2>1, <2>2, <2>3
<1>18. CASE ChainLands
  <2>1. UNCHANGED <<c, turn, pc>> /\ k'.seen = k.seen
    BY <1>a, <1>18 DEF ChainLands, Cache, CacheFields
  <2>. QED BY <1>b, <2>1
<1>19. CASE ChainLost \/ ChainTold
  BY <1>19, <1>b DEF ChainLost, ChainTold
<1>20. CASE EndChain
  BY <1>20, EndChainTyped
<1>21. CASE FeedLast
  <2>1. pc = "last" /\ UNCHANGED <<c, turn>> /\ \E r : pc' = "close" \/ Thrown(r.k)
    BY <1>21, Zenon DEF FeedLast
  <2>2. c.driver = "chat" /\ pc' \in {"close", "idle", "dead"}
    BY <2>1, ThrownPc DEF TypeInv, TurnTypes
  <2>. QED BY <2>1, <2>2 DEF TypeInv, TurnTypes, RoomLeft
<1>22. ASSUME NEW n \in Budgets, StartSpec(n) PROVE TurnTypes' /\ RoomLeft'
  <2>1. n \in Nat /\ n > 0
    BY EngineAssumption
  <2>. QED BY <1>22, <2>1, OtherStartTyped, Zenon
<1>23. CASE SpecPlain
  BY <1>23, PlainTyped
<1>24. CASE SpecVerify
  BY <1>24, VerifyTyped
<1>25. CASE GpuLayer
  <2>1. UNCHANGED <<c, turn, pc>> /\ k'.seen = k.seen
    BY <1>a, <1>25 DEF GpuLayer, Cache, CacheFields
  <2>. QED BY <1>b, <2>1
<1>26. (\E n \in IF c.driver = "session" THEN SessionPrompts ELSE Prompts : StartPrefill(n)) => TurnTypes' /\ RoomLeft'
  BY <1>4
<1>. QED BY <1>1, <1>2, <1>3, <1>26, <1>5, <1>6, <1>7, <1>8, <1>9, <1>10, <1>11, <1>12, <1>13, <1>14, <1>15, <1>16,
            <1>17, <1>18, <1>19, <1>20, <1>21, <1>22, <1>23, <1>24, <1>25, Zenon DEF Next

LEMMA ChainTypesStep ==
    ASSUME FedInv, TypeInv, [Next]_vars
    PROVE  ChainTypes'
<1>a. DOMAIN chain = ChainFields /\ (pc # "chain" => chain.n = 0) /\ (chain.n = 0 => chain.landed = 0 /\ chain.told = 0)
  BY DEF FedInv, Shape, Counted
<1>b. chain.n \in Nat /\ ChainTypes /\ k.seen \in Nat
  BY DEF TypeInv, ChainTypes, FedInv, Shape, Cache
\* No chain is running, or the turn is as it was.
<1>c. ASSUME UNCHANGED chain, chain.n = 0 \/ UNCHANGED turn PROVE ChainTypes'
  BY <1>b, <1>c DEF ChainTypes
<1>1. CASE UNCHANGED vars
  BY <1>1, <1>c DEF vars, evars
<1>2. CASE BeginChain
  <2>. DEFINE n == Least(ChainLen, turn.left)
  <2>1. \/ UNCHANGED <<chain, turn>>
        \/ UNCHANGED turn /\ k.seen + n <= Ctx /\ chain' = [NoChain EXCEPT !.n = n, !.seen0 = k.seen]
    BY <1>2, <1>b, MirrorAssumption, EngineAssumption DEF BeginChain, TypeInv, TurnTypes, Least
  <2>2. n \in Nat /\ n <= turn.left
    BY EngineAssumption DEF TypeInv, TurnTypes, Least
  <2>. HIDE DEF n
  <2>3. CASE UNCHANGED turn /\ k.seen + n <= Ctx /\ chain' = [NoChain EXCEPT !.n = n, !.seen0 = k.seen]
    <3>1. chain'.n = n /\ chain'.seen0 = k.seen /\ chain'.landed = 0 /\ chain'.told = 0 /\ chain'.stop = FALSE
      BY <2>3 DEF NoChain
    <3>. QED BY <2>2, <2>3, <3>1 DEF ChainTypes
  <2>. QED BY <1>c, <2>1, <2>3
<1>3. CASE ChainLands
  <2>1. chain.landed < chain.n /\ chain' = [chain EXCEPT !.landed = chain.landed + 1] /\ UNCHANGED turn
    BY <1>3 DEF ChainLands
  <2>2. /\ chain'.n = chain.n /\ chain'.landed = chain.landed + 1 /\ chain'.told = chain.told
        /\ chain'.seen0 = chain.seen0 /\ chain'.stop = chain.stop
    BY <1>a, <2>1 DEF ChainFields
  <2>. QED BY <1>b, <2>1, <2>2 DEF ChainTypes
<1>4. CASE ChainLost
  <2>1. chain' = [chain EXCEPT !.lost = TRUE] /\ UNCHANGED turn
    BY <1>4 DEF ChainLost
  <2>2. /\ chain'.n = chain.n /\ chain'.landed = chain.landed /\ chain'.told = chain.told
        /\ chain'.seen0 = chain.seen0 /\ chain'.stop = chain.stop
    BY <1>a, <2>1 DEF ChainFields
  <2>. QED BY <1>b, <2>1, <2>2 DEF ChainTypes
<1>5. CASE ChainTold
  <2>1. /\ chain.told < chain.landed /\ ~chain.stop /\ UNCHANGED turn
        /\ chain' \in {[chain EXCEPT !.told = chain.told + 1], [chain EXCEPT !.stop = TRUE]}
    BY <1>5 DEF ChainTold
  <2>2. /\ chain'.n = chain.n /\ chain'.landed = chain.landed /\ chain'.seen0 = chain.seen0
        /\ \/ chain'.told = chain.told + 1 /\ chain'.stop = chain.stop
           \/ chain'.told = chain.told
    BY <1>a, <2>1 DEF ChainFields
  <2>. QED BY <1>b, <2>1, <2>2 DEF ChainTypes
<1>6. CASE EndChain
  <2>1. chain' = NoChain
    BY <1>6 DEF EndChain
  <2>. QED BY <2>1 DEF ChainTypes, NoChain
<1>7. CASE CloseTurn \/ FeedLast \/ Reset \/ Rewind \/ Prompt \/ TailLayer \/ TailTimeout \/ EndSplit \/ StopDecoding
           \/ Step \/ GpuLayer \/ \E r \in 1 .. Ctx : SplitPrompt(r)
  <2>1. UNCHANGED <<turn, chain>>
    BY <1>7, Zenon DEF CloseTurn, FeedLast, Reset, Rewind, Prompt, TailLayer, TailTimeout, EndSplit, StopDecoding,
                       Step, GpuLayer, SplitPrompt, evars
  <2>. QED BY <1>c, <2>1
<1>8. CASE \/ DecodeToken \/ CloseDocument \/ Choose \/ SpecPlain \/ SpecVerify
           \/ \E n \in Prompts, b \in Budgets : StartTurn(n, b)
           \/ \E n : StartPrefill(n) \/ StartEmbed(n) \/ StartSpec(n)
  <2>1. UNCHANGED chain /\ pc # "chain"
    BY <1>8 DEF DecodeToken, CloseDocument, Choose, SpecPlain, SpecVerify, StartTurn, StartPrefill, StartEmbed,
                StartSpec, Idle
  <2>. QED BY <1>a, <1>c, <2>1
<1>. QED BY <1>1, <1>2, <1>3, <1>4, <1>5, <1>6, <1>7, <1>8, Zenon DEF Next

\* The count of the conversation's tokens follows from where the host stands.
LEMMA SaidTyped == FedInv /\ TypeInv => said \in Nat
<1> SUFFICES ASSUME FedInv, TypeInv PROVE said \in Nat
  OBVIOUS
<1>1. k.seen \in Nat /\ turn.unfed \in Nat /\ chain.told \in Nat /\ pc \in Places /\ (pc = "dead" => said \in Nat)
  BY DEF FedInv, Shape, Cache, TypeInv, CacheTypes, TurnTypes
<1>. QED BY <1>1 DEF FedInv, Counted, Places

\* The inductive invariant of the types.
EngineInv == FedInv /\ TypeInv

LEMMA EngineInit == Init => EngineInv
BY FedInit, TypeInit DEF EngineInv

LEMMA EngineStep ==
    ASSUME EngineInv, [Next]_vars
    PROVE  EngineInv'
<1>1. FedInv /\ TypeInv
  BY DEF EngineInv
<1>2. CacheTypes' /\ TurnTypes' /\ RoomLeft' /\ ChainTypes'
  BY <1>1, CacheTypesStep, TurnTypesStep, ChainTypesStep
<1>. QED BY <1>1, <1>2, FedStep DEF EngineInv, TypeInv

\* Type correctness of the engine and its drivers (TypeOK): the cache stays within
\* its context through prompts, chains, rewinds and rejected drafts, whatever the
\* accelerator does, and no turn runs over its budget.
THEOREM TypeCorrect == Spec => []TypeOK
<1>1. EngineInv => TypeOK
  <2> SUFFICES ASSUME EngineInv PROVE TypeOK
    OBVIOUS
  <2>1. said \in Nat /\ c \in Loaded /\ turn.n \in Nat
    BY SaidTyped DEF EngineInv, FedInv, Shape
  <2>2. CacheTypes /\ TurnTypes /\ ChainTypes
    BY DEF EngineInv, TypeInv
  <2>. QED BY <2>1, <2>2 DEF CacheTypes, TurnTypes, ChainTypes, TypeOK, Places
<1>. QED BY EngineInit, EngineStep, <1>1, PTL DEF Spec

LEMMA KeepsHistory ==
    ASSUME EngineInv, [Next]_vars, c.driver = "batch", pc \in {"decode", "close"}, turn.room > 0, k'.seen < k.seen
    PROVE  faults' > faults
<1>1. Cache(k) /\ k.seen \in Nat /\ CacheTypes /\ turn.left \in Nat
  <2>1. Cache(k) /\ CacheTypes /\ TurnTypes
    BY Zenon DEF EngineInv, FedInv, Shape, TypeInv
  <2>. QED BY <2>1 DEF TurnTypes, Cache
<1>2. /\ pc = "decode" => turn.left >= 1 /\ k.seen + turn.left + CloseLen <= Ctx
      /\ pc = "close" => k.seen + CloseLen <= Ctx
  BY DEF EngineInv, TypeInv, TurnTypes, RoomLeft
<1>3. Ctx \in Nat /\ CloseLen \in Nat /\ CloseLen > 0
  BY MirrorAssumption, EngineAssumption
\* The forward grows the cache, or the accelerator failed it.
<1>4. ASSUME NEW n \in Nat, n > 0, k.seen + n <= Ctx, NEW r \in Run(n, FALSE), Account(r), r.ok => k' = r.k
      PROVE  faults' > faults
  <2>1. r.ok => k'.seen = k.seen + n
    BY <1>1, <1>4, RunMoves
  <2>2. ~r.ok
    BY <1>1, <1>4, <2>1
  <2>. QED BY <1>1, <1>4, <2>2, RunTyped
<1>5. CASE DecodeToken
  <2>1. pc = "decode" /\ \E r \in Run(1, FALSE) : Account(r) /\ (r.ok => k' = r.k)
    BY <1>5, Zenon DEF DecodeToken
  <2>2. 1 \in Nat /\ 1 > 0 /\ k.seen + 1 <= Ctx
    BY <1>1, <1>2, <1>3, <2>1
  <2>. QED BY <1>4, <2>1, <2>2
<1>6. CASE CloseTurn
  <2>1. pc = "close" /\ \E r \in Run(CloseLen, FALSE) : Account(r) /\ (r.ok => k' = r.k)
    BY <1>6, Zenon DEF CloseTurn
  <2>. QED BY <1>2, <1>3, <1>4, <2>1
<1>7. CASE StopDecoding \/ CloseDocument \/ UNCHANGED vars
  <2>1. k' = k
    BY <1>7, Zenon DEF StopDecoding, CloseDocument, vars, evars
  <2>. QED BY <1>1, <2>1
<1>8. CASE GpuLayer
  <2>1. k'.seen = k.seen
    BY <1>1, <1>8 DEF GpuLayer, Cache, CacheFields
  <2>. QED BY <1>1, <2>1
<1>9. DecodeToken \/ CloseTurn \/ StopDecoding \/ CloseDocument \/ UNCHANGED vars \/ GpuLayer
  BY DEF Next, Reset, Rewind, StartTurn, StartPrefill, StartEmbed, Prompt, SplitPrompt, TailLayer, TailTimeout, EndSplit,
         Step, Choose, BeginChain, ChainLands, ChainLost, ChainTold, EndChain, FeedLast, StartSpec, SpecPlain, SpecVerify,
         Idle
<1>. QED BY <1>5, <1>6, <1>7, <1>8, <1>9

\* A batch turn that started with a row to spare loses its conversation while it
\* decodes or closes only to a failure of the accelerator (TurnKeepsHistory): the
\* budget was cut to the room, so no forward of it is refused.
THEOREM KeptHistory == Spec => TurnKeepsHistory
<1>1. EngineInv /\ [Next]_vars =>
        [(c.driver = "batch" /\ pc \in {"decode", "close"} /\ turn.room > 0 /\ k'.seen < k.seen)
           => faults' > faults]_vars
  BY KeepsHistory
<1>. QED BY EngineInit, EngineStep, <1>1, PTL DEF Spec, TurnKeepsHistory

-------------------------------------------------------------------------------
(* For any context, prompts, budgets, chains and failures, the rows the next      *)
(* token attends to are the conversation's own.                                   *)


-------------------------------------------------------------------------------
(* What the operators of KVMirror keep.                                           *)

\* A cache of the conversation's own rows, in the copy in use and in the one kept.
Exact(e) == ExactHome(e) /\ ExactMirror(e) /\ e.valid <= e.seen

LEMMA CpuRunExact ==
    ASSUME NEW e, Cache(e), Exact(e), ~e.uploaded, NEW n \in Nat
    PROVE  Exact(CpuRun(c, e, n)) /\ ~CpuRun(c, e, n).uploaded
<1>. DEFINE f == CpuRun(c, e, n)
<1>1. Cache(f) /\ f.seen = e.seen + n /\ f.uploaded = e.uploaded /\ f.valid = e.valid
  BY CpuRunMoves
<1>2. f.gpu = e.gpu /\ f.rec = (IF e.rec = e.seen THEN e.seen + n ELSE Diverged)
      /\ f.cpu = Extend(e.cpu, e.seen, n, CpuSound(c, e))
  BY DEF Cache, CacheFields, CpuRun
<1>3. CpuSound(c, e) /\ Below(e.seen) \subseteq e.cpu
  BY DEF Exact, ExactHome, CpuSound
<1>4. f.cpu = {p \in e.cpu : p < e.seen} \cup (e.seen .. e.seen + n - 1)
  BY <1>2, <1>3 DEF Extend
<1>5. Below(e.seen + n) \subseteq f.cpu
  BY <1>3, <1>4 DEF Below, Cache
<1>6. Least(e.valid, e.seen + n) = e.valid /\ Below(e.valid) \subseteq e.gpu /\ e.valid <= e.seen + n
  BY DEF Exact, ExactMirror, Least, Cache
<1>7. c.linear => e.rec = e.seen
  BY DEF Exact, ExactHome
<1>8. e.valid <= e.seen + n /\ e.seen \in Int
  BY DEF Exact, Cache
<1>. HIDE DEF f
<1>9. ExactHome(f)
  BY <1>1, <1>2, <1>5, <1>7 DEF ExactHome
<1>10. ExactMirror(f)
  BY <1>1, <1>2, <1>6 DEF ExactMirror
<1>. QED BY <1>1, <1>6, <1>9, <1>10 DEF Exact, f

LEMMA UploadExact ==
    ASSUME NEW e, Cache(e), Exact(e)
    PROVE  /\ Exact(Upload(e)) /\ Upload(e).uploaded
           /\ Upload(e).from = (IF e.uploaded THEN e.from ELSE e.seen)
<1>. DEFINE f == Upload(e)  r0 == Least(e.valid, e.seen)
<1>1. CASE e.uploaded
  BY <1>1 DEF Upload
<1>2. CASE ~e.uploaded
  <2>1. Cache(f) /\ f.seen = e.seen
    BY UploadMoves
  <2>2. /\ f.gpu = (e.gpu \cap Below(r0)) \cup {p \in e.cpu : r0 <= p /\ p < e.seen}
        /\ f.uploaded = TRUE /\ f.from = e.seen /\ f.valid = e.seen /\ f.cpu = e.cpu /\ f.rec = e.rec
    BY <1>2 DEF Cache, CacheFields, Upload
  <2>3. Below(r0) \subseteq e.gpu /\ Below(e.seen) \subseteq e.cpu /\ r0 \in Int
    BY <1>2 DEF Exact, ExactHome, ExactMirror, Cache, Least
  <2>. HIDE DEF f, r0
  <2>4. Below(e.seen) \subseteq f.gpu
    BY <2>2, <2>3 DEF Below, Cache
  <2>5. Exact(f)
    BY <2>1, <2>2, <2>3, <2>4 DEF Exact, ExactHome, ExactMirror, Cache
  <2>. QED BY <1>2, <2>2, <2>5 DEF f
<1>. QED BY <1>1, <1>2

LEMMA DownloadExact ==
    ASSUME NEW e, Cache(e), Exact(e)
    PROVE  Exact(Download(e)) /\ ~Download(e).uploaded
<1>. DEFINE f == Download(e)
<1>1. CASE ~e.uploaded
  BY <1>1 DEF Download
<1>2. CASE e.uploaded
  <2>1. Cache(f) /\ f.seen = e.seen
    BY DownloadMoves
  <2>2. /\ f.cpu = (e.cpu \cap Below(e.from)) \cup {p \in e.gpu : e.from <= p /\ p < e.seen}
        /\ f.uploaded = FALSE /\ f.valid = e.seen /\ f.gpu = e.gpu /\ f.rec = e.rec
    BY <1>2 DEF Cache, CacheFields, Download
  <2>3. Below(e.from) \subseteq e.cpu /\ Below(e.seen) \subseteq e.gpu
    BY <1>2 DEF Exact, ExactHome, ExactMirror
  <2>. HIDE DEF f
  <2>4. Below(e.seen) \subseteq f.cpu
    BY <2>2, <2>3 DEF Below, Cache
  <2>5. Exact(f)
    BY <2>1, <2>2, <2>3, <2>4 DEF Exact, ExactHome, ExactMirror, Cache, Least, Below
  <2>. QED BY <1>2, <2>2, <2>5 DEF f
<1>. QED BY <1>1, <1>2

LEMMA GpuRunExact ==
    ASSUME NEW e, Cache(e), Exact(e), ~c.linear, NEW n \in Nat
    PROVE  /\ Exact(GpuRun(e, n)) /\ GpuRun(e, n).uploaded
           /\ GpuRun(e, n).from = (IF e.uploaded THEN e.from ELSE e.seen)
<1>. DEFINE u == Upload(e)  f == GpuRun(e, n)
<1>1. Cache(u) /\ Exact(u) /\ u.uploaded /\ u.seen = e.seen /\ u.from = (IF e.uploaded THEN e.from ELSE e.seen)
  BY UploadMoves, UploadExact
<1>2. f = [u EXCEPT !.gpu = GpuRows(@, u.seen, n), !.seen = @ + n, !.lg = u.seen + n]
  BY DEF GpuRun
<1>. HIDE DEF u, f
<1>3. Below(u.seen) \subseteq u.gpu /\ Below(u.from) \subseteq u.cpu
  BY <1>1 DEF Exact, ExactHome, ExactMirror
<1>4. /\ f.gpu = {p \in u.gpu : p < u.seen} \cup (u.seen .. u.seen + n - 1)
      /\ f.seen = u.seen + n /\ f.uploaded = u.uploaded /\ f.from = u.from /\ f.valid = u.valid /\ f.cpu = u.cpu
  BY <1>1, <1>2, <1>3 DEF Cache, CacheFields, GpuRows, Extend
<1>5. Below(u.seen + n) \subseteq f.gpu
  BY <1>1, <1>3, <1>4 DEF Below, Cache
<1>6. Exact(f)
  BY <1>1, <1>3, <1>4, <1>5 DEF Exact, ExactHome, ExactMirror, Cache
<1>. QED BY <1>1, <1>4, <1>6 DEF f

\* The lane is in use only where it can be used.
OnGpu(e, m) == e.uploaded => e.on /\ c.usable /\ ~m /\ e.seen > 0 /\ e.from <= e.seen

\* Where a copy that is on the GPU begins, seen from the cache before the step.
Begins(f, e) == f.uploaded => f.from = (IF e.uploaded THEN e.from ELSE e.seen)

LEMMA OneOnGpuExact ==
    ASSUME NEW e, Cache(e), Exact(e), ~c.linear, NEW r \in OneOnGpu(c, e),
           e.on, c.usable, e.seen > 0, e.uploaded => e.from <= e.seen
    PROVE  Exact(r.k) /\ OnGpu(r.k, FALSE) /\ Begins(r.k, e)
<1>. DEFINE g == GpuRun(e, 1)  u == Upload(e)
<1>1. /\ Exact(g) /\ g.uploaded /\ g.from = (IF e.uploaded THEN e.from ELSE e.seen)
      /\ g.seen = e.seen + 1 /\ g.on = e.on
  <2>1. 1 \in Nat
    OBVIOUS
  <2>2. Exact(g) /\ g.uploaded /\ g.from = (IF e.uploaded THEN e.from ELSE e.seen)
    BY <2>1, GpuRunExact, Zenon
  <2>3. g.seen = e.seen + 1 /\ g.on = e.on
    BY <2>1, GpuRunMoves, Zenon
  <2>. QED BY <2>2, <2>3
<1>2. /\ Exact(u) /\ u.uploaded /\ u.from = (IF e.uploaded THEN e.from ELSE e.seen)
      /\ u.seen = e.seen /\ u.on = e.on
  BY UploadExact, UploadMoves
<1>. DEFINE d == [e EXCEPT !.on = FALSE]  f == CpuRun(c, d, 1)
<1>3. Cache(d) /\ Exact(d) /\ d.uploaded = e.uploaded
  BY DEF Cache, CacheFields, Exact, ExactHome, ExactMirror
<1>. HIDE DEF d, g, u
<1>4. ~e.uploaded => Exact(f) /\ ~f.uploaded
  BY <1>3, CpuRunExact
<1>. HIDE DEF f
<1>5. \/ r = Done(g) \/ r = Threw(u, 1) \/ r = Threw(e, 1)
      \/ ~e.uploaded /\ r = [Done(f) EXCEPT !.fault = 1]
  BY DEF OneOnGpu, d, f, g, u
<1>6. r.k = g \/ r.k = u \/ r.k = e \/ (~e.uploaded /\ r.k = f)
  BY <1>5 DEF Done, Threw
<1>7. e.seen \in Nat /\ e.from \in Int
  BY DEF Cache
<1>8. CASE r.k = g
  <2>1. g.on /\ g.seen > 0 /\ g.from <= g.seen
    <3>1. g.on = e.on /\ e.on
      BY <1>1
    <3>2. g.on
      BY <3>1, Zenon
    <3>. QED BY <1>1, <1>7, <3>2
  <2>2. OnGpu(g, FALSE) /\ Begins(g, e) /\ Exact(g)
    BY <1>1, <2>1 DEF OnGpu, Begins
  <2>. QED BY <1>8, <2>2, Zenon
<1>9. CASE r.k = u
  <2>1. u.on /\ u.seen > 0 /\ u.from <= u.seen
    <3>1. u.on = e.on /\ e.on
      BY <1>2
    <3>2. u.on
      BY <3>1, Zenon
    <3>. QED BY <1>2, <1>7, <3>2
  <2>2. OnGpu(u, FALSE) /\ Begins(u, e) /\ Exact(u)
    BY <1>2, <2>1 DEF OnGpu, Begins
  <2>. QED BY <1>9, <2>2, Zenon
<1>10. CASE r.k = e
  BY <1>10 DEF OnGpu, Begins
<1>11. CASE ~e.uploaded /\ r.k = f
  BY <1>4, <1>11 DEF OnGpu, Begins
<1>. QED BY <1>6, <1>8, <1>9, <1>10, <1>11

LEMMA ForwardExact ==
    ASSUME NEW e, Cache(e), Exact(e), NEW m, OnGpu(e, m), c.linear => ~c.usable,
           NEW n \in Nat, NEW all, NEW r \in Forward(c, e, n, m, all), r.trust
    PROVE  /\ Exact(r.k) /\ OnGpu(r.k, m) /\ Begins(r.k, e)
           /\ n >= LoopT /\ r.ok => ~r.k.uploaded
           /\ n # 1 /\ r.k.uploaded => e.uploaded
<1>. DEFINE s == Switched(c, e, n)
<1>1. /\ Cache(s) /\ s.seen = e.seen /\ s.uploaded = e.uploaded /\ s.from = e.from
      /\ s.valid = e.valid /\ s.cpu = e.cpu /\ s.gpu = e.gpu /\ s.rec = e.rec
  BY SwitchedMoves
<1>2. Exact(s)
  BY <1>1 DEF Exact, ExactHome, ExactMirror
<1>3. e.uploaded => s.on
  BY DEF OnGpu, Cache, CacheFields, Switched
<1>4. LoopT >= 2 /\ LoopT \in Nat
  BY MirrorAssumption
<1>. HIDE DEF s
<1>5. CASE r = Threw(e, 0)
  BY <1>5 DEF Threw, Begins
<1>6. CASE ~m /\ n = 1 /\ s.on /\ s.seen > 0 /\ c.usable /\ r \in OneOnGpu(c, s)
  <2>1. Exact(r.k) /\ OnGpu(r.k, FALSE) /\ Begins(r.k, s)
    BY <1>1, <1>2, <1>6, OneOnGpuExact DEF OnGpu
  <2>. QED BY <1>1, <1>4, <1>6, <2>1 DEF OnGpu, Begins
<1>7. CASE /\ ~m /\ ShortLoop(c, s, n, all)
           /\ r = Done(GpuRun(s, n)) \/ \E i \in 0 .. n - 1 : r = Threw(GpuRun(s, i), 1)
  <2>1. s.uploaded /\ n < LoopT
    BY <1>7 DEF ShortLoop
  <2>2. PICK i \in Nat : r.k = GpuRun(s, i)
    BY <1>7 DEF Done, Threw
  <2>3. Cache(r.k) /\ r.k.seen = s.seen + i /\ r.k.on = s.on
    BY <1>1, <2>2, GpuRunMoves
  <2>4. Exact(r.k) /\ r.k.uploaded /\ r.k.from = s.from
    BY <1>1, <1>2, <2>1, <2>2, GpuRunExact DEF OnGpu
  <2>. QED BY <1>1, <1>3, <1>4, <1>7, <2>1, <2>3, <2>4 DEF OnGpu, Begins, Cache
<1>8. CASE n = 1 /\ r = Done(CpuRun(c, s, 1)) /\ ~(~m /\ s.on /\ s.seen > 0 /\ c.usable)
  <2>1. ~s.uploaded
    BY <1>1, <1>3, <1>8 DEF OnGpu
  <2>2. Exact(r.k) /\ ~r.k.uploaded
    BY <1>1, <1>2, <1>8, <2>1, CpuRunExact DEF Done
  <2>. QED BY <1>4, <1>8, <2>2 DEF OnGpu, Begins
<1>9. CASE r = Done(CpuRun(c, Download(s), n))
  <2>1. Exact(r.k) /\ ~r.k.uploaded
    BY <1>1, <1>2, <1>9, DownloadMoves, DownloadExact, CpuRunExact DEF Done
  <2>. QED BY <2>1 DEF OnGpu, Begins
<1>10. CASE r = [Done(CpuRun(c, DownloadLost(s), n)) EXCEPT !.fault = 1, !.trust = FALSE]
  BY <1>10 DEF Done
<1>11. n >= LoopT /\ r = Threw(e, 0) => ~r.ok
  BY DEF Threw
<1>. QED BY <1>5, <1>6, <1>7, <1>8, <1>9, <1>10, <1>11 DEF Forward, s

LEMMA FreshExact ==
    ASSUME NEW e, Cache(e)
    PROVE  Exact(Fresh(e)) /\ ~Fresh(e).uploaded
<1>. DEFINE d == Cleared(e)
<1>1. Cache(d) /\ d.seen = 0 /\ d.uploaded = FALSE /\ d.valid = 0 /\ d.rec = 0
  BY DEF Cache, CacheFields, Cleared
<1>. HIDE DEF d
<1>2. Exact(d)
  BY <1>1 DEF Exact, ExactHome, ExactMirror, Below, Least
<1>. QED BY <1>1, <1>2, CpuRunExact, EngineAssumption DEF Fresh, d

LEMMA VerifyRun ==
    ASSUME NEW e, Cache(e), ~e.uploaded, NEW m, NEW r \in Forward(c, e, 2, m, TRUE), r.ok
    PROVE  r.k = CpuRun(c, Switched(c, e, 2), 2)
<1>. DEFINE s == Switched(c, e, 2)
<1>1. ~s.uploaded
  BY SwitchedMoves
<1>. HIDE DEF s
<1>2. Download(s) = s
  BY <1>1 DEF Download
<1>3. r = Threw(e, 0) \/ r = Done(CpuRun(c, s, 2))
  BY <1>1, <1>2, MirrorAssumption DEF Forward, ShortLoop, s
<1>. QED BY <1>3 DEF Threw, Done, s

-------------------------------------------------------------------------------
(* The inductive invariant, for as long as the accelerator failed nowhere the     *)
(* code does not look.                                                            *)

\* Rows a turn's caller may rewind to are in the CPU's copy.
Rewindable == c.driver = "batch" =>
                 /\ k.uploaded => boundary <= k.from
                 /\ pc \in {"decode", "close"} => boundary <= k.seen

\* The rows of the tokens a chain has landed are in the GPU's copy.
ChainRows == /\ chain.landed \in Nat /\ chain.told <= chain.landed
             /\ chain.stop => chain.told < chain.landed
             /\ chain.n # 0 => k.uploaded /\ Below(chain.seen0 + chain.landed) \subseteq k.gpu
             /\ pc = "chain" => k.on /\ c.usable /\ k.seen > 0

ExactInv == /\ Exact(k) /\ OnGpu(k, emb) /\ Rewindable /\ ChainRows
            /\ emb => c.driver = "batch"
            /\ pc \in {"choose", "chain", "last"} => c.driver = "chat"
            /\ pc = "spec" => c.driver = "spec"
            /\ pc = "split" => ~k.uploaded
            /\ c.driver = "batch" /\ pc \in {"prompt", "split"} => turn.n # 1 /\ (turn.n >= LoopT \/ turn.n = 0)

LEMMA ExactInit == Init => ExactInv
<1> SUFFICES ASSUME Init PROVE ExactInv
  OBVIOUS
<1>1. Cache(Empty) /\ ~Empty.uploaded /\ Exact(Empty)
  BY DEF Empty, Cache, CacheFields, Exact, ExactHome, ExactMirror, Below, Least
<1>. DEFINE f == CpuRun(c, Empty, SysLen)  g == [Empty EXCEPT !.on = TRUE]
<1>2. Exact(f) /\ ~f.uploaded
  BY <1>1, CpuRunExact, EngineAssumption
<1>3. g.uploaded = Empty.uploaded /\ g.seen = Empty.seen /\ g.cpu = Empty.cpu /\ g.gpu = Empty.gpu
      /\ g.rec = Empty.rec /\ g.valid = Empty.valid /\ g.from = Empty.from
  BY DEF Empty
<1>4. Exact(g) /\ ~g.uploaded
  BY <1>1, <1>3 DEF Exact, ExactHome, ExactMirror
<1>5. Exact(k) /\ ~k.uploaded
  BY <1>1, <1>2, <1>4 DEF Init
<1>6. chain.n = 0 /\ chain.landed = 0 /\ chain.told = 0 /\ chain.stop = FALSE /\ pc = "idle" /\ emb = FALSE
  BY DEF Init, NoChain
<1>. QED BY <1>5, <1>6 DEF ExactInv, OnGpu, Rewindable, ChainRows

LEMMA RunExact ==
    ASSUME FedInv, ExactInv, NEW n \in Nat, NEW all, NEW r \in Run(n, all), r.trust,
           c.driver = "batch" => n # 1 \/ pc \in {"decode", "close"}
    PROVE  /\ Exact(r.k) /\ OnGpu(r.k, emb)
           /\ c.driver = "batch" /\ r.k.uploaded => boundary <= r.k.from
           /\ n >= LoopT /\ r.ok => ~r.k.uploaded
<1>1. r \in Forward(c, k, n, emb, all)
  BY DEF Run
<1>2. c.linear => ~c.usable
  BY DEF FedInv, Shape, Loaded
<1>3. /\ Exact(r.k) /\ OnGpu(r.k, emb) /\ Begins(r.k, k)
      /\ n >= LoopT /\ r.ok => ~r.k.uploaded
      /\ n # 1 /\ r.k.uploaded => k.uploaded
  BY <1>1, <1>2, ForwardExact DEF FedInv, Shape, ExactInv
<1>. QED BY <1>3 DEF Begins, ExactInv, Rewindable

LEMMA ThrownExact ==
    ASSUME FedInv, ExactInv, NEW e, Cache(e), Exact(e), OnGpu(e, emb),
           c.driver = "batch" /\ e.uploaded => boundary <= e.from,
           Thrown(e), UNCHANGED <<c, chain>>, chain.n = 0
    PROVE  ExactInv'
<1>1. k' = e \/ (k' = Fresh(e) /\ Exact(Fresh(e)) /\ ~Fresh(e).uploaded)
  BY FreshExact DEF Thrown
<1>2. pc' \in {"idle", "dead"} /\ UNCHANGED <<emb, boundary>>
  BY DEF Thrown
<1>3. Exact(k)' /\ OnGpu(k, emb)' /\ Rewindable'
  BY <1>1, <1>2 DEF Exact, ExactHome, ExactMirror, OnGpu, Rewindable
<1>4. ChainRows'
  BY <1>2 DEF ExactInv, ChainRows
<1>. QED BY <1>2, <1>3, <1>4 DEF ExactInv

\* The callers: a templated turn is never as short as the loop takes, and a session
\* is not taken back into rows the GPU decoded.
Callers == ~AnyRewind /\ \A n \in Prompts : n >= LoopT

\* The cache is another, nothing of it is on the GPU, and no turn is under way.
LEMMA HomeExact ==
    ASSUME FedInv, ExactInv, Exact(k)', ~k'.uploaded, pc = "idle", pc' \in {"idle", "prompt"},
           UNCHANGED <<c, chain>>, emb' => c.driver = "batch",
           c.driver = "batch" /\ pc' = "prompt" => turn'.n # 1 /\ (turn'.n >= LoopT \/ turn'.n = 0)
    PROVE  ExactInv'
<1>1. OnGpu(k, emb)' /\ Rewindable'
  BY DEF OnGpu, Rewindable
<1>2. ChainRows'
  BY DEF ChainRows, ExactInv, FedInv, Counted
<1>. QED BY <1>1, <1>2 DEF ExactInv

LEMMA RewindExact ==
    ASSUME Callers, FedInv, ExactInv, Rewind
    PROVE  ExactInv'
<1>. DEFINE f == Rewound(k, boundary)
<1>1. /\ pc = "idle" /\ pc' = "idle" /\ UNCHANGED <<c, chain, emb>> /\ k' = f
      /\ ~c.linear /\ boundary \in 0 .. k.seen /\ c.driver \in {"batch", "session"}
      /\ c.driver = "session" => ~k.uploaded \/ boundary <= k.from
  BY DEF Rewind, Idle, CanRewind, Callers
<1>2. /\ f.seen = boundary /\ f.uploaded = FALSE /\ f.valid = 0 /\ f.cpu = k.cpu \cap Below(boundary)
  BY DEF FedInv, Shape, Cache, CacheFields, Rewound
<1>3. Below(boundary) \subseteq k.cpu
  <2>1. CASE k.uploaded
    <3>1. boundary <= k.from /\ k.from \in Int /\ boundary \in Int
      BY <1>1, <2>1 DEF ExactInv, Rewindable, FedInv, Shape, Cache
    <3>2. Below(k.from) \subseteq k.cpu
      BY <2>1 DEF ExactInv, Exact, ExactMirror
    <3>. QED BY <3>1, <3>2 DEF Below
  <2>2. CASE ~k.uploaded
    <3>1. Below(k.seen) \subseteq k.cpu /\ k.seen \in Int
      BY <2>2 DEF ExactInv, Exact, ExactHome, FedInv, Shape, Cache
    <3>. QED BY <1>1, <3>1 DEF Below
  <2>. QED BY <2>1, <2>2
<1>. HIDE DEF f
<1>4. Exact(f)
  BY <1>1, <1>2, <1>3 DEF Exact, ExactHome, ExactMirror, Below, Least
<1>5. Exact(k)' /\ ~k'.uploaded
  BY <1>1, <1>2, <1>4 DEF Exact, ExactHome, ExactMirror
<1>. QED BY <1>1, <1>5, HomeExact DEF ExactInv

LEMMA ResetExact ==
    ASSUME FedInv, ExactInv, Reset
    PROVE  ExactInv'
<1>1. Exact(Fresh(k)) /\ ~Fresh(k).uploaded
  BY FreshExact DEF FedInv, Shape
<1>2. /\ k' = Fresh(k) /\ pc = "idle" /\ pc' = "idle" /\ UNCHANGED <<c, chain, emb>>
  BY DEF Reset, Idle
<1>3. Exact(k)' /\ ~k'.uploaded
  BY <1>1, <1>2 DEF Exact, ExactHome, ExactMirror
<1>. QED BY <1>2, <1>3, HomeExact DEF ExactInv

LEMMA EmbedExact ==
    ASSUME Callers, FedInv, ExactInv, NEW n \in Prompts \cup {0}, StartEmbed(n)
    PROVE  ExactInv'
<1>. DEFINE d == Cleared(k)
<1>1. d.seen = 0 /\ d.uploaded = FALSE /\ d.valid = 0 /\ d.rec = 0
  BY DEF FedInv, Shape, Cache, CacheFields, Cleared
<1>2. /\ k' = d /\ pc = "idle" /\ pc' = "prompt" /\ UNCHANGED <<c, chain>> /\ c.driver = "batch"
      /\ turn' = [NoTurn EXCEPT !.kind = "embed", !.n = n]
  BY Zenon DEF StartEmbed, Idle
<1>. HIDE DEF d
<1>3. Exact(k)' /\ ~k'.uploaded
  BY <1>1, <1>2 DEF Exact, ExactHome, ExactMirror, Below, Least
<1>4. turn'.n = n
  BY <1>2 DEF NoTurn
<1>5. n # 1 /\ (n >= LoopT \/ n = 0)
  BY MirrorAssumption, EngineAssumption DEF Callers
<1>. QED BY <1>2, <1>3, <1>4, <1>5, HomeExact

\* A turn or a prefill begins with the cache there is, or with a fresh one.
LEMMA BegunExact ==
    ASSUME Callers, FedInv, ExactInv, k' = k \/ k' = Fresh(k), pc = "idle", pc' \in {"idle", "prompt"},
           UNCHANGED <<c, chain, emb>>, c.driver = "batch" => UNCHANGED boundary,
           c.driver = "batch" /\ pc' = "prompt" => turn'.n \in Prompts
    PROVE  ExactInv'
<1>1. \A n \in Prompts : n # 1 /\ n >= LoopT
  BY MirrorAssumption, EngineAssumption DEF Callers
<1>2. CASE k' = Fresh(k)
  <2>1. Exact(Fresh(k)) /\ ~Fresh(k).uploaded
    BY FreshExact DEF FedInv, Shape
  <2>2. Exact(k)' /\ ~k'.uploaded
    BY <1>2, <2>1 DEF Exact, ExactHome, ExactMirror
  <2>. QED BY <1>1, <2>2, HomeExact DEF ExactInv
<1>3. CASE k' = k
  <2>1. Exact(k)' /\ OnGpu(k, emb)' /\ Rewindable'
    BY <1>3 DEF ExactInv, Exact, ExactHome, ExactMirror, OnGpu, Rewindable
  <2>2. ChainRows'
    BY <1>3 DEF ChainRows, ExactInv
  <2>. QED BY <1>1, <2>1, <2>2 DEF ExactInv
<1>. QED BY <1>2, <1>3

LEMMA StartExact ==
    ASSUME Callers, FedInv, ExactInv,
           \/ \E n \in Prompts, b \in Budgets : StartTurn(n, b)
           \/ \E n \in IF c.driver = "session" THEN SessionPrompts ELSE Prompts : StartPrefill(n)
    PROVE  ExactInv'
<1>1. ASSUME NEW n \in Prompts, NEW b \in Budgets, StartTurn(n, b) PROVE ExactInv'
  <2>1. /\ k' = k \/ k' = Fresh(k)
        /\ pc = "idle" /\ pc' = "prompt" /\ UNCHANGED <<c, chain, emb, boundary>>
    BY <1>1 DEF StartTurn, Idle
  <2>2. \E left, room : turn' = [kind |-> "turn", n |-> n, room |-> room, unfed |-> 0, left |-> left]
    BY <1>1, Zenon DEF StartTurn
  <2>. QED BY <2>1, <2>2, BegunExact
<1>2. ASSUME NEW n \in IF c.driver = "session" THEN SessionPrompts ELSE Prompts, StartPrefill(n)
      PROVE  ExactInv'
  <2>1. /\ k' = k \/ k' = Fresh(k)
        /\ pc = "idle" /\ pc' \in {"idle", "prompt"} /\ UNCHANGED <<c, chain, emb>>
        /\ c.driver = "batch" => UNCHANGED boundary
    BY <1>2 DEF StartPrefill, Idle
  <2>2. turn' = [NoTurn EXCEPT !.kind = "prefill", !.n = n]
    BY <1>2, Zenon DEF StartPrefill
  <2>3. turn'.n = n
    BY <2>2 DEF NoTurn
  <2>. QED BY <1>2, <2>1, <2>3, BegunExact
<1>. QED BY <1>1, <1>2

-------------------------------------------------------------------------------
\* The prompt is in the CPU's copy.
LEMMA PromptedExact ==
    ASSUME FedInv, ExactInv, NEW e, Cache(e), Exact(e), OnGpu(e, emb), c.driver = "batch" => ~e.uploaded,
           Prompted(e), pc \in {"prompt", "split"}, UNCHANGED <<c, turn, chain>>
    PROVE  ExactInv'
<1>1. /\ k' = e /\ pc' \in {"idle", "choose", "decode"} /\ (emb' => emb)
      /\ pc' = "choose" => c.driver = "chat"
      /\ c.driver = "batch" /\ pc' = "decode" => boundary' = e.seen - HdrLen
  BY DEF Prompted
<1>2. Exact(k)'
  BY <1>1 DEF Exact, ExactHome, ExactMirror
<1>3. OnGpu(k, emb)'
  BY <1>1 DEF OnGpu
<1>4. Rewindable'
  BY <1>1, EngineAssumption DEF Rewindable, Cache
<1>5. ChainRows'
  BY <1>1 DEF ChainRows, ExactInv, FedInv, Counted
<1>. QED BY <1>1, <1>2, <1>3, <1>4, <1>5 DEF ExactInv

LEMMA PromptExact == FedInv /\ ExactInv /\ Prompt /\ trust' => ExactInv'
<1> SUFFICES ASSUME FedInv, ExactInv, Prompt, trust' PROVE ExactInv'
  OBVIOUS
<1>1. PICK r \in Run(turn.n, FALSE) : Account(r) /\ IF r.ok THEN Prompted(r.k) ELSE Thrown(r.k)
  BY Zenon DEF Prompt
<1>2. pc = "prompt" /\ UNCHANGED <<c, turn, chain>> /\ turn.n \in Nat /\ chain.n = 0
  BY DEF Prompt, FedInv, Shape, Counted
<1>3. r.trust
  BY <1>1, Zenon DEF Account
<1>4. Cache(r.k)
  BY <1>2, RunMoves DEF FedInv, Shape
<1>5. /\ Exact(r.k) /\ OnGpu(r.k, emb)
      /\ c.driver = "batch" /\ r.k.uploaded => boundary <= r.k.from
      /\ turn.n >= LoopT /\ r.ok => ~r.k.uploaded
  BY <1>2, <1>3, RunExact DEF ExactInv
<1>6. turn.n = 0 => ~r.ok
  BY DEF Run, Forward, Threw
<1>7. CASE r.ok
  <2>1. c.driver = "batch" => ~r.k.uploaded
    BY <1>2, <1>5, <1>6, <1>7 DEF ExactInv
  <2>. QED BY <1>1, <1>2, <1>4, <1>5, <1>7, <2>1, PromptedExact
<1>8. CASE ~r.ok
  BY <1>1, <1>2, <1>4, <1>5, <1>8, ThrownExact
<1>. QED BY <1>7, <1>8

LEMMA SplitExact ==
    ASSUME FedInv, ExactInv, trust', trust => ~pre.early,
           (\E r \in 1 .. Ctx : SplitPrompt(r)) \/ TailLayer \/ TailTimeout \/ EndSplit
    PROVE  ExactInv'
<1>1. ASSUME NEW tail, SplitPrompt(tail) PROVE ExactInv'
  <2>1. Exact(Download(k)) /\ ~Download(k).uploaded
    BY DownloadExact DEF FedInv, Shape, ExactInv
  <2>2. k' = Download(k) /\ pc = "prompt" /\ pc' = "split" /\ UNCHANGED <<c, emb, turn, chain, boundary>>
    BY <1>1 DEF SplitPrompt
  <2>3. Exact(k)' /\ ~k'.uploaded
    BY <2>1, <2>2 DEF Exact, ExactHome, ExactMirror
  <2>4. ChainRows'
    BY <2>2 DEF ChainRows, ExactInv, FedInv, Counted
  <2>. QED BY <2>2, <2>3, <2>4 DEF ExactInv, OnGpu, Rewindable
<1>2. CASE TailLayer
  BY <1>2 DEF TailLayer, evars, ExactInv, Exact, ExactHome, ExactMirror, OnGpu, Rewindable, ChainRows
<1>3. CASE TailTimeout
  BY <1>3 DEF TailTimeout
<1>4. CASE EndSplit
  <2>1. /\ pc = "split" /\ UNCHANGED <<c, turn, chain, trust>> /\ (Prompted(SplitRun(turn.n)) \/ Thrown(k))
    BY <1>4 DEF EndSplit
  <2>2. ~k.uploaded /\ chain.n = 0 /\ Cache(k) /\ turn.n \in Nat
    BY <2>1 DEF ExactInv, FedInv, Counted, Shape
  <2>3. CASE Prompted(SplitRun(turn.n))
    <3>1. SplitRun(turn.n) = CpuRun(c, k, turn.n)
      BY <2>1 DEF SplitRun
    <3>2. Exact(SplitRun(turn.n)) /\ ~SplitRun(turn.n).uploaded /\ Cache(SplitRun(turn.n))
      BY <2>2, <3>1, CpuRunExact, CpuRunMoves DEF ExactInv
    <3>. QED BY <2>1, <2>3, <3>2, PromptedExact DEF OnGpu
  <2>4. CASE Thrown(k)
    BY <2>1, <2>2, <2>4, ThrownExact DEF ExactInv
  <2>. QED BY <2>1, <2>3, <2>4
<1>. QED BY <1>1, <1>2, <1>3, <1>4

-------------------------------------------------------------------------------
\* One forward of the host between a turn's prompt and its end.
LEMMA OneExact ==
    ASSUME FedInv, ExactInv, trust', NEW n \in Nat, NEW r \in Run(n, FALSE), Account(r),
           IF r.ok THEN /\ k' = r.k /\ UNCHANGED <<emb, boundary>>
                        /\ pc' \in {"decode", "close", "idle"} \/ (pc' = "spec" /\ c.driver = "spec")
           ELSE Thrown(r.k),
           UNCHANGED <<c, chain>>, pc # "chain",
           c.driver = "batch" => pc \in {"decode", "close"}
    PROVE  ExactInv'
<1>1. r.trust
  BY Zenon DEF Account
<1>2. Cache(r.k) /\ (r.ok => r.k.seen = k.seen + n)
  BY RunMoves DEF FedInv, Shape
<1>3. /\ Exact(r.k) /\ OnGpu(r.k, emb)
      /\ c.driver = "batch" /\ r.k.uploaded => boundary <= r.k.from
  BY <1>1, RunExact
<1>4. chain.n = 0
  BY DEF FedInv, Counted
<1>5. CASE ~r.ok
  BY <1>2, <1>3, <1>4, <1>5, ThrownExact
<1>6. CASE r.ok
  <2>1. /\ k' = r.k /\ UNCHANGED <<emb, boundary>>
        /\ pc' \in {"decode", "close", "idle"} \/ (pc' = "spec" /\ c.driver = "spec")
    BY <1>6
  <2>2. Exact(k)' /\ OnGpu(k, emb)'
    BY <1>3, <2>1 DEF Exact, ExactHome, ExactMirror, OnGpu
  <2>3. Rewindable'
    BY <1>2, <1>3, <1>6, <2>1 DEF Rewindable, ExactInv, FedInv, Shape, Cache
  <2>4. ChainRows'
    BY <1>4, <2>1 DEF ChainRows, ExactInv
  <2>. QED BY <2>1, <2>2, <2>3, <2>4 DEF ExactInv
<1>. QED BY <1>5, <1>6

LEMMA DecodeExact == FedInv /\ ExactInv /\ DecodeToken /\ trust' => ExactInv'
<1> SUFFICES ASSUME FedInv, ExactInv, DecodeToken, trust' PROVE ExactInv'
  OBVIOUS
<1>1. PICK r \in Run(1, FALSE) :
         /\ Account(r)
         /\ IF r.ok THEN k' = r.k /\ pc' \in {"decode", "close"} /\ UNCHANGED <<emb, boundary>> ELSE Thrown(r.k)
  BY DEF DecodeToken
<1>2. pc \in {"decode"} /\ UNCHANGED <<c, chain>> /\ 1 \in Nat /\ (c.driver = "batch" => pc \in {"decode", "close"})
      /\ (pc = "spec" => c.driver = "spec")
  BY EngineAssumption DEF DecodeToken, Idle, ExactInv
<1>3. IF r.ok THEN /\ k' = r.k /\ UNCHANGED <<emb, boundary>>
                   /\ pc' \in {"decode", "close", "idle"} \/ (pc' = "spec" /\ c.driver = "spec")
      ELSE Thrown(r.k)
  BY <1>1, <1>2, Zenon
<1>4. pc # "chain"
  BY <1>2
<1>5. Account(r)
  BY <1>1, Zenon
<1>. QED BY <1>2, <1>3, <1>4, <1>5, OneExact, Zenon

LEMMA CloseExact == FedInv /\ ExactInv /\ CloseTurn /\ trust' => ExactInv'
<1> SUFFICES ASSUME FedInv, ExactInv, CloseTurn, trust' PROVE ExactInv'
  OBVIOUS
<1>1. PICK r \in Run(CloseLen, FALSE) :
         /\ Account(r)
         /\ IF r.ok THEN k' = r.k /\ pc' \in {"idle"} /\ UNCHANGED <<emb, boundary>> ELSE Thrown(r.k)
  BY DEF CloseTurn
<1>2. pc \in {"close"} /\ UNCHANGED <<c, chain>> /\ CloseLen \in Nat /\ (c.driver = "batch" => pc \in {"decode", "close"})
      /\ (pc = "spec" => c.driver = "spec")
  BY EngineAssumption DEF CloseTurn, Idle, ExactInv
<1>3. IF r.ok THEN /\ k' = r.k /\ UNCHANGED <<emb, boundary>>
                   /\ pc' \in {"decode", "close", "idle"} \/ (pc' = "spec" /\ c.driver = "spec")
      ELSE Thrown(r.k)
  BY <1>1, <1>2, Zenon
<1>4. pc # "chain"
  BY <1>2
<1>5. Account(r)
  BY <1>1, Zenon
<1>. QED BY <1>2, <1>3, <1>4, <1>5, OneExact, Zenon

LEMMA StepExact == FedInv /\ ExactInv /\ Step /\ trust' => ExactInv'
<1> SUFFICES ASSUME FedInv, ExactInv, Step, trust' PROVE ExactInv'
  OBVIOUS
<1>1. PICK r \in Run(1, FALSE) :
         /\ Account(r)
         /\ IF r.ok THEN k' = r.k /\ pc' \in {"idle"} /\ UNCHANGED <<emb, boundary>> ELSE Thrown(r.k)
  BY DEF Step, Idle
<1>2. pc \in {"idle"} /\ UNCHANGED <<c, chain>> /\ 1 \in Nat /\ (c.driver = "batch" => pc \in {"decode", "close"})
      /\ (pc = "spec" => c.driver = "spec")
  BY EngineAssumption DEF Step, Idle, ExactInv
<1>3. IF r.ok THEN /\ k' = r.k /\ UNCHANGED <<emb, boundary>>
                   /\ pc' \in {"decode", "close", "idle"} \/ (pc' = "spec" /\ c.driver = "spec")
      ELSE Thrown(r.k)
  BY <1>1, <1>2, Zenon
<1>4. pc # "chain"
  BY <1>2
<1>5. Account(r)
  BY <1>1, Zenon
<1>. QED BY <1>2, <1>3, <1>4, <1>5, OneExact, Zenon

LEMMA LastExact == FedInv /\ ExactInv /\ FeedLast /\ trust' => ExactInv'
<1> SUFFICES ASSUME FedInv, ExactInv, FeedLast, trust' PROVE ExactInv'
  OBVIOUS
<1>1. PICK r \in Run(1, FALSE) :
         /\ Account(r)
         /\ IF r.ok THEN k' = r.k /\ pc' \in {"close"} /\ UNCHANGED <<emb, boundary>> ELSE Thrown(r.k)
  BY DEF FeedLast
<1>2. pc \in {"last"} /\ UNCHANGED <<c, chain>> /\ 1 \in Nat /\ (c.driver = "batch" => pc \in {"decode", "close"})
      /\ (pc = "spec" => c.driver = "spec")
  BY EngineAssumption DEF FeedLast, Idle, ExactInv
<1>3. IF r.ok THEN /\ k' = r.k /\ UNCHANGED <<emb, boundary>>
                   /\ pc' \in {"decode", "close", "idle"} \/ (pc' = "spec" /\ c.driver = "spec")
      ELSE Thrown(r.k)
  BY <1>1, <1>2, Zenon
<1>4. pc # "chain"
  BY <1>2
<1>5. Account(r)
  BY <1>1, Zenon
<1>. QED BY <1>2, <1>3, <1>4, <1>5, OneExact, Zenon

LEMMA PlainExact == FedInv /\ ExactInv /\ SpecPlain /\ trust' => ExactInv'
<1> SUFFICES ASSUME FedInv, ExactInv, SpecPlain, trust' PROVE ExactInv'
  OBVIOUS
<1>1. PICK r \in Run(1, FALSE) :
         /\ Account(r)
         /\ IF r.ok THEN k' = r.k /\ pc' \in {"idle", "spec"} /\ UNCHANGED <<emb, boundary>> ELSE Thrown(r.k)
  BY DEF SpecPlain
<1>2. pc \in {"spec"} /\ UNCHANGED <<c, chain>> /\ 1 \in Nat /\ (c.driver = "batch" => pc \in {"decode", "close"})
      /\ (pc = "spec" => c.driver = "spec")
  BY EngineAssumption DEF SpecPlain, Idle, ExactInv
<1>3. IF r.ok THEN /\ k' = r.k /\ UNCHANGED <<emb, boundary>>
                   /\ pc' \in {"decode", "close", "idle"} \/ (pc' = "spec" /\ c.driver = "spec")
      ELSE Thrown(r.k)
  BY <1>1, <1>2, Zenon
<1>4. pc # "chain"
  BY <1>2
<1>5. Account(r)
  BY <1>1, Zenon
<1>. QED BY <1>2, <1>3, <1>4, <1>5, OneExact, Zenon

LEMMA StartSpecExact ==
    ASSUME FedInv, ExactInv, NEW m \in Budgets, StartSpec(m), trust'
    PROVE  ExactInv'
<1>1. PICK r \in Run(1, FALSE) :
         /\ Account(r)
         /\ IF r.ok THEN k' = r.k /\ pc' = "spec" /\ UNCHANGED <<emb, boundary>> ELSE Thrown(r.k)
  <2>1. turn' = [NoTurn EXCEPT !.kind = "spec", !.left = m - 1]
    BY DEF StartSpec
  <2>. QED BY DEF StartSpec
<1>2. pc = "idle" /\ UNCHANGED <<c, chain>> /\ 1 \in Nat /\ c.driver = "spec"
  BY DEF StartSpec, Idle
<1>3. IF r.ok THEN /\ k' = r.k /\ UNCHANGED <<emb, boundary>>
                   /\ pc' \in {"decode", "close", "idle"} \/ (pc' = "spec" /\ c.driver = "spec")
      ELSE Thrown(r.k)
  BY <1>1, <1>2, Zenon
<1>4. pc # "chain"
  BY <1>2
<1>5. Account(r)
  BY <1>1, Zenon
<1>. QED BY <1>2, <1>3, <1>4, <1>5, OneExact, Zenon

\* A draft is verified on the CPU; a rejected one takes its own row along.
LEMMA RejectedExact ==
    ASSUME c \in Loaded, Cache(k), Exact(k), ~k.uploaded, k.seen + 2 <= Ctx,
           NEW v, Cache(v), Exact(v), ~v.uploaded, v.seen = k.seen + 2, v.valid = k.valid, NEW e \in Rejected(v)
    PROVE  Exact(e) /\ ~e.uploaded
<1>1. CASE ~c.linear
  <2>. DEFINE f == [v EXCEPT !.seen = k.seen + 1, !.cpu = @ \cap Below(k.seen + 1), !.lg = k.seen + 1,
                             !.valid = Least(@, k.seen + 1)]
  <2>1. e = f
    BY <1>1 DEF Rejected
  <2>2. f.seen = k.seen + 1 /\ f.uploaded = v.uploaded /\ f.cpu = v.cpu \cap Below(k.seen + 1)
        /\ f.gpu = v.gpu /\ f.valid = Least(v.valid, k.seen + 1)
    BY DEF Cache, CacheFields
  <2>3. v.valid <= k.seen /\ v.valid \in Int /\ k.seen \in Nat
    BY DEF Exact, Cache
  <2>4. Below(v.seen) \subseteq v.cpu /\ Below(Least(v.valid, v.seen)) \subseteq v.gpu
    BY DEF Exact, ExactHome, ExactMirror
  <2>. HIDE DEF f
  <2>5. Below(f.seen) \subseteq f.cpu
    BY <2>2, <2>3, <2>4 DEF Below
  <2>6. f.valid = v.valid /\ Least(f.valid, f.seen) = v.valid /\ Least(v.valid, v.seen) = v.valid
    BY <2>2, <2>3 DEF Least
  <2>7. Exact(f)
    BY <1>1, <2>2, <2>3, <2>4, <2>5, <2>6 DEF Exact, ExactHome, ExactMirror
  <2>. QED BY <2>1, <2>2, <2>7
<1>2. CASE c.linear
  <2>. DEFINE d == [v EXCEPT !.rec = k.rec, !.seen = k.seen, !.cpu = @ \cap Below(k.seen)]
  <2>1. PICK r \in Forward(c, d, 1, emb, FALSE) : e = [r.k EXCEPT !.valid = Least(@, r.k.seen)]
    BY <1>2 DEF Rejected
  <2>2. /\ Cache(d) /\ d.seen = k.seen /\ ~c.usable /\ d.uploaded = v.uploaded /\ d.rec = k.rec
        /\ d.cpu = v.cpu \cap Below(k.seen) /\ d.gpu = v.gpu /\ d.valid = k.valid
    BY <1>2 DEF Cache, CacheFields, Loaded
  <2>3. /\ Below(v.seen) \subseteq v.cpu /\ Below(Least(v.valid, v.seen)) \subseteq v.gpu
        /\ k.rec = k.seen /\ k.valid <= k.seen /\ k.seen \in Nat /\ k.valid \in Int
    BY <1>2 DEF Exact, ExactHome, ExactMirror, Cache
  <2>. HIDE DEF d
  <2>4. Below(d.seen) \subseteq d.cpu
    BY <2>2, <2>3 DEF Below
  <2>5. Least(d.valid, d.seen) = Least(v.valid, v.seen)
    BY <2>2, <2>3 DEF Least
  <2>6. Exact(d)
    BY <2>2, <2>3, <2>4, <2>5 DEF Exact, ExactHome, ExactMirror
  <2>. DEFINE s == Switched(c, d, 1)  f == CpuRun(c, s, 1)
  <2>7. /\ Cache(s) /\ s.seen = d.seen /\ s.uploaded = d.uploaded /\ s.from = d.from
        /\ s.valid = d.valid /\ s.cpu = d.cpu /\ s.gpu = d.gpu /\ s.rec = d.rec
    BY <2>2, SwitchedMoves
  <2>8. Exact(s)
    BY <2>6, <2>7 DEF Exact, ExactHome, ExactMirror
  <2>9. r.k = f
    <3>1. d.seen + 1 <= Ctx
      BY <2>2, <2>3, MirrorAssumption
    <3>2. r = Done(f)
      BY <2>2, <3>1, LinearOne
    <3>. QED BY <3>2 DEF Done
  <2>. HIDE DEF s
  <2>10. Exact(f) /\ ~f.uploaded /\ Cache(f)
    <3>1. 1 \in Nat /\ ~s.uploaded
      BY <2>2, <2>7
    <3>. QED BY <2>7, <2>8, <3>1, CpuRunExact, CpuRunMoves, Zenon
  <2>. HIDE DEF f
  <2>11. Least(f.valid, f.seen) = f.valid
    BY <2>10 DEF Least, Exact, Cache
  <2>12. /\ e.seen = f.seen /\ e.uploaded = f.uploaded /\ e.valid = f.valid /\ e.cpu = f.cpu /\ e.gpu = f.gpu
         /\ e.rec = f.rec
    BY <2>1, <2>9, <2>10, <2>11 DEF Cache, CacheFields
  <2>. QED BY <2>10, <2>12 DEF Exact, ExactHome, ExactMirror
<1>. QED BY <1>1, <1>2

LEMMA VerifyExact == FedInv /\ ExactInv /\ SpecVerify /\ trust' => ExactInv'
<1> SUFFICES ASSUME FedInv, ExactInv, SpecVerify, trust' PROVE ExactInv'
  OBVIOUS
<1>1. PICK r \in Run(2, TRUE) :
         /\ Account(r)
         /\ IF ~r.ok THEN Thrown(r.k)
            ELSE /\ \E took \in {1, 2} : k' \in (IF took = 2 THEN {r.k} ELSE Rejected(r.k))
                 /\ pc' \in {"idle", "spec"} /\ UNCHANGED <<emb, boundary>>
  BY DEF SpecVerify
<1>2. pc = "spec" /\ UNCHANGED <<c, chain>> /\ ~k.uploaded /\ c.driver = "spec" /\ chain.n = 0
      /\ Cache(k) /\ c \in Loaded /\ Exact(k)
  BY DEF SpecVerify, SpecReady, ExactInv, FedInv, Counted, Shape
<1>3. r.trust
  BY <1>1, Zenon DEF Account
<1>4. Exact(r.k) /\ OnGpu(r.k, emb) /\ Cache(r.k) /\ (r.ok => r.k.seen = k.seen + 2)
  <2>1. 2 \in Nat
    OBVIOUS
  <2>2. Exact(r.k) /\ OnGpu(r.k, emb)
    BY <1>2, <1>3, <2>1, RunExact
  <2>. QED BY <1>2, <2>1, <2>2, RunMoves
<1>5. CASE ~r.ok
  BY <1>1, <1>2, <1>4, <1>5, ThrownExact
<1>6. CASE r.ok
  <2>. DEFINE s == Switched(c, k, 2)
  <2>1. r.k = CpuRun(c, s, 2) /\ k.seen + 2 <= Ctx
    BY <1>2, <1>6, VerifyRun, ForwardFits DEF Run
  <2>2. Cache(s) /\ s.uploaded = k.uploaded /\ s.valid = k.valid
    BY <1>2, SwitchedMoves
  <2>. HIDE DEF s
  <2>3. ~r.k.uploaded /\ r.k.valid = k.valid
    BY <1>2, <2>1, <2>2, CpuRunMoves
  <2>4. k' = r.k \/ k' \in Rejected(r.k)
    BY <1>1, <1>6
  <2>5. Exact(k') /\ ~k'.uploaded
    BY <1>2, <1>4, <1>6, <2>1, <2>3, <2>4, RejectedExact
  <2>6. Exact(k)'
    BY <1>2, <2>5 DEF Exact, ExactHome, ExactMirror
  <2>7. ChainRows' /\ pc' \in {"idle", "spec"} /\ emb' = emb
    BY <1>1, <1>2, <1>6 DEF ChainRows, ExactInv
  <2>. QED BY <1>2, <2>5, <2>6, <2>7 DEF ExactInv, OnGpu, Rewindable
<1>. QED BY <1>5, <1>6

\* The cache stays; the turn goes on to its close, or its chain to the next token.
LEMMA KeptExact ==
    ASSUME FedInv, ExactInv, UNCHANGED <<c, k, emb, boundary>>, ChainRows',
           \/ pc = "decode" /\ pc' = "close" /\ UNCHANGED turn
           \/ pc = "decode" /\ pc' = "close" /\ turn'.unfed = 1
           \/ UNCHANGED <<pc, turn>>
    PROVE  ExactInv'
<1>1. Exact(k)' /\ OnGpu(k, emb)' /\ Rewindable'
  BY DEF ExactInv, Exact, ExactHome, ExactMirror, OnGpu, Rewindable
<1>. QED BY <1>1 DEF ExactInv

LEMMA StopExact == FedInv /\ ExactInv /\ (StopDecoding \/ CloseDocument) => ExactInv'
<1>1. ASSUME FedInv, ExactInv, StopDecoding PROVE ExactInv'
  BY <1>1, KeptExact DEF StopDecoding, ExactInv, ChainRows
<1>2. ASSUME FedInv, ExactInv, CloseDocument PROVE ExactInv'
  <2>1. turn'.unfed = 1
    <3>1. turn' = [turn EXCEPT !.unfed = 1]
      BY <1>2 DEF CloseDocument
    <3>. QED BY <1>2, <3>1 DEF FedInv, Shape, TurnFields
  <2>. QED BY <1>2, <2>1, KeptExact DEF CloseDocument, ExactInv, ChainRows
<1>. QED BY <1>1, <1>2

LEMMA ToldExact == FedInv /\ ExactInv /\ (ChainLost \/ ChainTold) => ExactInv'
<1>1. ASSUME FedInv, ExactInv, ChainLost PROVE ExactInv'
  <2>1. /\ chain' = [chain EXCEPT !.lost = TRUE] /\ UNCHANGED <<c, k, emb, pc, turn, boundary>>
    BY <1>1 DEF ChainLost
  <2>2. chain'.n = chain.n /\ chain'.seen0 = chain.seen0 /\ chain'.landed = chain.landed
        /\ chain'.told = chain.told /\ chain'.stop = chain.stop
    BY <1>1, <2>1 DEF FedInv, Shape, ChainFields
  <2>. QED BY <1>1, <2>1, <2>2, KeptExact DEF ExactInv, ChainRows
<1>2. ASSUME FedInv, ExactInv, ChainTold PROVE ExactInv'
  <2>1. /\ chain.told < chain.landed /\ UNCHANGED <<c, k, emb, pc, turn, boundary>>
        /\ \/ chain' = [chain EXCEPT !.told = chain.told + 1] /\ ~chain.stop
           \/ chain' = [chain EXCEPT !.stop = TRUE]
    BY <1>2 DEF ChainTold
  <2>2. /\ chain'.n = chain.n /\ chain'.seen0 = chain.seen0 /\ chain'.landed = chain.landed
        /\ chain.told \in Nat /\ chain.landed \in Nat
        /\ \/ chain'.told = chain.told + 1 /\ ~chain'.stop
           \/ chain'.told = chain.told
    BY <1>2, <2>1 DEF FedInv, Shape, ChainFields, ExactInv, ChainRows
  <2>3. ChainRows'
    BY <1>2, <2>1, <2>2 DEF ExactInv, ChainRows
  <2>. QED BY <1>2, <2>1, <2>3, KeptExact
<1>. QED BY <1>1, <1>2

LEMMA ChooseExact == FedInv /\ ExactInv /\ Choose => ExactInv'
<1> SUFFICES ASSUME FedInv, ExactInv, Choose PROVE ExactInv'
  OBVIOUS
<1>. DEFINE d == Claimed(c, k)
<1>1. /\ d.seen = k.seen /\ d.uploaded = k.uploaded /\ d.from = k.from /\ d.valid = k.valid /\ d.cpu = k.cpu
      /\ d.gpu = k.gpu /\ d.rec = k.rec /\ d.on = (k.on \/ c.auto)
  BY DEF FedInv, Shape, Cache, CacheFields, Claimed
<1>2. /\ pc = "choose" /\ UNCHANGED <<c, emb, chain, boundary>> /\ k' \in {k, d}
      /\ \/ pc' = "chain" /\ MayChain(c, k) /\ k' = d
         \/ pc' \in {"close", "decode"}
  BY DEF Choose
<1>. HIDE DEF d
<1>3. c.driver = "chat" /\ ~emb
  BY <1>2 DEF ExactInv
<1>4. /\ k'.seen = k.seen /\ k'.uploaded = k.uploaded /\ k'.from = k.from /\ k'.valid = k.valid
      /\ k'.cpu = k.cpu /\ k'.gpu = k.gpu /\ k'.rec = k.rec /\ (k.on => k'.on)
  BY <1>1, <1>2
<1>5. Exact(k)' /\ OnGpu(k, emb)' /\ Rewindable'
  BY <1>2, <1>3, <1>4 DEF ExactInv, Exact, ExactHome, ExactMirror, OnGpu, Rewindable
<1>6. pc' = "chain" => k'.on /\ c.usable /\ k.seen > 0
  BY <1>1, <1>2 DEF MayChain
<1>7. ChainRows'
  BY <1>2, <1>4, <1>6 DEF ExactInv, ChainRows, FedInv, Counted
<1>. QED BY <1>2, <1>3, <1>5, <1>7 DEF ExactInv

LEMMA BeginExact == FedInv /\ ExactInv /\ BeginChain => ExactInv'
<1> SUFFICES ASSUME FedInv, ExactInv, BeginChain PROVE ExactInv'
  OBVIOUS
<1>. DEFINE n == Least(ChainLen, turn.left)  u == Upload(k)
<1>1. pc = "chain" /\ chain.n = 0 /\ UNCHANGED <<c, turn>> /\ Cache(k) /\ Exact(k)
      /\ c.driver = "chat" /\ ~emb /\ k.on /\ c.usable /\ k.seen > 0
  BY DEF BeginChain, ExactInv, ChainRows, FedInv, Shape
<1>2. \/ Thrown(k) /\ UNCHANGED chain
      \/ /\ k' = u /\ UNCHANGED <<emb, pc, boundary>>
         /\ chain' = [NoChain EXCEPT !.n = n, !.seen0 = k.seen]
  BY DEF BeginChain
<1>3. CASE Thrown(k) /\ UNCHANGED chain
  BY <1>1, <1>3, ThrownExact DEF ExactInv
<1>4. CASE /\ k' = u /\ UNCHANGED <<emb, pc, boundary>>
           /\ chain' = [NoChain EXCEPT !.n = n, !.seen0 = k.seen]
  <2>1. /\ Exact(u) /\ u.uploaded /\ u.from = (IF k.uploaded THEN k.from ELSE k.seen)
        /\ u.seen = k.seen /\ u.on = k.on
    BY <1>1, UploadExact, UploadMoves
  <2>2. chain'.seen0 = k.seen /\ chain'.told = 0 /\ chain'.landed = 0 /\ chain'.stop = FALSE
    BY <1>4 DEF NoChain
  <2>. HIDE DEF u
  <2>3. u.on /\ u.from <= u.seen
    <3>1. u.on
      BY <1>1, <2>1, Zenon
    <3>2. u.from <= u.seen
      BY <1>1, <2>1 DEF ExactInv, OnGpu, Cache
    <3>. QED BY <3>1, <3>2
  <2>4. Exact(k)' /\ OnGpu(k, emb)'
    BY <1>1, <1>4, <2>1, <2>3 DEF Exact, ExactHome, ExactMirror, OnGpu
  <2>5. Below(k.seen + 0) \subseteq u.gpu
    <3>1. Below(u.seen) \subseteq u.gpu
      BY <2>1 DEF Exact, ExactHome
    <3>2. k.seen + 0 = u.seen
      BY <1>1, <2>1 DEF Cache
    <3>. QED BY <3>1, <3>2
  <2>6. ChainRows'
    BY <1>1, <1>4, <2>1, <2>2, <2>3, <2>5 DEF ChainRows
  <2>. QED BY <1>1, <1>4, <2>4, <2>6 DEF ExactInv, Rewindable
<1>. QED BY <1>2, <1>3, <1>4

LEMMA LandsExact == FedInv /\ ExactInv /\ ChainLands => ExactInv'
<1> SUFFICES ASSUME FedInv, ExactInv, ChainLands PROVE ExactInv'
  OBVIOUS
<1>. DEFINE p == chain.seen0 + chain.landed
<1>1. /\ pc = "chain" /\ UNCHANGED <<c, emb, pc, turn, boundary>>
      /\ k' = [k EXCEPT !.gpu = GpuRows(k.gpu, p, 1)]
      /\ chain' = [chain EXCEPT !.landed = chain.landed + 1]
      /\ chain.n # 0 /\ k.uploaded /\ Below(p) \subseteq k.gpu
      /\ chain.landed \in Nat /\ chain.seen0 = k.seen /\ k.seen \in Nat
  BY DEF ChainLands, ExactInv, ChainRows, FedInv, Shape, Counted, Cache
<1>. HIDE DEF p
<1>2. /\ k'.seen = k.seen /\ k'.uploaded = k.uploaded /\ k'.from = k.from /\ k'.valid = k.valid
      /\ k'.cpu = k.cpu /\ k'.rec = k.rec /\ k'.on = k.on /\ k'.gpu = {q \in k.gpu : q < p} \cup (p .. p)
  <2>1. p \in Int /\ p .. p + 1 - 1 = p .. p
    BY <1>1 DEF p
  <2>. QED BY <1>1, <2>1 DEF FedInv, Shape, Cache, CacheFields, GpuRows, Extend
<1>3. /\ chain'.n = chain.n /\ chain'.seen0 = chain.seen0 /\ chain'.landed = chain.landed + 1
      /\ chain'.told = chain.told /\ chain'.stop = chain.stop
  BY <1>1 DEF FedInv, Shape, ChainFields
<1>4. Below(p + 1) \subseteq k'.gpu
  BY <1>1, <1>2 DEF Below, p
<1>5. Below(k.seen) \subseteq k'.gpu
  BY <1>1, <1>4 DEF Below, p
<1>6. Exact(k)'
  BY <1>1, <1>2, <1>5 DEF ExactInv, Exact, ExactHome, ExactMirror
<1>7. OnGpu(k, emb)' /\ Rewindable'
  BY <1>1, <1>2 DEF ExactInv, OnGpu, Rewindable
<1>8. chain'.seen0 + chain'.landed = p + 1
  BY <1>1, <1>3 DEF p
<1>9. ChainRows'
  BY <1>1, <1>2, <1>3, <1>4, <1>8 DEF ExactInv, ChainRows, FedInv, Shape
<1>. QED BY <1>1, <1>2, <1>6, <1>7, <1>9 DEF ExactInv

LEMMA EndExact == FedInv /\ ExactInv /\ EndChain => ExactInv'
<1> SUFFICES ASSUME FedInv, ExactInv, EndChain PROVE ExactInv'
  OBVIOUS
<1>. DEFINE left == turn.left - (IF chain.stop THEN chain.told + 1 ELSE chain.n)
            m == chain.seen0 + chain.told + 1
            rows == k.gpu \cap Below(m)
<1>1. /\ pc = "chain" /\ chain.n # 0 /\ UNCHANGED <<c, emb, boundary>> /\ chain' = NoChain
      /\ chain.stop \/ chain.told = chain.n
      /\ chain.landed = chain.n
      /\ pc' = AfterChain(chain, left)
      /\ k' = [k EXCEPT !.seen = Advance(chain), !.gpu = rows, !.lg = chain.seen0 + chain.n]
  BY DEF EndChain, FedInv, Counted
<1>2. /\ k'.seen = Advance(chain) /\ k'.uploaded = k.uploaded /\ k'.from = k.from /\ k'.valid = k.valid
      /\ k'.cpu = k.cpu /\ k'.rec = k.rec /\ k'.on = k.on /\ k'.gpu = k.gpu \cap Below(m)
  BY <1>1 DEF FedInv, Shape, Cache, CacheFields
<1>3. /\ k.uploaded /\ Below(k.seen + chain.landed) \subseteq k.gpu /\ chain.seen0 = k.seen /\ k.seen \in Nat
      /\ chain.landed \in Nat /\ chain.told \in Nat /\ (chain.stop => chain.told < chain.landed)
      /\ k.valid \in Int /\ k.from \in Int
  BY <1>1 DEF ExactInv, ChainRows, FedInv, Shape, Counted, Cache
<1>4. /\ Advance(chain) <= m /\ Advance(chain) <= k.seen + chain.landed /\ k.seen <= Advance(chain)
      /\ m \in Int /\ Advance(chain) \in Int
  BY <1>1, <1>3 DEF Advance
<1>5. pc' \in {"close", "chain", "last"} /\ c.driver = "chat" /\ ~emb /\ c.usable /\ k.on /\ k.seen > 0
  BY <1>1 DEF AfterChain, ExactInv, ChainRows
<1>6. chain'.n = 0 /\ chain'.told = 0 /\ chain'.landed = 0 /\ chain'.stop = FALSE
  BY <1>1 DEF NoChain
<1>. HIDE DEF left, m, rows
<1>7. Below(Advance(chain)) \subseteq k'.gpu
  BY <1>2, <1>3, <1>4 DEF Below
<1>8. Exact(k)'
  <2>1. ~c.linear
    BY <1>5 DEF FedInv, Shape, Loaded
  <2>2. k'.uploaded /\ Below(k'.from) \subseteq k'.cpu /\ k'.valid <= k'.seen
    BY <1>2, <1>3, <1>4 DEF ExactInv, Exact, ExactMirror
  <2>. QED BY <1>1, <1>2, <1>7, <2>1, <2>2 DEF Exact, ExactHome, ExactMirror
<1>9. OnGpu(k, emb)'
  BY <1>1, <1>2, <1>3, <1>4, <1>5 DEF ExactInv, OnGpu
<1>10. k'.on
  BY <1>2, <1>5, Zenon
<1>11. k'.seen > 0
  BY <1>2, <1>3, <1>4, <1>5
<1>12. ChainRows'
  BY <1>1, <1>5, <1>6, <1>10, <1>11 DEF ChainRows
<1>. QED BY <1>1, <1>5, <1>8, <1>9, <1>12 DEF ExactInv, Rewindable

-------------------------------------------------------------------------------
LEMMA ExactStep ==
    ASSUME Callers, QueueInv, FedInv, ExactInv, trust, trust', [Next]_vars
    PROVE  ExactInv'
<1>1. CASE UNCHANGED vars
  BY <1>1 DEF vars, evars, ExactInv, Exact, ExactHome, ExactMirror, OnGpu, Rewindable, ChainRows
<1>2. CASE GpuLayer
  <2>1. LateRows = {}
    BY <1>2, GpuAwaited DEF GpuLayer, QueueInv
  <2>2. /\ k'.seen = k.seen /\ k'.uploaded = k.uploaded /\ k'.from = k.from /\ k'.valid = k.valid
        /\ k'.cpu = k.cpu /\ k'.gpu = k.gpu /\ k'.rec = k.rec /\ k'.on = k.on
    <3>1. k' = [k EXCEPT !.cpu = k.cpu \ {}] /\ k.cpu \ {} = k.cpu
      BY <1>2, <2>1 DEF GpuLayer
    <3>. QED BY <3>1 DEF FedInv, Shape, Cache, CacheFields
  <2>3. UNCHANGED <<c, emb, pc, turn, chain, boundary>>
    BY <1>2 DEF GpuLayer
  <2>4. Exact(k)' /\ OnGpu(k, emb)' /\ Rewindable'
    BY <2>2, <2>3 DEF ExactInv, Exact, ExactHome, ExactMirror, OnGpu, Rewindable
  <2>5. ChainRows'
    BY <2>2, <2>3 DEF ExactInv, ChainRows
  <2>. QED BY <2>2, <2>3, <2>4, <2>5 DEF ExactInv
<1>3. trust => ~pre.early
  BY DEF QueueInv, InOrder, Loop
<1>. QED BY <1>1, <1>2, <1>3, ResetExact, RewindExact, StartExact, EmbedExact, PromptExact, SplitExact,
            StopExact, DecodeExact, CloseExact, StepExact, ChooseExact, BeginExact, LandsExact, ToldExact,
            EndExact, LastExact, StartSpecExact, PlainExact, VerifyExact, Zenon DEF Next

\* Once the accelerator failed unnoticed, nothing is claimed again.
LEMMA TrustOnce == [Next]_vars /\ trust' => trust
<1> SUFFICES ASSUME [Next]_vars, trust' PROVE trust
  OBVIOUS
<1>1. ASSUME NEW r, Account(r) PROVE trust
  BY <1>1, Zenon DEF Account
<1>2. ASSUME \/ Reset \/ Rewind \/ TailLayer \/ TailTimeout \/ EndSplit \/ StopDecoding \/ CloseDocument
             \/ Choose \/ BeginChain \/ ChainLands \/ ChainLost \/ ChainTold \/ EndChain \/ GpuLayer
             \/ \E n \in Prompts, b \in Budgets : StartTurn(n, b)
             \/ \E n \in IF c.driver = "session" THEN SessionPrompts ELSE Prompts : StartPrefill(n)
             \/ \E n \in Prompts \cup {0} : StartEmbed(n)
             \/ \E r \in 1 .. Ctx : SplitPrompt(r)
             \/ UNCHANGED vars
      PROVE  trust' = trust \/ trust' = FALSE
  BY <1>2, Zenon DEF Reset, Rewind, TailLayer, TailTimeout, EndSplit, StopDecoding, CloseDocument, Choose,
     BeginChain, ChainLands, ChainLost, ChainTold, EndChain, GpuLayer, StartTurn, StartPrefill, StartEmbed,
     SplitPrompt, vars, evars
<1>3. ASSUME Prompt \/ DecodeToken \/ CloseTurn \/ Step \/ FeedLast \/ SpecPlain \/ SpecVerify
             \/ \E n \in Budgets : StartSpec(n)
      PROVE  \E r : Account(r)
  BY <1>3, Zenon DEF Prompt, DecodeToken, CloseTurn, Step, FeedLast, SpecPlain, SpecVerify, StartSpec
<1>. QED BY <1>1, <1>2, <1>3, Zenon DEF Next

ContextInv == trust => ExactInv

\* Through uploads, downloads, chains, rewinds, rejected drafts and the failures the
\* code notices, every row the next token attends to is the conversation's own, in
\* the copy of the cache in use and in the rows the next move leaves alone
\* (ContextExact), for callers that rewind a session only to rows the GPU did not
\* decode and templates that are never shorter than the loop takes.
THEOREM Context ==
    ASSUME Callers
    PROVE  Spec => []ContextExact
<1>1. Init => ContextInv
  BY ExactInit DEF ContextInv
<1>2. QueueInv /\ FedInv /\ ContextInv /\ [Next]_vars => ContextInv'
  BY ExactStep, TrustOnce DEF ContextInv
<1>3. ContextInv => ContextExact
  BY DEF ContextInv, ContextExact, ExactInv, Exact
<1>. QED BY QueueInit, QueueStep, FedInit, FedStep, <1>1, <1>2, <1>3, PTL DEF Spec
=============================================================================
