------------------------------- MODULE Engine -------------------------------
(***************************************************************************)
(* The Llama engine of one process and the program that drives it: the      *)
(* cache of KVMirror, the split prefill of HybridPrefill, and the callers   *)
(* of llama_chat.cpp (batch protocol and interactive chat), session.h and   *)
(* the speculative decoder of llama.h, one of them per process.             *)
(*                                                                          *)
(* The host is one thread: pc is where it stands.  The GPU runs beside it,  *)
(* finishing the commands of a split prefill and the tokens of a chain.     *)
(* said is a history variable: the number of tokens of the conversation,    *)
(* the ones the caller gave and the ones it put out as content.  trust      *)
(* becomes FALSE when the accelerator fails in a way the code does not look *)
(* at: a download whose result is dropped, a command given up on.           *)
(***************************************************************************)
EXTENDS KVMirror, HybridPrefill, FiniteSets

CONSTANTS Drivers,        (* which programs: "batch", "chat", "session", "spec" *)
          Prompts,        (* lengths of a templated turn or prompt              *)
          SessionPrompts, (* lengths of a prompt given to Session::prefill      *)
          Budgets,        (* token budgets of a turn                            *)
          SysLen,         (* tokens reset() loads                               *)
          HdrLen,         (* tokens of the assistant header                     *)
          CloseLen,       (* tokens that close a turn                           *)
          ChainLen,       (* TM_CHAT_CHAIN                                      *)
          HybridT,        (* 512: shorter prompts are not split                 *)
          AnyRewind,      (* FALSE: a session's caller rewinds only to rows the  *)
                          (* GPU did not decode                                  *)
          MaxFaults       (* bound: failures of the accelerator                 *)

ASSUME EngineAssumption ==
    /\ Drivers \subseteq {"batch", "chat", "session", "spec"}
    /\ Prompts \subseteq Nat \ {0} /\ SessionPrompts \subseteq Nat \ {0}
    /\ Budgets \subseteq Nat \ {0}
    /\ {SysLen, HdrLen, CloseLen, ChainLen} \subseteq Nat \ {0}
    /\ SysLen >= 2 /\ SysLen <= Ctx /\ HybridT \in Nat /\ MaxFaults \in Nat /\ AnyRewind \in BOOLEAN

\* A templated turn ends in the assistant's header (run_turn).
ASSUME HeaderAssumption == \A n \in Prompts : HdrLen <= n

VARIABLES c, k, emb, pc, turn, chain, boundary, said, trust, faults

evars == <<c, k, emb, pc, turn, chain, boundary, said, trust, faults>>
vars == <<evars, hvars>>

Most(a, b) == IF a > b THEN a ELSE b

\* Neither the token lane nor the layer stack has a kernel for recurrent layers.
Loaded == {l \in [driver : Drivers, auto : BOOLEAN, usable : BOOLEAN, stack : BOOLEAN,
                  linear : BOOLEAN] : l.linear => ~l.usable /\ ~l.stack}

Empty == [seen |-> 0, uploaded |-> FALSE, from |-> 0, valid |-> 0, on |-> FALSE,
          cpu |-> {}, gpu |-> {}, rec |-> 0, lg |-> 0]
NoTurn == [kind |-> "none", n |-> 0, left |-> 0, room |-> 0, unfed |-> 0]
NoChain == [n |-> 0, seen0 |-> 0, landed |-> 0, told |-> 0, stop |-> FALSE, lost |-> FALSE]

\* reset(): reset_cache and the system turn, too short for the GPU to take it.
Fresh(e) == CpuRun(c, Cleared(e), SysLen)

Init == /\ c \in Loaded
        /\ k \in (IF c.driver \in {"batch", "chat"} THEN {CpuRun(c, Empty, SysLen)}
                  ELSE {Empty, [Empty EXCEPT !.on = TRUE]})
        /\ emb = FALSE /\ pc = "idle" /\ turn = NoTurn /\ chain = NoChain
        /\ boundary = -1 /\ said = k.seen /\ trust = TRUE /\ faults = 0
        /\ HInit

\* What forward() may return now, within the bound on failures.
Run(n, all) == {r \in Forward(c, k, n, emb, all) : faults + r.fault <= MaxFaults}
Account(r) == faults' = faults + r.fault /\ trust' = (trust /\ r.trust)

\* The whole prefill on the GPU is queued behind what the GPU still has to do.
NotQueuedBehind(n) == c.stack /\ n >= LoopT => queue = <<>>

\* An exception out of the engine: the batch program restarts the conversation,
\* the session hands it to its caller, nothing catches it in the interactive one.
Thrown(e) ==
    /\ k' = IF c.driver = "batch" /\ turn.kind # "embed" THEN Fresh(e) ELSE e
    /\ said' = k'.seen
    /\ pc' = IF c.driver \in {"batch", "session"} THEN "idle" ELSE "dead"
    /\ UNCHANGED <<emb, boundary>>

-----------------------------------------------------------------------------
(* Commands given between turns.                                             *)

Idle(drivers) == pc = "idle" /\ c.driver \in drivers

Reset ==
    /\ Idle({"batch", "chat"})
    /\ k' = Fresh(k) /\ said' = SysLen
    /\ UNCHANGED <<c, emb, pc, turn, chain, boundary, trust, faults, hvars>>

\* /rewind to the row /turnpos reported, Session::rewind to prompt_len().
Rewind ==
    /\ Idle({"batch", "session"})
    /\ CanRewind(c, k, boundary)
    /\ c.driver = "session" /\ ~AnyRewind => ~k.uploaded \/ boundary <= k.from
    /\ k' = Rewound(k, boundary) /\ said' = boundary
    /\ UNCHANGED <<c, emb, pc, turn, chain, boundary, trust, faults, hvars>>

\* The test before a turn of n tokens and budget b; the interactive program asks
\* for the whole budget, the batch one only for the closing tokens.
Fits(n, b) == IF c.driver = "chat" THEN k.seen + n + b <= Ctx
              ELSE k.seen + n + CloseLen <= Ctx

Budget_Whole(b, room) == b
\* A batch turn's budget shrinks to the room that is left, but not to nothing.
Budget(b, room) == Most(1, Least(b, room))

StartTurn(n, b) ==
    /\ Idle({"batch", "chat"})
    /\ LET k0 == IF Fits(n, b) THEN k ELSE Fresh(k)
           room == Ctx - k0.seen - n - CloseLen
       IN  /\ k' = k0 /\ said' = IF Fits(n, b) THEN said ELSE SysLen
           /\ turn' = [kind |-> "turn", n |-> n, room |-> room, unfed |-> 0,
                       left |-> IF c.driver = "chat" THEN b ELSE Budget(b, room)]
    /\ pc' = "prompt"
    /\ UNCHANGED <<c, emb, chain, boundary, trust, faults, hvars>>

\* /prefill, Session::prefill and the prompt of a speculative run.
StartPrefill(n) ==
    /\ Idle({"batch", "session", "spec"})
    /\ LET k0 == IF c.driver = "batch" /\ k.seen + n > Ctx THEN Fresh(k) ELSE k
           late == c.driver = "batch" /\ k0.seen + n > Ctx
       IN  /\ k' = k0 /\ said' = IF k0 = k THEN said ELSE SysLen
           /\ turn' = [NoTurn EXCEPT !.kind = "prefill", !.n = n]
           /\ pc' = IF late THEN "idle" ELSE "prompt"
           /\ boundary' = IF c.driver = "session" THEN k.seen ELSE boundary
    /\ UNCHANGED <<c, emb, chain, trust, faults, hvars>>

\* /embed: collection is on from here to the end of a forward that succeeds.
StartEmbed(n) ==
    /\ Idle({"batch"})
    /\ k' = Cleared(k) /\ said' = 0 /\ emb' = TRUE
    /\ turn' = [NoTurn EXCEPT !.kind = "embed", !.n = n]
    /\ pc' = "prompt"
    /\ UNCHANGED <<c, chain, boundary, trust, faults, hvars>>

-----------------------------------------------------------------------------
(* The forward of a prompt.                                                  *)

Prompted(e) ==
    /\ k' = e /\ said' = said + turn.n
    /\ emb' = (emb /\ turn.kind # "embed")
    /\ boundary' = IF turn.kind = "turn" /\ c.driver = "batch" THEN e.seen - HdrLen ELSE boundary
    /\ pc' = CASE turn.kind # "turn" -> "idle"
               [] turn.kind = "turn" /\ c.driver = "chat" -> "choose"
               [] OTHER -> "decode"

Prompt ==
    /\ pc = "prompt" /\ NotQueuedBehind(turn.n)
    /\ \E r \in Run(turn.n, FALSE) : /\ Account(r)
                                     /\ IF r.ok THEN Prompted(r.k) ELSE Thrown(r.k)
    /\ UNCHANGED <<c, turn, chain, hvars>>

\* A long prompt with `tail` rows for this thread: the GPU keeps at least half.
SplitPrompt(tail) ==
    /\ pc = "prompt" /\ c.stack
    /\ turn.n >= HybridT /\ turn.n <= Ctx - k.seen
    /\ 2 * tail <= turn.n
    /\ k' = Download(k)
    /\ HBegin(k.seen, turn.n - tail, tail)
    /\ pc' = "split"
    /\ UNCHANGED <<c, emb, turn, chain, boundary, said, trust, faults>>

TailLayer == pc = "split" /\ HLayer /\ UNCHANGED evars

TailTimeout ==
    /\ pc = "split" /\ faults < MaxFaults
    /\ HTimeout
    /\ trust' = FALSE /\ faults' = faults + 1
    /\ UNCHANGED <<c, k, emb, pc, turn, chain, boundary, said>>

\* The rows of a split prefill are exact if every tail row read finished rows.
SplitRun(n) == LET e == CpuRun(c, k, n)
               IN  IF pre.early THEN [e EXCEPT !.cpu = @ \cap Below(k.seen)] ELSE e

EndSplit ==
    /\ pc = "split"
    /\ \/ HLeave(TRUE) /\ Prompted(SplitRun(turn.n))
       \/ HLeave(FALSE) /\ Thrown(k)
    /\ UNCHANGED <<c, turn, chain, trust, faults>>

-----------------------------------------------------------------------------
(* Decoding on the host, one forward per token.                              *)

\* The turn ends before its budget: an end token, a leaked template, a dead grammar.
StopDecoding ==
    /\ pc = "decode" /\ pc' = "close"
    /\ UNCHANGED <<c, k, emb, turn, chain, boundary, said, trust, faults, hvars>>

DecodeToken ==
    /\ pc = "decode"
    /\ \E r \in Run(1, FALSE) :
         /\ Account(r)
         /\ IF r.ok THEN /\ k' = r.k /\ said' = said + 1
                         /\ pc' = IF turn.left = 1 THEN "close" ELSE "decode"
                         /\ UNCHANGED <<emb, boundary>>
            ELSE Thrown(r.k)
    /\ turn' = [turn EXCEPT !.left = @ - 1]
    /\ UNCHANGED <<c, chain, hvars>>

\* The token that completes a grammar's document is put out and not fed.
CloseDocument ==
    /\ pc = "decode" /\ c.driver = "batch"
    /\ said' = said + 1 /\ turn' = [turn EXCEPT !.unfed = 1]
    /\ pc' = "close"
    /\ UNCHANGED <<c, k, emb, chain, boundary, trust, faults, hvars>>

CloseTurn ==
    /\ pc = "close"
    /\ \E r \in Run(CloseLen, FALSE) :
         /\ Account(r)
         /\ IF r.ok THEN /\ k' = r.k /\ said' = (said - turn.unfed) + CloseLen
                         /\ pc' = "idle" /\ UNCHANGED <<emb, boundary>>
            ELSE Thrown(r.k)
    /\ UNCHANGED <<c, turn, chain, hvars>>

\* Session::step: one token from the logits of the last call.
Step ==
    /\ Idle({"session"}) /\ k.lg > 0
    /\ \E r \in Run(1, FALSE) :
         /\ Account(r)
         /\ IF r.ok THEN k' = r.k /\ said' = said + 1 /\ UNCHANGED <<emb, boundary, pc>>
            ELSE Thrown(r.k)
    /\ UNCHANGED <<c, turn, chain, hvars>>

-----------------------------------------------------------------------------
(* The interactive program's chains of GPU tokens.                           *)

\* The first token is chosen on the host; then the chain, or the host loop.
Choose ==
    /\ pc = "choose"
    /\ IF turn.left > 1 /\ MayChain(c, k)
       THEN /\ k' = Claimed(c, k)
            /\ \/ pc' = "chain" /\ said' = said + 1 /\ turn' = [turn EXCEPT !.left = @ - 1]
               \/ pc' = "close" /\ UNCHANGED <<said, turn>>
       ELSE /\ k' = IF turn.left > 1 THEN Claimed(c, k) ELSE k
            /\ pc' = "decode" /\ UNCHANGED <<said, turn>>
    /\ UNCHANGED <<c, emb, chain, boundary, trust, faults, hvars>>

\* gpu_chain_begin: n tokens committed at once.
BeginChain ==
    /\ pc = "chain" /\ chain.n = 0
    /\ LET n == Least(ChainLen, turn.left)
       IN  IF k.seen + n > Ctx THEN Thrown(k) /\ UNCHANGED <<chain, faults>>
           ELSE \/ /\ k' = Upload(k)
                   /\ chain' = [NoChain EXCEPT !.n = n, !.seen0 = k.seen]
                   /\ UNCHANGED <<emb, pc, boundary, said, faults>>
                \/ /\ faults < MaxFaults /\ faults' = faults + 1
                   /\ Thrown(k) /\ UNCHANGED chain
    /\ UNCHANGED <<c, turn, trust, hvars>>

\* The GPU finishes the next token of the chain, its row included.
ChainLands ==
    /\ pc = "chain" /\ chain.landed < chain.n /\ ~chain.lost
    /\ LET p == chain.seen0 + chain.landed
       IN  k' = [k EXCEPT !.gpu = GpuRows(@, p, 1)]
    /\ chain' = [chain EXCEPT !.landed = @ + 1]
    /\ UNCHANGED <<c, emb, pc, turn, boundary, said, trust, faults, hvars>>

\* A command buffer of the chain fails: its token never appears in the slot.
ChainLost ==
    /\ pc = "chain" /\ chain.landed < chain.n /\ ~chain.lost
    /\ faults < MaxFaults /\ faults' = faults + 1
    /\ chain' = [chain EXCEPT !.lost = TRUE]
    /\ UNCHANGED <<c, k, emb, pc, turn, boundary, said, trust, hvars>>

\* gpu_chain_poll delivers a token, and the host puts it out or stops the turn at it.
ChainTold ==
    /\ pc = "chain" /\ chain.told < chain.landed /\ ~chain.stop
    /\ \/ /\ said' = said + 1 /\ chain' = [chain EXCEPT !.told = @ + 1]
       \/ /\ chain' = [chain EXCEPT !.stop = TRUE] /\ UNCHANGED said
    /\ UNCHANGED <<c, k, emb, pc, turn, boundary, trust, faults, hvars>>

\* gpu_chain_end(keep): the chain's tokens up to the one the caller stopped at.
Advance(ch) == IF ch.stop THEN ch.seen0 + ch.told + 1 ELSE ch.seen0 + ch.n

AfterChain_LastUnfed(ch, left) == IF ch.stop \/ left = 0 THEN "close" ELSE "chain"
\* The host feeds the last token of a budget that ran out.
AfterChain(ch, left) == IF ch.stop THEN "close" ELSE IF left > 0 THEN "chain" ELSE "last"

\* Rows past the last token put out are of tokens nobody kept.
EndChain ==
    /\ pc = "chain" /\ chain.n > 0 /\ chain.landed = chain.n
    /\ chain.stop \/ chain.told = chain.n
    /\ k' = [k EXCEPT !.seen = Advance(chain), !.gpu = @ \cap Below(chain.seen0 + chain.told + 1),
                      !.lg = chain.seen0 + chain.n]
    /\ LET left == turn.left - (IF chain.stop THEN chain.told + 1 ELSE chain.n)
       IN  /\ turn' = [turn EXCEPT !.left = left]
           /\ pc' = AfterChain(chain, left)
    /\ chain' = NoChain
    /\ UNCHANGED <<c, emb, boundary, said, trust, faults, hvars>>

\* The budget ended: the last token chosen is content and is fed by the host.
FeedLast ==
    /\ pc = "last"
    /\ \E r \in Run(1, FALSE) :
         /\ Account(r)
         /\ IF r.ok THEN /\ k' = r.k /\ pc' = "close" /\ UNCHANGED <<emb, boundary, said>>
            ELSE Thrown(r.k)
    /\ UNCHANGED <<c, turn, chain, hvars>>

-----------------------------------------------------------------------------
(* spec_generate_greedy: turn.left tokens are still to come.                 *)

StartSpec(n) ==
    /\ Idle({"spec"}) /\ n > 1
    /\ turn' = [NoTurn EXCEPT !.kind = "spec", !.left = n - 1]
    /\ \E r \in Run(1, FALSE) :
         /\ Account(r)
         /\ IF r.ok THEN k' = r.k /\ said' = said + 1 /\ pc' = "spec" /\ UNCHANGED <<emb, boundary>>
            ELSE Thrown(r.k)
    /\ UNCHANGED <<c, chain, hvars>>

\* No draft this round: none is ready, the last token is next, or the hook has none.
SpecPlain ==
    /\ pc = "spec"
    /\ \E r \in Run(1, FALSE) :
         /\ Account(r)
         /\ IF r.ok THEN /\ k' = r.k /\ said' = said + 1
                         /\ pc' = IF turn.left = 1 THEN "idle" ELSE "spec"
                         /\ UNCHANGED <<emb, boundary>>
            ELSE Thrown(r.k)
    /\ turn' = [turn EXCEPT !.left = @ - 1]
    /\ UNCHANGED <<c, chain, hvars>>

Rejected_WithoutSnapshot(v) ==
    {[v EXCEPT !.seen = k.seen + 1, !.cpu = @ \cap Below(k.seen + 1), !.lg = k.seen + 1]}
\* The cache after a draft was rejected: the token before it stays.  Recurrent
\* layers are put back to their snapshot and the token is run again.
Rejected(v) ==
    LET p0 == k.seen
    IN  IF c.linear
        THEN {[r.k EXCEPT !.valid = Least(@, r.k.seen)] :
                r \in Forward(c, [v EXCEPT !.rec = k.rec, !.seen = p0, !.cpu = @ \cap Below(p0)],
                              1, emb, FALSE)}
        ELSE {[v EXCEPT !.seen = p0 + 1, !.cpu = @ \cap Below(p0 + 1), !.lg = p0 + 1,
                        !.valid = Least(@, p0 + 1)]}

\* One verified round: both tokens are taken, or the draft is dropped.
SpecVerify ==
    /\ pc = "spec" /\ turn.left > 1 /\ SpecReady(k)
    /\ \E r \in Run(2, TRUE) :
         /\ Account(r)
         /\ IF ~r.ok THEN Thrown(r.k) /\ UNCHANGED turn
            ELSE \E took \in {1, 2} :
                   /\ k' \in (IF took = 2 THEN {r.k} ELSE Rejected(r.k))
                   /\ said' = said + took
                   /\ turn' = [turn EXCEPT !.left = @ - took]
                   /\ pc' = IF turn.left = took THEN "idle" ELSE "spec"
                   /\ UNCHANGED <<emb, boundary>>
    /\ UNCHANGED <<c, chain, hvars>>

-----------------------------------------------------------------------------
\* The GPU finishes a layer; one that nobody waits for writes over rows that may
\* be another conversation's by now.
GpuLayer ==
    /\ HGpu
    /\ k' = [k EXCEPT !.cpu = @ \ LateRows]
    /\ UNCHANGED <<c, emb, pc, turn, chain, boundary, said, trust, faults>>

Next == \/ Reset \/ Rewind
        \/ \E n \in Prompts, b \in Budgets : StartTurn(n, b)
        \/ \E n \in IF c.driver = "session" THEN SessionPrompts ELSE Prompts : StartPrefill(n)
        \/ \E n \in Prompts \cup {0} : StartEmbed(n)
        \/ Prompt \/ (\E r \in 1 .. Ctx : SplitPrompt(r)) \/ TailLayer \/ TailTimeout \/ EndSplit
        \/ StopDecoding \/ DecodeToken \/ CloseDocument \/ CloseTurn \/ Step
        \/ Choose \/ BeginChain \/ ChainLands \/ ChainLost \/ ChainTold \/ EndChain \/ FeedLast
        \/ (\E n \in Budgets : StartSpec(n)) \/ SpecPlain \/ SpecVerify
        \/ GpuLayer

\* The host's own steps in the middle of a call: the thread keeps running.
HostGoesOn == \/ Prompt \/ TailLayer \/ EndSplit \/ StopDecoding \/ DecodeToken \/ CloseTurn
              \/ Choose \/ BeginChain \/ ChainTold \/ EndChain \/ FeedLast \/ SpecPlain

\* The GPU finishes what it was given unless it fails it, and the host's calls go on.
Fairness == /\ WF_vars(HostGoesOn)
            /\ WF_vars(GpuLayer)
            /\ WF_vars(ChainLands)

Spec == Init /\ [][Next]_vars /\ Fairness

-----------------------------------------------------------------------------
Caches == [seen : 0 .. Ctx, uploaded : BOOLEAN, from : 0 .. Ctx, valid : 0 .. Ctx, on : BOOLEAN,
           cpu : SUBSET (0 .. Ctx - 1), gpu : SUBSET (0 .. Ctx - 1),
           rec : {Diverged} \cup 0 .. Ctx, lg : {Diverged} \cup 0 .. Ctx]

\* Type invariant of the engine and its drivers.
TypeOK ==
    /\ c \in Loaded /\ k \in Caches /\ emb \in BOOLEAN
    /\ pc \in {"idle", "prompt", "split", "decode", "close", "choose", "chain", "last", "spec", "dead"}
    /\ turn.left \in Nat /\ turn.n \in Nat /\ turn.unfed \in {0, 1}
    /\ chain.landed \in 0 .. chain.n /\ chain.told \in 0 .. chain.landed
    /\ boundary \in {-1} \cup 0 .. Ctx /\ said \in Nat
    /\ trust \in BOOLEAN /\ faults \in 0 .. MaxFaults

\* What the next forward attends to, in the copy it will read: rows [0, seen).
ExactHome(e) == /\ Below(e.seen) \subseteq (IF e.uploaded THEN e.gpu ELSE e.cpu)
                /\ c.linear => e.rec = e.seen

\* "Rows [0, gpu_kv_valid_) of the GPU cache equal the CPU cache": what the next
\* upload leaves out, and what the next download leaves alone.
ExactMirror(e) == IF e.uploaded THEN Below(e.from) \subseteq e.cpu
                  ELSE Below(Least(e.valid, e.seen)) \subseteq e.gpu

\* Through uploads, downloads, chains, rewinds, rejected drafts and failures the
\* code notices, every row the next token attends to is the conversation's own
\* (gpu_token_prologue, forward, gpu_chain_end, rewind_to, spec_generate_greedy).
ContextExact == trust => ExactHome(k) /\ ExactMirror(k)

\* "prompt_len() is the sound rewind point for re-prefilling a generated turn from
\* text" (session.h): whatever a session does, the rows the next token attends to
\* are those of its conversation.
PromptLenSound == c.driver = "session" /\ trust => ExactHome(k)

\* "Every chosen token is fed exactly once": whenever the host is about to choose
\* a token or to take a command, the cache holds as many tokens as the
\* conversation has, and the logits it chooses from follow exactly those; the one
\* token that closed a grammar's document is the exception (llama_chat.cpp's turn
\* loops, gpu_chain_end, the reject branch of spec_generate_greedy).
FedExactlyOnce ==
    /\ pc \in {"idle", "decode", "choose", "spec"} => k.seen = said
    /\ pc = "close" => k.seen = said - turn.unfed
    /\ pc \in {"decode", "choose", "spec"} => k.lg = k.seen

\* The tail rows of a split prefill never read a layer of the GPU's rows before
\* the GPU has finished it, as long as no prefill was given up on: the event's
\* values of one prefill are never signalled by another.
TailReadsFinishedRows == trust => ~pre.early

\* A batch turn that started with a row to spare is never thrown away for lack of
\* room while it decodes or closes; only a failure of the accelerator can lose the
\* conversation ("the per-turn cap shrinks instead of discarding history").
TurnKeepsHistory ==
    [][(c.driver = "batch" /\ pc \in {"decode", "close"} /\ turn.room > 0 /\ k'.seen < k.seen)
         => faults' > faults]_vars

\* Every turn, prefill and speculative run comes to its end, also when the GPU
\* outlives a deadline; only a chain whose command buffer failed is polled for ever.
CallsEnd == (pc # "idle") ~> (pc \in {"idle", "dead"} \/ chain.lost)
=============================================================================
