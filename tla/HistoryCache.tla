----------------------------- MODULE HistoryCache -----------------------------
(***************************************************************************)
(* The conversation cache of one engine process and the Ollama shim's book *)
(* of it: LlamaChatSession (examples/from_ollama.py) keeps `loaded`, the   *)
(* turns it believes the engine's KV cache holds, and loads only what a    *)
(* client's history adds to them.  The engine (llama_chat.cpp, batch mode) *)
(* resets the conversation on its own when a turn does not fit.            *)
(*                                                                         *)
(* One request at a time, as the lane's lock has it; one action per engine *)
(* command.  A turn is a role and a text; the cache is a sequence of       *)
(* tokens, so that /rewind to a stale row is what it is in the engine.     *)
(* The protocol is taken to be in step; module BatchProtocol is about that.*)
(***************************************************************************)
EXTENDS Integers, Sequences, FiniteSets, SequencesExt

CONSTANTS
    Texts,        (* what a message says; "" is nothing                     *)
    Size,         (* Size[x]: tokens of text x in its templated turn        *)
    Proxy,        (* Proxy[x]: what _loaded_tokens reckons for x            *)
    Ctx,          (* the engine's context window, in tokens                 *)
    Budget,       (* tokens a reply may have                                *)
    Pads,         (* may a text be padded with blanks? a set of BOOLEANs    *)
    MaxHistory,   (* messages a client sends before the last one            *)
    Embedding     (* may an embedding be asked for?                         *)

ASSUME HistoryAssumption ==
    /\ "" \in Texts
    /\ Size \in [Texts -> Nat] /\ Proxy \in [Texts -> Nat]
    /\ Ctx \in Nat \ {0}     \* the loader refuses a model without a window
    /\ Budget \in Nat \ {0} /\ MaxHistory \in Nat
    /\ Pads \subseteq BOOLEAN /\ Embedding \in BOOLEAN

VARIABLES
    recurrent,    (* the model has recurrent layers: rewind_to refuses      *)
    cache,        (* the engine: its tokens, oldest first; seen is Len      *)
    turn_boundary,
    loaded,       (* the shim: the turns it believes the cache holds        *)
    pc, want, todo, prompt, reply,    (* the request in progress            *)
    intact        (* history: since the last /reset the engine has dropped  *)
                  (* nothing but what the shim rewound                      *)

engineVars == <<cache, turn_boundary, intact>>
requestVars == <<want, todo, prompt, reply>>
vars == <<recurrent, engineVars, loaded, pc, requestVars>>

Turn(role, text) == <<role, text>>
Turns == {"user", "assistant"} \X (Texts \ {""})     \* what replay loads
NoPrompt == [text |-> "", padded |-> FALSE]

\* A token: what it came from, and whether its text had blanks around it.
Token(kind, turn, padded, i) ==
    [kind |-> kind, role |-> turn[1], text |-> turn[2], padded |-> padded, at |-> i]
Tokens == [kind : {"text", "system", "header", "sampled", "close"},
           role : {"", "user", "assistant"}, text : Texts, padded : BOOLEAN, at : Nat]
TextTokens(turn, padded) == [i \in 1 .. Size[turn[2]] |-> Token("text", turn, padded, i)]
Marker(kind) == Token(kind, Turn("", ""), FALSE, 1)

System == <<Marker("system")>>
Header == <<Marker("header")>>                       \* assistant_hdr
Closing == <<Marker("close"), Marker("close")>>      \* turn_end and a newline
Sampled(n, text) == [i \in 1 .. n |-> Token("sampled", Turn("assistant", text), FALSE, i)]

Init ==
    /\ recurrent \in BOOLEAN
    /\ cache = <<>> /\ turn_boundary = -1     \* batch mode starts without a reset()
    /\ loaded = <<>>
    /\ pc = "idle" /\ want = <<>> /\ todo = <<>> /\ prompt = NoPrompt /\ reply = NoPrompt
    /\ intact = FALSE

-------------------------------------------------------------------------------
(* replay *)

\* _turn_key and the filter of replay: unknown roles are the user's, empty
\* turns are dropped.  Texts are compared without the blanks around them.
Normalized(messages) ==
    FlattenSeq([i \in DOMAIN messages |-> IF messages[i][2] = "" THEN <<>> ELSE <<messages[i]>>])

LoadedTokens == FoldLeft(LAMBDA sum, turn : sum + Proxy[turn[2]], 0, loaded)
NearlyFull == 10 * LoadedTokens > 6 * Ctx

\* How many turns of the history are in the cache already.
Keep_Diverged(turns) ==
    IF NearlyFull \/ SubSeq(turns, 1, Min({Len(turns), Len(loaded)}))
                       # SubSeq(loaded, 1, Min({Len(turns), Len(loaded)}))
    THEN 0 ELSE Min({Len(turns), Len(loaded)})
Keep(turns) == IF NearlyFull \/ ~IsPrefix(loaded, turns) THEN 0 ELSE Len(loaded)

Reset == /\ cache' = System
         /\ intact' = TRUE
         /\ UNCHANGED turn_boundary

\* /api/chat: compare the history with the book, reset unless all of the book
\* is a prefix of it.  /api/generate sends no history and always resets.
Chat(messages, p) ==
    /\ pc = "idle" /\ pc' = "replay"
    /\ want' = Normalized(messages)
    /\ prompt' = p /\ UNCHANGED reply
    /\ LET keep == Keep(want') IN
         /\ todo' = SubSeq(want', keep + 1, Len(want'))
         /\ IF keep = 0 THEN Reset /\ loaded' = <<>>
                        ELSE UNCHANGED <<engineVars, loaded>>
    /\ UNCHANGED recurrent

Fits_Always(before, n) == TRUE
Fits(before, n) == Len(before) + n <= Ctx

\* prefill_turn: restart the conversation when the turn does not fit what is
\* left of the window, and refuse it when it does not fit then either.
Restarted_Never(n) == cache
Restarted(n) == IF Fits(cache, n) THEN cache ELSE System

PrefillEngine(turn, padded) ==
    LET base == Restarted(Size[turn[2]]) IN
    /\ cache' = IF Fits(base, Size[turn[2]]) THEN base \o TextTokens(turn, padded) ELSE base
    /\ intact' = (intact /\ Fits(cache, Size[turn[2]]))
    /\ UNCHANGED turn_boundary

Prefilled(turn) == Fits(Restarted(Size[turn[2]]), Size[turn[2]])

\* prefill, one turn of the history that the cache does not hold; a refused one
\* ends the request with ContextTooSmall.
Prefill ==
    /\ pc = "replay" /\ todo # <<>>
    /\ PrefillEngine(Head(todo), FALSE)
    /\ \/ /\ Prefilled(Head(todo))
          /\ loaded' = Append(loaded, Head(todo))
          /\ todo' = Tail(todo)
          /\ UNCHANGED <<pc, want, prompt, reply>>
       \/ /\ ~Prefilled(Head(todo))
          /\ pc' = "idle"
          /\ want' = <<>> /\ todo' = <<>> /\ prompt' = NoPrompt
          /\ UNCHANGED <<loaded, reply>>
    /\ UNCHANGED recurrent

-------------------------------------------------------------------------------
(* complete: run_turn under guarded_turn *)

\* Where the turn's own tokens begin, in a cache the prompt has just entered.
Boundary_AfterHeader(opened) == Len(opened)
Boundary(opened) == Len(opened) - Len(Header)

\* run_turn on a cache base: the prompt, the header, n sampled tokens and the
\* closing markers, or a restarted conversation if one of them does not fit.
RunTurn(base, p, r, n) ==
    LET opened == base \o TextTokens(Turn("user", p.text), p.padded) \o Header
        closed == opened \o Sampled(n, r.text) \o Closing
    IN /\ turn_boundary' = IF Fits(opened, 0) THEN Boundary(opened) ELSE turn_boundary
       /\ cache' = IF Fits(closed, 0) THEN closed ELSE System
       /\ intact' = (intact /\ base = cache /\ Fits(closed, 0))

TurnNeeds(p) == Size[p.text] + Len(Header) + Len(Closing)

\* replay ends with loaded = want.  The reply is empty when the model ends the
\* turn at once, or when the prompt alone does not fit.
Generate(r, n) ==
    /\ pc = "replay" /\ todo = <<>>
    /\ LET base == IF Fits(cache, TurnNeeds(prompt)) THEN cache ELSE System
           room == Ctx - Len(base) - TurnNeeds(prompt)
           rejected == ~Fits(base, Size[prompt.text] + Len(Header))
       IN /\ n <= Max({1, Min({Budget, room})})
          /\ rejected => n = 0
          /\ RunTurn(base, prompt, r, n)
    /\ (n = 0) = (r.text = "")
    /\ loaded' = want
    /\ reply' = r
    /\ pc' = "append"
    /\ UNCHANGED <<recurrent, want, todo, prompt>>

-------------------------------------------------------------------------------
(* canonicalize_turn: put the turn that ran into the form a replay builds  *)

WithPrompt_Lost == loaded
WithPrompt == IF prompt.text = "" THEN loaded ELSE Append(loaded, Turn("user", prompt.text))

EndRequest == /\ pc' = "idle"
              /\ want' = <<>> /\ todo' = <<>> /\ prompt' = NoPrompt /\ reply' = NoPrompt

CanRewind == ~recurrent /\ turn_boundary \in 0 .. Len(cache)

\* /turnpos and /rewind: then the reply is loaded from text, or there is none.
Rewind ==
    /\ pc = "append"
    /\ CanRewind
    /\ cache' = SubSeq(cache, 1, turn_boundary)
    /\ loaded' = WithPrompt
    /\ IF reply.text = "" THEN EndRequest
                          ELSE pc' = "reload" /\ UNCHANGED requestVars
    /\ UNCHANGED <<recurrent, turn_boundary, intact>>

\* No boundary: nothing may be reused from the cache.
GiveUp ==
    /\ pc = "append"
    /\ ~CanRewind
    /\ loaded' = <<>>
    /\ EndRequest
    /\ UNCHANGED <<recurrent, engineVars>>

\* The reply, prefilled as an assistant turn; a refusal forgets everything.
Reload ==
    LET turn == Turn("assistant", reply.text) IN
    /\ pc = "reload"
    /\ PrefillEngine(turn, reply.padded)
    /\ loaded' = IF Prefilled(turn) THEN Append(loaded, turn) ELSE <<>>
    /\ EndRequest
    /\ UNCHANGED recurrent

-------------------------------------------------------------------------------
\* /embed runs on a cache of its own making; the text must fit the window.
Embed(text) ==
    /\ Embedding /\ pc = "idle"
    /\ cache' = IF text # "" /\ Size[text] <= Ctx
                THEN TextTokens(Turn("", text), FALSE) ELSE <<>>
    /\ intact' = FALSE
    /\ UNCHANGED <<recurrent, turn_boundary, loaded, pc, requestVars>>

Message == {"user", "assistant"} \X Texts
Padded == [text : Texts \ {""}, padded : Pads]

Next ==
    \/ \E n \in 0 .. MaxHistory : \E messages \in [1 .. n -> Message], p \in Padded :
          Chat(messages, p)
    \/ Prefill
    \/ \E r \in Padded \cup {NoPrompt}, n \in 0 .. Budget : Generate(r, n)
    \/ Rewind \/ GiveUp \/ Reload
    \/ \E x \in Texts : Embed(x)

Spec == Init /\ [][Next]_vars

-------------------------------------------------------------------------------
\* The cache with the blanks around its texts taken away, and what a replay of
\* turns builds from nothing.
Plain(tokens) == [i \in DOMAIN tokens |-> [tokens[i] EXCEPT !.padded = FALSE]]
Replayed(turns) == System \o FlattenSeq([i \in DOMAIN turns |-> TextTokens(turns[i], FALSE)])

\* The types, and the window: the engine never holds more tokens than it.
TypeOK ==
    /\ recurrent \in BOOLEAN /\ intact \in BOOLEAN
    /\ cache \in Seq(Tokens)
    /\ Len(cache) <= Ctx
    /\ turn_boundary \in -1 .. Ctx
    /\ loaded \in Seq(Turns)
    /\ pc \in {"idle", "replay", "append", "reload"}
    /\ want \in Seq(Turns) /\ IsSuffix(todo, want)
    /\ prompt \in Padded \cup {NoPrompt} /\ reply \in Padded \cup {NoPrompt}

\* The book is exact between requests: as long as the engine has not dropped
\* the conversation by itself, what the shim would reuse is what a full replay
\* would build (the comment on `loaded`, and canonicalize_turn).
BookIsExact ==
    pc = "idle" /\ intact /\ loaded # <<>> => Plain(cache) = Replayed(loaded)

\* The answer is conditioned on the client's history and on nothing else,
\* whatever was reused, whoever asked before, however the last turn ended.
ConditionsOnHistory ==
    pc = "replay" /\ todo = <<>> /\ intact => Plain(cache) = Replayed(want)

\* An answered turn is reusable: the book then holds the client's history, its
\* prompt and the reply, so that the next request loads only what it adds.
AnswerIsReusable ==
    [][(pc = "append" \/ pc = "reload") /\ pc' = "idle" /\ intact' /\ ~recurrent =>
         loaded' = want \o Normalized(<<Turn("user", prompt.text), Turn("assistant", reply.text)>>)]_vars

\* A request is refused for its size only if the refused turn could not fit an
\* empty conversation either (ContextTooSmall).
RefusedOnlyIfTooLong ==
    [][pc = "replay" /\ pc' = "idle" => Len(System) + Size[Head(todo)[2]] > Ctx]_vars

-------------------------------------------------------------------------------
\* "reusing a prefix the cache does not actually hold is a wrong answer": no
\* request reuses a turn of the book that is not in the cache.
ReusesOnlyWhatIsHeld ==
    [][pc = "idle" /\ pc' = "replay" /\ loaded' # <<>> =>
         IsPrefix(Replayed(loaded'), Plain(cache))]_vars
===============================================================================
