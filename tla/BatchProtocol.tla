----------------------------- MODULE BatchProtocol -----------------------------
(***************************************************************************)
(* The line protocol between an engine in batch mode (llama_chat.cpp) and  *)
(* its driver in the shim (LlamaChatSession, examples/from_ollama.py).     *)
(* The driver writes a message and EOT; the engine answers a command with  *)
(* one ACK line, a turn with the text and <<<EOT>>>, and then prints       *)
(* PROMPT and reads again.  A pump thread queues what the engine prints,   *)
(* and every read of the queue has a timeout.  The engine may die, may be  *)
(* late, and the client may go away in the middle of a streamed reply; the *)
(* session is kept in every such case.                                     *)
(*                                                                         *)
(* One request at a time, as the lane's lock has it: some commands, maybe  *)
(* a turn with its /turnpos, some commands.  A line carries the message it *)
(* answers, which the real one does not: the properties are about that.    *)
(***************************************************************************)
EXTENDS Naturals, Sequences, FiniteSets, SequencesExt

CONSTANTS
    MaxMessages,    (* bound: messages written to one engine process        *)
    MaxPieces,      (* bound: lines of text in a reply                      *)
    Greedy,         (* the decoding the session wants                       *)
    Sessions        (* bound: engine processes started                      *)

ASSUME ProtocolAssumption ==
    MaxMessages \in Nat /\ MaxPieces \in Nat \ {0} /\ Sessions \in Nat /\ Greedy \in BOOLEAN

VARIABLES
    engine,      (* what the process is doing                               *)
    serving,     (* the message it serves                                   *)
    pieces,      (* lines of the reply it has printed                       *)
    greedy,      (* its decoding mode, which /greedy toggles                *)
    stdin,       (* messages written and not read                           *)
    stdout,      (* the driver's queue of lines                             *)
    pc, sent,    (* the driver, and the last message it wrote               *)
    booting,     (* in the constructor of the session                       *)
    tries,       (* of _ensure_greedy                                       *)
    on,          (* the last acknowledgement said greedy=on                 *)
    turn,        (* the message of this request's turn, 0 if none           *)
    started,     (* engine processes started                                *)
    abandoned,   (* history: an answer of this process was not read through *)
    foreign      (* history: this request took a line of another message    *)
                 (* for a line of its reply                                 *)

engineVars == <<engine, serving, pieces, greedy>>
driverVars == <<pc, sent, booting, tries, on, turn, started>>
historyVars == <<abandoned, foreign>>
vars == <<engineVars, stdin, stdout, driverVars, historyVars>>

Message(kind, id) == [kind |-> kind, id |-> id]
None == Message("none", 0)
Line(kind, id, value) == [kind |-> kind, of |-> id, on |-> value]

Init ==
    /\ engine = "dead" /\ serving = None /\ pieces = 0 /\ greedy = FALSE
    /\ stdin = <<>> /\ stdout = <<>>
    /\ pc = "closed" /\ sent = 0 /\ booting = FALSE /\ tries = 0 /\ on = FALSE
    /\ turn = 0 /\ started = 0
    /\ abandoned = FALSE /\ foreign = FALSE

-------------------------------------------------------------------------------
(* The engine: the loop of Mode::Batch.                                    *)

Say(line) == stdout' = Append(stdout, line)

Served == [command |-> "acking", greedy |-> "acking", turn |-> "talking", empty |-> "prompting"]

EngineReads ==
    /\ engine = "reading" /\ stdin # <<>>
    /\ stdin' = Tail(stdin)
    /\ serving' = Head(stdin)
    /\ engine' = Served[Head(stdin).kind]
    /\ pieces' = 0
    /\ UNCHANGED <<greedy, stdout, driverVars, historyVars>>

EngineAcks ==
    /\ engine = "acking" /\ engine' = "prompting"
    /\ greedy' = IF serving.kind = "greedy" THEN ~greedy ELSE greedy
    /\ Say(Line("ACK", serving.id, greedy'))
    /\ UNCHANGED <<serving, pieces, stdin, driverVars, historyVars>>

EngineTalks ==
    /\ engine = "talking" /\ pieces < MaxPieces
    /\ pieces' = pieces + 1
    /\ Say(Line("PIECE", serving.id, FALSE))
    /\ UNCHANGED <<engine, serving, greedy, stdin, driverVars, historyVars>>

\* "\n<<<EOT>>>\n" ends the last line of the text, be it empty.
EngineEndsTurn ==
    /\ engine = "talking" /\ pieces > 0 /\ engine' = "prompting"
    /\ Say(Line("EOT", serving.id, FALSE))
    /\ UNCHANGED <<serving, pieces, greedy, stdin, driverVars, historyVars>>

Rearm_AfterTurns == IF serving.kind = "turn" THEN <<Line("PROMPT", serving.id, FALSE)>> ELSE <<>>
Rearm == <<Line("PROMPT", serving.id, FALSE)>>

EnginePrompts ==
    /\ engine = "prompting" /\ engine' = "reading"
    /\ stdout' = stdout \o Rearm
    /\ UNCHANGED <<serving, pieces, greedy, stdin, driverVars, historyVars>>

AfterCrash_Running == "reading"
AfterCrash == "dead"

\* The process exits; the pump thread sees the end of its output.
EngineDies ==
    /\ engine # "dead" /\ engine' = AfterCrash
    /\ Say(Line("EOF", 0, FALSE))
    /\ UNCHANGED <<serving, pieces, greedy, stdin, driverVars, historyVars>>

EngineStep == EngineReads \/ EngineAcks \/ EngineTalks \/ EngineEndsTurn \/ EnginePrompts

-------------------------------------------------------------------------------
(* The driver: the session's constructor, command, complete and close.     *)

Goto(from, to) == pc = from /\ pc' = to

NewQueue_Kept == stdout
NewQueue == <<>>

\* Lane.ensure starts a process; its own default decoding mode is its business.
Open ==
    /\ Goto("closed", "banner")
    /\ started < Sessions /\ started' = started + 1
    /\ booting' = TRUE /\ tries' = 0
    /\ engine' = "acking" /\ serving' = Message("command", 0) /\ pieces' = 0
    /\ greedy' \in BOOLEAN
    /\ stdin' = <<>> /\ stdout' = NewQueue
    /\ sent' = 0 /\ turn' = 0 /\ on' = FALSE /\ abandoned' = FALSE /\ foreign' = FALSE

\* close: /quit, then a kill; nothing of the process is left.
Closing ==
    /\ pc' = "closed" /\ booting' = FALSE
    /\ engine' = "dead" /\ serving' = None /\ stdin' = <<>>
    /\ UNCHANGED <<pieces, greedy, stdout, sent, tries, on, turn, started, historyVars>>

Close == pc = "idle" /\ Closing

\* A message to a dead process is a broken pipe.
Send(kind) ==
    /\ engine # "dead" /\ sent < MaxMessages
    /\ sent' = sent + 1
    /\ stdin' = Append(stdin, Message(kind, sent'))

SendCommand ==
    /\ \/ Goto("idle", "ack") \/ Goto("between", "ack")
    /\ Send("command")
    /\ UNCHANGED <<engineVars, stdout, booting, tries, on, turn, started, historyVars>>

SendGreedy ==
    /\ Goto("settle", "ack")
    /\ tries < 2
    /\ Send("greedy") /\ tries' = tries + 1
    /\ UNCHANGED <<engineVars, stdout, booting, on, turn, started, historyVars>>

\* complete; the prompt may be empty.
SendTurn ==
    /\ turn = 0
    /\ \/ Goto("idle", "reply") \/ Goto("between", "reply")
    /\ sent + 1 < MaxMessages          \* room for the /turnpos
    /\ \E kind \in {"turn", "empty"} : Send(kind)
    /\ turn' = sent'
    /\ UNCHANGED <<engineVars, stdout, booting, tries, on, started, historyVars>>

\* canonicalize_turn, which follows every turn.
SendTurnpos ==
    /\ Goto("canonicalize", "ack")
    /\ Send("command")
    /\ UNCHANGED <<engineVars, stdout, booting, tries, on, turn, started, historyVars>>

EndRequest == pc' = "idle" /\ turn' = 0 /\ foreign' = FALSE

\* Any exception: the constructor closes what it half built; a request is
\* answered with an error, and the session is kept.
Fail ==
    \/ booting /\ Closing
    \/ /\ ~booting /\ EndRequest /\ abandoned' = TRUE
       /\ UNCHANGED <<engineVars, stdin, stdout, sent, booting, tries, on, started>>

SendFails ==
    /\ \/ engine = "dead" /\ pc \in {"idle", "between", "settle", "canonicalize"}
       \/ pc = "settle" /\ tries = 2
    /\ Fail

Waiting == pc \in {"banner", "booted", "ack", "prompt", "reply", "armed"}

GivesUp_Never == FALSE
GivesUp == TRUE

\* READ_TIMEOUT_S passes and the queue is empty.
Timeout == Waiting /\ stdout = <<>> /\ GivesUp /\ Fail

AfterAck_Blind == "between"
AfterAck == "prompt"

Settled_Blind(value) == TRUE
Settled(value) == value = Greedy

\* What the driver does next once it is re-armed.
Rearmed == IF ~booting THEN "between" ELSE IF Settled(on) THEN "idle" ELSE "settle"

\* The line the driver waits for.
Expected(line) ==
    CASE pc = "banner" -> line.kind = "ACK" /\ line.of = 0
      [] pc = "ack" -> line.kind = "ACK"
      [] pc = "reply" -> line.kind # "EOF"
      [] OTHER -> line.kind = "PROMPT"

Follows(line) ==
    CASE pc = "banner" -> "booted"
      [] pc = "booted" -> "settle"
      [] pc = "ack" -> AfterAck
      [] pc = "prompt" -> Rearmed
      [] pc = "reply" -> IF line.kind = "EOT" THEN "armed" ELSE "reply"
      [] pc = "armed" -> "canonicalize"

Read ==
    /\ Waiting /\ stdout # <<>> /\ Expected(Head(stdout))
    /\ stdout' = Tail(stdout)
    /\ pc' = Follows(Head(stdout))
    /\ on' = IF pc = "ack" THEN Head(stdout).on ELSE on
    /\ booting' = (booting /\ pc' # "idle")
    /\ foreign' = (foreign \/ (pc = "reply" /\ Head(stdout).of # turn))
    /\ UNCHANGED <<engineVars, stdin, sent, tries, turn, started, abandoned>>

\* A line out of step, and so consumed, is an exception.
ReadFails ==
    /\ Waiting /\ stdout # <<>> /\ ~Expected(Head(stdout))
    /\ stdout' = Tail(stdout)
    /\ \/ /\ booting
          /\ pc' = "closed" /\ booting' = FALSE
          /\ engine' = "dead" /\ serving' = None /\ stdin' = <<>>
          /\ UNCHANGED <<pieces, greedy, turn, historyVars>>
       \/ /\ ~booting
          /\ EndRequest /\ abandoned' = TRUE
          /\ UNCHANGED <<engineVars, stdin, booting>>
    /\ UNCHANGED <<sent, tries, on, started>>

\* on_piece raises: the client of a streamed reply has gone away.
ClientLeaves ==
    /\ pc = "reply" /\ stdout # <<>> /\ Head(stdout).kind \notin {"EOT", "EOF"}
    /\ stdout' = Tail(stdout)
    /\ EndRequest /\ abandoned' = TRUE
    /\ UNCHANGED <<engineVars, stdin, sent, booting, tries, on, started>>

\* The reply is sent, or the command's result is.
Answer ==
    /\ pc = "between" /\ EndRequest
    /\ UNCHANGED <<engineVars, stdin, stdout, sent, booting, tries, on, started, abandoned>>

DriverStep == SendFails \/ Timeout \/ Read \/ ReadFails \/ Answer \/ SendGreedy \/ SendTurnpos

Next == \/ EngineStep \/ EngineDies
        \/ Open \/ Close \/ SendCommand \/ SendTurn \/ ClientLeaves \/ DriverStep

Spec == Init /\ [][Next]_vars

\* The handler thread runs; the engine may be as slow as it likes.
FairSpec == Spec /\ WF_vars(DriverStep)

-------------------------------------------------------------------------------
Kinds == {"command", "greedy", "turn", "empty"}

\* The types; the end of the output is queued once, and last.
TypeOK ==
    /\ engine \in {"reading", "acking", "talking", "prompting", "dead"}
    /\ serving \in [kind : Kinds \cup {"none"}, id : 0 .. MaxMessages]
    /\ pieces \in 0 .. MaxPieces /\ greedy \in BOOLEAN
    /\ stdin \in Seq([kind : Kinds, id : 1 .. MaxMessages])
    /\ stdout \in Seq([kind : {"ACK", "PIECE", "EOT", "PROMPT", "EOF"}, of : 0 .. MaxMessages,
                       on : BOOLEAN])
    /\ \A i \in DOMAIN stdout : stdout[i].kind = "EOF" => i = Len(stdout)
    /\ pc \in {"closed", "banner", "booted", "settle", "ack", "prompt", "reply", "armed",
               "canonicalize", "between", "idle"}
    /\ sent \in 0 .. MaxMessages /\ turn \in 0 .. MaxMessages /\ started \in 0 .. Sessions
    /\ tries \in 0 .. 2
    /\ {booting, on, abandoned, foreign} \subseteq BOOLEAN

\* "the engine has printed PROMPT and is blocked reading message lines - every
\* complete() must leave the same state": so it is whenever the driver may
\* write, unless it gave up on an answer of this process.
InStep ==
    pc \in {"settle", "idle", "between", "canonicalize"} /\ ~abandoned /\ engine # "dead" =>
        engine = "reading" /\ stdin = <<>> /\ stdout = <<>>

\* While nothing was given up, every line in the queue answers the last message.
OwnLines ==
    Waiting /\ ~abandoned => \A i \in DOMAIN stdout : stdout[i].kind # "EOF" => stdout[i].of = sent

\* The two sides never both wait for the other, but for a prompt that is empty
\* (the engine reads on, and the driver waits for an end of turn).
SomeoneTalks ==
    Waiting /\ ~abandoned /\ engine = "reading" /\ stdin = <<>> /\ stdout = <<>> =>
        serving.kind = "empty"

\* A session serves with the decoding it was asked for, whatever the default of
\* the engine was: /greedy is a toggle.
DecodesAsAsked ==
    pc \in {"idle", "between", "reply", "armed", "canonicalize"} /\ engine # "dead" => greedy = Greedy

\* "Never an unbounded wait": every request and every start ends, whatever the
\* engine does and wherever the stream is.
RequestsEnd == (Waiting \/ pc = "settle" \/ pc = "canonicalize") ~> pc \in {"idle", "between", "closed"}

-------------------------------------------------------------------------------
\* "Anything else means the stream is out of step, which must be a loud failure:
\* a desynchronised driver silently reads the next request's answer as this
\* one's": no reply is answered that holds a line of another message.
WrongReplyIsLoud == [][Answer => ~foreign]_vars
===============================================================================
