-------------------------- MODULE BatchProtocolProofs --------------------------
(* Theorems about BatchProtocol, for any number of messages, of lines in a reply, *)
(* of engine processes, and for either decoding.                                  *)
EXTENDS BatchProtocol, TLAPS

-------------------------------------------------------------------------------
(* The inductive invariant.                                                       *)

Lines == [kind : {"ACK", "PIECE", "EOT", "PROMPT", "EOF"}, of : Nat, on : BOOLEAN]
Messages == [kind : Kinds, id : Nat]

\* What the other parts rest on.
Types == /\ stdout \in Seq(Lines) /\ stdin \in Seq(Messages) /\ sent \in Nat
         /\ DOMAIN serving = {"kind", "id"} /\ serving.id \in Nat
         /\ booting \in BOOLEAN /\ abandoned \in BOOLEAN /\ greedy \in BOOLEAN /\ on \in BOOLEAN
         /\ pc \in {"closed", "banner", "booted", "settle", "ack", "prompt", "reply", "armed",
                    "canonicalize", "between", "idle"}

\* The engine has answered everything and waits.
Quiet == engine = "reading" /\ stdin = <<>> /\ stdout = <<>>

\* The last message, one of these kinds, is still in the pipe; or is being served.
Posted(kinds) == /\ engine = "reading" /\ stdout = <<>>
                 /\ Len(stdin) = 1 /\ stdin[1].id = sent /\ stdin[1].kind \in kinds
Taken(kinds) == stdin = <<>> /\ serving.id = sent /\ serving.kind \in kinds

Says(i, kind) == stdout[i].kind = kind

\* Where an answer of one line can be.
AckPhase ==
    \/ Posted({"command", "greedy"})
    \/ /\ Taken({"command", "greedy"})
       /\ \/ engine = "acking" /\ stdout = <<>>
          \/ engine = "prompting" /\ Len(stdout) = 1 /\ Says(1, "ACK")
          \/ engine = "reading" /\ Len(stdout) = 2 /\ Says(1, "ACK") /\ Says(2, "PROMPT")

PromptPhase ==
    /\ stdin = <<>> /\ serving.id = sent
    /\ \/ engine = "prompting" /\ stdout = <<>>
       \/ engine = "reading" /\ Len(stdout) = 1 /\ Says(1, "PROMPT")

\* Where the text of a reply can be; an empty prompt gets none.
ReplyPhase ==
    \/ Posted({"turn", "empty"})
    \/ /\ Taken({"turn"}) /\ engine = "talking"
       /\ \A i \in 1 .. Len(stdout) : Says(i, "PIECE")
    \/ /\ Taken({"turn"}) /\ engine = "prompting" /\ Len(stdout) >= 1
       /\ \A i \in 1 .. Len(stdout) - 1 : Says(i, "PIECE")
       /\ Says(Len(stdout), "EOT")
    \/ /\ Taken({"turn"}) /\ engine = "reading" /\ Len(stdout) >= 2
       /\ \A i \in 1 .. Len(stdout) - 2 : Says(i, "PIECE")
       /\ Says(Len(stdout) - 1, "EOT") /\ Says(Len(stdout), "PROMPT")
    \/ /\ Taken({"empty"}) /\ engine = "prompting" /\ stdout = <<>>
    \/ /\ Taken({"empty"}) /\ engine = "reading"
       /\ stdout = <<>> \/ (Len(stdout) = 1 /\ Says(1, "PROMPT"))

\* The stream between a living engine and a driver that has given up on nothing.
Stream == engine # "dead" /\ ~abandoned =>
             /\ pc \in {"settle", "idle", "between", "canonicalize"} => Quiet
             /\ pc \in {"banner", "ack"} => AckPhase
             /\ pc \in {"booted", "prompt", "armed"} => PromptPhase
             /\ pc = "reply" => ReplyPhase

\* The session's decoding is settled while it starts, and never touched again.
Decoding == /\ booting => ~abandoned /\ pc \in {"banner", "booted", "settle", "ack", "prompt"}
            /\ pc \in {"banner", "booted", "settle"} => booting
            /\ pc = "closed" => engine = "dead"
            /\ engine # "dead" /\ ~booting =>
                  /\ greedy = Greedy
                  /\ \A i \in 1 .. Len(stdin) : stdin[i].kind # "greedy"
                  /\ engine = "acking" => serving.kind # "greedy"
            /\ engine # "dead" /\ booting /\ pc = "ack" /\ stdout # <<>> => stdout[1].on = greedy
            /\ engine # "dead" /\ booting /\ pc = "prompt" => on = greedy

IInv == Types /\ Stream /\ OwnLines /\ Decoding

LEMMA InitInv == Init => IInv
<1> SUFFICES ASSUME Init PROVE IInv
  OBVIOUS
<1>1. Types
  <2>1. stdout \in Seq(Lines) /\ stdin \in Seq(Messages) /\ sent \in Nat
    BY DEF Init
  <2>2. DOMAIN serving = {"kind", "id"} /\ serving.id \in Nat
    BY DEF Init, None, Message
  <2>. QED BY <2>1, <2>2 DEF Init, Types
<1>2. Stream /\ OwnLines /\ Decoding
  BY DEF Init, Stream, OwnLines, Decoding, Waiting
<1>. QED BY <1>1, <1>2 DEF IInv

-------------------------------------------------------------------------------
(* The queues.                                                                    *)

LEMMA Said ==
    ASSUME Types, NEW l \in Lines, Say(l)
    PROVE  /\ stdout' \in Seq(Lines) /\ Len(stdout') = Len(stdout) + 1 /\ Len(stdout) \in Nat
           /\ stdout'[Len(stdout) + 1] = l
           /\ \A i \in 1 .. Len(stdout) : stdout'[i] = stdout[i]
           /\ stdout' # <<>>
BY DEF Types, Say

LEMMA Took ==
    ASSUME Types, stdout # <<>>, stdout' = Tail(stdout)
    PROVE  /\ stdout' \in Seq(Lines) /\ Len(stdout') = Len(stdout) - 1 /\ Len(stdout) \in Nat \ {0}
           /\ Head(stdout) = stdout[1] /\ stdout[1] \in Lines
           /\ \A i \in 1 .. Len(stdout) - 1 : stdout'[i] = stdout[i + 1]
           /\ Len(stdout) = 1 => stdout' = <<>>
BY DEF Types

-------------------------------------------------------------------------------
(* The engine's steps.                                                            *)

LEMMA ReadsInv == IInv /\ EngineReads => IInv'
<1> SUFFICES ASSUME IInv, EngineReads PROVE IInv'
  OBVIOUS
<1>1. /\ engine = "reading" /\ stdin # <<>> /\ stdin' = Tail(stdin) /\ serving' = Head(stdin)
      /\ engine' = Served[Head(stdin).kind]
      /\ UNCHANGED <<greedy, stdout, driverVars, historyVars>>
  BY DEF EngineReads
<1>2. /\ stdin' \in Seq(Messages) /\ serving' = stdin[1] /\ stdin[1] \in Messages /\ Len(stdin) \in Nat \ {0}
      /\ Len(stdin) = 1 => stdin' = <<>>
      /\ Len(stdin') = Len(stdin) - 1
      /\ \A i \in 1 .. Len(stdin) - 1 : stdin'[i] = stdin[i + 1]
  BY <1>1 DEF IInv, Types
<1>3. DOMAIN serving' = {"kind", "id"} /\ serving'.id \in Nat /\ serving'.kind \in Kinds
  BY <1>2 DEF Messages
<1>4. engine' = (IF serving'.kind = "turn" THEN "talking" ELSE IF serving'.kind = "empty" THEN "prompting" ELSE "acking")
  <2>1. Head(stdin) = serving'
    BY <1>1
  <2>. QED BY <1>1, <1>3, <2>1 DEF Served, Kinds
<1>5. Types'
  BY <1>1, <1>2, <1>3 DEF IInv, Types, driverVars, historyVars
<1>6. Stream'
  <2> SUFFICES ASSUME engine # "dead", ~abandoned PROVE Stream'
    BY <1>1 DEF Stream, historyVars
  <2>1. pc \notin {"settle", "idle", "between", "canonicalize", "booted", "prompt", "armed"}
    <3>1. ~Quiet /\ ~PromptPhase
      BY <1>1 DEF Quiet, PromptPhase
    <3>. QED BY <3>1 DEF IInv, Stream
  <2>2. pc \in {"banner", "ack"} => Posted({"command", "greedy"})
    BY <1>1 DEF IInv, Stream, AckPhase, Taken
  <2>3. pc = "reply" => Posted({"turn", "empty"})
    BY <1>1 DEF IInv, Stream, ReplyPhase, Taken
  <2>4. pc \in {"banner", "ack"} => AckPhase'
    BY <1>1, <1>2, <1>4, <2>2 DEF Posted, AckPhase, Taken, driverVars
  <2>5. pc = "reply" => ReplyPhase'
    BY <1>1, <1>2, <1>4, <2>3 DEF Posted, ReplyPhase, Taken, driverVars
  <2>. QED BY <1>1, <2>1, <2>4, <2>5 DEF Stream, driverVars
<1>7. OwnLines'
  BY <1>1 DEF IInv, OwnLines, Waiting, driverVars, historyVars
<1>8. Decoding'
  BY <1>1, <1>2 DEF IInv, Decoding, driverVars, historyVars
<1>. QED BY <1>5, <1>6, <1>7, <1>8 DEF IInv

\* A line of the message that is served.
LEMMA SaysOwn ==
    ASSUME IInv, NEW l \in Lines, Say(l), UNCHANGED <<driverVars, historyVars>>,
           l.kind = "EOF" \/ (Waiting /\ ~abandoned => l.of = sent)
    PROVE  OwnLines'
<1>1. /\ Len(stdout') = Len(stdout) + 1 /\ Len(stdout) \in Nat /\ stdout' \in Seq(Lines) /\ stdout \in Seq(Lines)
      /\ stdout'[Len(stdout) + 1] = l
      /\ \A i \in 1 .. Len(stdout) : stdout'[i] = stdout[i]
  BY Said DEF IInv, Types
<1>2. UNCHANGED <<Waiting, abandoned, sent>>
  BY DEF driverVars, historyVars, Waiting
<1>3. Waiting /\ ~abandoned => \A i \in 1 .. Len(stdout) : stdout[i].kind # "EOF" => stdout[i].of = sent
  BY <1>1 DEF IInv, OwnLines
<1>4. Waiting /\ ~abandoned => \A i \in 1 .. Len(stdout') : stdout'[i].kind # "EOF" => stdout'[i].of = sent
  BY <1>1, <1>3
<1>. QED BY <1>1, <1>2, <1>4 DEF OwnLines

LEMMA AcksInv == IInv /\ EngineAcks => IInv'
<1> SUFFICES ASSUME IInv, EngineAcks PROVE IInv'
  OBVIOUS
<1>. DEFINE l == Line("ACK", serving.id, greedy')
<1>1. /\ engine = "acking" /\ engine' = "prompting" /\ Say(l)
      /\ greedy' = (IF serving.kind = "greedy" THEN ~greedy ELSE greedy)
      /\ UNCHANGED <<serving, stdin, driverVars, historyVars>>
  BY DEF EngineAcks
<1>2. greedy' \in BOOLEAN
  BY <1>1 DEF IInv, Types
<1>3. l \in Lines /\ l.kind = "ACK" /\ l.of = serving.id
  BY <1>2 DEF Line, Lines, IInv, Types
<1>4. l.on = greedy'
  BY Zenon DEF Line
<1>. HIDE DEF l
<1>5. /\ Len(stdout') = Len(stdout) + 1 /\ Len(stdout) \in Nat /\ stdout' \in Seq(Lines)
      /\ stdout'[Len(stdout) + 1] = l
      /\ \A i \in 1 .. Len(stdout) : stdout'[i] = stdout[i]
  BY <1>1, <1>3, Said DEF IInv
<1>6. Types'
  BY <1>1, <1>2, <1>5 DEF IInv, Types, driverVars, historyVars
<1>7. ASSUME ~abandoned, pc # "closed"
      PROVE  pc \in {"banner", "ack"} /\ Taken({"command", "greedy"}) /\ stdout = <<>>
  <2>1. ~Quiet /\ ~PromptPhase /\ ~ReplyPhase
    BY <1>1 DEF Quiet, PromptPhase, ReplyPhase, Posted
  <2>. QED BY <1>1, <1>7, <2>1 DEF IInv, Types, Stream, AckPhase, Posted
<1>8. pc # "closed"
  BY <1>1 DEF IInv, Decoding
<1>9. Stream'
  <2>1. AckPhase => AckPhase'
    BY <1>1, <1>3, <1>5 DEF AckPhase, Posted, Taken, Says, driverVars
  <2>. QED BY <1>1, <1>7, <1>8, <2>1 DEF IInv, Stream, driverVars, historyVars
<1>10. OwnLines'
  <2>1. Waiting /\ ~abandoned => l.of = sent
    BY <1>3, <1>7, <1>8 DEF Taken
  <2>. QED BY <1>1, <1>3, <2>1, SaysOwn
<1>11. booting => stdout = <<>> /\ pc \in {"banner", "ack"}
  BY <1>7, <1>8 DEF IInv, Decoding
<1>12. booting => stdout'[1].on = greedy'
  <2>1. booting => stdout'[1] = l
    BY <1>5, <1>11
  <2>. QED BY <1>4, <2>1, Zenon
<1>13. ~booting => greedy' = Greedy
  BY <1>1 DEF IInv, Decoding
<1>14. Decoding'
  BY <1>1, <1>11, <1>12, <1>13 DEF IInv, Decoding, driverVars, historyVars
<1>. QED BY <1>6, <1>9, <1>10, <1>14 DEF IInv

\* A line of a turn: of its text, or its end.
LEMMA TalksInv == IInv /\ (EngineTalks \/ EngineEndsTurn) => IInv'
<1> SUFFICES ASSUME IInv, EngineTalks \/ EngineEndsTurn PROVE IInv'
  OBVIOUS
<1>1. PICK kind \in {"PIECE", "EOT"} :
         /\ engine = "talking" /\ Say(Line(kind, serving.id, FALSE))
         /\ engine' = (IF kind = "EOT" THEN "prompting" ELSE "talking")
         /\ UNCHANGED <<serving, greedy, stdin, driverVars, historyVars>>
  BY DEF EngineTalks, EngineEndsTurn
<1>. DEFINE l == Line(kind, serving.id, FALSE)
<1>2. l \in Lines /\ l.kind = kind /\ l.of = serving.id
  BY DEF Line, Lines, IInv, Types
<1>. HIDE DEF l
<1>3. /\ Len(stdout') = Len(stdout) + 1 /\ Len(stdout) \in Nat /\ stdout' \in Seq(Lines)
      /\ stdout'[Len(stdout) + 1] = l
      /\ \A i \in 1 .. Len(stdout) : stdout'[i] = stdout[i]
  BY <1>1, <1>2, Said DEF IInv, l
<1>4. Types'
  BY <1>1, <1>3 DEF IInv, Types, driverVars, historyVars
<1>5. pc # "closed"
  BY <1>1 DEF IInv, Decoding
<1>6. ASSUME ~abandoned
      PROVE  pc = "reply" /\ Taken({"turn"}) /\ \A i \in 1 .. Len(stdout) : Says(i, "PIECE")
  <2>1. ~Quiet /\ ~PromptPhase /\ ~AckPhase
    BY <1>1 DEF Quiet, PromptPhase, AckPhase, Posted
  <2>. QED BY <1>1, <1>5, <1>6, <2>1 DEF IInv, Types, Stream, ReplyPhase, Posted
<1>7. Stream'
  <2> SUFFICES ASSUME ~abandoned PROVE Stream'
    BY <1>1 DEF Stream, historyVars
  <2>1. ReplyPhase'
    <3>1. Taken({"turn"})'
      BY <1>1, <1>6 DEF Taken, driverVars
    <3>2. CASE kind = "PIECE"
      <4>1. engine' = "talking" /\ \A i \in 1 .. Len(stdout') : stdout'[i].kind = "PIECE"
        BY <1>1, <1>2, <1>3, <1>6, <3>2 DEF Says
      <4>. QED BY <3>1, <4>1 DEF ReplyPhase, Says
    <3>3. CASE kind = "EOT"
      <4>1. engine' = "prompting" /\ Len(stdout') >= 1 /\ stdout'[Len(stdout')].kind = "EOT"
            /\ \A i \in 1 .. Len(stdout') - 1 : stdout'[i].kind = "PIECE"
        BY <1>1, <1>2, <1>3, <1>6, <3>3 DEF Says
      <4>. QED BY <3>1, <4>1 DEF ReplyPhase, Says
    <3>. QED BY <3>2, <3>3
  <2>. QED BY <1>1, <1>6, <2>1 DEF Stream, driverVars
<1>8. OwnLines'
  <2>1. Waiting /\ ~abandoned => l.of = sent
    BY <1>2, <1>6 DEF Taken
  <2>. QED BY <1>1, <1>2, <2>1, SaysOwn DEF l
<1>9. ~booting
  BY <1>6 DEF IInv, Decoding
<1>10. Decoding'
  BY <1>1, <1>9 DEF IInv, Decoding, driverVars, historyVars
<1>. QED BY <1>4, <1>7, <1>8, <1>10 DEF IInv

LEMMA PromptsInv == IInv /\ EnginePrompts => IInv'
<1> SUFFICES ASSUME IInv, EnginePrompts PROVE IInv'
  OBVIOUS
<1>. DEFINE l == Line("PROMPT", serving.id, FALSE)
<1>1. l \in Lines /\ l.kind = "PROMPT" /\ l.of = serving.id
  BY DEF Line, Lines, IInv, Types
<1>3. /\ engine = "prompting" /\ engine' = "reading" /\ stdout' = stdout \o <<l>>
      /\ UNCHANGED <<serving, greedy, stdin, driverVars, historyVars>>
  BY DEF EnginePrompts, Rearm
<1>. HIDE DEF l
<1>2. stdout \o <<l>> = Append(stdout, l)
  <2>1. stdout \in Seq(Lines) /\ l \in Lines
    BY <1>1 DEF IInv, Types
  <2>. QED BY <2>1
<1>4. Say(l)
  BY <1>2, <1>3 DEF Say
<1>5. /\ Len(stdout') = Len(stdout) + 1 /\ Len(stdout) \in Nat /\ stdout' \in Seq(Lines)
      /\ stdout'[Len(stdout) + 1] = l
      /\ \A i \in 1 .. Len(stdout) : stdout'[i] = stdout[i]
      /\ stdout' # <<>>
  BY <1>1, <1>4, Said DEF IInv
<1>6. Types'
  BY <1>3, <1>5 DEF IInv, Types, driverVars, historyVars
<1>7. pc # "closed"
  BY <1>3 DEF IInv, Decoding
<1>8. AckPhase => AckPhase' /\ serving.id = sent /\ Len(stdout) = 1
  <2> SUFFICES ASSUME AckPhase PROVE AckPhase' /\ serving.id = sent /\ Len(stdout) = 1
    OBVIOUS
  <2>1. Taken({"command", "greedy"}) /\ Len(stdout) = 1 /\ stdout[1].kind = "ACK"
    BY <1>3 DEF AckPhase, Posted, Says
  <2>2. Len(stdout') = 2 /\ stdout'[1] = stdout[1] /\ stdout'[2] = l
    BY <1>5, <2>1
  <2>3. Taken({"command", "greedy"})' /\ serving.id = sent
    BY <1>3, <2>1 DEF Taken, driverVars
  <2>. QED BY <1>1, <1>3, <2>1, <2>2, <2>3 DEF AckPhase, Says
<1>9. PromptPhase => PromptPhase' /\ serving.id = sent
  BY <1>1, <1>3, <1>5 DEF PromptPhase, Says, driverVars
<1>10. ReplyPhase => ReplyPhase' /\ serving.id = sent
  <2> SUFFICES ASSUME ReplyPhase PROVE ReplyPhase' /\ serving.id = sent
    OBVIOUS
  <2>1. CASE /\ Taken({"turn"}) /\ Len(stdout) >= 1
             /\ \A i \in 1 .. Len(stdout) - 1 : Says(i, "PIECE")
             /\ Says(Len(stdout), "EOT")
    <3>1. /\ Len(stdout') >= 2 /\ Len(stdout') - 1 = Len(stdout) /\ Len(stdout') - 2 = Len(stdout) - 1
          /\ stdout'[Len(stdout)].kind = "EOT" /\ stdout'[Len(stdout')].kind = "PROMPT"
          /\ \A i \in 1 .. Len(stdout) - 1 : stdout'[i].kind = "PIECE"
      BY <1>1, <1>5, <2>1 DEF Says
    <3>2. Taken({"turn"})' /\ serving.id = sent
      BY <1>3, <2>1 DEF Taken, driverVars
    <3>. QED BY <1>3, <3>1, <3>2 DEF ReplyPhase, Says
  <2>2. CASE Taken({"empty"}) /\ stdout = <<>>
    BY <1>1, <1>3, <1>5, <2>2 DEF ReplyPhase, Taken, Says, driverVars
  <2>. QED BY <1>3, <2>1, <2>2 DEF ReplyPhase, Posted
<1>11. ~Quiet
  BY <1>3 DEF Quiet
<1>12. Stream'
  BY <1>3, <1>8, <1>9, <1>10, <1>11 DEF IInv, Stream, driverVars, historyVars
<1>13. OwnLines'
  <2>1. Waiting /\ ~abandoned => l.of = sent
    BY <1>1, <1>3, <1>8, <1>9, <1>10 DEF IInv, Stream, Waiting
  <2>. QED BY <1>1, <1>3, <1>4, <2>1, SaysOwn
<1>14. ASSUME booting, pc = "ack" PROVE stdout'[1] = stdout[1] /\ stdout # <<>>
  <2>1. AckPhase
    BY <1>3, <1>14 DEF IInv, Stream, Decoding
  <2>2. Len(stdout) = 1
    BY <1>8, <2>1
  <2>. QED BY <1>5, <2>2
<1>15. Decoding'
  BY <1>3, <1>14 DEF IInv, Decoding, driverVars, historyVars
<1>. QED BY <1>6, <1>12, <1>13, <1>15 DEF IInv

LEMMA DiesInv == IInv /\ EngineDies => IInv'
<1> SUFFICES ASSUME IInv, EngineDies PROVE IInv'
  OBVIOUS
<1>. DEFINE l == Line("EOF", 0, FALSE)
<1>1. l \in Lines /\ l.kind = "EOF"
  BY DEF Line, Lines
<1>2. /\ engine # "dead" /\ engine' = "dead" /\ Say(l)
      /\ UNCHANGED <<serving, greedy, stdin, driverVars, historyVars>>
  BY DEF EngineDies, AfterCrash
<1>. HIDE DEF l
<1>3. stdout' \in Seq(Lines)
  BY <1>1, <1>2, Said DEF IInv
<1>4. Types'
  BY <1>2, <1>3 DEF IInv, Types, driverVars, historyVars
<1>5. OwnLines'
  BY <1>1, <1>2, SaysOwn
<1>. QED BY <1>2, <1>4, <1>5 DEF IInv, Stream, Decoding, driverVars, historyVars

-------------------------------------------------------------------------------
(* The driver's steps.                                                            *)

LEMMA OpenInv == IInv /\ Open => IInv'
<1> SUFFICES ASSUME IInv, Open PROVE IInv'
  OBVIOUS
<1>1. /\ pc' = "banner" /\ booting' = TRUE /\ engine' = "acking" /\ serving' = Message("command", 0)
      /\ greedy' \in BOOLEAN /\ stdin' = <<>> /\ stdout' = <<>> /\ sent' = 0
      /\ on' = FALSE /\ abandoned' = FALSE
  BY DEF Open, Goto, NewQueue
<1>2. serving'.id = 0 /\ serving'.kind = "command" /\ DOMAIN serving' = {"kind", "id"}
  BY <1>1 DEF Message
<1>3. Types'
  <2>1. stdout' \in Seq(Lines) /\ stdin' \in Seq(Messages) /\ sent' \in Nat
    BY <1>1
  <2>. QED BY <1>1, <1>2, <2>1 DEF Types
<1>4. Stream'
  BY <1>1, <1>2 DEF Stream, AckPhase, Taken
<1>. QED BY <1>1, <1>3, <1>4 DEF IInv, OwnLines, Decoding

\* A session that is closed, or that fails to start.
LEMMA ClosesInv ==
    ASSUME IInv, pc' = "closed", booting' = FALSE, engine' = "dead", serving' = None, stdin' = <<>>,
           stdout' \in Seq(Lines), UNCHANGED <<greedy, sent, on, abandoned>>
    PROVE  IInv'
<1>1. DOMAIN serving' = {"kind", "id"} /\ serving'.id \in Nat
  BY DEF None, Message
<1>2. stdin' \in Seq(Messages)
  OBVIOUS
<1>3. Types'
  BY <1>1, <1>2 DEF IInv, Types
<1>. QED BY <1>3 DEF IInv, Stream, OwnLines, Decoding, Waiting

\* A request that is given up on.
LEMMA GivesUpInv ==
    ASSUME IInv, ~booting, pc' = "idle", abandoned' = TRUE, stdout' \in Seq(Lines),
           UNCHANGED <<engine, serving, greedy, stdin, sent, booting, on>>
    PROVE  IInv'
<1>1. Types'
  BY DEF IInv, Types
<1>2. pc # "closed" \/ engine = "dead"
  BY DEF IInv, Decoding
<1>. QED BY <1>1, <1>2 DEF IInv, Stream, OwnLines, Decoding

LEMMA FailsInv == IInv /\ pc # "closed" /\ UNCHANGED stdout /\ Fail => IInv'
<1> SUFFICES ASSUME IInv, UNCHANGED stdout, Fail PROVE IInv'
  OBVIOUS
<1>1. stdout' \in Seq(Lines)
  BY DEF IInv, Types
<1>2. CASE booting /\ Closing
  BY <1>1, <1>2, ClosesInv DEF Closing, historyVars
<1>3. CASE /\ ~booting /\ EndRequest /\ abandoned' = TRUE
           /\ UNCHANGED <<engineVars, stdin, stdout, sent, booting, tries, on, started>>
  BY <1>1, <1>3, GivesUpInv DEF EndRequest, engineVars
<1>. QED BY <1>2, <1>3 DEF Fail

\* A message that is written: a living engine reads it, if it was waited for.
LEMMA SendsInv ==
    ASSUME IInv, NEW kind \in Kinds, Send(kind), UNCHANGED <<engineVars, stdout, booting, on, abandoned>>,
           pc \in {"idle", "between", "settle", "canonicalize"},
           \/ pc' = "ack" /\ kind \in {"command", "greedy"} /\ (kind = "greedy" => booting)
           \/ pc' = "reply" /\ kind \in {"turn", "empty"} /\ ~booting
    PROVE  IInv'
<1>. DEFINE m == Message(kind, sent + 1)
<1>1. m.kind = kind /\ m.id = sent + 1 /\ m \in Messages
  BY DEF Message, Messages, IInv, Types
<1>2. engine # "dead" /\ sent' = sent + 1 /\ stdin' = Append(stdin, m)
  BY DEF Send
<1>. HIDE DEF m
<1>3. /\ Len(stdin') = Len(stdin) + 1 /\ Len(stdin) \in Nat /\ stdin' \in Seq(Messages)
      /\ stdin'[Len(stdin) + 1] = m
      /\ \A i \in 1 .. Len(stdin) : stdin'[i] = stdin[i]
  BY <1>1, <1>2 DEF IInv, Types
<1>4. Types'
  BY <1>2, <1>3 DEF IInv, Types, engineVars
<1>5. ~abandoned => Quiet
  BY <1>2 DEF IInv, Stream
<1>6. ~abandoned => Posted({kind})'
  BY <1>1, <1>2, <1>3, <1>5 DEF Quiet, Posted, engineVars
<1>7. Stream'
  BY <1>6 DEF Stream, AckPhase, ReplyPhase, Posted
<1>8. OwnLines'
  BY <1>5 DEF OwnLines, Quiet
<1>9. booting => ~abandoned
  BY DEF IInv, Decoding
<1>10. booting => stdout' = <<>>
  BY <1>5, <1>9 DEF Quiet
<1>11. ~booting => \A i \in 1 .. Len(stdin') : stdin'[i].kind # "greedy"
  BY <1>1, <1>2, <1>3 DEF IInv, Decoding
<1>12. Decoding'
  BY <1>2, <1>9, <1>10, <1>11 DEF IInv, Decoding, engineVars
<1>. QED BY <1>4, <1>7, <1>8, <1>12 DEF IInv

LEMMA WritesInv == IInv /\ (SendCommand \/ SendGreedy \/ SendTurn \/ SendTurnpos) => IInv'
<1> SUFFICES ASSUME IInv, SendCommand \/ SendGreedy \/ SendTurn \/ SendTurnpos PROVE IInv'
  OBVIOUS
<1>1. CASE SendCommand
  <2>1. /\ pc \in {"idle", "between"} /\ pc' = "ack" /\ Send("command")
        /\ UNCHANGED <<engineVars, stdout, booting, on, abandoned>>
    BY <1>1 DEF SendCommand, Goto, historyVars
  <2>. QED BY <2>1, SendsInv DEF Kinds
<1>2. CASE SendGreedy
  <2>1. /\ pc = "settle" /\ pc' = "ack" /\ Send("greedy")
        /\ UNCHANGED <<engineVars, stdout, booting, on, abandoned>>
    BY <1>2 DEF SendGreedy, Goto, historyVars
  <2>2. booting
    BY <2>1 DEF IInv, Decoding
  <2>. QED BY <2>1, <2>2, SendsInv DEF Kinds
<1>3. CASE SendTurn
  <2>1. PICK kind \in {"turn", "empty"} : Send(kind)
    BY <1>3 DEF SendTurn
  <2>2. /\ pc \in {"idle", "between"} /\ pc' = "reply"
        /\ UNCHANGED <<engineVars, stdout, booting, on, abandoned>>
    BY <1>3 DEF SendTurn, Goto, historyVars
  <2>3. ~booting
    BY <2>2 DEF IInv, Decoding
  <2>. QED BY <2>1, <2>2, <2>3, SendsInv DEF Kinds
<1>4. CASE SendTurnpos
  <2>1. /\ pc = "canonicalize" /\ pc' = "ack" /\ Send("command")
        /\ UNCHANGED <<engineVars, stdout, booting, on, abandoned>>
    BY <1>4 DEF SendTurnpos, Goto, historyVars
  <2>. QED BY <2>1, SendsInv DEF Kinds
<1>. QED BY <1>1, <1>2, <1>3, <1>4

\* The line that was waited for; where the stream is then.
LEMMA ReadInv == IInv /\ Read => IInv'
<1> SUFFICES ASSUME IInv, Read PROVE IInv'
  OBVIOUS
<1>. DEFINE h == stdout[1]
<1>1. /\ stdout # <<>> /\ stdout' = Tail(stdout)
      /\ on' = (IF pc = "ack" THEN Head(stdout).on ELSE on)
      /\ UNCHANGED <<engineVars, stdin, sent, abandoned>>
  BY DEF Read
<1>2. Waiting /\ Expected(Head(stdout)) /\ pc' = Follows(Head(stdout))
  BY Zenon DEF Read
<1>3. booting' = (booting /\ pc' # "idle")
  BY Zenon DEF Read
<1>4. /\ stdout' \in Seq(Lines) /\ Len(stdout') = Len(stdout) - 1 /\ Len(stdout) \in Nat \ {0}
      /\ Head(stdout) = h /\ h \in Lines
      /\ \A i \in 1 .. Len(stdout) - 1 : stdout'[i] = stdout[i + 1]
      /\ Len(stdout) = 1 => stdout' = <<>>
  BY <1>1, Took DEF IInv
<1>5. /\ pc \in {"banner", "booted", "ack", "prompt", "reply", "armed"}
      /\ pc = "banner" => h.kind = "ACK" /\ pc' = "booted"
      /\ pc = "booted" => h.kind = "PROMPT" /\ pc' = "settle"
      /\ pc = "ack" => h.kind = "ACK" /\ pc' = "prompt"
      /\ pc = "prompt" => h.kind = "PROMPT" /\ pc' = Rearmed
      /\ pc = "reply" => h.kind # "EOF" /\ pc' = (IF h.kind = "EOT" THEN "armed" ELSE "reply")
      /\ pc = "armed" => h.kind = "PROMPT" /\ pc' = "canonicalize"
  BY <1>2, <1>4 DEF Waiting, Expected, Follows, AfterAck
<1>6. Rearmed = IF ~booting THEN "between" ELSE IF on = Greedy THEN "idle" ELSE "settle"
  BY DEF Rearmed, Settled
<1>7. booting' \in BOOLEAN
  BY <1>3, Zenon
<1>8. on' \in BOOLEAN
  BY <1>1, <1>4 DEF IInv, Types, Lines
<1>9. Types'
  BY <1>1, <1>4, <1>5, <1>6, <1>7, <1>8 DEF IInv, Types, engineVars
<1>10. OwnLines'
  <2> SUFFICES ASSUME ~abandoned, NEW i \in 1 .. Len(stdout'), stdout'[i].kind # "EOF"
               PROVE  stdout'[i].of = sent
    BY <1>1, <1>4 DEF OwnLines
  <2>1. i + 1 \in 1 .. Len(stdout) /\ stdout'[i] = stdout[i + 1]
    BY <1>4
  <2>. QED BY <1>2, <2>1 DEF IInv, OwnLines, Types
<1>11. Stream'
  <2> SUFFICES ASSUME engine # "dead", ~abandoned PROVE Stream'
    BY <1>1 DEF Stream, engineVars
  <2>1. CASE pc \in {"banner", "ack"}
    <3>1. AckPhase
      BY <2>1 DEF IInv, Stream
    <3>2. PromptPhase'
      BY <1>1, <1>4, <3>1 DEF AckPhase, PromptPhase, Posted, Taken, Says, engineVars
    <3>. QED BY <1>5, <2>1, <3>2 DEF Stream
  <2>2. CASE pc \in {"booted", "prompt", "armed"}
    <3>1. PromptPhase
      BY <2>2 DEF IInv, Stream
    <3>2. Quiet'
      BY <1>1, <1>4, <3>1 DEF PromptPhase, Quiet, engineVars
    <3>. QED BY <1>5, <1>6, <2>2, <3>2 DEF Stream
  <2>3. CASE pc = "reply"
    <3>1. ReplyPhase
      BY <2>3 DEF IInv, Stream
    <3>2. CASE h.kind = "EOT"
      <4>1. PromptPhase'
        BY <1>1, <1>4, <3>1, <3>2 DEF ReplyPhase, PromptPhase, Posted, Taken, Says, engineVars
      <4>. QED BY <1>5, <2>3, <3>2, <4>1 DEF Stream
    <3>3. CASE h.kind # "EOT"
      <4> SUFFICES ReplyPhase'
        BY <1>5, <2>3, <3>3 DEF Stream
      <4>1. ~Posted({"turn", "empty"})
        BY <1>1 DEF Posted
      <4>2. UNCHANGED <<engine, stdin, serving, sent>> /\ \A kinds : Taken(kinds) => Taken(kinds)'
        BY <1>1 DEF engineVars, Taken
      <4>3. CASE Taken({"empty"})
        <5>1. engine = "reading" /\ Len(stdout) = 1
          BY <1>1, <3>1, <4>1, <4>3 DEF ReplyPhase, Taken
        <5>. QED BY <1>4, <4>2, <4>3, <5>1 DEF ReplyPhase
      <4>4. CASE Taken({"turn"})
        <5>1. CASE engine = "talking" /\ \A i \in 1 .. Len(stdout) : Says(i, "PIECE")
          <6>1. \A i \in 1 .. Len(stdout') : stdout'[i].kind = "PIECE"
            BY <1>4, <5>1 DEF Says
          <6>. QED BY <4>2, <4>4, <5>1, <6>1 DEF ReplyPhase, Says
        <5>2. CASE /\ engine = "prompting" /\ Len(stdout) >= 1
                   /\ \A i \in 1 .. Len(stdout) - 1 : Says(i, "PIECE")
                   /\ Says(Len(stdout), "EOT")
          <6>1. Len(stdout) # 1
            BY <3>3, <5>2 DEF Says
          <6>2. /\ Len(stdout') >= 1 /\ stdout'[Len(stdout')].kind = "EOT"
                /\ \A i \in 1 .. Len(stdout') - 1 : stdout'[i].kind = "PIECE"
            BY <1>4, <5>2, <6>1 DEF Says
          <6>. QED BY <4>2, <4>4, <5>2, <6>2 DEF ReplyPhase, Says
        <5>3. CASE /\ engine = "reading" /\ Len(stdout) >= 2
                   /\ \A i \in 1 .. Len(stdout) - 2 : Says(i, "PIECE")
                   /\ Says(Len(stdout) - 1, "EOT") /\ Says(Len(stdout), "PROMPT")
          <6>1. Len(stdout) # 2
            BY <3>3, <5>3 DEF Says
          <6>2. Len(stdout') >= 2 /\ Len(stdout') \in Nat /\ Len(stdout) = Len(stdout') + 1
            BY <1>4, <5>3, <6>1
          <6>3. stdout'[Len(stdout')] = stdout[Len(stdout)] /\ stdout'[Len(stdout') - 1] = stdout[Len(stdout) - 1]
            BY <1>4, <6>2
          <6>4. stdout'[Len(stdout')].kind = "PROMPT" /\ stdout'[Len(stdout') - 1].kind = "EOT"
            BY <5>3, <6>3 DEF Says
          <6>5. \A i \in 1 .. Len(stdout') - 2 : stdout'[i].kind = "PIECE"
            <7> SUFFICES ASSUME NEW i \in 1 .. Len(stdout') - 2 PROVE stdout'[i].kind = "PIECE"
              OBVIOUS
            <7>1. i + 1 \in 1 .. Len(stdout) - 2 /\ stdout'[i] = stdout[i + 1]
              BY <1>4, <6>2
            <7>. QED BY <5>3, <7>1 DEF Says
          <6>. QED BY <4>2, <4>4, <5>3, <6>2, <6>4, <6>5 DEF ReplyPhase, Says
        <5>. QED BY <3>1, <4>1, <4>4, <5>1, <5>2, <5>3 DEF ReplyPhase, Taken
      <4>5. Taken({"empty"}) \/ Taken({"turn"})
        BY <3>1, <4>1 DEF ReplyPhase
      <4>. QED BY <4>3, <4>4, <4>5
    <3>. QED BY <3>2, <3>3
  <2>. QED BY <1>5, <2>1, <2>2, <2>3
<1>12. booting' => booting /\ ~abandoned /\ pc \in {"banner", "booted", "ack", "prompt"} /\ pc' # "idle"
  BY <1>3, <1>5 DEF IInv, Decoding
<1>13. ASSUME ~booting', engine # "dead"
       PROVE  /\ greedy = Greedy
              /\ \A i \in 1 .. Len(stdin) : stdin[i].kind # "greedy"
              /\ engine = "acking" => serving.kind # "greedy"
  <2>1. CASE ~booting
    BY <1>13, <2>1 DEF IInv, Decoding
  <2>2. CASE booting
    <3>1. pc' = "idle" /\ ~abandoned
      BY <1>3, <1>13, <2>2 DEF IInv, Decoding
    <3>2. pc = "prompt" /\ on = Greedy
      BY <1>5, <1>6, <2>2, <3>1
    <3>3. PromptPhase /\ on = greedy
      BY <1>13, <2>2, <3>1, <3>2 DEF IInv, Stream, Decoding
    <3>. QED BY <3>2, <3>3 DEF PromptPhase
  <2>. QED BY <2>1, <2>2
<1>14. ASSUME booting', engine # "dead", pc' = "prompt" PROVE on' = greedy
  <2>1. pc = "ack" /\ booting
    BY <1>5, <1>6, <1>12, <1>14
  <2>2. h.on = greedy
    BY <1>1, <1>14, <2>1 DEF IInv, Decoding
  <2>. QED BY <1>1, <1>4, <2>1, <2>2
<1>15. pc' # "ack" /\ pc' # "closed"
  BY <1>5, <1>6
<1>16. pc' \in {"banner", "booted", "settle"} => booting'
  BY <1>3, <1>5, <1>6 DEF IInv, Decoding
<1>17. booting' => pc' \in {"banner", "booted", "settle", "ack", "prompt"}
  BY <1>5, <1>6, <1>12
<1>18. Decoding'
  BY <1>1, <1>12, <1>13, <1>14, <1>15, <1>16, <1>17 DEF Decoding, engineVars
<1>. QED BY <1>9, <1>10, <1>11, <1>18 DEF IInv

LEMMA WaitsInv == IInv /\ (ReadFails \/ ClientLeaves) => IInv'
<1> SUFFICES ASSUME IInv, ReadFails \/ ClientLeaves PROVE IInv'
  OBVIOUS
<1>1. stdout # <<>> /\ stdout' = Tail(stdout) /\ pc # "closed"
  BY DEF ReadFails, ClientLeaves, Waiting
<1>2. stdout' \in Seq(Lines)
  BY <1>1, Took DEF IInv
<1>3. CASE /\ pc' = "closed" /\ booting' = FALSE
           /\ engine' = "dead" /\ serving' = None /\ stdin' = <<>>
           /\ UNCHANGED <<greedy, sent, on, abandoned>>
  BY <1>2, <1>3, ClosesInv
<1>4. CASE /\ ~booting /\ EndRequest /\ abandoned' = TRUE
           /\ UNCHANGED <<engineVars, stdin, sent, booting, on>>
  BY <1>2, <1>4, GivesUpInv DEF EndRequest, engineVars
<1>5. CASE ClientLeaves
  <2>1. ~booting
    BY <1>5 DEF ClientLeaves, IInv, Decoding
  <2>. QED BY <1>4, <1>5, <2>1 DEF ClientLeaves
<1>6. CASE ReadFails
  BY <1>3, <1>4, <1>6 DEF ReadFails, historyVars
<1>. QED BY <1>5, <1>6

LEMMA AnswerInv == IInv /\ Answer => IInv'
<1> SUFFICES ASSUME IInv, Answer PROVE IInv'
  OBVIOUS
<1>1. /\ pc = "between" /\ pc' = "idle"
      /\ UNCHANGED <<engine, serving, greedy, stdin, stdout, sent, booting, on, abandoned>>
  BY DEF Answer, EndRequest, engineVars
<1>2. Types'
  BY <1>1 DEF IInv, Types
<1>3. Stream'
  BY <1>1 DEF IInv, Stream, Quiet
<1>4. OwnLines' /\ Decoding'
  BY <1>1 DEF IInv, OwnLines, Waiting, Decoding
<1>. QED BY <1>2, <1>3, <1>4 DEF IInv

LEMMA NextInv == IInv /\ [Next]_vars => IInv'
<1> SUFFICES ASSUME IInv, [Next]_vars PROVE IInv'
  OBVIOUS
<1>1. CASE EngineStep
  BY <1>1, ReadsInv, AcksInv, TalksInv, PromptsInv DEF EngineStep
<1>2. CASE EngineDies
  BY <1>2, DiesInv
<1>3. CASE Open
  BY <1>3, OpenInv
<1>4. CASE Close
  <2>1. stdout' \in Seq(Lines)
    BY <1>4 DEF Close, Closing, IInv, Types
  <2>. QED BY <1>4, <2>1, ClosesInv DEF Close, Closing, historyVars
<1>5. CASE SendCommand \/ SendTurn \/ SendGreedy \/ SendTurnpos
  BY <1>5, WritesInv
<1>6. CASE ClientLeaves \/ ReadFails
  BY <1>6, WaitsInv
<1>7. CASE SendFails \/ Timeout
  <2>1. Fail /\ pc # "closed"
    BY <1>7 DEF SendFails, Timeout, Waiting
  <2>2. UNCHANGED stdout
    BY <2>1 DEF Fail, Closing
  <2>. QED BY <2>1, <2>2, FailsInv
<1>8. CASE Read
  BY <1>8, ReadInv
<1>9. CASE Answer
  BY <1>9, AnswerInv
<1>10. CASE UNCHANGED vars
  <2>1. UNCHANGED <<engine, serving, greedy, stdin, stdout, pc, sent, booting, on, abandoned>>
    BY <1>10 DEF vars, engineVars, driverVars, historyVars
  <2>2. Types'
    BY <2>1 DEF IInv, Types
  <2>3. Stream'
    BY <2>1 DEF IInv, Stream, Quiet, AckPhase, PromptPhase, ReplyPhase, Posted, Taken, Says
  <2>4. OwnLines' /\ Decoding'
    BY <2>1 DEF IInv, OwnLines, Waiting, Decoding
  <2>. QED BY <2>2, <2>3, <2>4 DEF IInv
<1>. QED
  BY <1>1, <1>2, <1>3, <1>4, <1>5, <1>6, <1>7, <1>8, <1>9, <1>10, Zenon DEF Next, DriverStep

LEMMA SpecInv == Spec => []IInv
<1>. QED BY InitInv, NextInv, PTL DEF Spec

-------------------------------------------------------------------------------
(* The theorems.                                                                  *)

\* Whenever the driver may write to a living engine on which it has given up on
\* nothing, the engine has answered everything, has printed PROMPT, and waits
\* (complete and command of LlamaChatSession, the loop of Mode::Batch).
THEOREM InStepAlways == Spec => []InStep
<1>1. IInv => InStep
  BY DEF IInv, Stream, Quiet, InStep
<1>. QED BY <1>1, SpecInv, PTL

\* Until something is given up, the driver finds no line in its queue that
\* answers another message than the last one it wrote.
THEOREM OwnLinesAlways == Spec => []OwnLines
<1>1. IInv => OwnLines
  BY DEF IInv
<1>. QED BY <1>1, SpecInv, PTL

\* Until something is given up, the engine and the driver wait for each other
\* only after a prompt that is empty.
THEOREM SomeoneAlwaysTalks == Spec => []SomeoneTalks
<1>1. IInv => SomeoneTalks
  <2> SUFFICES ASSUME IInv, Waiting, ~abandoned, engine = "reading", stdin = <<>>, stdout = <<>>
               PROVE  serving.kind = "empty"
    BY DEF SomeoneTalks
  <2>1. ~AckPhase /\ ~PromptPhase
    BY DEF AckPhase, PromptPhase, Posted
  <2>2. pc = "reply" /\ ReplyPhase
    BY <2>1 DEF IInv, Stream, Waiting
  <2>. QED BY <2>2 DEF ReplyPhase, Posted, Taken
<1>. QED BY <1>1, SpecInv, PTL

\* A session serves with the decoding it was asked for, whatever the engine's
\* own default was, and whatever was given up on since (_ensure_greedy).
THEOREM AlwaysDecodesAsAsked == Spec => []DecodesAsAsked
<1>1. IInv => DecodesAsAsked
  BY DEF IInv, Decoding, DecodesAsAsked
<1>. QED BY <1>1, SpecInv, PTL

-------------------------------------------------------------------------------
(* The types, within the bounds, and the end of the output.                       *)

Posts == [kind : Kinds, id : 1 .. MaxMessages]
Printed == [kind : {"ACK", "PIECE", "EOT", "PROMPT", "EOF"}, of : 0 .. MaxMessages, on : BOOLEAN]
States == {"reading", "acking", "talking", "prompting", "dead"}
Points == {"closed", "banner", "booted", "settle", "ack", "prompt", "reply", "armed",
           "canonicalize", "between", "idle"}

EngineTypes == /\ engine \in States
               /\ serving \in [kind : Kinds \cup {"none"}, id : 0 .. MaxMessages]
               /\ pieces \in 0 .. MaxPieces /\ greedy \in BOOLEAN

DriverTypes == /\ pc \in Points
               /\ sent \in 0 .. MaxMessages /\ turn \in 0 .. MaxMessages
               /\ started \in 0 .. Sessions /\ tries \in 0 .. 2
               /\ booting \in BOOLEAN /\ on \in BOOLEAN
               /\ abandoned \in BOOLEAN /\ foreign \in BOOLEAN

QueueTypes == stdin \in Seq(Posts) /\ stdout \in Seq(Printed)

\* A living engine has not ended its output, and a dead one has ended it once.
Ended == /\ \A i \in 1 .. Len(stdout) : Says(i, "EOF") => i = Len(stdout)
         /\ engine # "dead" => \A i \in 1 .. Len(stdout) : ~Says(i, "EOF")

TypeInv == EngineTypes /\ DriverTypes /\ QueueTypes /\ Ended

\* They hold before the first process is started.
LEMMA TypeInit == Init => TypeInv
<1> SUFFICES ASSUME Init PROVE TypeInv
  OBVIOUS
<1>1. MaxMessages \in Nat /\ MaxPieces \in Nat /\ Sessions \in Nat
  BY ProtocolAssumption
<1>2. /\ engine = "dead" /\ serving = None /\ pieces = 0 /\ greedy = FALSE
      /\ stdin = <<>> /\ stdout = <<>>
      /\ pc = "closed" /\ sent = 0 /\ booting = FALSE /\ tries = 0 /\ on = FALSE
      /\ turn = 0 /\ started = 0 /\ abandoned = FALSE /\ foreign = FALSE
  BY Zenon DEF Init
<1>3. EngineTypes
  <2>1. None \in [kind : Kinds \cup {"none"}, id : 0 .. MaxMessages]
    BY <1>1 DEF None, Message
  <2>2. 0 \in 0 .. MaxPieces /\ "dead" \in States /\ FALSE \in BOOLEAN
    BY <1>1 DEF States
  <2>. QED BY <1>2, <2>1, <2>2, Zenon DEF EngineTypes
<1>4. DriverTypes
  <2>1. 0 \in 0 .. MaxMessages /\ 0 \in 0 .. Sessions /\ 0 \in 0 .. 2 /\ FALSE \in BOOLEAN
    BY <1>1
  <2>2. "closed" \in Points
    BY DEF Points
  <2>. QED BY <1>2, <2>1, <2>2, Zenon DEF DriverTypes
<1>5. QueueTypes /\ Ended
  BY <1>2 DEF QueueTypes, Ended
<1>. QED BY <1>3, <1>4, <1>5, Zenon DEF TypeInv

\* The engine's own variables keep their types.
LEMMA EngineTypesStep == TypeInv /\ [Next]_vars => EngineTypes'
<1> SUFFICES ASSUME TypeInv, [Next]_vars PROVE EngineTypes'
  OBVIOUS
<1>1. MaxMessages \in Nat /\ MaxPieces \in Nat \ {0} /\ Sessions \in Nat
  BY ProtocolAssumption
<1>2. /\ engine \in States /\ pieces \in 0 .. MaxPieces /\ greedy \in BOOLEAN
      /\ serving \in [kind : Kinds \cup {"none"}, id : 0 .. MaxMessages]
  BY Zenon DEF TypeInv, EngineTypes
<1>3. ASSUME UNCHANGED engineVars PROVE EngineTypes'
  BY <1>2, <1>3, Zenon DEF engineVars, EngineTypes
<1>4. CASE EngineReads
  <2>1. /\ stdin # <<>> /\ serving' = Head(stdin) /\ engine' = Served[Head(stdin).kind]
        /\ pieces' = 0 /\ greedy' = greedy
    BY <1>4, Zenon DEF EngineReads
  <2>2. serving' \in Posts
    <3>1. stdin \in Seq(Posts)
      BY Zenon DEF TypeInv, QueueTypes
    <3>2. \A s \in Seq(Posts) : s # <<>> => Head(s) \in Posts
      OBVIOUS
    <3>. QED BY <2>1, <3>1, <3>2, Zenon
  <2>3. serving' \in [kind : Kinds \cup {"none"}, id : 0 .. MaxMessages]
    BY <1>1, <2>2 DEF Posts
  <2>4. serving'.kind \in Kinds
    BY <2>2 DEF Posts
  <2>5. engine' = Served[serving'.kind]
    BY <2>1
  <2>6. \A k \in Kinds : Served[k] \in States
    BY DEF Kinds, Served, States
  <2>7. engine' \in States /\ pieces' \in 0 .. MaxPieces
    BY <1>1, <2>1, <2>4, <2>5, <2>6
  <2>. QED BY <1>2, <2>1, <2>3, <2>7, Zenon DEF EngineTypes
<1>5. CASE EngineAcks \/ EngineTalks \/ EngineEndsTurn \/ EnginePrompts \/ EngineDies
  <2>1. serving' = serving
    BY <1>5, Zenon DEF EngineAcks, EngineTalks, EngineEndsTurn, EnginePrompts, EngineDies
  <2>2. engine' \in States
    BY <1>2, <1>5 DEF EngineAcks, EngineTalks, EngineEndsTurn, EnginePrompts, EngineDies,
                      AfterCrash, States
  <2>3. pieces' \in 0 .. MaxPieces
    <3>1. pieces' = pieces \/ (pieces < MaxPieces /\ pieces' = pieces + 1)
      BY <1>5, Zenon DEF EngineAcks, EngineTalks, EngineEndsTurn, EnginePrompts, EngineDies
    <3>. QED BY <1>1, <1>2, <3>1
  <2>4. greedy' \in BOOLEAN
    BY <1>2, <1>5 DEF EngineAcks, EngineTalks, EngineEndsTurn, EnginePrompts, EngineDies
  <2>. QED BY <1>2, <2>1, <2>2, <2>3, <2>4, Zenon DEF EngineTypes
<1>6. CASE Open
  <2>1. engine' = "acking" /\ serving' = Message("command", 0) /\ pieces' = 0 /\ greedy' \in BOOLEAN
    BY <1>6, Zenon DEF Open
  <2>2. Message("command", 0) \in [kind : Kinds \cup {"none"}, id : 0 .. MaxMessages]
    BY <1>1 DEF Message, Kinds
  <2>. QED BY <1>1, <2>1, <2>2 DEF EngineTypes, States
<1>7. ASSUME engine' = "dead", serving' = None, UNCHANGED <<pieces, greedy>> PROVE EngineTypes'
  <2>1. None \in [kind : Kinds \cup {"none"}, id : 0 .. MaxMessages]
    BY <1>1 DEF None, Message
  <2>. QED BY <1>2, <1>7, <2>1 DEF EngineTypes, States
<1>8. CASE Close \/ SendFails \/ Timeout \/ ReadFails
  <2>1. \/ engine' = "dead" /\ serving' = None /\ UNCHANGED <<pieces, greedy>>
        \/ UNCHANGED engineVars
    BY <1>8, Zenon DEF Close, SendFails, Timeout, ReadFails, Fail, Closing
  <2>. QED BY <1>3, <1>7, <2>1
<1>9. CASE SendCommand \/ SendTurn \/ SendGreedy \/ SendTurnpos \/ ClientLeaves \/ Read \/ Answer
           \/ UNCHANGED vars
  <2>1. UNCHANGED engineVars
    BY <1>9, Zenon DEF SendCommand, SendTurn, SendGreedy, SendTurnpos, ClientLeaves, Read, Answer,
                       vars
  <2>. QED BY <1>3, <2>1
<1>. QED BY <1>4, <1>5, <1>6, <1>8, <1>9, Zenon DEF Next, EngineStep, DriverStep

\* What a read of the queue finds.
LEMMA HeadPrinted == TypeInv /\ stdout # <<>> => Head(stdout) \in Printed /\ Tail(stdout) \in Seq(Printed)
<1> SUFFICES ASSUME TypeInv, stdout # <<>>
             PROVE  Head(stdout) \in Printed /\ Tail(stdout) \in Seq(Printed)
  OBVIOUS
<1>1. stdout \in Seq(Printed)
  BY Zenon DEF TypeInv, QueueTypes
<1>2. \A s \in Seq(Printed) : s # <<>> => Head(s) \in Printed /\ Tail(s) \in Seq(Printed)
  OBVIOUS
<1>. QED BY <1>1, <1>2, Zenon

\* The driver's own variables keep their types.
LEMMA DriverTypesStep == TypeInv /\ [Next]_vars => DriverTypes'
<1> SUFFICES ASSUME TypeInv, [Next]_vars PROVE DriverTypes'
  OBVIOUS
<1>1. MaxMessages \in Nat /\ Sessions \in Nat
  BY ProtocolAssumption
<1>2. /\ pc \in Points
      /\ sent \in 0 .. MaxMessages /\ turn \in 0 .. MaxMessages
      /\ started \in 0 .. Sessions /\ tries \in 0 .. 2
      /\ booting \in BOOLEAN /\ on \in BOOLEAN
      /\ abandoned \in BOOLEAN /\ foreign \in BOOLEAN
  BY Zenon DEF TypeInv, DriverTypes
<1>3. 0 \in 0 .. MaxMessages /\ FALSE \in BOOLEAN /\ TRUE \in BOOLEAN
  BY <1>1
<1>4. \A p \in {"closed", "banner", "booted", "settle", "ack", "prompt", "reply", "armed",
               "canonicalize", "between", "idle"} : p \in Points
  BY DEF Points
<1>5. CASE UNCHANGED <<driverVars, historyVars>>
  BY <1>2, <1>5, Zenon DEF driverVars, historyVars, DriverTypes
<1>6. CASE EngineStep \/ EngineDies \/ UNCHANGED vars
  <2>1. UNCHANGED <<driverVars, historyVars>>
    BY <1>6, Zenon DEF EngineStep, EngineReads, EngineAcks, EngineTalks, EngineEndsTurn,
                       EnginePrompts, EngineDies, vars
  <2>. QED BY <1>5, <2>1
<1>7. CASE Open
  <2>1. /\ pc' = "banner" /\ started < Sessions /\ started' = started + 1 /\ booting' = TRUE
        /\ tries' = 0 /\ sent' = 0 /\ turn' = 0 /\ on' = FALSE /\ abandoned' = FALSE
        /\ foreign' = FALSE
    BY <1>7, Zenon DEF Open, Goto
  <2>2. started' \in 0 .. Sessions /\ tries' \in 0 .. 2 /\ pc' \in Points
    BY <1>1, <1>2, <1>4, <2>1
  <2>. QED BY <1>3, <2>1, <2>2, Zenon DEF DriverTypes
<1>8. ASSUME Closing PROVE DriverTypes'
  BY <1>2, <1>3, <1>4, <1>8, Zenon DEF Closing, historyVars, DriverTypes
<1>9. ASSUME EndRequest, abandoned' \in BOOLEAN, UNCHANGED <<sent, booting, tries, on, started>>
      PROVE  DriverTypes'
  BY <1>2, <1>3, <1>4, <1>9, Zenon DEF EndRequest, DriverTypes
<1>10. CASE Close \/ SendFails \/ Timeout \/ ClientLeaves \/ Answer
  <2>1. \/ Closing
        \/ /\ EndRequest /\ (abandoned' = TRUE \/ abandoned' = abandoned)
           /\ UNCHANGED <<sent, booting, tries, on, started>>
    BY <1>10, Zenon DEF Close, SendFails, Timeout, ClientLeaves, Answer, Fail
  <2>2. abandoned' = TRUE \/ abandoned' = abandoned => abandoned' \in BOOLEAN
    BY <1>2, <1>3
  <2>. QED BY <1>8, <1>9, <2>1, <2>2, Zenon
<1>11. CASE SendCommand \/ SendTurn \/ SendGreedy \/ SendTurnpos
  <2>1. /\ sent' = sent + 1 /\ sent < MaxMessages
        /\ (turn' = turn \/ turn' = sent')
        /\ (tries' = tries \/ (tries < 2 /\ tries' = tries + 1))
        /\ pc' \in {"ack", "reply"}
        /\ UNCHANGED <<booting, on, started, historyVars>>
    <3>1. CASE SendCommand
      BY <3>1 DEF SendCommand, Send, Goto
    <3>2. CASE SendTurn
      <4>1. /\ pc' = "reply" /\ turn' = sent'
            /\ UNCHANGED <<booting, tries, on, started, historyVars>>
        BY <3>2, Zenon DEF SendTurn, Goto
      <4>2. sent' = sent + 1 /\ sent < MaxMessages
        BY <3>2, Zenon DEF SendTurn, Send
      <4>. QED BY <4>1, <4>2
    <3>3. CASE SendGreedy
      BY <3>3 DEF SendGreedy, Send, Goto
    <3>4. CASE SendTurnpos
      BY <3>4 DEF SendTurnpos, Send, Goto
    <3>. QED BY <1>11, <3>1, <3>2, <3>3, <3>4
  <2>2. sent' \in 0 .. MaxMessages /\ tries' \in 0 .. 2
    BY <1>1, <1>2, <2>1
  <2>3. turn' \in 0 .. MaxMessages /\ pc' \in Points
    BY <1>2, <2>1, <2>2 DEF Points
  <2>. QED BY <1>2, <2>1, <2>2, <2>3, Zenon DEF historyVars, DriverTypes
<1>12. CASE Read
  <2>1. /\ Waiting /\ stdout # <<>> /\ pc' = Follows(Head(stdout))
        /\ on' = IF pc = "ack" THEN Head(stdout).on ELSE on
        /\ booting' = (booting /\ pc' # "idle")
        /\ foreign' = (foreign \/ (pc = "reply" /\ Head(stdout).of # turn))
        /\ UNCHANGED <<sent, tries, turn, started, abandoned>>
    BY <1>12, Zenon DEF Read
  <2>2. on' \in BOOLEAN
    <3>1. Head(stdout) \in Printed
      BY <2>1, HeadPrinted, Zenon
    <3>2. \A l \in Printed : l.on \in BOOLEAN
      BY DEF Printed
    <3>. QED BY <1>2, <2>1, <3>1, <3>2, Zenon
  <2>3. pc' \in Points
    BY <2>1 DEF Waiting, Follows, Rearmed, AfterAck, Points
  <2>4. booting' \in BOOLEAN /\ foreign' \in BOOLEAN
    BY <2>1
  <2>. QED BY <1>2, <2>1, <2>2, <2>3, <2>4, Zenon DEF DriverTypes
<1>13. CASE ReadFails
  <2>1. CASE EndRequest /\ abandoned' = TRUE /\ booting' = booting
    BY <1>3, <1>9, <1>13, <2>1, Zenon DEF ReadFails
  <2>2. CASE pc' = "closed" /\ booting' = FALSE /\ UNCHANGED <<turn, historyVars>>
    <3>1. UNCHANGED <<sent, tries, on, started>>
      BY <1>13, Zenon DEF ReadFails
    <3>. QED BY <1>2, <1>3, <1>4, <2>2, <3>1, Zenon DEF historyVars, DriverTypes
  <2>. QED BY <1>13, <2>1, <2>2, Zenon DEF ReadFails
<1>. QED BY <1>6, <1>7, <1>10, <1>11, <1>12, <1>13, Zenon DEF Next, DriverStep

\* Nothing else gets into the queues.
LEMMA QueueTypesStep == TypeInv /\ [Next]_vars => QueueTypes'
<1> SUFFICES ASSUME TypeInv, [Next]_vars PROVE QueueTypes'
  OBVIOUS
<1>1. MaxMessages \in Nat
  BY ProtocolAssumption
<1>2. stdin \in Seq(Posts) /\ stdout \in Seq(Printed)
  BY Zenon DEF TypeInv, QueueTypes
<1>3. serving.id \in 0 .. MaxMessages /\ greedy \in BOOLEAN /\ sent \in 0 .. MaxMessages
  BY DEF TypeInv, EngineTypes, DriverTypes
<1>4. <<>> \in Seq(Posts) /\ <<>> \in Seq(Printed)
  OBVIOUS
<1>5. /\ \A l \in Printed : Append(stdout, l) \in Seq(Printed) /\ stdout \o <<l>> \in Seq(Printed)
      /\ \A m \in Posts : Append(stdin, m) \in Seq(Posts)
      /\ stdin # <<>> => Tail(stdin) \in Seq(Posts)
  BY <1>2
<1>6. /\ \A k \in {"ACK", "PIECE", "EOT", "PROMPT", "EOF"}, v \in BOOLEAN :
            Line(k, serving.id, v) \in Printed /\ Line(k, 0, v) \in Printed
  BY <1>1, <1>3 DEF Line, Printed
<1>7. FALSE \in BOOLEAN /\ greedy' \in BOOLEAN
  BY EngineTypesStep DEF EngineTypes
<1>8. CASE EngineReads
  BY <1>2, <1>5, <1>8, Zenon DEF EngineReads, QueueTypes
<1>9. CASE EngineAcks \/ EngineTalks \/ EngineEndsTurn \/ EngineDies
  BY <1>2, <1>5, <1>6, <1>7, <1>9, Zenon DEF EngineAcks, EngineTalks, EngineEndsTurn,
     EngineDies, Say, QueueTypes
<1>10. CASE EnginePrompts
  BY <1>2, <1>5, <1>6, <1>7, <1>10, Zenon DEF EnginePrompts, Rearm, QueueTypes
<1>11. CASE Open
  BY <1>4, <1>11, Zenon DEF Open, NewQueue, QueueTypes
<1>12. CASE Close \/ SendFails \/ Timeout
  BY <1>2, <1>4, <1>12, Zenon DEF Close, SendFails, Timeout, Fail, Closing, QueueTypes
<1>13. CASE SendCommand \/ SendTurn \/ SendGreedy \/ SendTurnpos
  <2>1. stdout' = stdout /\ \E kind \in Kinds : Send(kind)
    BY <1>13, Zenon DEF SendCommand, SendTurn, SendGreedy, SendTurnpos, Kinds
  <2>2. PICK kind \in Kinds : Send(kind)
    BY <2>1
  <2>3. sent < MaxMessages /\ sent' = sent + 1 /\ stdin' = Append(stdin, Message(kind, sent'))
    BY <2>2, Zenon DEF Send
  <2>4. Message(kind, sent') \in Posts
    BY <1>1, <1>3, <2>3 DEF Message, Posts
  <2>. QED BY <1>2, <1>5, <2>1, <2>3, <2>4, Zenon DEF QueueTypes
<1>14. CASE ClientLeaves \/ Read \/ ReadFails
  <2>1. stdout' = Tail(stdout) /\ stdout # <<>> /\ (stdin' = stdin \/ stdin' = <<>>)
    BY <1>14, Zenon DEF ClientLeaves, Read, ReadFails
  <2>. QED BY <1>2, <1>4, <2>1, HeadPrinted, Zenon DEF QueueTypes
<1>15. CASE Answer \/ UNCHANGED vars
  BY <1>2, <1>15, Zenon DEF Answer, vars, QueueTypes
<1>. QED BY <1>8, <1>9, <1>10, <1>11, <1>12, <1>13, <1>14, <1>15, Zenon
         DEF Next, EngineStep, DriverStep

\* The end of the output stays last: a dead engine says nothing more, and a new
\* process gets a new queue.
LEMMA EndedStep == TypeInv /\ [Next]_vars => Ended'
<1> SUFFICES ASSUME TypeInv, [Next]_vars PROVE Ended'
  OBVIOUS
<1>1. stdout \in Seq(Printed)
  BY Zenon DEF TypeInv, QueueTypes
<1>2. /\ \A i \in 1 .. Len(stdout) : Says(i, "EOF") => i = Len(stdout)
      /\ engine # "dead" => \A i \in 1 .. Len(stdout) : ~Says(i, "EOF")
  BY Zenon DEF TypeInv, Ended
<1>3. ASSUME NEW l, engine # "dead", stdout' = Append(stdout, l),
             l.kind # "EOF" \/ engine' = "dead"
      PROVE  Ended'
  <2>1. /\ Len(stdout') = Len(stdout) + 1 /\ Len(stdout) \in Nat
        /\ stdout'[Len(stdout) + 1] = l
        /\ \A i \in 1 .. Len(stdout) : stdout'[i] = stdout[i]
    BY <1>1, <1>3
  <2>2. \A i \in 1 .. Len(stdout) : stdout'[i].kind # "EOF"
    BY <1>2, <1>3, <2>1 DEF Says
  <2>3. \A i \in 1 .. Len(stdout') : i \in 1 .. Len(stdout) \/ i = Len(stdout')
    BY <2>1
  <2>. QED BY <1>3, <2>1, <2>2, <2>3 DEF Ended, Says
<1>4. ASSUME stdout # <<>>, stdout' = Tail(stdout), engine' = engine \/ engine' = "dead"
      PROVE  Ended'
  <2>1. /\ Len(stdout') = Len(stdout) - 1 /\ Len(stdout) \in Nat \ {0}
        /\ \A i \in 1 .. Len(stdout) - 1 : stdout'[i] = stdout[i + 1] /\ i + 1 \in 1 .. Len(stdout)
    BY <1>1, <1>4
  <2>2. \A i \in 1 .. Len(stdout') : stdout'[i].kind = "EOF" => i + 1 = Len(stdout)
    BY <1>2, <2>1 DEF Says
  <2>3. engine' # "dead" => \A i \in 1 .. Len(stdout') : stdout'[i].kind # "EOF"
    BY <1>2, <1>4, <2>1 DEF Says
  <2>4. \A i \in 1 .. Len(stdout') : i + 1 = Len(stdout) => i = Len(stdout')
    BY <2>1
  <2>. QED BY <2>2, <2>3, <2>4, Zenon DEF Ended, Says
<1>5. ASSUME stdout' = stdout, engine' = engine \/ engine # "dead" \/ engine' = "dead"
      PROVE  Ended'
  BY <1>2, <1>5, Zenon DEF Ended, Says
<1>6. \A n, v : Line("ACK", n, v).kind # "EOF" /\ Line("PIECE", n, v).kind # "EOF"
                /\ Line("EOT", n, v).kind # "EOF" /\ Line("PROMPT", n, v).kind # "EOF"
  BY DEF Line
<1>7. CASE EngineReads
  <2>1. stdout' = stdout /\ engine = "reading"
    BY <1>7, Zenon DEF EngineReads
  <2>2. engine # "dead"
    BY <2>1
  <2>. QED BY <1>5, <2>1, <2>2, Zenon
<1>8. CASE EngineAcks \/ EngineTalks \/ EngineEndsTurn
  <2>1. engine \in {"acking", "talking"}
    BY <1>8 DEF EngineAcks, EngineTalks, EngineEndsTurn
  <2>2. engine # "dead"
    BY <2>1
  <2>3. \E l : stdout' = Append(stdout, l) /\ l.kind # "EOF"
    BY <1>6, <1>8, Zenon DEF EngineAcks, EngineTalks, EngineEndsTurn, Say
  <2>. QED BY <1>3, <2>2, <2>3
<1>9. CASE EnginePrompts
  <2>1. engine = "prompting" /\ stdout' = stdout \o <<Line("PROMPT", serving.id, FALSE)>>
    BY <1>9, Zenon DEF EnginePrompts, Rearm
  <2>2. \A l \in Printed : stdout \o <<l>> = Append(stdout, l)
    BY <1>1
  <2>3. Line("PROMPT", serving.id, FALSE) \in Printed
    BY ProtocolAssumption DEF Line, Printed, TypeInv, EngineTypes
  <2>4. stdout' = Append(stdout, Line("PROMPT", serving.id, FALSE))
    BY <2>1, <2>2, <2>3, Zenon
  <2>. QED BY <1>3, <1>6, <2>1, <2>4
<1>10. CASE EngineDies
  <2>1. engine # "dead" /\ engine' = "dead" /\ stdout' = Append(stdout, Line("EOF", 0, FALSE))
    BY <1>10, Zenon DEF EngineDies, AfterCrash, Say
  <2>. QED BY <1>3, <2>1, Zenon
<1>11. CASE Open
  <2>1. stdout' = <<>>
    BY <1>11, Zenon DEF Open, NewQueue
  <2>. QED BY <2>1 DEF Ended
<1>12. CASE Close \/ SendFails \/ Timeout \/ SendCommand \/ SendTurn \/ SendGreedy \/ SendTurnpos
            \/ Answer \/ UNCHANGED vars
  <2>1. stdout' = stdout /\ (engine' = engine \/ engine' = "dead")
    BY <1>12, Zenon DEF Close, SendFails, Timeout, Fail, Closing, SendCommand, SendTurn,
                        SendGreedy, SendTurnpos, Answer, vars, engineVars
  <2>. QED BY <1>5, <2>1, Zenon
<1>13. CASE ClientLeaves \/ Read \/ ReadFails
  <2>1. stdout # <<>> /\ stdout' = Tail(stdout) /\ (engine' = engine \/ engine' = "dead")
    BY <1>13, Zenon DEF ClientLeaves, Read, ReadFails, engineVars
  <2>. QED BY <1>4, <2>1, Zenon
<1>. QED BY <1>7, <1>8, <1>9, <1>10, <1>11, <1>12, <1>13, Zenon DEF Next, EngineStep, DriverStep

\* The types of both sides and of the pipes between them, within the bounds; the
\* end of a process's output is queued once, and last.
THEOREM TypeCorrect == Spec => []TypeOK
<1>1. TypeInv /\ [Next]_vars => TypeInv'
  BY EngineTypesStep, DriverTypesStep, QueueTypesStep, EndedStep, Zenon DEF TypeInv
<1>2. TypeInv => TypeOK
  <2> SUFFICES ASSUME TypeInv PROVE TypeOK
    OBVIOUS
  <2>1. \A i \in DOMAIN stdout : stdout[i].kind = "EOF" => i = Len(stdout)
    <3>1. stdout \in Seq(Printed)
      BY Zenon DEF TypeInv, QueueTypes
    <3>2. DOMAIN stdout = 1 .. Len(stdout)
      BY <3>1
    <3>. QED BY <3>2, Zenon DEF TypeInv, Ended, Says
  <2>2. {booting, on, abandoned, foreign} \subseteq BOOLEAN
    BY DEF TypeInv, DriverTypes
  <2>. QED BY <2>1, <2>2, Zenon DEF TypeInv, EngineTypes, DriverTypes, QueueTypes, States, Points,
                                    Posts, Printed, TypeOK
<1>. QED BY <1>1, <1>2, TypeInit, PTL DEF Spec
===============================================================================
