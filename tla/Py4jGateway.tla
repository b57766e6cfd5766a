---------------------------- MODULE Py4jGateway ----------------------------
(***************************************************************************)
(* One connection of the Py4J gateway of src/src/py4j_bridge.rs: a client  *)
(* that sends a command line by line and waits for its reply, and          *)
(* handle_py4j_connection, which reads lines and writes replies.  The      *)
(* handler takes the first character of a line for the command and reads   *)
(* up to a line "e" after calls and reflections only; any other line is a  *)
(* command of one line to it.  Connections share nothing with one another. *)
(***************************************************************************)
EXTENDS Naturals, Sequences

CONSTANTS
    Command,        \* what a client may send: sequences of lines
    Whole,          \* those of the commands that the handler reads as a whole
    MaxCommands     \* bound of the model: commands that the client sends

\* A line is what the handler tells apart: a first character, "e", blank, or not UTF-8.
Line == {"c", "r", "m", "text", "e", "blank", "invalid"}

ASSUME Py4jAssumption ==
    /\ Command \subseteq Seq(Line) \ {<<>>}
    /\ Whole \subseteq Command
    /\ \A w \in Whole : \E names \in 1..2 :
          /\ w[1] = (IF names = 1 THEN "r" ELSE "c")
          /\ Len(w) >= names + 2
          /\ \A i \in 1..Len(w) : w[i] # "invalid" /\ (i > names + 1 => (w[i] = "e" <=> i = Len(w)))
    /\ MaxCommands \in Nat

VARIABLES
    client,         \* where the client is
    rest,           \* lines of its command that it has still to send
    sent,           \* how many commands it has begun
    conforming,     \* history: all of them were whole
    wire,           \* lines on their way to the handler
    replies,        \* replies on their way to the client: the commands they answer
    handler,        \* what the handler reads next, or "ended"
    serving         \* the command whose arguments the handler is reading, or 0

vars == <<client, rest, sent, conforming, wire, replies, handler, serving>>

clientVars == <<client, rest, sent, conforming>>

Init ==
    /\ client = "ready"
    /\ rest = <<>>
    /\ sent = 0
    /\ conforming = TRUE
    /\ wire = <<>>
    /\ replies = <<>>
    /\ handler = "command"
    /\ serving = 0

-----------------------------------------------------------------------------
(* The client *)

BeginCommand ==
    /\ client = "ready" /\ sent < MaxCommands
    /\ \E c \in Command :
          /\ rest' = c
          /\ conforming' = (conforming /\ c \in Whole)
    /\ client' = "sending"
    /\ sent' = sent + 1
    /\ UNCHANGED <<wire, replies, handler, serving>>

SendLine ==
    /\ client = "sending"
    /\ wire' = Append(wire, [kind |-> Head(rest), of |-> sent])
    /\ rest' = Tail(rest)
    /\ client' = IF Tail(rest) = <<>> THEN "waiting" ELSE "sending"
    /\ UNCHANGED <<sent, conforming, replies, handler, serving>>

TakeReply ==
    /\ client = "waiting" /\ replies # <<>>
    /\ replies' = Tail(replies)
    /\ client' = "ready"
    /\ UNCHANGED <<rest, sent, conforming, wire, handler, serving>>

\* At any time, also in the middle of a command.
Close ==
    /\ client # "closed"
    /\ client' = "closed"
    /\ rest' = <<>>
    /\ UNCHANGED <<sent, conforming, wire, replies, handler, serving>>

-----------------------------------------------------------------------------
(* The handler *)

Eof == client = "closed" /\ wire = <<>>

\* read_line: a line, or an empty string once the client has closed its side.
Read(kinds) == wire # <<>> /\ Head(wire).kind \in kinds /\ wire' = Tail(wire)
ReadAny == Read(Line \ {"invalid"}) \/ (Eof /\ UNCHANGED wire)

Continue(at) == handler' = at /\ UNCHANGED <<clientVars, replies, serving>>

\* A reply is written; when the client has gone away that may fail and end the handler.
Reply(n) ==
    /\ serving' = 0
    /\ UNCHANGED clientVars
    /\ \/ handler' = "command" /\ replies' = Append(replies, n)
       \/ client = "closed" /\ handler' = "ended" /\ UNCHANGED replies

SkipBlank == handler = "command" /\ Read({"blank"}) /\ Continue("command")

BeginArguments(first, at) ==
    /\ handler = "command"
    /\ Read({first})
    /\ serving' = Head(wire).of
    /\ handler' = at
    /\ UNCHANGED <<clientVars, replies>>

BeginCall == BeginArguments("c", "target")
BeginReflection == BeginArguments("r", "class")

\* A memory command or any other line.
AnswerLine == handler = "command" /\ Read({"m", "text", "e"}) /\ Reply(Head(wire).of)

ReadTarget == handler = "target" /\ ReadAny /\ Continue("method")
ReadMethod == handler = "method" /\ ReadAny /\ Continue("arguments")
ReadClass  == handler = "class"  /\ ReadAny /\ Continue("arguments")

EndsAtMarker == Read({"e"})                                        \* mutated form
EndsAtEof == Eof /\ UNCHANGED wire                                 \* mutated form
EndsAtAnyLine == Read(Line \ {"invalid"})                          \* mutated form
EndOfArguments == Read({"e"}) \/ (Eof /\ UNCHANGED wire)

SkipArgument ==
    /\ handler = "arguments"
    /\ Read(Line \ {"e", "invalid"})
    /\ Continue("arguments")

AnswerArguments == handler = "arguments" /\ EndOfArguments /\ Reply(serving)

End(eof) ==
    /\ eof
    /\ handler' = "ended"
    /\ serving' = 0
    /\ UNCHANGED <<clientVars, replies>>

InvalidLine == End(handler # "ended" /\ Read({"invalid"}))
EndOfStream == End(handler = "command" /\ Eof /\ UNCHANGED wire)
\* A client that went away may have broken the connection: what it sent is lost.
Broken == End(handler # "ended" /\ client = "closed" /\ wire' = <<>>)

-----------------------------------------------------------------------------
HandlerStep ==
    \/ SkipBlank \/ BeginCall \/ BeginReflection \/ AnswerLine
    \/ ReadTarget \/ ReadMethod \/ ReadClass
    \/ SkipArgument \/ AnswerArguments
    \/ InvalidLine \/ EndOfStream

Next ==
    \/ BeginCommand \/ SendLine \/ TakeReply \/ Close
    \/ HandlerStep \/ Broken

\* The runtime polls a handler whose socket has something to read.
Spec == Init /\ [][Next]_vars /\ WF_vars(HandlerStep)

-----------------------------------------------------------------------------
\* The state keeps to its types; lines are left to send exactly while the client sends,
\* and a command is being served exactly while its arguments are read.
TypeOK ==
    /\ client \in {"ready", "sending", "waiting", "closed"}
    /\ rest \in Seq(Line) /\ (rest # <<>> <=> client = "sending")
    /\ sent \in 0..MaxCommands
    /\ serving \in 0..sent /\ (serving # 0 <=> handler \in {"target", "method", "class", "arguments"})
    /\ conforming \in BOOLEAN
    /\ wire \in Seq([kind : Line, of : 1..MaxCommands])
    /\ replies \in Seq(1..MaxCommands)
    /\ handler \in {"command", "target", "method", "class", "arguments", "ended"}

\* As long as a client has only sent whole calls and reflections, no reply is early, left
\* over or another command's: there is none but the one that answers its last command, and
\* that one only after the last line of it was read.
InStep ==
    conforming /\ client # "closed" =>
        \/ replies = <<>>
        \/ client = "waiting" /\ replies = <<sent>> /\ wire = <<>> /\ handler = "command"

\* A client that waits gets a reply to take, or sees the connection closed; also when the
\* handler has lost step with it and reads into the middle of its commands.
Answered == client = "waiting" ~> replies # <<>> \/ handler = "ended" \/ client # "waiting"

\* However a connection is cut, its task ends.
HandlerEnds == client = "closed" ~> handler = "ended"

=============================================================================
