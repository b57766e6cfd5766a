------------------------- MODULE Py4jGateway_proofs -------------------------
(***************************************************************************)
(* Proofs about Py4jGateway for any set of commands and any number of      *)
(* them: its types, and that replies stay in step with the commands of a   *)
(* client that sends whole calls and reflections.                          *)
(***************************************************************************)
EXTENDS Py4jGateway, SequenceTheorems, TLAPS

Busy == {"target", "method", "class", "arguments"}

\* Lines and the command being served belong to commands that were begun.
BegunInv ==
    /\ client = "sending" => sent >= 1
    /\ \A i \in 1..Len(wire) : wire[i].of \in 1..sent

\* Where the handler is when it has read the first k lines of the whole command w.
HandlerAt(w, k) ==
    CASE k = 0 -> "command"
      [] k = 1 -> IF w[1] = "r" THEN "class" ELSE "target"
      [] k = 2 /\ w[1] # "r" -> "method"
      [] OTHER -> "arguments"

\* The handler has read k lines of w, those on the wire are next, and the client has yet
\* to send the others.
Reading(w, k) ==
    /\ Len(wire) + Len(rest) = Len(w) - k
    /\ \A i \in 1..Len(wire) : wire[i] = [kind |-> w[k + i], of |-> sent]
    /\ \A i \in 1..Len(rest) : rest[i] = w[k + Len(wire) + i]
    /\ handler = HandlerAt(w, k)
    /\ k > 0 => serving = sent

\* A client that has sent whole commands only is idle, or in the middle of one, or has
\* its reply; nothing else is on its way.
StepInv ==
    conforming /\ client # "closed" =>
        \/ client = "ready" /\ wire = <<>> /\ replies = <<>> /\ handler = "command"
        \/ /\ client \in {"sending", "waiting"} /\ replies = <<>>
           /\ \E w \in Whole : \E k \in 0..Len(w) - 1 : Reading(w, k)
        \/ client = "waiting" /\ wire = <<>> /\ replies = <<sent>> /\ handler = "command"

Inv == TypeOK /\ BegunInv /\ StepInv

-----------------------------------------------------------------------------
(* Types *)

\* The first line of a sequence of lines, and the others.
LEMMA ReadProperties ==
  ASSUME Inv, NEW kinds, Read(kinds)
  PROVE  /\ Len(wire) \in Nat /\ Len(wire) >= 1
         /\ wire[1] \in [kind : Line, of : 1..sent] /\ wire[1].kind \in kinds
         /\ Head(wire) = wire[1]
         /\ wire' \in Seq([kind : Line, of : 1..MaxCommands])
         /\ Len(wire') = Len(wire) - 1
         /\ \A i \in 1..Len(wire) - 1 : wire'[i] = wire[i + 1]
<1> DEFINE L == [kind : Line, of : 1..MaxCommands]
<1>1. wire \in Seq(L) /\ wire # <<>> /\ wire' = Tail(wire) /\ Head(wire).kind \in kinds
  BY DEF Inv, TypeOK, Read
<1> HIDE DEF L
<1>2. /\ Len(wire) \in Nat /\ Len(wire) >= 1 /\ Head(wire) = wire[1] /\ wire[1] \in L
  BY <1>1
<1>3. /\ wire' \in Seq(L) /\ Len(wire') = Len(wire) - 1
      /\ \A i \in 1..Len(wire) - 1 : wire'[i] = wire[i + 1]
  BY <1>1, HeadTailProperties
<1>4. wire[1].of \in 1..sent
  BY <1>2 DEF Inv, BegunInv
<1>5. wire[1] \in [kind : Line, of : 1..sent]
  BY <1>2, <1>4 DEF L
<1> QED
  BY <1>1, <1>2, <1>3, <1>5 DEF L

\* The wire after a line was read, or the end of the stream.
LEMMA WireShrinks ==
  ASSUME Inv, NEW kinds, Read(kinds) \/ UNCHANGED wire, UNCHANGED sent
  PROVE  /\ wire' \in Seq([kind : Line, of : 1..MaxCommands])
         /\ \A i \in 1..Len(wire') : wire'[i].of \in 1..sent'
<1>1. CASE Read(kinds)
  <2>1. /\ Len(wire) \in Nat /\ Len(wire) >= 1 /\ Len(wire') = Len(wire) - 1
        /\ wire' \in Seq([kind : Line, of : 1..MaxCommands])
        /\ \A i \in 1..Len(wire) - 1 : wire'[i] = wire[i + 1]
    BY <1>1, ReadProperties
  <2>2. \A i \in 1..Len(wire') : i + 1 \in 1..Len(wire) /\ wire'[i] = wire[i + 1]
    BY <2>1
  <2> QED
    BY <2>1, <2>2 DEF Inv, BegunInv
<1>2. CASE UNCHANGED wire
  BY <1>2 DEF Inv, TypeOK, BegunInv
<1> QED
  BY <1>1, <1>2

\* A step of the handler without a reply.
LEMMA QuietTypes ==
  ASSUME Inv, NEW kinds, Read(kinds) \/ UNCHANGED wire, UNCHANGED <<clientVars, replies>>,
         serving' \in 0..sent,
         handler' \in Busy \cup {"command", "ended"}, serving' # 0 <=> handler' \in Busy
  PROVE  TypeOK' /\ BegunInv'
<1>1. /\ wire' \in Seq([kind : Line, of : 1..MaxCommands])
      /\ \A i \in 1..Len(wire') : wire'[i].of \in 1..sent'
  BY WireShrinks DEF clientVars
<1>2. TypeOK'
  BY <1>1 DEF Inv, TypeOK, clientVars, Busy
<1> QED
  BY <1>1, <1>2 DEF Inv, BegunInv, clientVars

\* A step of the handler that replies.
LEMMA ReplyTypes ==
  ASSUME Inv, NEW kinds, Read(kinds) \/ UNCHANGED wire, NEW n \in 1..sent, Reply(n)
  PROVE  TypeOK' /\ BegunInv'
<1>1. /\ wire' \in Seq([kind : Line, of : 1..MaxCommands])
      /\ \A i \in 1..Len(wire') : wire'[i].of \in 1..sent'
  BY WireShrinks DEF Reply, clientVars
<1>2. replies' \in Seq(1..MaxCommands)
  <2>1. n \in 1..MaxCommands /\ replies \in Seq(1..MaxCommands)
    BY Py4jAssumption DEF Inv, TypeOK
  <2>2. Append(replies, n) \in Seq(1..MaxCommands)
    BY <2>1, AppendProperties
  <2> QED
    BY <2>1, <2>2 DEF Reply
<1>3. TypeOK'
  BY <1>1, <1>2 DEF Inv, TypeOK, Reply, clientVars
<1> QED
  BY <1>1, <1>3 DEF Inv, BegunInv, Reply, clientVars

\* Every step keeps the types.
LEMMA NextTypes == Inv /\ [Next]_vars => TypeOK' /\ BegunInv'
<1> SUFFICES ASSUME Inv, [Next]_vars PROVE TypeOK' /\ BegunInv'
  OBVIOUS
<1> USE Py4jAssumption
<1>1. CASE BeginCommand
  <2>1. PICK c \in Command : rest' = c
    BY <1>1 DEF BeginCommand
  <2>2. rest' \in Seq(Line) /\ rest' # <<>>
    BY <2>1
  <2>3. TypeOK'
    BY <1>1, <2>2 DEF BeginCommand, Inv, TypeOK
  <2>4. \A i \in 1..Len(wire) : wire[i].of \in 1..sent + 1
    BY DEF Inv, TypeOK, BegunInv
  <2> QED
    BY <1>1, <2>3, <2>4 DEF BeginCommand, Inv, TypeOK, BegunInv
<1>2. CASE SendLine
  <2> DEFINE l == [kind |-> Head(rest), of |-> sent]
  <2>1. /\ rest \in Seq(Line) /\ rest # <<>> /\ sent \in 1..MaxCommands
        /\ wire \in Seq([kind : Line, of : 1..MaxCommands])
    BY <1>2 DEF SendLine, Inv, TypeOK, BegunInv
  <2>2. Head(rest) \in Line /\ Tail(rest) \in Seq(Line)
    BY <2>1, HeadTailProperties
  <2>3. l \in [kind : Line, of : 1..MaxCommands] /\ l.of = sent
    BY <2>1, <2>2
  <2>4. /\ wire' \in Seq([kind : Line, of : 1..MaxCommands]) /\ Len(wire') = Len(wire) + 1
        /\ \A i \in 1..Len(wire) : wire'[i] = wire[i]
        /\ wire'[Len(wire) + 1].of = sent
    BY <1>2, <2>1, <2>3, AppendProperties DEF SendLine
  <2>5. TypeOK'
    BY <1>2, <2>2, <2>4 DEF SendLine, Inv, TypeOK
  <2>6. BegunInv'
    BY <1>2, <2>1, <2>4 DEF SendLine, Inv, BegunInv
  <2> QED
    BY <2>5, <2>6
<1>3. CASE TakeReply
  <2>1. Tail(replies) \in Seq(1..MaxCommands)
    BY <1>3, HeadTailProperties DEF TakeReply, Inv, TypeOK
  <2> QED
    BY <1>3, <2>1 DEF TakeReply, Inv, TypeOK, BegunInv
<1>4. CASE Close
  BY <1>4 DEF Close, Inv, TypeOK, BegunInv
<1>5. CASE SkipBlank \/ ReadTarget \/ ReadMethod \/ ReadClass \/ SkipArgument
  <2>1. PICK kinds : Read(kinds) \/ UNCHANGED wire
    BY <1>5 DEF SkipBlank, ReadTarget, ReadMethod, ReadClass, SkipArgument, ReadAny
  <2>2. UNCHANGED <<clientVars, replies>> /\ serving' = serving
    BY <1>5 DEF SkipBlank, ReadTarget, ReadMethod, ReadClass, SkipArgument, Continue
  <2>3. handler' \in Busy \cup {"command"} /\ (serving # 0 <=> handler' \in Busy)
    BY <1>5 DEF SkipBlank, ReadTarget, ReadMethod, ReadClass, SkipArgument, Continue, Inv, TypeOK, Busy
  <2>4. serving \in 0..sent
    BY DEF Inv, TypeOK
  <2> QED
    BY <2>1, <2>2, <2>3, <2>4, QuietTypes
<1>6. CASE BeginCall \/ BeginReflection
  <2>1. PICK first \in {"c", "r"}, at \in {"target", "class"} : BeginArguments(first, at)
    BY <1>6 DEF BeginCall, BeginReflection
  <2>2. Read({first}) /\ serving' = wire[1].of /\ wire[1].of \in 1..sent
    BY <2>1, ReadProperties DEF BeginArguments
  <2>3. serving' \in 0..sent /\ serving' # 0 /\ sent \in Nat
    BY <2>2, Py4jAssumption DEF Inv, TypeOK
  <2> QED
    BY <2>1, <2>2, <2>3, QuietTypes DEF BeginArguments, Busy
<1>7. CASE AnswerLine
  <2>1. Read({"m", "text", "e"}) /\ Reply(wire[1].of) /\ wire[1].of \in 1..sent
    BY <1>7, ReadProperties DEF AnswerLine
  <2> QED
    BY <2>1, ReplyTypes
<1>8. CASE AnswerArguments
  <2>1. (Read({"e"}) \/ UNCHANGED wire) /\ Reply(serving)
    BY <1>8 DEF AnswerArguments, EndOfArguments
  <2>2. serving \in 1..sent
    BY <1>8 DEF AnswerArguments, Inv, TypeOK
  <2> QED
    BY <2>1, <2>2, ReplyTypes
<1>9. CASE InvalidLine \/ EndOfStream
  <2>1. Read({"invalid"}) \/ UNCHANGED wire
    BY <1>9 DEF InvalidLine, EndOfStream, End
  <2>2. handler' = "ended" /\ serving' = 0 /\ UNCHANGED <<clientVars, replies>> /\ 0 \in 0..sent
    BY <1>9 DEF InvalidLine, EndOfStream, End, Inv, TypeOK
  <2> QED
    BY <2>1, <2>2, QuietTypes DEF Busy
<1>10. CASE Broken
  BY <1>10 DEF Broken, End, clientVars, Inv, TypeOK, BegunInv
<1>11. CASE UNCHANGED vars
  BY <1>11 DEF vars, Inv, TypeOK, BegunInv
<1> QED
  BY <1>1, <1>2, <1>3, <1>4, <1>5, <1>6, <1>7, <1>8, <1>9, <1>10, <1>11 DEF Next, HandlerStep

-----------------------------------------------------------------------------
(* Commands and replies in step *)

\* What the handler takes a whole command for, line by line.
LEMMA WholeShape ==
  ASSUME NEW w \in Whole
  PROVE  /\ w \in Seq(Line) /\ Len(w) \in Nat /\ Len(w) >= 3
         /\ w[1] \in {"r", "c"} /\ (w[1] = "c" => Len(w) >= 4)
         /\ \A i \in 1..Len(w) : w[i] # "invalid"
         /\ \A k \in 0..Len(w) - 1 :
               HandlerAt(w, k) = "arguments" => (w[k + 1] = "e" <=> k + 1 = Len(w))
<1>1. w \in Seq(Line) /\ Len(w) \in Nat
  BY Py4jAssumption
<1>2. PICK names \in 1..2 :
        /\ w[1] = (IF names = 1 THEN "r" ELSE "c")
        /\ Len(w) >= names + 2
        /\ \A i \in 1..Len(w) : w[i] # "invalid" /\ (i > names + 1 => (w[i] = "e" <=> i = Len(w)))
  BY Py4jAssumption
<1>3. ASSUME NEW k \in 0..Len(w) - 1, HandlerAt(w, k) = "arguments" PROVE k + 1 > names + 1
  BY <1>1, <1>2, <1>3 DEF HandlerAt
<1>4. \A k \in 0..Len(w) - 1 : k + 1 \in 1..Len(w)
  BY <1>1
<1> QED
  BY <1>1, <1>2, <1>3, <1>4

\* One more line of the command is read, and it is not the last.
LEMMA ReadOn ==
  ASSUME Inv, NEW w \in Whole, NEW k \in 0..Len(w) - 1, Reading(w, k),
         NEW kinds, Read(kinds), UNCHANGED <<rest, sent>>, k + 1 < Len(w),
         handler' = HandlerAt(w, k + 1), serving' = sent
  PROVE  k + 1 \in 0..Len(w) - 1 /\ Reading(w, k + 1)'
<1>1. /\ Len(wire) \in Nat /\ Len(wire) >= 1
      /\ Len(wire') = Len(wire) - 1
      /\ \A i \in 1..Len(wire) - 1 : wire'[i] = wire[i + 1]
  BY ReadProperties
<1>2. Len(w) \in Nat /\ Len(rest) \in Nat
  BY WholeShape DEF Inv, TypeOK
<1>3. Len(wire') + Len(rest) = Len(w) - (k + 1)
  BY <1>1, <1>2 DEF Reading
<1>4. \A i \in 1..Len(wire') : wire'[i] = [kind |-> w[k + 1 + i], of |-> sent]
  <2>1. \A i \in 1..Len(wire') : i + 1 \in 1..Len(wire) /\ k + (i + 1) = k + 1 + i
    BY <1>1
  <2> QED
    BY <1>1, <2>1 DEF Reading
<1>5. \A i \in 1..Len(rest) : rest[i] = w[k + 1 + Len(wire') + i]
  <2>1. \A i \in 1..Len(rest) : k + 1 + Len(wire') + i = k + Len(wire) + i
    BY <1>1, <1>2
  <2> QED
    BY <2>1 DEF Reading
<1>6. k + 1 \in 0..Len(w) - 1
  BY <1>2
<1>7. Len(wire') + Len(rest') = Len(w) - (k + 1) /\ sent' = sent /\ rest' = rest
  BY <1>3
<1> HIDE DEF HandlerAt
<1> QED
  BY <1>4, <1>5, <1>6, <1>7 DEF Reading

\* The next line that the handler reads is the next of the command.
LEMMA NextLine ==
  ASSUME Inv, NEW w \in Whole, NEW k \in 0..Len(w) - 1, Reading(w, k), NEW kinds, Read(kinds)
  PROVE  w[k + 1] \in kinds /\ Head(wire).of = sent
<1>1. Len(wire) \in Nat /\ Len(wire) >= 1 /\ Head(wire) = wire[1] /\ wire[1].kind \in kinds
  BY ReadProperties
<1>2. wire[1] = [kind |-> w[k + 1], of |-> sent]
  BY <1>1 DEF Reading
<1> QED
  BY <1>1, <1>2

\* The handler in the middle of a whole command reads on, or answers it.
LEMMA HandlerInStep ==
  ASSUME Inv, client \in {"sending", "waiting"}, replies = <<>>,
         NEW w \in Whole, NEW k \in 0..Len(w) - 1, Reading(w, k), HandlerStep
  PROVE  \/ replies' = <<>> /\ \E j \in 0..Len(w) - 1 : Reading(w, j)'
         \/ client = "waiting" /\ wire' = <<>> /\ replies' = <<sent>> /\ handler' = "command"
<1> USE DEF HandlerAt
<1>0. /\ handler = HandlerAt(w, k) /\ (k > 0 => serving = sent)
      /\ Len(w) \in Nat /\ Len(w) >= 3 /\ w[1] \in {"r", "c"} /\ (w[1] = "c" => Len(w) >= 4)
  BY WholeShape DEF Reading
<1>1. ~Eof
  BY DEF Eof
<1>2. CASE SkipBlank \/ AnswerLine
  <2>1. k = 0 /\ w[1] \in {"blank", "m", "text", "e"}
    BY <1>0, <1>2, NextLine DEF SkipBlank, AnswerLine
  <2> QED
    BY <1>0, <2>1
<1>3. CASE BeginCall
  <2>1. k = 0 /\ Read({"c"}) /\ w[k + 1] = "c" /\ serving' = sent /\ handler' = "target"
    BY <1>0, <1>3, NextLine DEF BeginCall, BeginArguments
  <2>2. UNCHANGED <<clientVars, replies>>
    BY <1>3 DEF BeginCall, BeginArguments
  <2>3. handler' = HandlerAt(w, k + 1) /\ k + 1 < Len(w)
    BY <1>0, <2>1
  <2> QED
    BY <2>1, <2>2, <2>3, ReadOn DEF clientVars
<1>4. CASE BeginReflection
  <2>1. k = 0 /\ Read({"r"}) /\ w[k + 1] = "r" /\ serving' = sent /\ handler' = "class"
    BY <1>0, <1>4, NextLine DEF BeginReflection, BeginArguments
  <2>2. UNCHANGED <<clientVars, replies>>
    BY <1>4 DEF BeginReflection, BeginArguments
  <2>3. handler' = HandlerAt(w, k + 1) /\ k + 1 < Len(w)
    BY <1>0, <2>1
  <2> QED
    BY <2>1, <2>2, <2>3, ReadOn DEF clientVars
<1>5. ASSUME NEW kinds, Read(kinds), k > 0, k + 1 < Len(w), Continue(HandlerAt(w, k + 1))
      PROVE  replies' = <<>> /\ \E j \in 0..Len(w) - 1 : Reading(w, j)'
  <2>1. serving' = sent /\ handler' = HandlerAt(w, k + 1) /\ UNCHANGED <<rest, sent, replies>>
    BY <1>0, <1>5 DEF Continue, clientVars
  <2> QED
    BY <1>5, <2>1, ReadOn
<1>6. CASE ReadTarget \/ ReadMethod \/ ReadClass
  <2>1. Read(Line \ {"invalid"}) /\ k > 0 /\ k + 1 < Len(w)
    BY <1>0, <1>1, <1>6 DEF ReadTarget, ReadMethod, ReadClass, ReadAny
  <2>2. Continue(HandlerAt(w, k + 1))
    BY <1>0, <1>6 DEF ReadTarget, ReadMethod, ReadClass
  <2> QED
    BY <1>5, <2>1, <2>2
<1>7. CASE SkipArgument
  <2>1. Read(Line \ {"e", "invalid"}) /\ k > 0 /\ HandlerAt(w, k) = "arguments" /\ Continue("arguments")
    BY <1>0, <1>7 DEF SkipArgument
  <2>2. k + 1 < Len(w)
    BY <1>0, <2>1, NextLine, WholeShape
  <2>3. HandlerAt(w, k + 1) = "arguments"
    BY <2>1
  <2> QED
    BY <1>5, <2>1, <2>2, <2>3
<1>8. CASE AnswerArguments
  <2>1. /\ Read({"e"}) /\ k > 0 /\ HandlerAt(w, k) = "arguments" /\ Reply(sent)
    BY <1>0, <1>1, <1>8 DEF AnswerArguments, EndOfArguments
  <2>2. k + 1 = Len(w)
    BY <2>1, NextLine, WholeShape
  <2>3. Len(wire) \in Nat /\ Len(wire) >= 1 /\ Len(wire') = Len(wire) - 1
        /\ wire' \in Seq([kind : Line, of : 1..MaxCommands])
    BY <2>1, ReadProperties
  <2>4. rest \in Seq(Line) /\ Len(rest) \in Nat /\ Len(wire) + Len(rest) = 1
    BY <1>0, <2>2 DEF Reading, Inv, TypeOK
  <2>5. Len(wire') = 0 /\ Len(rest) = 0
    BY <2>3, <2>4
  <2>6. wire' = <<>> /\ rest = <<>>
    BY <2>3, <2>4, <2>5
  <2>7. client = "waiting"
    BY <2>6 DEF Inv, TypeOK
  <2>8. handler' = "command" /\ replies' = <<sent>>
    BY <2>1 DEF Reply
  <2> QED
    BY <2>6, <2>7, <2>8
<1>9. CASE InvalidLine
  <2>1. Read({"invalid"})
    BY <1>9 DEF InvalidLine, End
  <2>2. w[k + 1] = "invalid" /\ k + 1 \in 1..Len(w)
    BY <1>0, <2>1, NextLine
  <2> QED
    BY <2>2, WholeShape
<1>10. CASE EndOfStream
  BY <1>1, <1>10 DEF EndOfStream, End
<1> QED
  BY <1>2, <1>3, <1>4, <1>6, <1>7, <1>8, <1>9, <1>10 DEF HandlerStep

\* Every step keeps a conforming client in step.
LEMMA NextInStep == Inv /\ [Next]_vars => StepInv'
<1> SUFFICES ASSUME Inv, [Next]_vars, conforming', client' # "closed" PROVE StepInv'
  BY DEF StepInv
<1>0. conforming /\ client # "closed"
  BY DEF Next, BeginCommand, SendLine, TakeReply, Close, HandlerStep, SkipBlank, BeginCall, BeginReflection,
     AnswerLine, ReadTarget, ReadMethod, ReadClass, SkipArgument, AnswerArguments, InvalidLine, EndOfStream,
     Broken, BeginArguments, Continue, Reply, End, clientVars, vars
<1>1. CASE BeginCommand
  <2>1. PICK c \in Command : rest' = c /\ conforming' = (conforming /\ c \in Whole)
    BY <1>1 DEF BeginCommand
  <2>2. client = "ready" /\ wire = <<>> /\ replies = <<>> /\ handler = "command"
    BY <1>0, <1>1 DEF BeginCommand, Inv, StepInv
  <2>3. c \in Whole /\ Len(c) \in Nat /\ Len(c) >= 3
    BY <2>1, WholeShape
  <2>4. wire' = <<>> /\ handler' = HandlerAt(c, 0) /\ Len(wire') = 0
    BY <1>1, <2>2 DEF BeginCommand, HandlerAt
  <2>5. \A i \in 1..Len(rest') : 0 + Len(wire') + i = i
    BY <2>1, <2>3, <2>4
  <2>6. Reading(c, 0)'
    BY <2>1, <2>3, <2>4, <2>5 DEF Reading
  <2>7. client' = "sending" /\ replies' = <<>> /\ 0 \in 0..Len(c) - 1
    BY <1>1, <2>2, <2>3 DEF BeginCommand
  <2> QED
    BY <2>3, <2>6, <2>7 DEF StepInv
<1>2. CASE SendLine
  <2>1. client = "sending" /\ replies = <<>> /\ \E w \in Whole : \E k \in 0..Len(w) - 1 : Reading(w, k)
    BY <1>0, <1>2 DEF SendLine, Inv, StepInv
  <2>w. PICK w \in Whole : \E k \in 0..Len(w) - 1 : Reading(w, k)
    BY <2>1
  <2>2. PICK k \in 0..Len(w) - 1 : Reading(w, k)
    BY <2>w
  <2>3. /\ rest \in Seq(Line) /\ rest # <<>> /\ sent \in 1..MaxCommands
        /\ wire \in Seq([kind : Line, of : 1..MaxCommands])
    BY <2>1, Py4jAssumption DEF Inv, TypeOK, BegunInv
  <2> DEFINE l == [kind |-> Head(rest), of |-> sent]
  <2>4. /\ Head(rest) \in Line /\ Head(rest) = rest[1] /\ Len(rest) \in Nat /\ Len(rest) >= 1
        /\ rest' = Tail(rest) /\ Len(rest') = Len(rest) - 1
        /\ \A i \in 1..Len(rest') : rest'[i] = rest[i + 1]
    BY <1>2, <2>3, HeadTailProperties DEF SendLine
  <2>5. l \in [kind : Line, of : 1..MaxCommands]
    BY <2>3, <2>4
  <2>6. /\ wire' = Append(wire, l) /\ Len(wire') = Len(wire) + 1 /\ Len(wire) \in Nat
        /\ \A i \in 1..Len(wire) : wire'[i] = wire[i]
        /\ wire'[Len(wire) + 1] = l
    BY <1>2, <2>3, <2>5, AppendProperties DEF SendLine
  <2>7. /\ Len(wire') + Len(rest') = Len(w) - k
        /\ handler' = HandlerAt(w, k) /\ (k > 0 => serving' = sent) /\ sent' = sent
    <3>1. Len(wire) + Len(rest) = Len(w) - k /\ handler = HandlerAt(w, k) /\ (k > 0 => serving = sent)
      BY <2>2 DEF Reading
    <3>2. Len(wire') + Len(rest') = Len(wire) + Len(rest)
      <4>1. Len(wire') = Len(wire) + 1 /\ Len(wire) \in Nat
        BY <2>6
      <4>2. Len(rest') = Len(rest) - 1 /\ Len(rest) \in Nat
        BY <2>4
      <4> QED
        BY <4>1, <4>2
    <3> QED
      BY <1>2, <3>1, <3>2 DEF SendLine
  <2>8. ASSUME NEW i \in 1..Len(wire') PROVE wire'[i] = [kind |-> w[k + i], of |-> sent]
    <3>1. CASE i = Len(wire) + 1
      <4>1. 1 \in 1..Len(rest) /\ k + Len(wire) + 1 = k + i
        BY <3>1, <2>4, <2>6
      <4>2. rest[1] = w[k + i]
        BY <2>2, <4>1 DEF Reading
      <4> QED
        BY <3>1, <4>2, <2>4, <2>6
    <3>2. CASE i \in 1..Len(wire)
      BY <3>2, <2>2, <2>6 DEF Reading
    <3> QED
      BY <3>1, <3>2, <2>6
  <2>9. ASSUME NEW i \in 1..Len(rest') PROVE rest'[i] = w[k + Len(wire') + i]
    <3>1. i + 1 \in 1..Len(rest) /\ k + Len(wire) + (i + 1) = k + Len(wire') + i
      BY <2>4, <2>6
    <3>2. rest[i + 1] = w[k + Len(wire) + (i + 1)]
      BY <2>2, <3>1 DEF Reading
    <3> QED
      BY <3>1, <3>2, <2>4
  <2>10. Reading(w, k)'
    BY <2>7, <2>8, <2>9 DEF Reading
  <2>11. client' \in {"sending", "waiting"} /\ replies' = <<>>
    BY <1>2, <2>1 DEF SendLine
  <2> QED
    BY <2>10, <2>11 DEF StepInv
<1>3. CASE TakeReply
  <2>1. replies = <<sent>> /\ wire = <<>> /\ handler = "command"
    BY <1>0, <1>3 DEF TakeReply, Inv, StepInv
  <2> QED
    BY <1>3, <2>1 DEF TakeReply, StepInv
<1>4. CASE Close
  BY <1>4 DEF Close
<1>5. CASE HandlerStep
  <2>1. CASE client \in {"sending", "waiting"} /\ replies = <<>>
             /\ \E w \in Whole : \E k \in 0..Len(w) - 1 : Reading(w, k)
    <3>w. PICK w \in Whole : \E k \in 0..Len(w) - 1 : Reading(w, k)
      BY <2>1
    <3>1. PICK k \in 0..Len(w) - 1 : Reading(w, k)
      BY <3>w
    <3>2. UNCHANGED clientVars
      BY <1>5 DEF HandlerStep, SkipBlank, BeginCall, BeginReflection, AnswerLine, ReadTarget, ReadMethod,
         ReadClass, SkipArgument, AnswerArguments, InvalidLine, EndOfStream, BeginArguments, Continue, Reply, End
    <3> QED
      BY <1>5, <2>1, <3>1, <3>2, HandlerInStep DEF StepInv, clientVars
  <2>2. CASE wire = <<>> /\ handler = "command"
    BY <1>0, <1>5, <2>2 DEF HandlerStep, SkipBlank, BeginCall, BeginReflection, AnswerLine, ReadTarget, ReadMethod,
       ReadClass, SkipArgument, AnswerArguments, InvalidLine, EndOfStream, BeginArguments, End, Read, Eof
  <2> QED
    BY <1>0, <2>1, <2>2 DEF Inv, StepInv
<1>6. CASE Broken
  BY <1>0, <1>6 DEF Broken, End
<1>7. CASE UNCHANGED vars
  BY <1>0, <1>7 DEF vars, Inv, StepInv, Reading
<1> QED
  BY <1>1, <1>2, <1>3, <1>4, <1>5, <1>6, <1>7 DEF Next

-----------------------------------------------------------------------------
(* Theorems *)

\* The invariant holds throughout.
LEMMA AlwaysInv == Spec => []Inv
<1>1. Init => Inv
  BY Py4jAssumption DEF Init, Inv, TypeOK, BegunInv, StepInv
<1>2. Inv /\ [Next]_vars => Inv'
  BY NextTypes, NextInStep DEF Inv
<1>3. Init /\ [][Next]_vars => []Inv
  BY <1>1, <1>2, PTL
<1> QED
  BY <1>3, PTL DEF Spec

\* Connection and client keep to their types, and the handler serves a command exactly
\* while it reads its arguments.
THEOREM TypeCorrect == Spec => []TypeOK
<1>1. Inv => TypeOK
  BY DEF Inv
<1> QED
  BY <1>1, AlwaysInv, PTL

\* handle_py4j_connection answers each whole command once, after its last line, and never
\* gets ahead or behind, whatever the commands are and however many.
THEOREM InStepHolds == Spec => []InStep
<1>1. Inv => InStep
  BY DEF Inv, StepInv, InStep
<1> QED
  BY <1>1, AlwaysInv, PTL
=============================================================================
