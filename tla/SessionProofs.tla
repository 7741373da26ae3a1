---------------------------- MODULE SessionProofs ---------------------------
(***************************************************************************)
(* Theorems about Session: for any plugins, any size of the buffer and any *)
(* way the connection cuts up what is sent, what the master reads after a  *)
(* request is an answer to that request, and a plugin that was listed is   *)
(* known.                                                                  *)
(***************************************************************************)
EXTENDS Integers, Session, SequenceTheorems, TLAPS

(* What may be on the way: parts of requests, and pieces of answers that   *)
(* name none but the node's plugins.                                       *)
Wire == {Part(r, i) : r \in Request, i \in Nat}
Said == [kind : Kind, names : SUBSET Names, end : BOOLEAN]

Types ==
  /\ buffer \in Seq(Wire) /\ Len(buffer) <= BufferSize /\ toNode \in Seq(Wire)
  /\ out \in Seq(Said) /\ toMaster \in Seq(Said) /\ got \in Seq(Said)
  /\ request \in Request /\ sent \in Nat /\ known \subseteq Names

Silent == got = <<>> /\ toMaster = <<>> /\ out = <<>>

(* Of the request's line b has arrived, and the rest of what was sent is   *)
(* on its way.                                                             *)
Carried(b) ==
  /\ Len(b) + Len(toNode) = sent
  /\ \A i \in 1 .. Len(b) : b[i] = Part(request, i)
  /\ \A i \in 1 .. Len(toNode) : toNode[i] = Part(request, Len(b) + i)

(* The answer a has been read in part, is on its way in part, and has not  *)
(* been sent in part.                                                      *)
Told(a) ==
  /\ Len(got) + Len(toMaster) + Len(out) = Len(a)
  /\ \A i \in 1 .. Len(got) : got[i] = a[i]
  /\ \A i \in 1 .. Len(toMaster) : toMaster[i] = a[Len(got) + i]
  /\ \A i \in 1 .. Len(out) : out[i] = a[Len(got) + Len(toMaster) + i]

(* The node has answered with one of answers and asks for no more yet.     *)
Answering(answers) ==
  /\ toNode = <<>> /\ pc \in {"send", "recv"}
  /\ pc = "recv" => out = <<>> /\ buffer = <<>>
  /\ \E a \in answers : Told(a)

(* Where the node can be while the request is being sent or looked at.     *)
Listening ==
  /\ Silent
  /\ \/ pc = "send" /\ Carried(<<>>)
     \/ pc \in {"recv", "dispatch", "calling"} /\ Carried(buffer)
     \/ pc \in {"leave", "gone"}

Greetings == {Answer("greeting", {})}

Phases ==
  /\ state = "greeting" =>
       \/ pc = "greet" /\ Silent /\ toNode = <<>>
       \/ Answering(Greetings)
  /\ state = "idle" =>
       /\ Silent /\ toNode = <<>> /\ pc \in {"send", "recv"}
       /\ pc = "recv" => buffer = <<>>
  /\ state = "sending" => Listening /\ sent < Parts(request) /\ pc \notin {"dispatch", "calling"}
  /\ state = "waiting" =>
       \/ Listening /\ sent = Parts(request)
          /\ (pc \in {"dispatch", "calling"} => Len(buffer) = sent)
       \/ Answering(AnswersTo(request))

IInv ==
  \/ state = "over" /\ left
  \/ state \in {"greeting", "idle", "sending", "waiting"} /\ ~left /\ Types /\ Phases

-----------------------------------------------------------------------------
(* An answer is made of one part or two, of which only a second one ends   *)
(* it.                                                                     *)
IsAnswer(a) ==
  /\ a \in Seq(Said) /\ Len(a) \in {1, 2}
  /\ ~a[1].end /\ (Len(a) = 2 => a[2].end)

(* How an answer's parts can be spread over three places.                  *)
LEMMA TwoParts ==
  ASSUME NEW x \in Nat, NEW y \in Nat, NEW z \in Nat, x + y + z \in {1, 2}
  PROVE  /\ y >= 1 => x = 0 \/ (x = 1 /\ y = 1 /\ z = 0 /\ x + y + z = 2)
         /\ \A i \in 1 .. x + y : i = 1 \/ i = 2
OBVIOUS

(* A whole answer, and one that was cut short, is one.                     *)
LEMMA AnswerTyped ==
  ASSUME NEW kind \in Kind, NEW names \in SUBSET Names
  PROVE  /\ IsAnswer(Answer(kind, names)) /\ Len(Answer(kind, names)) = 2
         /\ \A i \in 1 .. 2 : Answer(kind, names)[i].kind = kind
<1>1. [kind |-> kind, names |-> names, end |-> FALSE] \in Said
      /\ [kind |-> kind, names |-> names, end |-> TRUE] \in Said
  BY DEF Said
<1>2. QED
  BY <1>1 DEF Answer, IsAnswer

LEMMA CutShortTyped ==
  ASSUME NEW r, r.name \in Names
  PROVE  IsAnswer(CutShort(r)) /\ Len(CutShort(r)) = 1 /\ CutShort(r)[1].kind = "plugin"
<1>1. [kind |-> "plugin", names |-> {r.name}, end |-> FALSE] \in Said
  BY DEF Said, Kind
<1>2. QED
  BY <1>1 DEF CutShort, IsAnswer

(* Every answer to r is one, and names only the node's plugins.            *)
LEMMA AnswersToTyped == ASSUME NEW r, NEW a \in AnswersTo(r) PROVE IsAnswer(a)
<1>1. CASE r.command = "list"
  BY <1>1, AnswerTyped DEF AnswersTo, Kind
<1>2. CASE r.command = "nodes"
  BY <1>2, AnswerTyped DEF AnswersTo, Kind
<1>3. CASE r.command = "version"
  BY <1>3, AnswerTyped DEF AnswersTo, Kind
<1>4. CASE r.command \in {"config", "fetch"}
  <2>1. CASE LookupPlugin(r.name)
    <3>1. a \in {Answer("plugin", {r.name}), Answer("error", {}), CutShort(r)}
      BY <1>4, <2>1 DEF AnswersTo
    <3>2. {r.name} \in SUBSET Names /\ r.name \in Names
      BY <2>1 DEF LookupPlugin
    <3>3. QED
      BY <3>1, <3>2, AnswerTyped, CutShortTyped DEF Kind
  <2>2. CASE ~LookupPlugin(r.name)
    BY <1>4, <2>2, AnswerTyped DEF AnswersTo, Kind
  <2>3. QED
    BY <2>1, <2>2
<1>5. CASE r.command \notin {"list", "nodes", "version", "config", "fetch"}
  BY <1>5, AnswerTyped DEF AnswersTo, Kind
<1>6. QED
  BY <1>1, <1>2, <1>3, <1>4, <1>5

(* A request has two parts at least: text and line end.                    *)
LEMMA PartsIs == ASSUME NEW r PROVE Parts(r) \in Nat /\ Parts(r) >= 2
BY BufferAssumption DEF Parts

(* A part says whose it is, and the last one ends the line.                *)
LEMMA PartIs ==
  ASSUME NEW r \in Request, NEW i \in Nat
  PROVE  Part(r, i) \in Wire /\ Part(r, i).request = r /\ (Part(r, i).newline <=> i = Parts(r))
<1>1. Part(r, i) \in Wire
  BY DEF Wire
<1>2. Part(r, i).request = r
  BY DEF Part
<1>3. Part(r, i).newline = (i = Parts(r))
  BY Zenon DEF Part
<1>4. QED
  BY <1>1, <1>2, <1>3

(* The invariant at first.                                                 *)
LEMMA InitIInv == Init => IInv
<1> SUFFICES ASSUME Init PROVE IInv
  OBVIOUS
<1>1. Ask("list") \in Request
  BY DEF Ask, Request, Command
<1>2. Types
  BY <1>1, BufferAssumption DEF Init, Types
<1>3. QED
  BY <1>2 DEF Init, IInv, Phases, Silent

(* A complete line in the buffer is the request.                           *)
LEMMA UnderstoodIs ==
  ASSUME Types, Carried(buffer), Len(buffer) = Parts(request)
  PROVE  Understood = request
<1>1. /\ buffer \in Seq(Wire) /\ Len(buffer) = Parts(request) /\ Parts(request) >= 2
      /\ Parts(request) \in Nat /\ request \in Request
  BY PartsIs DEF Types
<1>2. \A i \in 1 .. Len(buffer) : buffer[i].newline <=> i = Parts(request)
  BY <1>1, PartIs DEF Carried
<1> DEFINE I == {i \in 1 .. Len(buffer) : buffer[i].newline}
<1>3. I = {Parts(request)}
  BY <1>1, <1>2
<1>4. Min(I) = Parts(request)
  BY <1>1, <1>3 DEF Min
<1>5. SelectInSeq(buffer, LAMBDA p : p.newline) = Parts(request)
  BY <1>3, <1>4 DEF SelectInSeq
<1>6. Line = SubSeq(buffer, 1, Len(buffer))
  BY <1>1, <1>5 DEF Line
<1>7. Line = buffer
  BY <1>1, <1>6, SubSeqFull
<1>8. buffer = [i \in 1 .. Parts(request) |-> Part(request, i)]
  BY <1>1 DEF Carried
<1>9. Line[1].request = request
  BY <1>1, <1>7, PartIs DEF Carried
<1>10. QED
  BY <1>7, <1>8, <1>9 DEF Understood

(* What is answered depends on what does not change.                       *)
LEMMA SameAnswers ==
  ASSUME UNCHANGED <<plugins, request>>
  PROVE  AnswersTo(request)' = AnswersTo(request)
<1>1. Names' = Names /\ LookupPlugin(request.name)' = LookupPlugin(request.name)
  BY DEF Names, LookupPlugin
<1>2. Runs(request)' = Runs(request)
  BY DEF Runs
<1>3. QED
  BY <1>1, <1>2 DEF AnswersTo, CutShort

-----------------------------------------------------------------------------
(* The node.                                                               *)
LEMMA GreetKeeps == ASSUME IInv, Greet PROVE IInv'
<1> SUFFICES ASSUME state # "over" PROVE IInv'
  BY DEF Greet, IInv, masterVars, setup
<1>1. /\ state = "greeting" /\ Types /\ Silent /\ toNode = <<>>
      /\ state' = state /\ left' = left /\ ~left
      /\ pc' = "send" /\ out' = Answer("greeting", {})
      /\ UNCHANGED <<plugins, buffer, toNode, toMaster, got, request, sent, known>>
  BY DEF Greet, IInv, Phases, Listening, Answering, wireVars, masterVars, setup
<1>2. out' \in Seq(Said)
  BY <1>1, AnswerTyped DEF Kind, IsAnswer
<1>3. Types'
  BY <1>1, <1>2 DEF Types, Said, Names
<1>4. Told(Answer("greeting", {}))'
  BY <1>1, <1>2 DEF Told, Silent, Types
<1>5. Answering(Greetings)'
  BY <1>1, <1>4 DEF Answering, Greetings
<1>6. QED
  BY <1>1, <1>3, <1>5 DEF IInv, Phases

(* What send takes moves on unchanged.                                     *)
LEMMA SendKeeps == ASSUME IInv, Send PROVE IInv'
<1> SUFFICES ASSUME state # "over" PROVE IInv'
  BY DEF Send, IInv, masterVars, setup
<1>1. PICK n \in 1 .. Len(out) :
        /\ toMaster' = toMaster \o SubSeq(out, 1, n)
        /\ out' = SubSeq(out, n + 1, Len(out))
  BY DEF Send, IInv
<1>2. /\ pc = "send" /\ out # <<>> /\ Types /\ Phases /\ ~left
      /\ state \in {"greeting", "idle", "sending", "waiting"}
      /\ UNCHANGED <<pc, plugins, buffer, toNode, left, state, got, request, sent, known>>
  BY DEF Send, IInv, masterVars, setup
<1>3. /\ toMaster' \in Seq(Said) /\ out' \in Seq(Said)
      /\ Len(toMaster') = Len(toMaster) + n /\ Len(out') = Len(out) - n
      /\ \A i \in 1 .. Len(toMaster) : toMaster'[i] = toMaster[i]
      /\ \A i \in 1 .. n : toMaster'[Len(toMaster) + i] = out[i]
      /\ \A i \in 1 .. Len(out') : out'[i] = out[n + i]
  <2>1. out \in Seq(Said) /\ toMaster \in Seq(Said) /\ n \in 1 .. Len(out) /\ Len(out) \in Nat
    BY <1>1, <1>2 DEF Types
  <2>2. /\ SubSeq(out, 1, n) \in Seq(Said) /\ Len(SubSeq(out, 1, n)) = n
        /\ \A i \in 1 .. n : SubSeq(out, 1, n)[i] = out[i]
    BY <2>1, SubSeqProperties
  <2>3. /\ out' \in Seq(Said) /\ Len(out') = Len(out) - n
        /\ \A i \in 1 .. Len(out') : out'[i] = out[n + i]
    BY <1>1, <2>1, SubSeqProperties
  <2>4. /\ toMaster' \in Seq(Said) /\ Len(toMaster') = Len(toMaster) + n
        /\ \A i \in 1 .. Len(toMaster) : toMaster'[i] = toMaster[i]
        /\ \A i \in 1 .. n : toMaster'[Len(toMaster) + i] = out[i]
    BY <1>1, <2>1, <2>2, ConcatProperties
  <2>5. QED
    BY <2>3, <2>4
<1>4. Types'
  BY <1>2, <1>3 DEF Types, Said, Names
<1>5. ASSUME NEW a, Told(a) PROVE Told(a)'
  <2>1. /\ Len(got) \in Nat /\ Len(toMaster) \in Nat /\ Len(out) \in Nat /\ got' = got
        /\ n \in 1 .. Len(out)
    BY <1>1, <1>2 DEF Types
  <2>2. Len(got) + Len(toMaster') + Len(out') = Len(a)
    <3>1. Len(got) + Len(toMaster') + Len(out') = Len(got) + Len(toMaster) + Len(out)
      BY <1>3, <2>1
    <3>2. QED
      BY <1>5, <3>1 DEF Told
  <2>3. ASSUME NEW i \in 1 .. Len(toMaster') PROVE toMaster'[i] = a[Len(got) + i]
    <3>1. CASE i <= Len(toMaster)
      BY <1>3, <1>5, <2>1, <2>3, <3>1 DEF Told
    <3>2. CASE i > Len(toMaster)
      <4> DEFINE j == i - Len(toMaster)
      <4>1. j \in 1 .. n /\ j \in 1 .. Len(out) /\ i = Len(toMaster) + j
        BY <1>3, <2>1, <2>3, <3>2
      <4>2. toMaster'[i] = out[j] /\ out[j] = a[Len(got) + Len(toMaster) + j]
        BY <1>3, <1>5, <4>1 DEF Told
      <4>3. Len(got) + Len(toMaster) + j = Len(got) + i
        BY <2>1, <4>1
      <4>4. QED
        BY <4>2, <4>3
    <3>3. QED
      BY <2>1, <3>1, <3>2
  <2>4. ASSUME NEW i \in 1 .. Len(out') PROVE out'[i] = a[Len(got) + Len(toMaster') + i]
    <3>1. n + i \in 1 .. Len(out)
      BY <1>3, <2>1, <2>4
    <3>2. out'[i] = a[Len(got) + Len(toMaster) + (n + i)]
      BY <1>3, <1>5, <2>4, <3>1 DEF Told
    <3>3. Len(got) + Len(toMaster) + (n + i) = Len(got) + Len(toMaster') + i
      BY <1>3, <2>1, <2>4
    <3>4. QED
      BY <3>2, <3>3
  <2>5. QED
    BY <1>5, <2>1, <2>2, <2>3, <2>4 DEF Told
<1>6. ASSUME NEW answers, Answering(answers) PROVE \E a \in answers : Told(a)'
  BY <1>5, <1>6 DEF Answering
<1>7. ~Silent
  BY <1>2 DEF Silent
<1>8. CASE state = "greeting"
  <2>1. Answering(Greetings)
    BY <1>2, <1>7, <1>8 DEF Phases
  <2>2. Told(Answer("greeting", {}))'
    BY <1>5, <2>1 DEF Answering, Greetings
  <2>3. Answering(Greetings)'
    BY <1>2, <2>1, <2>2 DEF Answering, Greetings
  <2>4. QED
    BY <1>2, <1>4, <1>8, <2>3 DEF IInv, Phases
<1>9. CASE state = "waiting"
  <2>1. Answering(AnswersTo(request))
    BY <1>2, <1>7, <1>9 DEF Phases, Listening
  <2>2. Answering(AnswersTo(request))'
    BY <1>2, <1>6, <2>1, SameAnswers DEF Answering
  <2>3. QED
    BY <1>2, <1>4, <1>9, <2>2 DEF IInv, Phases
<1>10. QED
  BY <1>2, <1>7, <1>8, <1>9 DEF Phases, Listening

(* The answer has left.                                                    *)
LEMMA SentKeeps == ASSUME IInv, Sent PROVE IInv'
<1> SUFFICES ASSUME state # "over" PROVE IInv'
  BY DEF Sent, IInv, masterVars, setup
<1>1. /\ pc = "send" /\ out = <<>> /\ out' = out /\ buffer' = <<>> /\ pc' = "recv"
      /\ Types /\ Phases /\ ~left /\ state \in {"greeting", "idle", "sending", "waiting"}
      /\ UNCHANGED <<plugins, toNode, toMaster, left, state, got, request, sent, known>>
  BY DEF Sent, IInv, wireVars, masterVars, setup
<1>2. Types'
  BY <1>1, BufferAssumption DEF Types, Said, Names
<1>3. ASSUME NEW answers, Answering(answers)
      PROVE  toNode' = <<>> /\ \E a \in answers : Told(a)'
  BY <1>1, <1>3 DEF Answering, Told
<1>4. Listening => Listening'
  BY <1>1 DEF Listening, Silent, Carried
<1>5. CASE state = "greeting"
  <2>1. Answering(Greetings)
    BY <1>1, <1>5 DEF Phases
  <2>2. toNode' = <<>> /\ Told(Answer("greeting", {}))'
    BY <1>3, <2>1 DEF Greetings
  <2>3. Answering(Greetings)'
    BY <1>1, <2>2 DEF Answering, Greetings
  <2>4. QED
    BY <1>1, <1>2, <1>5, <2>3 DEF IInv, Phases
<1>6. CASE state = "waiting"
  <2>1. CASE Answering(AnswersTo(request))
    <3>1. Answering(AnswersTo(request))'
      BY <1>1, <1>3, <2>1, SameAnswers DEF Answering
    <3>2. QED
      BY <1>1, <1>2, <1>6, <3>1 DEF IInv, Phases
  <2>2. CASE Listening /\ sent = Parts(request)
    BY <1>1, <1>2, <1>4, <1>6, <2>2 DEF IInv, Phases, Parts
  <2>3. QED
    BY <1>1, <1>6, <2>1, <2>2 DEF Phases
<1>7. CASE state = "sending"
  BY <1>1, <1>2, <1>4, <1>7 DEF IInv, Phases, Parts
<1>8. CASE state = "idle"
  BY <1>1, <1>2, <1>8 DEF IInv, Phases, Silent
<1>9. QED
  BY <1>1, <1>5, <1>6, <1>7, <1>8

(* What recv gives joins what has arrived.                                 *)
LEMMA ReceiveKeeps == ASSUME IInv, Receive PROVE IInv'
<1> SUFFICES ASSUME state # "over" PROVE IInv'
  BY DEF Receive, IInv, masterVars, setup
<1>1. PICK n \in 1 .. Len(toNode) :
        /\ Len(buffer) + n <= BufferSize
        /\ buffer' = buffer \o SubSeq(toNode, 1, n)
        /\ toNode' = SubSeq(toNode, n + 1, Len(toNode))
  BY DEF Receive
<1>2. /\ pc = "recv" /\ Types /\ Phases /\ ~left
      /\ state \in {"greeting", "idle", "sending", "waiting"}
      /\ UNCHANGED <<pc, plugins, out, toMaster, left, state, got, request, sent, known>>
  BY DEF Receive, IInv, masterVars, setup
<1>3. /\ buffer \in Seq(Wire) /\ toNode \in Seq(Wire) /\ n \in 1 .. Len(toNode)
      /\ Len(buffer) \in Nat /\ Len(toNode) \in Nat
  BY <1>1, <1>2 DEF Types
<1>4. /\ buffer' \in Seq(Wire) /\ Len(buffer') = Len(buffer) + n
      /\ \A i \in 1 .. Len(buffer) : buffer'[i] = buffer[i]
      /\ \A i \in 1 .. n : buffer'[Len(buffer) + i] = toNode[i]
  <2>1. /\ SubSeq(toNode, 1, n) \in Seq(Wire) /\ Len(SubSeq(toNode, 1, n)) = n
        /\ \A i \in 1 .. n : SubSeq(toNode, 1, n)[i] = toNode[i]
    BY <1>3, SubSeqProperties
  <2>2. QED
    BY <1>1, <1>3, <2>1, ConcatProperties
<1>5. /\ toNode' \in Seq(Wire) /\ Len(toNode') = Len(toNode) - n
      /\ \A i \in 1 .. Len(toNode') : toNode'[i] = toNode[n + i]
  BY <1>1, <1>3, SubSeqProperties
<1>6. Types'
  BY <1>1, <1>2, <1>4, <1>5 DEF Types, Said, Names
<1>7. state \in {"sending", "waiting"} /\ Listening
  <2>1. toNode # <<>>
    BY <1>3
  <2>2. QED
    BY <1>2, <2>1 DEF Phases, Answering
<1>8. Carried(buffer)'
  <2>1. Carried(buffer) /\ request' = request /\ sent' = sent
    BY <1>2, <1>7 DEF Listening
  <2>2. Len(buffer') + Len(toNode') = Len(buffer) + Len(toNode)
    BY <1>3, <1>4, <1>5
  <2>3. ASSUME NEW i \in 1 .. Len(buffer') PROVE buffer'[i] = Part(request, i)
    <3>1. CASE i <= Len(buffer)
      BY <1>3, <1>4, <2>1, <2>3, <3>1 DEF Carried
    <3>2. CASE i > Len(buffer)
      <4> DEFINE j == i - Len(buffer)
      <4>1. j \in 1 .. n /\ j \in 1 .. Len(toNode) /\ i = Len(buffer) + j
        BY <1>3, <1>4, <2>3, <3>2
      <4>2. buffer'[i] = toNode[j] /\ toNode[j] = Part(request, Len(buffer) + j)
        BY <1>4, <2>1, <4>1 DEF Carried
      <4>3. QED
        BY <4>1, <4>2
    <3>3. QED
      BY <1>3, <3>1, <3>2
  <2>4. ASSUME NEW i \in 1 .. Len(toNode') PROVE toNode'[i] = Part(request, Len(buffer') + i)
    <3>1. n + i \in 1 .. Len(toNode) /\ Len(buffer) + (n + i) = Len(buffer') + i
      BY <1>3, <1>4, <1>5, <2>4
    <3>2. toNode'[i] = Part(request, Len(buffer) + (n + i))
      BY <1>5, <2>1, <2>4, <3>1 DEF Carried
    <3>3. QED
      BY <3>1, <3>2
  <2>5. QED
    BY <2>1, <2>2, <2>3, <2>4 DEF Carried, Part, Parts
<1>9. QED
  BY <1>2, <1>6, <1>7, <1>8 DEF IInv, Phases, Listening, Silent, Answering, Parts

(* A newline in the buffer is that of the whole request.                   *)
LEMMA LineIsWhole ==
  ASSUME Types, Carried(buffer), HasLine, sent <= Parts(request)
  PROVE  Len(buffer) = sent /\ sent = Parts(request)
<1>1. PICK i \in 1 .. Len(buffer) : buffer[i].newline
  BY DEF HasLine, Types
<1>2. i = Parts(request) /\ Parts(request) \in Nat
  BY <1>1, PartIs, PartsIs DEF Carried, Types
<1>3. Len(buffer) \in Nat /\ Len(toNode) \in Nat /\ Len(buffer) + Len(toNode) = sent /\ sent \in Nat
  BY DEF Carried, Types
<1>4. QED
  BY <1>1, <1>2, <1>3

(* RecvLine returns, with a line or without one.                           *)
LEMMA ReceiveEndsKeep == ASSUME IInv, ReceiveFails \/ ReceivedLine PROVE IInv'
<1> SUFFICES ASSUME state # "over" PROVE IInv'
  BY DEF ReceiveFails, ReceivedLine, IInv, masterVars, setup
<1>1. /\ pc = "recv" /\ Types /\ Phases /\ ~left
      /\ state \in {"greeting", "idle", "sending", "waiting"}
      /\ UNCHANGED <<plugins, buffer, out, toNode, toMaster, left, state, got, request, sent, known>>
  BY DEF ReceiveFails, ReceivedLine, IInv, wireVars, masterVars, setup
<1>2. Types'
  BY <1>1 DEF Types, Said, Names
<1>3. buffer # <<>>
  BY <1>1, BufferAssumption DEF ReceiveFails, ReceivedLine, HasLine, IInv
<1>4. /\ Listening
      /\ \/ state = "sending" /\ sent < Parts(request)
         \/ state = "waiting" /\ sent = Parts(request)
  BY <1>1, <1>3 DEF Phases, Answering
<1>5. CASE ReceiveFails
  <2>1. Listening' /\ pc' = "leave"
    BY <1>1, <1>4, <1>5 DEF ReceiveFails, Listening, Silent
  <2>2. QED
    BY <1>1, <1>2, <1>4, <2>1 DEF IInv, Phases, Parts
<1>6. CASE ReceivedLine
  <2>1. sent <= Parts(request)
    BY <1>1, <1>4, PartsIs DEF Types
  <2>2. Carried(buffer) /\ HasLine /\ pc' = "dispatch"
    BY <1>1, <1>4, <1>6 DEF Listening, ReceivedLine
  <2>3. Len(buffer) = sent /\ sent = Parts(request)
    BY <1>1, <2>1, <2>2, LineIsWhole
  <2>4. state = "waiting"
    BY <1>4, <2>3, PartsIs
  <2>5. Listening'
    BY <1>1, <1>4, <2>2 DEF Listening, Silent, Carried
  <2>6. QED
    BY <1>1, <1>2, <2>2, <2>3, <2>4, <2>5 DEF IInv, Phases, Parts
<1>7. QED
  BY <1>5, <1>6

(* The answer to a line is made.                                           *)
LEMMA DispatchKeeps == ASSUME IInv, Dispatch \/ Return PROVE IInv'
<1> SUFFICES ASSUME state # "over" PROVE IInv'
  BY DEF Dispatch, Return, IInv, masterVars, setup
<1>1. /\ pc \in {"dispatch", "calling"} /\ pc' = "send" /\ out' \in AnswersTo(Understood) /\ Types /\ Phases /\ ~left
      /\ state \in {"greeting", "idle", "sending", "waiting"}
      /\ UNCHANGED <<plugins, buffer, toNode, toMaster, left, state, got, request, sent, known>>
  BY DEF Dispatch, Return, IInv, wireVars, masterVars, setup
<1>2. /\ state = "waiting" /\ Silent /\ Carried(buffer)
      /\ sent = Parts(request) /\ Len(buffer) = sent
  BY <1>1 DEF Phases, Listening, Answering, Silent
<1>3. Understood = request
  BY <1>1, <1>2, UnderstoodIs
<1>4. PICK a \in AnswersTo(request) : out' = a
  BY <1>1, <1>3
<1>5. a \in Seq(Said)
  BY AnswersToTyped DEF IsAnswer
<1>6. Types'
  BY <1>1, <1>4, <1>5 DEF Types, Said, Names
<1>7. toNode = <<>>
  BY <1>1, <1>2 DEF Types, Carried
<1>8. Told(a)'
  BY <1>1, <1>2, <1>4, <1>5 DEF Told, Silent
<1>9. Answering(AnswersTo(request))'
  BY <1>1, <1>7, <1>8, SameAnswers DEF Answering
<1>10. QED
  BY <1>1, <1>2, <1>6, <1>9 DEF IInv, Phases

(* The command of an external plugin is called.                            *)
LEMMA CallKeeps == ASSUME IInv, Call PROVE IInv'
<1> SUFFICES ASSUME state # "over" PROVE IInv'
  BY DEF Call, IInv, masterVars, setup
<1>1. /\ pc = "dispatch" /\ pc' = "calling" /\ Types /\ Phases /\ ~left
      /\ state \in {"greeting", "idle", "sending", "waiting"}
      /\ UNCHANGED <<plugins, buffer, out, toNode, toMaster, left, state, got, request, sent, known>>
  BY DEF Call, IInv, wireVars, masterVars, setup
<1>2. /\ state = "waiting" /\ Listening /\ sent = Parts(request) /\ Len(buffer) = sent
  BY <1>1 DEF Phases, Answering, Listening, Silent
<1>3. Types'
  BY <1>1 DEF Types, Said, Names
<1>4. Listening'
  BY <1>1, <1>2 DEF Listening, Silent, Carried
<1>5. QED
  BY <1>1, <1>2, <1>3, <1>4 DEF IInv, Phases, Parts

(* The thread quits, and closes its socket; or the process ends.           *)
LEMMA LeaveKeeps == ASSUME IInv, Quit \/ Leave \/ Abort PROVE IInv'
<1> SUFFICES ASSUME state # "over" PROVE IInv'
  BY DEF Quit, Leave, Abort, IInv, masterVars, setup
<1>1. /\ pc \in {"dispatch", "calling", "leave"} /\ pc' \in {"leave", "gone"} /\ Types /\ Phases /\ ~left
      /\ state \in {"greeting", "idle", "sending", "waiting"}
      /\ UNCHANGED <<plugins, buffer, out, toNode, toMaster, left, state, got, request, sent, known>>
  BY DEF Quit, Leave, Abort, IInv, wireVars, masterVars, setup
<1>2. Types'
  BY <1>1 DEF Types, Said, Names
<1>3. /\ Listening
      /\ \/ state = "sending" /\ sent < Parts(request)
         \/ state = "waiting" /\ sent = Parts(request)
  BY <1>1 DEF Phases, Answering
<1>4. Listening'
  BY <1>1, <1>3 DEF Listening, Silent
<1>5. QED
  BY <1>1, <1>2, <1>3, <1>4 DEF IInv, Phases, Parts

-----------------------------------------------------------------------------
(* The master.                                                             *)
LEMMA MasterAsksKeeps == ASSUME IInv, MasterAsks PROVE IInv'
<1>1. /\ state = "idle" /\ state' = "sending" /\ request' \in Request /\ sent' = 0
      /\ Types /\ Phases /\ ~left /\ pc \in {"send", "recv"}
      /\ Silent /\ toNode = <<>> /\ (pc = "recv" => buffer = <<>>)
      /\ UNCHANGED <<pc, plugins, buffer, out, toNode, toMaster, left, got, known>>
  BY DEF MasterAsks, IInv, Phases, nodeVars, wireVars, setup
<1>2. Types'
  BY <1>1 DEF Types, Said, Names
<1>3. Listening'
  BY <1>1 DEF Listening, Silent, Carried
<1>4. Parts(request)' > 0
  BY BufferAssumption DEF Parts
<1>5. QED
  BY <1>1, <1>2, <1>3, <1>4 DEF IInv, Phases

(* The master sends a part of its request.                                 *)
LEMMA MasterSendsKeeps == ASSUME IInv, MasterSends PROVE IInv'
<1>1. /\ state = "sending" /\ sent' = sent + 1
      /\ toNode' = Append(toNode, Part(request, sent + 1))
      /\ state' = IF sent + 1 = Parts(request) THEN "waiting" ELSE "sending"
      /\ Types /\ Phases /\ ~left /\ Listening /\ sent < Parts(request) /\ pc \notin {"dispatch", "calling"}
      /\ UNCHANGED <<pc, plugins, buffer, out, toMaster, left, request, got, known>>
  BY DEF MasterSends, IInv, Phases, nodeVars, setup
<1>2. Part(request, sent + 1) \in Wire
  BY <1>1, PartIs DEF Types
<1>3. /\ toNode' \in Seq(Wire) /\ Len(toNode') = Len(toNode) + 1
      /\ \A i \in 1 .. Len(toNode) : toNode'[i] = toNode[i]
      /\ toNode'[Len(toNode) + 1] = Part(request, sent + 1)
  BY <1>1, <1>2, AppendProperties DEF Types
<1>4. Types'
  BY <1>1, <1>3 DEF Types, Said, Names
<1>5. ASSUME NEW b \in Seq(Wire), Carried(b)
      PROVE  /\ Len(b) + Len(toNode') = sent + 1
             /\ \A i \in 1 .. Len(b) : b[i] = Part(request, i)
             /\ \A i \in 1 .. Len(toNode') : toNode'[i] = Part(request, Len(b) + i)
  <2>1. Len(b) \in Nat /\ Len(toNode) \in Nat /\ Len(b) + Len(toNode) = sent /\ sent \in Nat
    BY <1>1, <1>5 DEF Carried, Types
  <2>2. \A i \in 1 .. Len(toNode') : toNode'[i] = Part(request, Len(b) + i)
    <3> SUFFICES ASSUME NEW i \in 1 .. Len(toNode') PROVE toNode'[i] = Part(request, Len(b) + i)
      OBVIOUS
    <3>1. CASE i <= Len(toNode)
      BY <1>3, <1>5, <2>1, <3>1 DEF Carried
    <3>2. CASE i = Len(toNode) + 1
      <4>1. Len(b) + i = sent + 1
        BY <2>1, <3>2
      <4>2. QED
        BY <1>3, <3>2, <4>1
    <3>3. QED
      BY <1>3, <2>1, <3>1, <3>2
  <2>3. Len(b) + Len(toNode') = sent + 1
    BY <1>3, <2>1
  <2>4. QED
    BY <1>5, <2>2, <2>3 DEF Carried
<1>6. Listening'
  <2>1. CASE pc = "send"
    <3>1. Carried(<<>>)
      BY <1>1, <2>1 DEF Listening
    <3>2. Carried(<<>>)'
      BY <1>1, <1>5, <3>1 DEF Carried, Part, Parts
    <3>3. QED
      BY <1>1, <2>1, <3>2 DEF Listening, Silent
  <2>2. CASE pc = "recv"
    <3>1. Carried(buffer) /\ buffer \in Seq(Wire)
      BY <1>1, <2>2 DEF Listening, Types
    <3>2. /\ Len(buffer) + Len(toNode') = sent + 1
          /\ \A i \in 1 .. Len(buffer) : buffer[i] = Part(request, i)
          /\ \A i \in 1 .. Len(toNode') : toNode'[i] = Part(request, Len(buffer) + i)
      BY <1>5, <3>1
    <3>3. Carried(buffer)'
      BY <1>1, <3>2 DEF Carried, Part, Parts
    <3>4. QED
      BY <1>1, <2>2, <3>3 DEF Listening, Silent
  <2>3. CASE pc \in {"leave", "gone"}
    BY <1>1, <2>3 DEF Listening, Silent
  <2>4. QED
    BY <1>1, <2>1, <2>2, <2>3 DEF Listening
<1>7. sent' = Parts(request)' \/ sent' < Parts(request)'
  BY <1>1, PartsIs DEF Types, Parts
<1>8. QED
  BY <1>1, <1>4, <1>6, <1>7 DEF IInv, Phases, Parts

(* The master reads a part of the answer.                                  *)
LEMMA MasterReadsKeeps == ASSUME IInv, MasterReads PROVE IInv'
<1> DEFINE piece == Head(toMaster)
<1>1. /\ state # "over" /\ toMaster # <<>> /\ toMaster' = Tail(toMaster)
      /\ Types /\ Phases /\ ~left /\ state \in {"greeting", "idle", "sending", "waiting"}
      /\ UNCHANGED <<pc, plugins, buffer, out, toNode, left, request, sent>>
  BY DEF MasterReads, IInv, nodeVars, setup
<1>2. PICK a : /\ Told(a) /\ IsAnswer(a)
               /\ \/ state = "greeting" /\ a \in Greetings
                  \/ state = "waiting" /\ a \in AnswersTo(request)
  <2>1. \/ state = "greeting" /\ Answering(Greetings)
        \/ state = "waiting" /\ Answering(AnswersTo(request))
    BY <1>1 DEF Phases, Listening, Silent
  <2>2. \A a \in Greetings : IsAnswer(a)
    BY AnswerTyped DEF Greetings, Kind
  <2>3. QED
    BY <2>1, <2>2, AnswersToTyped DEF Answering
<1>3. /\ Len(a) \in {1, 2} /\ ~a[1].end /\ (Len(a) = 2 => a[2].end)
      /\ \A i \in 1 .. Len(a) : a[i].names \subseteq Names
  <2>1. a \in Seq(Said) /\ \A i \in 1 .. Len(a) : a[i] \in Said
    BY <1>2 DEF IsAnswer
  <2>2. \A x \in Said : x.names \subseteq Names
    BY DEF Said
  <2>3. QED
    BY <1>2, <2>1, <2>2 DEF IsAnswer
<1>4. toNode = <<>> /\ pc \in {"send", "recv"} /\ (pc = "recv" => out = <<>> /\ buffer = <<>>)
  BY <1>1 DEF Phases, Listening, Silent, Answering
<1>5. /\ toMaster' \in Seq(Said) /\ Len(toMaster') = Len(toMaster) - 1 /\ piece \in Said
      /\ \A i \in 1 .. Len(toMaster') : toMaster'[i] = toMaster[i + 1]
      /\ piece = toMaster[1] /\ Len(toMaster) \in Nat /\ Len(toMaster) >= 1
      /\ Len(got) \in Nat /\ Len(out) \in Nat
  BY <1>1, HeadTailProperties DEF Types
<1>6. piece = a[Len(got) + 1] /\ Len(got) + Len(toMaster) + Len(out) = Len(a)
  <2>1. Len(got) + Len(toMaster) + Len(out) = Len(a)
    BY <1>2 DEF Told
  <2>2. 1 \in 1 .. Len(toMaster)
    BY <1>5
  <2>3. toMaster[1] = a[Len(got) + 1]
    BY <1>2, <2>2 DEF Told
  <2>4. QED
    BY <1>5, <2>1, <2>3
<1>7. CASE piece.end
  <2>1. Len(got) = 1 /\ Len(toMaster) = 1 /\ Len(out) = 0 /\ Len(a) = 2
    <3>1. Len(got) = 0 \/ (Len(got) = 1 /\ Len(toMaster) = 1 /\ Len(out) = 0 /\ Len(a) = 2)
      <4>1. Len(got) + Len(toMaster) + Len(out) \in {1, 2}
        BY <1>3, <1>6
      <4>2. Len(got) = 0 \/ (Len(got) = 1 /\ Len(toMaster) = 1 /\ Len(out) = 0
                            /\ Len(got) + Len(toMaster) + Len(out) = 2)
        BY <1>5, <4>1, TwoParts
      <4>3. QED
        BY <1>6, <4>2
    <3>2. Len(got) = 0 => piece = a[1]
      BY <1>6
    <3>3. Len(got) # 0
      BY <1>3, <1>7, <3>2
    <3>4. QED
      BY <3>1, <3>3
  <2>2. toMaster' = <<>> /\ out = <<>>
    BY <1>1, <1>5, <1>6, <2>1 DEF Types
  <2>3. /\ state' = "idle" /\ got' = <<>>
        /\ known' = known \cup (IF piece.kind = "names" THEN piece.names ELSE {})
    BY <1>7 DEF MasterReads
  <2>4. known' \subseteq Names
    BY <1>1, <1>3, <1>6, <2>1, <2>3 DEF Types
  <2>5. Types'
    BY <1>1, <1>5, <2>3, <2>4 DEF Types, Said, Names
  <2>6. QED
    BY <1>1, <1>4, <2>2, <2>3, <2>5 DEF IInv, Phases, Silent
<1>8. CASE ~piece.end
  <2>1. got' = Append(got, piece) /\ UNCHANGED <<state, known>>
    BY <1>8 DEF MasterReads
  <2>2. /\ got' \in Seq(Said) /\ Len(got') = Len(got) + 1
        /\ \A i \in 1 .. Len(got) : got'[i] = got[i]
        /\ got'[Len(got) + 1] = piece
    BY <1>1, <1>5, <2>1, AppendProperties DEF Types
  <2>3. Types'
    BY <1>1, <1>5, <2>1, <2>2 DEF Types, Said, Names
  <2>4. Told(a)'
    <3>1. Len(got') + Len(toMaster') + Len(out) = Len(a)
      <4>1. Len(got') + Len(toMaster') + Len(out) = Len(got) + Len(toMaster) + Len(out)
        BY <1>5, <2>2
      <4>2. QED
        BY <1>6, <4>1
    <3>2. \A i \in 1 .. Len(got') : got'[i] = a[i]
      <4>1. \A i \in 1 .. Len(got) : got[i] = a[i]
        BY <1>2 DEF Told
      <4>2. QED
        BY <1>5, <1>6, <2>2, <4>1
    <3>3. ASSUME NEW i \in 1 .. Len(toMaster') PROVE toMaster'[i] = a[Len(got') + i]
      <4>1. i + 1 \in 1 .. Len(toMaster) /\ Len(got) + (i + 1) = Len(got') + i
        BY <1>5, <2>2, <3>3
      <4>2. toMaster[i + 1] = a[Len(got) + (i + 1)]
        BY <1>2, <4>1 DEF Told
      <4>3. QED
        BY <1>5, <3>3, <4>1, <4>2
    <3>4. ASSUME NEW i \in 1 .. Len(out) PROVE out[i] = a[Len(got') + Len(toMaster') + i]
      <4>1. Len(got) + Len(toMaster) + i = Len(got') + Len(toMaster') + i
        BY <1>5, <2>2, <3>4
      <4>2. QED
        BY <1>2, <3>4, <4>1 DEF Told
    <3>5. QED
      BY <1>1, <3>1, <3>2, <3>3, <3>4 DEF Told
  <2>5. CASE state = "greeting"
    BY <1>1, <1>2, <1>4, <2>1, <2>3, <2>4, <2>5 DEF IInv, Phases, Answering, Greetings
  <2>6. CASE state = "waiting"
    <3>1. Answering(AnswersTo(request))'
      BY <1>1, <1>2, <1>4, <2>4, <2>6, SameAnswers DEF Answering
    <3>2. QED
      BY <1>1, <2>1, <2>3, <2>6, <3>1 DEF IInv, Phases
  <2>7. QED
    BY <1>2, <2>5, <2>6
<1>9. QED
  BY <1>7, <1>8

-----------------------------------------------------------------------------
(* The inductive invariant: as long as the master is there, what it has    *)
(* asked and what it was answered, wherever their parts are.               *)
THEOREM SessionInvariance == Spec => []IInv
<1>1. IInv /\ [Next]_vars => IInv'
  <2> SUFFICES ASSUME IInv, [Next]_vars PROVE IInv'
    OBVIOUS
  <2>1. CASE Node
    BY <2>1, GreetKeeps, SendKeeps, SentKeeps, ReceiveKeeps, ReceiveEndsKeep, DispatchKeeps, CallKeeps,
       LeaveKeeps
    DEF Node
  <2>2. CASE Run
    BY <2>2, DispatchKeeps, LeaveKeeps DEF Run
  <2>3. CASE MasterAsks \/ MasterSends \/ MasterReads
    BY <2>3, MasterAsksKeeps, MasterSendsKeeps, MasterReadsKeeps
  <2>4. CASE MasterSeesEnd \/ MasterLeaves
    <3>1. state' = "over" /\ left' = TRUE
      BY <2>4 DEF MasterSeesEnd, MasterLeaves
    <3>2. QED
      BY <3>1 DEF IInv
  <2>5. CASE UNCHANGED vars
    <3>1. /\ UNCHANGED <<pc, plugins, buffer, out, toNode, toMaster>>
          /\ UNCHANGED <<left, state, request, sent, got, known>>
      BY <2>5 DEF vars, nodeVars, wireVars, masterVars, setup
    <3>2. Types => Types'
      BY <3>1 DEF Types, Said, Names
    <3>3. /\ Silent => Silent'
          /\ Carried(<<>>) => Carried(<<>>)'
          /\ Carried(buffer) => Carried(buffer)'
      BY <3>1 DEF Silent, Carried, Part, Parts
    <3>4. \A a : Told(a) => Told(a)'
      BY <3>1 DEF Told
    <3>5. /\ Answering(Greetings) => Answering(Greetings)'
          /\ Answering(AnswersTo(request)) => Answering(AnswersTo(request))'
      BY <3>1, <3>4, SameAnswers DEF Answering, Greetings
    <3>6. Listening => Listening'
      BY <3>1, <3>3 DEF Listening
    <3>7. Phases => Phases'
      BY <3>1, <3>3, <3>5, <3>6 DEF Phases, Parts
    <3>8. QED
      BY <3>1, <3>2, <3>7 DEF IInv
  <2>6. QED
    BY <2>1, <2>2, <2>3, <2>4, <2>5 DEF Next, Master
<1>2. QED
  BY InitIInv, <1>1, PTL DEF Spec

(* What has been read, is on its way and has not been sent yet, put        *)
(* together, is the answer.                                                *)
LEMMA ToldIsPrefix ==
  ASSUME Types, NEW a \in Seq(Said), Told(a)
  PROVE  IsPrefix(got \o toMaster \o out, a)
<1> DEFINE all == got \o toMaster \o out
<1>2. /\ got \in Seq(Said) /\ toMaster \in Seq(Said) /\ out \in Seq(Said)
      /\ Len(got) \in Nat /\ Len(toMaster) \in Nat /\ Len(out) \in Nat
  BY DEF Types
<1>3. /\ got \o toMaster \in Seq(Said) /\ Len(got \o toMaster) = Len(got) + Len(toMaster)
      /\ \A i \in 1 .. Len(got) + Len(toMaster) :
           (got \o toMaster)[i] = IF i <= Len(got) THEN got[i] ELSE toMaster[i - Len(got)]
  BY <1>2, ConcatProperties
<1>4. /\ all \in Seq(Said) /\ Len(all) = Len(got \o toMaster) + Len(out)
      /\ \A i \in 1 .. Len(got \o toMaster) + Len(out) :
           all[i] = IF i <= Len(got \o toMaster) THEN (got \o toMaster)[i]
                    ELSE out[i - Len(got \o toMaster)]
  BY <1>2, <1>3, ConcatProperties
<1>5. Len(all) = Len(a)
  BY <1>2, <1>3, <1>4 DEF Told
<1>6. ASSUME NEW i \in 1 .. Len(all) PROVE all[i] = a[i]
  <2>1. i \in Nat /\ 1 <= i /\ i <= Len(got) + Len(toMaster) + Len(out)
    BY <1>2, <1>3, <1>4, <1>6
  <2>2. CASE i <= Len(got)
    BY <1>2, <1>3, <1>4, <2>1, <2>2 DEF Told
  <2>3. CASE Len(got) < i /\ i <= Len(got) + Len(toMaster)
    <3>1. i - Len(got) \in 1 .. Len(toMaster) /\ Len(got) + (i - Len(got)) = i
      BY <1>2, <2>1, <2>3
    <3>2. all[i] = toMaster[i - Len(got)]
      BY <1>2, <1>3, <1>4, <2>1, <2>3
    <3>3. toMaster[i - Len(got)] = a[Len(got) + (i - Len(got))]
      BY <3>1 DEF Told
    <3>4. QED
      BY <3>1, <3>2, <3>3
  <2>4. CASE Len(got) + Len(toMaster) < i
    <3> DEFINE j == i - (Len(got) + Len(toMaster))
    <3>1. j \in 1 .. Len(out) /\ Len(got) + Len(toMaster) + j = i
      BY <1>2, <2>1, <2>4
    <3>2. all[i] = out[j]
      BY <1>2, <1>3, <1>4, <2>1, <2>4
    <3>3. out[j] = a[Len(got) + Len(toMaster) + j]
      BY <3>1 DEF Told
    <3>4. QED
      BY <3>1, <3>2, <3>3
  <2>5. QED
    BY <1>2, <2>1, <2>2, <2>3, <2>4
<1>7. all = a
  BY <1>4, <1>5, <1>6, SeqEqual
<1>8. QED
  BY <1>7 DEF IsPrefix

(* What the master reads after a request is an answer to that request, and *)
(* nothing of it is left over for the next one, for any plugins, any       *)
(* buffer and however sends and receives cut the lines up.                 *)
THEOREM AnswersInStepHolds == Spec => []AnswersInStep
<1>1. IInv => AnswersInStep
  <2> SUFFICES ASSUME IInv PROVE AnswersInStep
    OBVIOUS
  <2>1. CASE state = "idle"
    BY <2>1 DEF IInv, Phases, Silent, AnswersInStep
  <2>2. CASE state = "waiting"
    <3>1. Types /\ Phases
      BY <2>2 DEF IInv
    <3>2. CASE Answering(AnswersTo(request))
      <4>1. PICK a \in AnswersTo(request) : Told(a)
        BY <3>2 DEF Answering
      <4>2. IsPrefix(got \o toMaster \o out, a)
        BY <3>1, <4>1, AnswersToTyped, ToldIsPrefix DEF IsAnswer
      <4>3. QED
        BY <2>2, <4>1, <4>2 DEF AnswersInStep
    <3>3. CASE Silent
      <4>1. got \o toMaster \o out = <<>>
        BY <3>3 DEF Silent
      <4>2. PICK a : a \in AnswersTo(request)
        BY DEF AnswersTo
      <4>3. IsPrefix(<<>>, a)
        BY <4>2, AnswersToTyped DEF IsPrefix, IsAnswer
      <4>4. QED
        BY <2>2, <4>1, <4>2, <4>3 DEF AnswersInStep
    <3>4. QED
      BY <2>2, <3>1, <3>2, <3>3 DEF Phases, Listening
  <2>3. QED
    BY <2>1, <2>2 DEF AnswersInStep
<1>2. QED
  BY SessionInvariance, <1>1, PTL

(* A plugin that was listed is known when it is asked for: nothing the     *)
(* master then reads says that there is no such service.                   *)
THEOREM ListedIsKnownHolds == Spec => []ListedIsKnown
<1>1. IInv => ListedIsKnown
  <2> SUFFICES ASSUME IInv, state = "waiting", request.command \in {"config", "fetch"},
                      request.name \in known, NEW piece \in Range(got \o toMaster)
               PROVE  piece.kind # "noservice"
    BY DEF ListedIsKnown
  <2>1. Types /\ Phases
    BY DEF IInv
  <2>2. /\ got \in Seq(Said) /\ toMaster \in Seq(Said)
        /\ Len(got) \in Nat /\ Len(toMaster) \in Nat /\ Len(out) \in Nat
    BY <2>1 DEF Types
  <2>3. PICK i \in 1 .. Len(got) + Len(toMaster) : piece = (got \o toMaster)[i]
    BY <2>2, ConcatProperties DEF Range
  <2>4. piece = IF i <= Len(got) THEN got[i] ELSE toMaster[i - Len(got)]
    BY <2>2, <2>3, ConcatProperties
  <2>5. Answering(AnswersTo(request))
    BY <2>1, <2>2, <2>3 DEF Phases, Listening, Silent
  <2>6. PICK a \in AnswersTo(request) : Told(a)
    BY <2>5 DEF Answering
  <2>7. /\ a \in {Answer("plugin", {request.name}), Answer("error", {}), CutShort(request)}
        /\ request.name \in Names
    BY <2>1, <2>6 DEF AnswersTo, LookupPlugin, Types
  <2>8. Len(a) \in {1, 2} /\ \A j \in 1 .. Len(a) : a[j].kind # "noservice"
    BY <2>7, AnswerTyped, CutShortTyped DEF Kind
  <2>9. piece = a[i] /\ i \in 1 .. Len(a)
    <3>1. i \in 1 .. Len(a)
      <4>1. Len(got) + Len(toMaster) + Len(out) = Len(a)
        BY <2>6 DEF Told
      <4>2. QED
        BY <2>2, <2>3, <2>8, <4>1
    <3>2. CASE i <= Len(got)
      <4>1. i \in 1 .. Len(got)
        BY <2>2, <2>3, <3>2
      <4>2. got[i] = a[i]
        BY <2>6, <4>1 DEF Told
      <4>3. QED
        BY <2>4, <3>1, <3>2, <4>2
    <3>3. CASE i > Len(got)
      <4>1. i - Len(got) \in 1 .. Len(toMaster) /\ Len(got) + (i - Len(got)) = i
        BY <2>2, <2>3, <3>3
      <4>2. toMaster[i - Len(got)] = a[Len(got) + (i - Len(got))]
        BY <2>6, <4>1 DEF Told
      <4>3. QED
        BY <2>2, <2>3, <2>4, <3>1, <3>3, <4>1, <4>2
    <3>4. QED
      BY <2>2, <2>3, <3>1, <3>2, <3>3
  <2>10. QED
    BY <2>8, <2>9
<1>2. QED
  BY SessionInvariance, <1>1, PTL
=============================================================================
