----------------------------- MODULE XapMessage -----------------------------
(***************************************************************************)
(* How the SpeedFan listener takes a broadcast apart (ProcessBuffer), and  *)
(* what a well-formed xAP message is: a header block and data blocks, each *)
(* a name, "{", lines key=value, and "}".                                  *)
(*                                                                         *)
(* A line is a key and a value; the value of a line without "=" is NoText. *)
(***************************************************************************)
EXTENDS Naturals, Sequences, SequencesExt

CONSTANTS
  Names,    \* the names of data blocks
  Texts,    \* what values may be
  NoText,   \* no value
  Uid,      \* the UID the configuration asks for
  Status    \* "PC.status", the class of the messages it is about

Header    == "xAP-header"
CutHeader == "xAP-heade"   \* its first four characters are all that is looked at
Cut       == "cut"         \* another key or a value that has lost its last character

ASSUME TextsAssumption ==
  /\ Uid \in Texts /\ Status \in Texts /\ NoText \notin Texts
  /\ {"{", "}", "xAP-header", "xAP-heade"} \cap Names = {}

HeaderKeys == {"uid", "class"}   \* of v, hop, uid, class and source
DataKeys   == {"curr"}   \* of curr, want, warn and id

Line  == [key : Names \cup {Header, CutHeader, "{", "}", Cut} \cup HeaderKeys \cup DataKeys,
          value : Texts \cup {NoText, Cut}]
Block == [header : BOOLEAN, name : Line,
          data : [HeaderKeys \cup DataKeys -> Texts \cup {NoText, Cut}]]

-----------------------------------------------------------------------------
Name(key)        == [key |-> key, value |-> NoText]
Pair(key, value) == [key |-> key, value |-> value]

NoData == [k \in HeaderKeys \cup DataKeys |-> NoText]

IsHeader(line) == line.key \in {Header, CutHeader}

NewBlock(line) == [header |-> IsHeader(line), name |-> line, data |-> NoData]

(* ReadData and ProcessPair: a header and a data block know other keys.    *)
ReadData(block, line) ==
  IF line.value # NoText /\ line.key \in (IF block.header THEN HeaderKeys ELSE DataKeys)
  THEN [block EXCEPT !.data[line.key] = line.value]
  ELSE block

(* s.current is currentBlock, as a sequence of none or one.                *)
(* The asserts are not compiled in: a second header takes the place of the *)
(* block before it, a pair before any block is dropped.                    *)
ParseLine(s, line) ==
  IF line.key = "{" THEN [s EXCEPT !.inBlock = TRUE]
  ELSE IF line.key = "}" THEN [s EXCEPT !.inBlock = FALSE]
  ELSE IF s.inBlock THEN [s EXCEPT !.current = [i \in DOMAIN @ |-> ReadData(@[i], line)]]
  ELSE [s EXCEPT !.current = <<NewBlock(line)>>,
                 !.blocks  = IF IsHeader(line) THEN @ ELSE @ \o s.current]

(* A last line without a newline loses its last character, unless it is a  *)
(* brace, which is looked at first.                                        *)
Chop(line) ==
  IF line.key \in {"{", "}"} THEN line
  ELSE IF line.value # NoText THEN Pair(line.key, Cut)
  ELSE Name(IF line.key = Header THEN CutHeader ELSE Cut)

Received(packet) ==
  IF packet.ended \/ packet.lines = <<>> THEN packet.lines
  ELSE Front(packet.lines) \o <<Chop(Last(packet.lines))>>

Parse(packet) ==
  LET s == FoldLeft(ParseLine, [inBlock |-> FALSE, current |-> <<>>, blocks |-> <<>>],
                    Received(packet))
  IN  s.blocks \o s.current

WantedByUid(blocks) ==   \* mutant: the class is not looked at
  blocks # <<>> /\ blocks[1].header /\ blocks[1].data["uid"] = Uid

(* "a data packet we are interested in"                                    *)
IsWanted(blocks) ==
  /\ blocks # <<>> /\ blocks[1].header
  /\ blocks[1].data["uid"] = Uid /\ blocks[1].data["class"] = Status

-----------------------------------------------------------------------------
(* Well-formed messages, their lines and their blocks.                     *)
Reading == [name : Names, curr : Texts]
Message == [uid : Texts, class : Texts, readings : Seq(Reading)]

(* A packet: its lines, whether a newline ends the last one, and the       *)
(* message it is, if it is one.                                            *)
Packet == [lines : Seq(Line), ended : BOOLEAN, message : Seq(Message)]

(* What a packet says, message or not: which of its lines name a block,    *)
(* and of a block named by the i-th line, its data.                        *)
Inside(lines, n) ==
  \E open \in DOMAIN lines :
    /\ open < n /\ lines[open].key = "{"
    /\ \A close \in DOMAIN lines :
         open < close /\ close < n => lines[close].key # "}"

NamesBlock(lines, n) == lines[n].key \notin {"{", "}"} /\ ~Inside(lines, n)

SaysBlock(lines, i, block) ==
  /\ NamesBlock(lines, i) /\ block.name = lines[i] /\ block.header = IsHeader(lines[i])
  /\ \A k \in HeaderKeys \cup DataKeys :
       block.data[k] # NoText =>
         \E j \in DOMAIN lines :
           /\ i < j /\ lines[j] = Pair(k, block.data[k])
           /\ \A n \in DOMAIN lines : i < n /\ n <= j => ~NamesBlock(lines, n)

Says(packet, block) ==
  LET lines == Received(packet)
  IN  \E i \in DOMAIN lines : SaysBlock(lines, i, block)

BlockLines(name, pairs) == <<Name(name), Name("{")>> \o pairs \o <<Name("}")>>

Lines(m) ==
  BlockLines(Header, <<Pair("uid", m.uid), Pair("class", m.class)>>) \o
  FlattenSeq([i \in DOMAIN m.readings |->
    BlockLines(m.readings[i].name, <<Pair("curr", m.readings[i].curr)>>)])

Blocks(m) ==
  <<[header |-> TRUE, name |-> Name(Header),
     data |-> [NoData EXCEPT !["uid"] = m.uid, !["class"] = m.class]]>> \o
  [i \in DOMAIN m.readings |->
    [header |-> FALSE, name |-> Name(m.readings[i].name),
     data |-> [NoData EXCEPT !["curr"] = m.readings[i].curr]]]
=============================================================================
