----------------------------- MODULE MCSpeedFan -----------------------------
(* Messages and packets for TLC to check SpeedFan with.                    *)
EXTENDS SpeedFan

CONSTANTS temp, fan, ours, status, other

MCMessages ==
  [uid : {ours}, class : {status},
   readings : {<<>>} \cup [1 .. 1 -> [name : {temp, fan}, curr : {ours}]]
              \cup [1 .. 2 -> [name : {temp}, curr : {ours, other}]]]
  \cup [uid : {ours, other}, class : {status, other}, readings : {<<>>}]

(* A reading before the header, a second header that lacks its last        *)
(* character, a message cut in the middle, one of another device.          *)
MCMalformed ==
  LET From(uid) == BlockLines(Header, <<Pair("uid", uid), Pair("class", status)>>)
      header    == From(ours)
      reading   == BlockLines(temp, <<Pair("curr", ours)>>)
      NoMessage(lines, ended) == [lines |-> lines, ended |-> ended, message |-> <<>>]
  IN  {NoMessage(reading \o header, TRUE),
       NoMessage(header \o reading \o <<Name(Header)>>, FALSE),
       NoMessage(header \o SubSeq(reading, 1, 3), FALSE),
       NoMessage(From(other) \o SubSeq(reading, 1, 1), TRUE)}
=============================================================================
