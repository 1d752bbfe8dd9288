------------------------------- MODULE Framing -------------------------------
(***************************************************************************)
(* read_raw_frame and read_exact: whole frames out of a byte stream that   *)
(* arrives in pieces of any size.  Bytes are counted, not represented; the *)
(* one thing read from them is a frame's 16-bit length prefix, whose top   *)
(* bit marks an encrypted frame and is not part of the length.             *)
(***************************************************************************)
EXTENDS Naturals, Sequences

CONSTANTS
  PrefixLen,  \* bytes of the length prefix (2)
  HeadLen,    \* RESPONSE_HEAD_LEN (20)
  MaxPacket,  \* MAX_PACKET_SIZE (7168)
  Flag,       \* the top bit of the prefix (0x8000)
  Totals,     \* the frame lengths the server may use
  MaxFrames   \* bound: frames the server sends

ASSUME LengthsAssumption ==
  /\ {PrefixLen, HeadLen, MaxPacket, Flag, MaxFrames} \subseteq Nat
  /\ 0 < PrefixLen /\ PrefixLen < HeadLen /\ HeadLen <= MaxPacket /\ MaxPacket < Flag
  /\ Totals \subseteq {n \in Nat : PrefixLen <= n /\ n < Flag}

VARIABLES
  sent,       \* the frames the server wrote
  arrived,    \* bytes that reached the socket
  read,       \* bytes recv has returned
  line,       \* "prefix" or "body": the read_exact under way; "refused", "eof"
  remaining,  \* what that read_exact still wants
  total,      \* the length of the frame being read
  frames,     \* the lengths of the frames read_raw_frame returned
  up          \* the server still writes

SentFrames == [start : Nat, total : Totals, encrypted : BOOLEAN]
LegalTotals == HeadLen..MaxPacket

readVars == <<read, line, remaining, total, frames>>
netVars == <<sent, arrived, up>>
vars == <<readVars, netVars>>

Init ==
  /\ sent = <<>> /\ arrived = 0 /\ up = TRUE
  /\ read = 0 /\ line = "prefix" /\ remaining = PrefixLen /\ total = 0
  /\ frames = <<>>

\* The byte of the stream where the first i frames end.
End(i) == IF i = 0 THEN 0 ELSE sent[i].start + sent[i].total

\* Mutant: the flag bit is taken for a part of the length.
WholePrefix(prefix) == prefix

\* The 16 bits on the wire, and the length read from them (& 0x7FFF).
Prefix(f) == IF f.encrypted THEN f.total + Flag ELSE f.total
LengthIn(prefix) == IF prefix < Flag THEN prefix ELSE prefix - Flag

\* What a prefix that ends at a byte of the stream may say: anything, unless it
\* is where a frame starts.
StartingAt(byte) == {i \in DOMAIN sent : sent[i].start + PrefixLen = byte}
PrefixesAt(byte) ==
  IF StartingAt(byte) = {} THEN 0..2 * Flag - 1
  ELSE {Prefix(sent[i]) : i \in StartingAt(byte)}

-----------------------------------------------------------------------------
\* recv returns some of what has arrived, never more than it was asked for.
Recv(n) ==
  /\ n <= remaining /\ n <= arrived - read
  /\ read' = read + n
  /\ UNCHANGED netVars

\* read_exact asks again for the rest.
ReadMore ==
  /\ line \in {"prefix", "body"}
  /\ \E n \in 1..remaining - 1 : Recv(n) /\ remaining' = remaining - n
  /\ UNCHANGED <<line, total, frames>>

\* Mutant: a frame longer than MAX_PACKET_SIZE is read as well.
ReadLongPrefix ==
  /\ line = "prefix" /\ Recv(remaining)
  /\ \E prefix \in PrefixesAt(read') : LET length == LengthIn(prefix) IN
       IF length < HeadLen
       THEN line' = "refused" /\ UNCHANGED <<remaining, total>>
       ELSE line' = "body" /\ remaining' = length - PrefixLen /\ total' = length
  /\ UNCHANGED frames

\* The prefix is complete: refuse the frame, or read on to its end.
ReadPrefix ==
  /\ line = "prefix" /\ Recv(remaining)
  /\ \E prefix \in PrefixesAt(read') : LET length == LengthIn(prefix) IN
       IF length < HeadLen \/ length > MaxPacket
       THEN line' = "refused" /\ UNCHANGED <<remaining, total>>
       ELSE line' = "body" /\ remaining' = length - PrefixLen /\ total' = length
  /\ UNCHANGED frames

\* Mutant: one recv is taken for the rest of the frame.
ReadBodyOnce ==
  /\ line = "body"
  /\ \E n \in 1..remaining :
       Recv(n) /\ frames' = Append(frames, total - remaining + n)
  /\ line' = "prefix" /\ remaining' = PrefixLen
  /\ UNCHANGED total

\* The frame is complete and is returned; the next call starts over.
ReadBody ==
  /\ line = "body" /\ Recv(remaining)
  /\ frames' = Append(frames, total)
  /\ line' = "prefix" /\ remaining' = PrefixLen
  /\ UNCHANGED total

\* recv returns nothing at the end of the stream.
ReadEof ==
  /\ line \in {"prefix", "body"} /\ ~up /\ read = arrived
  /\ line' = "eof"
  /\ UNCHANGED <<read, remaining, total, frames, netVars>>

-----------------------------------------------------------------------------
(* The server and the network.                                             *)

Send ==
  /\ up /\ Len(sent) < MaxFrames
  /\ \E n \in Totals, e \in BOOLEAN :
       sent' = Append(sent, [start |-> End(Len(sent)), total |-> n, encrypted |-> e])
  /\ UNCHANGED <<readVars, arrived, up>>

Arrive ==
  /\ up
  /\ \E n \in arrived + 1..End(Len(sent)) : arrived' = n
  /\ UNCHANGED <<readVars, sent, up>>

\* The connection ends; what has not arrived never does.
Shut == up /\ up' = FALSE /\ UNCHANGED <<readVars, sent, arrived>>

Read == ReadMore \/ ReadPrefix \/ ReadBody \/ ReadEof
Next == Read \/ Send \/ Arrive \/ Shut
Spec == Init /\ [][Next]_vars
LiveSpec == Spec /\ WF_vars(Read) /\ WF_vars(Arrive)

-----------------------------------------------------------------------------
(* What must hold.                                                         *)

\* Every variable holds a value of its kind.
TypeOK ==
  /\ sent \in Seq(SentFrames) /\ up \in BOOLEAN
  /\ arrived \in Nat /\ read \in 0..arrived
  /\ line \in {"prefix", "body", "refused", "eof"}
  /\ remaining \in Nat \ {0} /\ total \in Nat
  /\ frames \in Seq(LegalTotals)

\* The frames returned are the first frames sent, whole and in order, however
\* the bytes were cut up on the way (read_exact, packet.py:171), and the reader
\* is in step with the stream: it has read those and its part of the next one.
FramesInOrder ==
  LET whole == End(Len(frames))
      next == Len(frames) + 1
  IN  /\ Len(frames) <= Len(sent)
      /\ \A i \in 1..Len(frames) : frames[i] = sent[i].total
      /\ line = "prefix" => read = whole + PrefixLen - remaining
      /\ line = "body" => read = whole + sent[next].total - remaining
      /\ line = "refused" => sent[next].total \notin LegalTotals

\* A frame of a legal length that arrives is returned, if those before it are
\* legal too (one frame at the head of the stream stands for each).
FirstFrameReturned ==
  sent # <<>> /\ sent[1].total \in LegalTotals /\ arrived >= sent[1].total
    ~> frames # <<>>
=============================================================================
