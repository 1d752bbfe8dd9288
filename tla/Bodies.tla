------------------------------- MODULE Bodies -------------------------------
(***************************************************************************)
(* How the body of a response becomes the response: Reader, a cursor that  *)
(* keeps its first underflow and reads on, and what the two codecs' decode *)
(* reads with it for each command.  The body is what the server wrote, or  *)
(* less: another server version, or a frame whose length is wrong.         *)
(*                                                                         *)
(* Values are the bytes they are read from; only the code, a signed 16-bit *)
(* number, and the length of a string are interpreted.                     *)
(***************************************************************************)
EXTENDS Integers, Sequences

CONSTANTS
  Codes,      \* the codes a response may carry
  Texts,      \* the strings in it, as sequences of bytes
  Malformed,  \* those of them that are not UTF-8
  Juid        \* the eight bytes of a juid or message id

Byte == 0..255
Int16 == -32768..32767 \* what "!h" packs
ASSUME CodesAssumption == Codes \subseteq Int16
ASSUME TextsAssumption ==
  /\ \A t \in Texts : t \in Seq(Byte) /\ Len(t) <= 65535
  /\ Malformed \subseteq Texts /\ <<>> \notin Malformed
ASSUME JuidAssumption == Juid \in Seq(Byte) /\ Len(Juid) = 8

VARIABLES
  codec,    \* "jhead" or "jcore"
  command,  \* which response this is
  fields,   \* the fields the server wrote, each a sequence of bytes
  starts,   \* how many bytes of the body are in front of each
  body,     \* the body it wrote
  buf,      \* what of it is in the frame
  pos,      \* bytes read
  error,    \* Reader.error is set
  done,     \* the reads decode has done or passed over
  values,   \* what they returned
  outcome   \* "writing" at the server; "reading", "returned" or "raised" here

server == <<fields, starts, body>>
reader == <<buf, pos, error, done, values>>
vars == <<codec, command, server, reader, outcome>>

-----------------------------------------------------------------------------
(* The server's side: struct.pack and the TLV of tlv2.                     *)

Pack2(n) == LET u == n % 65536 IN <<u \div 256, u % 256>>
Unpack2(b) == LET u == 256 * b[1] + b[2] IN IF u < 32768 THEN u ELSE u - 65536
Length(b) == 256 * b[1] + b[2]
Tlv(text) == Pack2(Len(text)) \o text
Int4 == <<0, 0, 0, 3>>

\* What decode reads: a number of so many bytes, a string, or a string if there
\* is room for its length.
Number(n) == [kind |-> "int", width |-> n]
Text == [kind |-> "text", width |-> 2]
Optional == [kind |-> "optional", width |-> 2]

\* The reads that follow the code.
AfterCode(c, cmd, code) ==
  LET text == IF code > 0 THEN <<Optional>> ELSE <<>> IN
  CASE cmd = "register" /\ code = 0 ->
         <<Number(8), Text, Text, IF c = "jhead" THEN Text ELSE Optional>>
    [] cmd = "register" /\ code = 1007 /\ c = "jhead" -> <<Optional, Optional>>
    [] cmd = "login" /\ code = 0 -> <<Number(4), Number(2), Text, Number(4)>>
    [] cmd = "alias" /\ c = "jcore" -> <<>>
    [] OTHER -> text

\* The reads of a response, as far as the values it has got so far tell: those of
\* one that starts with a code go on according to the code.
HasCode(cmd) == cmd \in {"register", "login", "alias"}
Plan(c, cmd, got) ==
  CASE HasCode(cmd) /\ got = <<>> -> <<Number(2)>>
    [] HasCode(cmd) /\ got # <<>> -> <<Number(2)>> \o AfterCode(c, cmd, Unpack2(got[1]))
    [] cmd = "push" -> <<Number(1), Number(8), Text>>
    [] cmd = "ack" -> <<Number(1), Number(1), Number(1), Number(8)>>
    [] cmd = "alias2" -> <<Text>>

\* The layout the server follows, and the one decode follows.
Layout == Plan(codec, command, fields)
Reads == Plan(codec, command, values)

Commands(c) == {"register", "login", "push", "ack", "alias"}
                 \union (IF c = "jcore" THEN {"alias2"} ELSE {})

\* The bytes a server may write for each read.
Written(read) ==
  IF read.kind = "int"
  THEN {CASE read.width = 8 -> Juid [] read.width = 4 -> Int4
          [] read.width = 2 -> <<0, 3>> [] read.width = 1 -> <<1>>}
  ELSE {Tlv(t) : t \in Texts}

Init ==
  /\ codec \in {"jhead", "jcore"} /\ command \in Commands(codec)
  /\ fields = <<>> /\ starts = <<>> /\ body = <<>>
  /\ buf = <<>> /\ pos = 0 /\ error = FALSE /\ done = 0 /\ values = <<>>
  /\ outcome = "writing"

\* The server writes the next field, a code first where there is one.
WriteField ==
  /\ outcome = "writing" /\ Len(fields) < Len(Layout)
  /\ \E b \in IF HasCode(command) /\ fields = <<>> THEN {Pack2(code) : code \in Codes}
             ELSE Written(Layout[Len(fields) + 1]) :
       /\ fields' = Append(fields, b) /\ starts' = Append(starts, Len(body))
       /\ body' = body \o b
  /\ UNCHANGED <<codec, command, reader, outcome>>

\* It may leave optional fields off the end, and any part of the body may be in
\* the frame.
Deliver ==
  /\ outcome = "writing"
  /\ \A i \in Len(fields) + 1 .. Len(Layout) : Layout[i] = Optional
  /\ \E size \in 0..Len(body) : buf' = SubSeq(body, 1, size)
  /\ outcome' = "reading"
  /\ UNCHANGED <<codec, command, server, pos, error, done, values>>

-----------------------------------------------------------------------------
(* Reader.                                                                 *)

Remaining == Len(buf) - pos
At(n) == SubSeq(buf, pos + 1, pos + n)

\* Mutant: the last of several errors is kept, so a good read clears it.
StepAfresh(value, n, good) ==
  /\ values' = Append(values, value)
  /\ pos' = pos + n
  /\ error' = ~good

\* A read returns a value and moves the cursor; _fail keeps the first error, and
\* a read that fails returns 0 or "" all the same.
Step(value, n, good) ==
  /\ values' = Append(values, value)
  /\ pos' = pos + n
  /\ error' = (error \/ ~good)

Zero(n) == [i \in 1..n |-> 0]

\* Mutant: the cursor passes over a number that is not there.
ReadIntPast(n) ==
  IF Remaining < n THEN Step(Zero(n), n, FALSE) ELSE Step(At(n), n, TRUE)

\* int1, int2, int4, long8.
ReadInt(n) ==
  IF Remaining < n THEN Step(Zero(n), 0, FALSE) ELSE Step(At(n), n, TRUE)

\* Mutant: a slice of the body is taken for the string however short it is.
ReadTextLoose ==
  IF Remaining < 2
  THEN Step(Tlv(<<>>), 0, FALSE)
  ELSE LET size == 2 + Length(At(2))
           there == IF size < Remaining THEN size ELSE Remaining
       IN  Step(At(there), there, TRUE)

\* tlv2: the length is consumed even when the string is not there; one that is
\* not UTF-8 is read, with an error.
ReadText ==
  IF Remaining < 2
  THEN Step(Tlv(<<>>), 0, FALSE)
  ELSE LET size == 2 + Length(At(2)) IN
       IF Remaining < size
       THEN Step(Tlv(<<>>), 2, FALSE)
       ELSE Step(At(size), size, SubSeq(At(size), 3, size) \notin Malformed)

-----------------------------------------------------------------------------
(* decode.                                                                 *)

\* Mutant: an optional string is read as if it were always there.
SkipNever == FALSE

\* The test of remaining() before an optional string.
Skips == Reads[done + 1].kind = "optional" /\ Remaining < 2

\* The next read; what the first one returns decides which ones follow.
Read ==
  /\ outcome = "reading" /\ done < Len(Reads) /\ ~Skips
  /\ LET next == Reads[done + 1]
     IN  IF next.kind = "int" THEN ReadInt(next.width) ELSE ReadText
  /\ done' = done + 1
  /\ UNCHANGED <<codec, command, server, buf, outcome>>

Skip ==
  /\ outcome = "reading" /\ done < Len(Reads) /\ Skips
  /\ done' = done + 1
  /\ UNCHANGED <<codec, command, server, buf, pos, error, values, outcome>>

\* _raise_reader_error, after the last read.
Finish ==
  /\ outcome = "reading" /\ done = Len(Reads)
  /\ outcome' = IF error THEN "raised" ELSE "returned"
  /\ UNCHANGED <<codec, command, server, reader>>

Next == WriteField \/ Deliver \/ Read \/ Skip \/ Finish
Spec == Init /\ [][Next]_vars

-----------------------------------------------------------------------------
(* What must hold.                                                         *)

\* Every variable holds a value of its kind, and the cursor stays in the body.
TypeOK ==
  /\ codec \in {"jhead", "jcore"} /\ command \in Commands(codec)
  /\ fields \in Seq(Seq(Byte)) /\ starts \in Seq(Nat) /\ body \in Seq(Byte)
  /\ buf \in Seq(Byte) /\ pos \in 0..Len(buf) /\ error \in BOOLEAN
  /\ done \in 0..Len(Reads)
  /\ outcome \in {"writing", "reading", "returned", "raised"}
  /\ \A i \in 1..Len(values) : values[i] \in Seq(Byte)

\* The i-th field is a string that is not UTF-8.
IsMalformed(i) ==
  Layout[i].kind # "int" /\ \E t \in Malformed : fields[i] = Tlv(t)

\* A response that is returned holds the fields the server wrote, in order and
\* each of them whole and, where it is a string, in UTF-8, however much of the body
\* is missing (the sticky error of Reader, packet.py:90, and the check after the
\* last read, codecs.py:77).
ReturnedIsWritten ==
  outcome = "returned" =>
    /\ Len(values) <= Len(fields)
    /\ \A i \in 1..Len(values) : values[i] = fields[i] /\ ~IsMalformed(i)

\* A body that arrives whole decodes into every field the server wrote, whichever
\* of its optional parts the server left off, unless a string in it is not UTF-8.
WholeBodyDecodes ==
  outcome \in {"returned", "raised"} /\ buf = body =>
    IF \E i \in 1..Len(fields) : IsMalformed(i)
    THEN outcome = "raised"
    ELSE outcome = "returned" /\ values = fields
=============================================================================
