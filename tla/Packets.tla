------------------------------- MODULE Packets -------------------------------
(***************************************************************************)
(* The packets of the DDC/CI protocol, byte for byte: how requests are     *)
(* built and how what comes back from the i2c bus is taken apart           *)
(* (base/ddc_packets.c, with ddc_write_read of ddc/ddc_packet_io.c and     *)
(* ddc_get_nontable_vcp_value of ddc/ddc_vcp.c around it).                 *)
(*                                                                         *)
(* The monitor is the protocol's: it reads a request by Understood and     *)
(* answers with what it likes.  The first byte of its answer can come      *)
(* twice, one byte can be damaged on the wire, and it can be the answer to *)
(* an earlier request.  A behaviour is one request, whose offset may be    *)
(* updated, and one answer.                                                *)
(*                                                                         *)
(* The names of its actions and formulas say whose they are: the proofs    *)
(* take the module together with WriteRead.                                *)
(***************************************************************************)
EXTENDS Integers, Sequences, SequencesExt, FiniteSets

CONSTANTS
  Features,      \* feature codes
  Settings,      \* values that are set, of two bytes
  Values,        \* values that are returned: mh, ml, sh, sl
  ReadOffsets,   \* offsets of multi part reads
  WriteOffsets,  \* and writes
  Fragments,     \* bytes of fragments
  Damage,        \* what a damaged byte is combined with, by exclusive or
  Fill,          \* what the bus gives after the end of an answer
  None

Byte == 0..255
Offset == 0..(256 * 256) - 1
MAX_DDC_MULTI_PART_FRAGMENT_SIZE == 32

MessageKinds == {"get", "set", "save", "capabilities", "table", "write",
          "value", "unsupported", "null", "zeros"}
Message == [kind : MessageKinds, code : Byte, offset : Offset, data : Seq(Byte)]

ASSUME PacketsAssumption ==
  /\ Features \subseteq Byte
  /\ Settings \cup ReadOffsets \cup WriteOffsets \subseteq Offset
  /\ \A v \in Values : v \in Seq(Byte) /\ Len(v) = 4
  /\ \A b \in Fragments : b \in Seq(Byte) /\ Len(b) \in 0..MAX_DDC_MULTI_PART_FRAGMENT_SIZE
  /\ Fill \subseteq Byte
  /\ Damage \subseteq Byte \ {0}
  /\ None \notin Message

(***************************************************************************)
(* The exclusive or of the bytes of a sequence: each of its bits tells     *)
(* whether that bit is set in an odd number of them.  A bit is named by    *)
(* its weight.                                                             *)
(***************************************************************************)
Weights == {1, 2, 4, 8, 16, 32, 64, 128}
Bit(x, w) == (x \div w) % 2
Parity(bytes, w) == Cardinality({i \in DOMAIN bytes : Bit(bytes[i], w) = 1}) % 2
OfBits(bit) == bit[1] + 2 * bit[2] + 4 * bit[4] + 8 * bit[8]
                 + 16 * bit[16] + 32 * bit[32] + 64 * bit[64] + 128 * bit[128]
XorAll(bytes) == OfBits([w \in Weights |-> Parity(bytes, w)])

MAX_DDC_DATA_SIZE == 35
HiByte(n) == (n \div 256) % 256
LoByte(n) == n % 256

VARIABLES
  request,  \* what is asked of the monitor
  packet,   \* its packet, raw_bytes
  answer,   \* what the monitor meant to say, or None
  readbuf,  \* the bytes that came, without the fill after them
  fill,
  damaged,
  told      \* what the caller is told, or None

packetVars == <<request, packet, answer, readbuf, fill, damaged, told>>

----------------------------------------------------------------------------
(***************************************************************************)
(* Requests.                                                               *)
(***************************************************************************)
Ask(kind, code, offset, data) == [kind |-> kind, code |-> code, offset |-> offset, data |-> data]

ReadRequests  == {Ask("capabilities", 0, 0, <<>>)} \cup {Ask("table", c, 0, <<>>) : c \in Features}
OtherRequests ==
  {Ask("get", c, 0, <<>>) : c \in Features}
  \cup {Ask("set", c, 0, <<HiByte(v), LoByte(v)>>) : c \in Features, v \in Settings}
  \cup {Ask("write", c, o, b) : c \in Features, o \in WriteOffsets, b \in Fragments}
  \cup {Ask("save", 0, 0, <<>>)}

\* ddc_checksum
Checksum(bytes) == XorAll(bytes)

\* create_ddc_base_request_packet
BaseRequest(data) ==
  LET bytes == <<110, 81, 128 + Len(data)>> \o data       \* x6e, x51, x80 | length
  IN  Append(bytes, Checksum(bytes))

\* The data bytes of a packet; the high byte of an offset is (offset >> 16) & 0xff.
RequestData(r) ==
  LET hi == (r.offset \div 65536) % 256
      lo == LoByte(r.offset)
  IN  CASE r.kind = "get"          -> <<1, r.code>>
        [] r.kind = "set"          -> <<3, r.code>> \o r.data
        [] r.kind = "save"         -> <<12>>
        [] r.kind = "capabilities" -> <<243, hi, lo>>
        [] r.kind = "table"        -> <<226, r.code, hi, lo>>
        [] r.kind = "write"        -> <<231, r.code, hi, lo>> \o r.data

\* Where in a packet a read request has its offset.
OffsetAt(bytes) == IF bytes[4] = 243 THEN 5 ELSE 6

\* Fault: the checksum is left as it was.
WithOffset_staleChecksum(bytes, o) ==
  [bytes EXCEPT ![OffsetAt(bytes)] = HiByte(o), ![OffsetAt(bytes) + 1] = LoByte(o)]

\* update_ddc_multi_part_read_request_packet_offset
WithOffset(bytes, o) ==
  LET body == Front([bytes EXCEPT ![OffsetAt(bytes)] = HiByte(o),
                                  ![OffsetAt(bytes) + 1] = LoByte(o)])
  IN  Append(body, Checksum(body))

\* A read goes on at another offset.
UpdateOffset(o) ==
  /\ request.kind \in {"capabilities", "table"} /\ answer = None
  /\ request' = [request EXCEPT !.offset = o]
  /\ packet' = WithOffset(packet, o)
  /\ UNCHANGED <<answer, readbuf, fill, damaged, told>>

\* What the protocol says that the bytes of a request ask for, or None.
Understood(bytes) ==
  LET n    == Len(bytes) - 4
      d(i) == bytes[3 + i]
  IN  IF XorAll(bytes) # 0 \/ bytes[3] # 128 + n
      THEN None
      ELSE CASE d(1) = 1 -> Ask("get", d(2), 0, <<>>)
             [] d(1) = 3 -> Ask("set", d(2), 0, <<d(3), d(4)>>)
             [] d(1) = 12 -> Ask("save", 0, 0, <<>>)
             [] d(1) = 243 -> Ask("capabilities", 0, (256 * d(2)) + d(3), <<>>)
             [] d(1) = 226 -> Ask("table", d(2), (256 * d(3)) + d(4), <<>>)
             [] d(1) = 231 -> Ask("write", d(2), (256 * d(3)) + d(4), SubSeq(bytes, 8, 3 + n))

----------------------------------------------------------------------------
(***************************************************************************)
(* Answers.                                                                *)
(***************************************************************************)
Say(kind, code, offset, data) == Ask(kind, code, offset, data)

\* What a monitor can say to a request it understood.
AnswersTo(r) ==
  {Say("null", 0, 0, <<>>), Say("zeros", 0, 0, <<>>)}
  \cup CASE r.kind = "get" -> {Say("value", r.code, 0, v) : v \in Values}
                              \cup {Say("unsupported", r.code, 0, <<0, 0, 0, 0>>)}
         [] r.kind \in {"capabilities", "table"} ->
              {Say(r.kind, 0, r.offset, b) : b \in Fragments}
         [] OTHER -> {}

AnswerData(a) ==
  CASE a.kind = "value"        -> <<2, 0, a.code, 0>> \o a.data
    [] a.kind = "unsupported"  -> <<2, 1, a.code, 0>> \o a.data
    [] a.kind = "capabilities" -> <<227, HiByte(a.offset), LoByte(a.offset)>> \o a.data
    [] a.kind = "table"        -> <<228, HiByte(a.offset), LoByte(a.offset)>> \o a.data
    [] OTHER                   -> <<>>

\* The bytes it says it with.
AnswerBytes(a) ==
  LET data == AnswerData(a)
      body == <<110, 128 + Len(data)>> \o data
  IN  IF a.kind = "zeros" THEN [i \in 1..40 |-> 0] ELSE Append(body, XorAll(<<80>> \o body))

\* Its first byte can come twice.
Answer(a) ==
  /\ request.kind \in {"get", "capabilities", "table"} /\ answer = None
  /\ answer' = a
  /\ readbuf' \in {AnswerBytes(a), IF a.kind = "zeros" THEN AnswerBytes(a) ELSE <<110>> \o AnswerBytes(a)}
  /\ fill' \in Fill
  /\ UNCHANGED <<request, packet, damaged, told>>

AnswerAsked == \E a \in AnswersTo(Understood(packet)) : Answer(a)

\* An answer to some earlier request.
AnswerStale ==
  \E r \in ReadRequests \cup OtherRequests, o \in ReadOffsets :
    \E a \in AnswersTo([r EXCEPT !.offset = o]) : Answer(a)

DamageByte ==
  /\ readbuf # <<>> /\ ~damaged /\ told = None
  /\ \E i \in DOMAIN readbuf, mask \in Damage :
       readbuf' = [readbuf EXCEPT ![i] = XorAll(<<@, mask>>)]
  /\ damaged' = TRUE
  /\ UNCHANGED <<request, packet, answer, fill, told>>

----------------------------------------------------------------------------
(***************************************************************************)
(* Taking an answer apart.                                                 *)
(***************************************************************************)
Failed(rc) == [rc |-> rc, said |-> None]

\* Byte i of the buffer, counted from 0.
At(bytes, i) == IF i < Len(bytes) THEN bytes[i + 1] ELSE fill
Part(bytes, from, n) == [i \in 1..n |-> At(bytes, from + i - 1)]

\* Fault: the double first byte is not looked for.
Unquirked_as_is(bytes) == bytes

\* create_ddc_response_packet, "Quirk: response packet starts with double 0x6e"
Unquirked(bytes) == IF At(bytes, 0) = 110 /\ At(bytes, 1) = 110 THEN Tail(bytes) ELSE bytes

DataCount(bytes) == At(bytes, 1) % 128

\* create_ddc_base_response_packet
WellFormed(bytes) ==
  LET n == DataCount(bytes)
  IN  /\ At(bytes, 0) = 110
      /\ n <= MAX_DDC_DATA_SIZE
      /\ Checksum(<<80, 110>> \o Part(bytes, 1, n + 1)) = At(bytes, n + 2)

ExpectedType(kind) ==
  CASE kind = "get" -> 2 [] kind = "capabilities" -> 227 [] kind = "table" -> 228

\* Fault: the feature code of an answer is not compared.
InterpretValue_anyFeature(data, code) ==
  CASE Len(data) # 8           -> Failed("DDC_DATA")
    [] Len(data) = 8 /\ data[2] = 1 -> Failed("REPORTED_UNSUPPORTED")
    [] Len(data) = 8 /\ data[2] = 0 -> [rc |-> "OK", said |-> Say("value", code, 0, SubSeq(data, 5, 8))]
    [] OTHER                   -> Failed("DDC_DATA")

\* interpret_vcp_feature_response_std, and what ddc_get_nontable_vcp_value
\* makes of its supported_opcode.
InterpretValue(data, code) ==
  CASE Len(data) # 8           -> Failed("DDC_DATA")
    [] Len(data) = 8 /\ data[3] # code -> Failed("DDC_DATA")
    [] Len(data) = 8 /\ data[3] = code /\ data[2] = 1 -> Failed("REPORTED_UNSUPPORTED")
    [] Len(data) = 8 /\ data[3] = code /\ data[2] = 0 ->
         [rc |-> "OK", said |-> Say("value", data[3], 0, SubSeq(data, 5, 8))]
    [] OTHER                   -> Failed("DDC_DATA")

\* interpret_multi_part_read_response
InterpretFragment(data, kind) ==
  IF Len(data) < 3
    THEN Failed("DDC_DATA")
    ELSE [rc |-> "OK",
          said |-> Say(kind, 0, (256 * data[2]) + data[3], SubSeq(data, 4, Len(data)))]

\* create_ddc_typed_response_packet
TypedResponse(buffer) ==
  LET bytes == Unquirked(buffer)
      data  == Part(bytes, 2, DataCount(bytes))
  IN  CASE ~WellFormed(bytes) -> Failed("DDC_DATA")
        [] WellFormed(bytes) /\ data = <<>> -> Failed("NULL_RESPONSE")
        [] WellFormed(bytes) /\ data # <<>> /\ data[1] # ExpectedType(request.kind) ->
             Failed("DDC_DATA")
        [] OTHER -> IF request.kind = "get" THEN InterpretValue(data, request.code)
                                            ELSE InterpretFragment(data, request.kind)

\* ddc_write_read
AllZero(buffer) == \A i \in 0..39 : At(buffer, i) = 0

Interpret ==
  /\ readbuf # <<>> /\ told = None
  /\ told' = IF AllZero(readbuf) THEN Failed("READ_ALL_ZERO") ELSE TypedResponse(readbuf)
  /\ UNCHANGED <<request, packet, answer, readbuf, fill, damaged>>

----------------------------------------------------------------------------
PacketsInit ==
  /\ request \in ReadRequests \cup OtherRequests
  /\ packet = BaseRequest(RequestData(request))
  /\ answer = None /\ told = None
  /\ readbuf = <<>> /\ damaged = FALSE
  /\ fill \in Fill

PacketsNext ==
  \/ \E o \in ReadOffsets : UpdateOffset(o)
  \/ AnswerAsked
  \/ AnswerStale
  \/ DamageByte
  \/ Interpret

PacketsSpec == PacketsInit /\ [][PacketsNext]_packetVars

----------------------------------------------------------------------------
\* The monitor reads in a packet exactly what was asked, however often the
\* offset in the packet has been updated in place
\* (create_ddc_base_request_packet, update_ddc_multi_part_read_request_packet_offset).
RequestUnderstood == Understood(packet) = request

\* What the code says of an answer is what the monitor said, if no byte was
\* damaged and it was an answer to this kind of request: whether or not its
\* first byte came twice, whatever the bus gives after it, with the statuses
\* of null, unsupported and all zero answers (create_ddc_typed_response_packet).
AnswerUnderstood ==
  told # None /\ ~damaged =>
    /\ answer.kind = "null"  => told = Failed("NULL_RESPONSE")
    /\ answer.kind = "zeros" => told = Failed("READ_ALL_ZERO")
    /\ request.kind = "get" /\ answer.code = request.code =>
         /\ answer.kind = "unsupported" => told = Failed("REPORTED_UNSUPPORTED")
         /\ answer.kind = "value"       => told = [rc |-> "OK", said |-> answer]
    /\ answer.kind = request.kind => told = [rc |-> "OK", said |-> answer]

\* No byte of a value or a fragment is ever taken for another, and no value for
\* that of another feature: what is accepted is what the monitor said, though a
\* byte was damaged or the answer was late.  The number of bytes of a fragment
\* is excepted: the checksum cannot protect it.
NothingMisread ==
  told # None /\ told.rc = "OK" =>
    /\ request.kind = "get" => told.said = answer /\ answer.code = request.code
    /\ request.kind # "get" =>
         /\ answer.kind = request.kind
         /\ told.said.offset = answer.offset
         /\ \A i \in DOMAIN told.said.data \cap DOMAIN answer.data :
              told.said.data[i] = answer.data[i]
=============================================================================
