------------------------------ MODULE VcpAccess ------------------------------
(***************************************************************************)
(* Reading and setting feature values through an open display: the multi   *)
(* part reads and writes of table features and of the capabilities         *)
(* (ddc/ddc_multi_part_io.c), the write of a single packet with its        *)
(* retries (ddc/ddc_packet_io.c), and above them the getting, setting and  *)
(* verifying of values (ddc/ddc_vcp.c).                                    *)
(*                                                                         *)
(* One call at a time: the display lock sees to that.  The monitor's       *)
(* answers are its choice: a fragment of any length it likes, the answer   *)
(* it gave before, or none.  A packet can get lost, and an error can be    *)
(* returned for one that arrived.  The process can be killed anywhere.     *)
(* What an exchange of two packets does is module WriteRead; here it is    *)
(* one step with the statuses its callers tell apart:                      *)
(*   NULL   DDCRC_NULL_RESPONSE, DDCRC_ALL_RESPONSES_NULL                  *)
(*   NULLS  another status, all of whose causes are DDCRC_NULL_RESPONSE    *)
(*   ZERO   DDCRC_READ_ALL_ZERO, DDCRC_ALL_TRIES_ZERO                      *)
(*   BADF   -EBADF                                                         *)
(*   DATA   all others                                                     *)
(***************************************************************************)
EXTENDS Integers, Sequences, SequencesExt

CONSTANTS
  Tables,          \* values of the table feature, sequences of bytes
  Registers,       \* values of the other feature, which is not a table
  MaxLength,       \* of a table
  Capabilities,    \* the monitor's capabilities string
  Blank,           \* the byte that ends of that string are trimmed of
  ReadFragment,    \* most bytes in a fragment the monitor sends
  WriteFragment,   \* max_fragment_size
  OffsetBase,      \* values of one byte of an offset
  MaxReadTries,    \* try_data_get_maxtries2(MULTI_PART_READ_OP)
  MaxWriteTries,   \* try_data_get_maxtries2(MULTI_PART_WRITE_OP)
  MaxPacketTries,  \* try_data_get_maxtries2(WRITE_ONLY_TRIES_OP)
  None

Bytes == UNION {Range(t) : t \in Tables} \cup Range(Capabilities)

ASSUME VcpAccessAssumption ==
  /\ {ReadFragment, WriteFragment, MaxReadTries, MaxWriteTries, MaxPacketTries}
        \subseteq Nat \ {0}
  /\ OffsetBase \in Nat \ {0, 1}
  /\ Tables \subseteq Seq(Bytes) /\ Capabilities \in Seq(Bytes)
  /\ MaxLength \in Nat /\ \A t \in Tables : Len(t) <= MaxLength
  /\ None \notin Tables \cup Registers

VARIABLES
  table, register,   \* monitor: the two features
  buffer,            \* monitor: the bytes it was sent, by offset
  answer,            \* monitor: its latest answer, and to what
  verify,            \* thread: settings->verify_setvcp
  call,              \* the call in progress, or the one that ended last
  pc,
  ofs,               \* cur_offset, offset
  accumulator,       \* bytes read so far
  tries,             \* tryctr of the multi part loop
  packet_tries,      \* tryctr of ddc_write_only_with_retry
  status,            \* what the call returned
  value,             \* and the value: *newval_loc, *table_bytes_loc
  refused            \* history: the monitor ignored what this call set

monitor == <<table, register, buffer, answer>>
loop    == <<ofs, accumulator, tries, packet_tries>>
outcome == <<status, value>>
vars    == <<monitor, verify, call, pc, loop, outcome, refused>>

Kinds     == {"table", "register", "capabilities"}
NoAnswer  == [kind |-> "none", ofs |-> 0, bytes |-> <<>>]
NoCall    == [op |-> "none", kind |-> "table", new |-> None, verified |-> FALSE]

Statuses  == {"NONE", "OK", "NULL", "NULLS", "ZERO", "BADF", "DATA", "FRAGMENT", "BUSY",
              "RETRIES", "VERIFY", "DETERMINED_UNSUPPORTED"}

\* Types of the state above.
TypeOK ==
  /\ table \in Seq(Bytes) /\ Len(table) <= MaxLength
  /\ register \in Registers
  /\ buffer \in [0..MaxLength - 1 -> Bytes]
  /\ answer \in [kind : Kinds \cup {"none"}, ofs : Nat, bytes : Seq(Bytes)]
  /\ verify \in BOOLEAN
  /\ call \in [op : {"none", "get", "set"}, kind : Kinds,
              new : Tables \cup Registers \cup {None}, verified : BOOLEAN]
  /\ pc \in {"idle", "read", "write", "aborted"}
  /\ ofs \in Nat
  /\ accumulator \in Seq(Bytes)
  /\ tries \in 0..MaxReadTries + MaxWriteTries
  /\ packet_tries \in 0..MaxPacketTries
  /\ status \in Statuses
  /\ refused \in BOOLEAN

Init ==
  /\ table \in Tables
  /\ register \in Registers
  /\ \E byte \in Bytes : buffer = [i \in 0..MaxLength - 1 |-> byte]
  /\ answer = NoAnswer
  /\ verify = TRUE
  /\ call = NoCall
  /\ pc = "idle"
  /\ ofs = 0 /\ accumulator = <<>> /\ tries = 0 /\ packet_tries = 0
  /\ status = "NONE" /\ value = None
  /\ refused = FALSE

----------------------------------------------------------------------------
\* What the monitor reports for a kind.
Reported(kind) == IF kind = "table" THEN table ELSE Capabilities

\* A string without the blanks at its end.
Trimmed(string) ==
  CHOOSE s \in {SubSeq(string, 1, n) : n \in 0..Len(string)} :
    /\ \A i \in Len(s) + 1 .. Len(string) : string[i] = Blank
    /\ s # <<>> => Last(s) # Blank

\* The loop of a multi part operation starts over, or for the first time.
StartTry(n) == ofs' = 0 /\ accumulator' = <<>> /\ tries' = n /\ packet_tries' = 0

\* The call returns.
Return(rc, newval) ==
  /\ pc' = "idle"
  /\ status' = rc
  /\ value' = newval
  /\ UNCHANGED loop

----------------------------------------------------------------------------
(***************************************************************************)
(* Multi part reads.                                                       *)
(***************************************************************************)

\* Fault: verification compares the number of bytes and not the bytes.
ReadReturns_lengthOnly(rc, bytes) ==
  CASE rc # "OK" -> Return(rc, None)
    [] rc = "OK" /\ call.op = "set" ->
         Return(IF Len(bytes) = Len(call.new) THEN "OK" ELSE "VERIFY", bytes)
    [] rc = "OK" /\ call.op = "get" ->
         Return("OK", IF call.kind = "capabilities" THEN Trimmed(bytes) ELSE bytes)

\* What a read that ended with rc and bytes means to the call it is part of:
\* a get, or the verification of a set.
ReadReturns(rc, bytes) ==
  CASE rc # "OK" -> Return(IF rc = "NULL" /\ call.kind = "table"
                             THEN "DETERMINED_UNSUPPORTED" ELSE rc, None)
    [] rc = "OK" /\ call.op = "set" ->
         Return(IF bytes = call.new THEN "OK" ELSE "VERIFY", bytes)
    [] rc = "OK" /\ call.op = "get" ->
         Return("OK", IF call.kind = "capabilities" THEN Trimmed(bytes) ELSE bytes)

\* can_retry
ReadRetryable(rc) ==
  /\ rc \notin {"ZERO", "BADF"}
  /\ rc \in {"NULL", "NULLS"} => call.kind # "table"

\* Fault: tries are not counted.
ReadTryFailed_uncounted(rc) ==
  IF tries + 1 < MaxReadTries /\ ReadRetryable(rc)
    THEN StartTry(tries) /\ UNCHANGED <<pc, outcome>>
    ELSE ReadReturns(IF tries + 1 >= MaxReadTries THEN "RETRIES" ELSE rc, <<>>)

\* One try of the whole read failed.
ReadTryFailed(rc) ==
  IF tries + 1 < MaxReadTries /\ ReadRetryable(rc)
    THEN StartTry(tries + 1) /\ UNCHANGED <<pc, outcome>>
    ELSE ReadReturns(IF tries + 1 >= MaxReadTries THEN "RETRIES" ELSE rc, <<>>)

\* Fault: the offset a fragment says it has is not looked at.
FragmentRead_anyOffset(fragment) ==
  IF fragment.bytes = <<>>
    THEN ReadReturns("OK", accumulator)
  ELSE
    /\ accumulator' = accumulator \o fragment.bytes
    /\ ofs' = ofs + Len(fragment.bytes)
    /\ UNCHANGED <<pc, tries, packet_tries, outcome>>

\* A fragment has come.
FragmentRead(fragment) ==
  IF fragment.ofs # ofs
    THEN ReadTryFailed("FRAGMENT")
  ELSE IF fragment.bytes = <<>>
    THEN ReadReturns("OK", accumulator)
  ELSE
    /\ accumulator' = accumulator \o fragment.bytes
    /\ ofs' = ofs + Len(fragment.bytes)
    /\ UNCHANGED <<pc, tries, packet_tries, outcome>>

\* The answers a monitor can give to a request for what starts at an offset.
AnswersAt(o) ==
  LET all   == Reported(call.kind)
      start == IF o < Len(all) THEN o ELSE Len(all)
      least == IF start < Len(all) THEN 1 ELSE 0
      most  == IF Len(all) - start < ReadFragment THEN Len(all) - start ELSE ReadFragment
  IN  {[kind |-> call.kind, ofs |-> o, bytes |-> SubSeq(all, start + 1, start + n)] :
         n \in least..most}

\* The requested fragment arrives.
ReadFragmentArrives ==
  /\ pc = "read"
  /\ \E a \in AnswersAt(ofs) : answer' = a /\ FragmentRead(a)
  /\ UNCHANGED <<table, register, buffer, verify, call, refused>>

\* The monitor repeats its previous answer: only one of another kind is told
\* from the one expected by the exchange itself.
StaleFragmentArrives ==
  /\ pc = "read"
  /\ answer.kind = call.kind
  /\ FragmentRead(answer)
  /\ UNCHANGED <<monitor, verify, call, refused>>

\* The exchange fails.  The monitor may have seen the request.
ReadExchangeFails ==
  /\ pc = "read"
  /\ \E rc \in {"NULL", "NULLS", "ZERO", "BADF", "DATA"} : ReadTryFailed(rc)
  /\ answer' \in AnswersAt(ofs) \cup {answer}
  /\ UNCHANGED <<table, register, buffer, verify, call, refused>>

----------------------------------------------------------------------------
(***************************************************************************)
(* Writes.                                                                 *)
(***************************************************************************)

\* The bytes of the next fragment of a table: none when all are written.
BytesToWrite ==
  LET remaining == Len(call.new) - ofs
  IN  SubSeq(call.new, ofs + 1,
             ofs + IF remaining <= WriteFragment THEN remaining ELSE WriteFragment)

\* The offset a write request carries: its high byte is (offset >> 16) & 0xff.
OffsetSent(o) ==
  OffsetBase * ((o \div (OffsetBase * OffsetBase)) % OffsetBase) + (o % OffsetBase)

\* The monitor keeps the bytes of a fragment by offset; the empty fragment
\* makes those before it the table, unless the monitor refuses the value.
ReceiveFragment(o, bytes) ==
  IF bytes = <<>>
    THEN \/ /\ table' = [i \in 1..o |-> buffer[i - 1]]
            /\ UNCHANGED <<buffer, refused>>
         \/ refused' = TRUE /\ UNCHANGED <<table, buffer>>
    ELSE /\ buffer' = [i \in DOMAIN buffer |->
                         IF i \in o .. o + Len(bytes) - 1 THEN bytes[i - o + 1] ELSE buffer[i]]
         /\ UNCHANGED <<table, refused>>

\* The monitor takes the packet that is being written.
Receive ==
  /\ answer' = NoAnswer
  /\ \/ /\ call.kind = "table"
        /\ ReceiveFragment(OffsetSent(ofs), BytesToWrite)
        /\ UNCHANGED register
     \/ /\ call.kind = "register"
        /\ \/ register' = call.new /\ UNCHANGED refused
           \/ refused' = TRUE /\ UNCHANGED register
        /\ UNCHANGED <<table, buffer>>

NotReceived == UNCHANGED <<monitor, refused>>

\* ddc_set_vcp_value reads back what it has written.  A register is only ever
\* set by ddc_set_nontable_vcp_value, which does not.
WriteReturns(rc) ==
  IF rc = "OK" /\ call.verified /\ call.kind = "table"
    THEN /\ pc' = "read"
         /\ StartTry(0)
         /\ UNCHANGED outcome
    ELSE Return(rc, None)

\* Fault: a fragment that failed is passed over.
PacketReturns_goOn(rc) ==
  IF call.kind = "register"
    THEN WriteReturns(rc)
  ELSE IF BytesToWrite = <<>>
    THEN WriteReturns("OK")
  ELSE
    /\ ofs' = ofs + Len(BytesToWrite)
    /\ packet_tries' = 0
    /\ UNCHANGED <<pc, accumulator, tries, outcome>>

\* One packet is written, or given up.
PacketReturns(rc) ==
  IF call.kind = "register"
    THEN WriteReturns(rc)
  ELSE IF rc # "OK"
    THEN IF tries + 1 < MaxWriteTries
           THEN StartTry(tries + 1) /\ UNCHANGED <<pc, outcome>>
           ELSE WriteReturns("RETRIES")
  ELSE IF BytesToWrite = <<>>
    THEN WriteReturns("OK")
  ELSE
    /\ ofs' = ofs + Len(BytesToWrite)
    /\ packet_tries' = 0
    /\ UNCHANGED <<pc, accumulator, tries, outcome>>

\* A try of ddc_write_only_with_retry succeeds.
WriteSucceeds ==
  /\ pc = "write"
  /\ Receive
  /\ PacketReturns("OK")
  /\ UNCHANGED <<verify, call>>

\* It fails, whether or not the packet arrived.
WriteFails ==
  /\ pc = "write"
  /\ Receive \/ NotReceived
  /\ IF packet_tries + 1 < MaxPacketTries
       THEN packet_tries' = packet_tries + 1
            /\ UNCHANGED <<pc, ofs, accumulator, tries, outcome>>
       ELSE PacketReturns("RETRIES")
  /\ UNCHANGED <<verify, call>>

\* EBUSY is not retried; assert(tryctr == 1) takes it to be the first failure.
WriteBusy ==
  /\ pc = "write"
  /\ NotReceived
  /\ IF packet_tries = 0
       THEN PacketReturns("BUSY")
       ELSE pc' = "aborted" /\ UNCHANGED <<loop, outcome>>
  /\ UNCHANGED <<verify, call>>

----------------------------------------------------------------------------
(***************************************************************************)
(* Calls.                                                                  *)
(***************************************************************************)
StartCall(c, first) ==
  /\ pc = "idle"
  /\ call' = c
  /\ pc' = first
  /\ StartTry(0)
  /\ refused' = FALSE
  /\ status' = "NONE" /\ value' = None
  /\ UNCHANGED <<monitor, verify>>

\* ddc_get_table_vcp_value, get_capabilities_into_buffer
Get(kind) ==
  StartCall([op |-> "get", kind |-> kind, new |-> None, verified |-> FALSE], "read")

\* ddc_set_verified_vcp_value_with_retry.  Verified if the thread wants it and
\* the feature is_rereadable_feature, for this value.
Set(kind, new, rereadable) ==
  StartCall([op |-> "set", kind |-> kind, new |-> new, verified |-> verify /\ rereadable],
            "write")

\* ddc_set_verify_setvcp
SetVerify(onoff) ==
  /\ pc = "idle"
  /\ verify' = onoff
  /\ UNCHANGED <<monitor, call, pc, loop, outcome, refused>>

\* The process is killed, or has failed its assertion, and is started anew.
Restart ==
  /\ pc # "idle"
  /\ pc' = "idle"
  /\ call' = NoCall
  /\ verify' = TRUE
  /\ StartTry(0)
  /\ status' = "NONE" /\ value' = None
  /\ refused' = FALSE
  /\ UNCHANGED monitor

Transfer ==
  \/ ReadFragmentArrives
  \/ StaleFragmentArrives
  \/ ReadExchangeFails
  \/ WriteSucceeds
  \/ WriteFails
  \/ WriteBusy

Next ==
  \/ \E kind \in {"table", "capabilities"} : Get(kind)
  \/ \E new \in Tables, rereadable \in BOOLEAN : Set("table", new, rereadable)
  \/ \E new \in Registers, rereadable \in BOOLEAN : Set("register", new, rereadable)
  \/ \E onoff \in BOOLEAN : SetVerify(onoff)
  \/ Transfer
  \/ Restart

Spec == Init /\ [][Next]_vars /\ WF_vars(Transfer)

----------------------------------------------------------------------------
Returned(op, kind) == pc = "idle" /\ call.op = op /\ call.kind = kind

\* A multi part read that succeeds returns the whole value and nothing else,
\* however it was cut in fragments, retried, or answered with an old fragment
\* (try_multi_part_read starts from an empty accumulator and compares offsets).
WholeOrError ==
  /\ Returned("get", "table") /\ status = "OK" => value = table
  /\ Returned("get", "capabilities") /\ status = "OK" => value = Trimmed(Capabilities)

\* The monitor's table changes only to the whole value being set, at whichever
\* fragment a write fails, is repeated or is broken off for ever
\* (try_multi_part_write stops at the first error and ends with an empty fragment).
TableSetWhole ==
  [][table' # table => call.op = "set" /\ call.kind = "table" /\ table' = call.new]_vars

\* A set that returns success has set the value, unless the monitor itself
\* ignored it (multi_part_write_with_retry, ddc_write_only_with_retry).
SuccessMeansSet ==
  status = "OK" =>
    /\ Returned("set", "table") /\ ~refused => table = call.new
    /\ Returned("set", "register") /\ ~refused => register = call.new

\* A verified set of a table tells the truth even of a monitor that ignores
\* values: success only for what the monitor has, DDCRC_VERIFY only for another
\* value and together with it (ddc_set_vcp_value).
VerifiedTable ==
  Returned("set", "table") /\ call.verified =>
    /\ status = "OK" => table = call.new /\ value = table
    /\ status = "VERIFY" => table # call.new /\ value = table

\* What a set returns is true of the monitor, with verification or without.
SetTellsTheTruth == SuccessMeansSet /\ VerifiedTable

\* Every call comes to an end, whatever the monitor answers: retries of
\* fragments within retries of whole operations are bounded.
CallsEnd == (pc \in {"read", "write"}) ~> (pc \notin {"read", "write"})

\* What is said of ddca_set_non_table_vcp_value and the calls beside it: "If
\* verification is performed, the value of the feature is read after being
\* written.  If the returned status code is either DDCRC_OK (0) or DDCRC_VERIFY,
\* the verified value is returned".
VerifiedValueReturned ==
  Returned("set", "register") /\ call.verified /\ status \in {"OK", "VERIFY"}
    => value = register
============================================================================
