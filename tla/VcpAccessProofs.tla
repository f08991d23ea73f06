--------------------------- MODULE VcpAccessProofs ---------------------------
(***************************************************************************)
(* Proofs about VcpAccess, for any tables, capabilities, fragment sizes    *)
(* and limits of tries.  What is said of writes needs the offsets of a     *)
(* table to fit in one byte, see ShortTables; what is said of reads does   *)
(* not.                                                                    *)
(***************************************************************************)
EXTENDS VcpAccess, SequenceTheorems, TLAPS

\* The high byte of an offset that is written is wrong (module VcpAccess,
\* OffsetSent): only tables of which all offsets fit in one byte can be set.
ShortTables == \A t \in Tables : Len(t) < OffsetBase

\* What a fragment says is what the monitor still has at that offset, and it
\* is empty only at the end.
TrueFragment(fragment) ==
  LET all == Reported(fragment.kind)
      end == fragment.ofs + Len(fragment.bytes)
  IN  /\ end <= Len(all)
      /\ fragment.bytes = SubSeq(all, fragment.ofs + 1, end)
      /\ fragment.bytes = <<>> => fragment.ofs = Len(all)

AnswerIsTrue == answer.kind \in {"table", "capabilities"} => TrueFragment(answer)

\* Which values calls are about.
CallMakesSense ==
  /\ pc = "read" => call.kind \in {"table", "capabilities"} /\ call.op \in {"get", "set"}
  /\ pc = "write" => call.kind \in {"table", "register"} /\ call.op = "set"
  /\ pc = "write" /\ call.kind = "register" => call.new \in Registers
  /\ call.op = "set" /\ call.kind = "table" => call.new \in Tables
  /\ pc = "read" /\ call.op = "set" => call.kind = "table" /\ call.verified

\* What is written next is within the table.
OffsetInTable == pc = "write" /\ call.kind = "table" => ofs <= Len(call.new)

\* The accumulator is the beginning of what the monitor reports.
ReadSoFar ==
  pc = "read" =>
    /\ ofs <= Len(Reported(call.kind))
    /\ accumulator = SubSeq(Reported(call.kind), 1, ofs)

\* A verified set of a table has read back what it returns.
ReadInv ==
  /\ TypeOK
  /\ CallMakesSense
  /\ AnswerIsTrue
  /\ OffsetInTable
  /\ ReadSoFar
  /\ WholeOrError
  /\ VerifiedTable

\* The monitor has got the beginning of the table that is being written.
WrittenSoFar ==
  pc = "write" /\ call.kind = "table" => \A i \in 1..ofs : buffer[i - 1] = call.new[i]

\* When the verification of a set begins, the value has been set.
SetBeforeRead ==
  pc = "read" /\ call.op = "set" /\ ~refused => table = call.new

WriteInv ==
  /\ WrittenSoFar
  /\ SetBeforeRead
  /\ SuccessMeansSet
----------------------------------------------------------------------------
(***************************************************************************)
(* Offsets, fragments and answers.                                         *)
(***************************************************************************)

(* The offset a packet carries is never beyond the one that was meant. *)
LEMMA OffsetSentBound ==
  ASSUME NEW o \in Nat
  PROVE  OffsetSent(o) \in 0..o
<1> DEFINE B == OffsetBase
           d == o \div B
           m == o % B
           q == o \div (B * B)
<1>1. B \in Nat /\ B > 1
  BY VcpAccessAssumption
<1>2. d \in Nat /\ m \in Nat /\ o = B * d + m /\ m < B
  BY <1>1
<1>3. B * B \in Nat /\ B * B > 0
  BY <1>1
<1>4. q \in Nat /\ (B * B) * q <= o
  BY <1>3
<1>5. q % B \in Nat /\ q % B <= q
  BY <1>1, <1>4
<1>6. B * q \in Nat /\ B * (B * q) = (B * B) * q
  BY <1>1, <1>4
<1>7. B * q <= d
  <2> HIDE DEF B, d, m, q
  <2> SUFFICES ASSUME B * q >= d + 1 PROVE FALSE
    BY <1>2, <1>6
  <2>1. B * (B * q) >= B * (d + 1)
    BY <1>1, <1>2, <1>6
  <2>2. B * (d + 1) = B * d + B
    BY <1>1, <1>2
  <2> QED
    BY <2>1, <2>2, <1>1, <1>2, <1>4, <1>6
<1>8. B * (q % B) \in Nat /\ B * (q % B) <= B * q
  <2> DEFINE r == q % B
  <2> HIDE DEF B, q, r
  <2> QED BY <1>1, <1>4, <1>5 DEF r
<1>9. d <= B * d
  <2> HIDE DEF B, d
  <2> QED BY <1>1, <1>2
<1>10. OffsetSent(o) = B * (q % B) + m
  BY DEF OffsetSent
<1> HIDE DEF B, d, m, q
<1> QED
  BY <1>1, <1>2, <1>6, <1>7, <1>8, <1>9, <1>10

(* An offset that fits in one byte arrives as it was sent. *)
LEMMA OffsetSentShort ==
  ASSUME NEW o \in Nat, o < OffsetBase
  PROVE  OffsetSent(o) = o
<1>1. OffsetBase \in Nat /\ OffsetBase > 1
  BY VcpAccessAssumption
<1>2. OffsetBase * OffsetBase \in Nat /\ o < OffsetBase * OffsetBase
  BY <1>1
<1>3. o \div (OffsetBase * OffsetBase) = 0
  BY <1>2
<1>4. 0 % OffsetBase = 0 /\ OffsetBase * 0 = 0 /\ o % OffsetBase = o
  BY <1>1
<1> QED
  BY <1>3, <1>4 DEF OffsetSent

(* Two adjacent pieces of a sequence make one. *)
LEMMA PiecesJoin ==
  ASSUME NEW S, NEW s \in Seq(S), NEW i \in Nat, NEW j \in Nat, i <= j, j <= Len(s)
  PROVE  SubSeq(s, 1, i) \o SubSeq(s, i + 1, j) = SubSeq(s, 1, j)
<1>1. /\ 1 \in 1 .. Len(s) + 1
      /\ i \in 1 - 1 .. Len(s)
      /\ j \in i .. Len(s)
  BY LenProperties
<1> QED
  BY <1>1, ConcatAdjacentSubSeq

(* A piece of a sequence has its elements and as many as were asked for. *)
LEMMA PieceOf ==
  ASSUME NEW S, NEW s \in Seq(S), NEW i \in Nat, NEW j \in Nat, i <= j, j <= Len(s)
  PROVE  /\ SubSeq(s, i + 1, j) \in Seq(S)
         /\ Len(SubSeq(s, i + 1, j)) = j - i
         /\ \A k \in 1 .. j - i : SubSeq(s, i + 1, j)[k] = s[i + k]
<1>1. \A k \in i + 1 .. j : s[k] \in S
  BY ElementOfSeq
<1>2. /\ SubSeq(s, i + 1, j) \in Seq(S)
      /\ Len(SubSeq(s, i + 1, j)) = IF i + 1 <= j THEN j - (i + 1) + 1 ELSE 0
      /\ \A k \in 1 .. j - (i + 1) + 1 : SubSeq(s, i + 1, j)[k] = s[i + 1 + k - 1]
  BY <1>1, SubSeqProperties
<1> QED
  BY <1>2

(* What the monitor reports is a sequence of bytes. *)
LEMMA ReportedType ==
  ASSUME TypeOK, NEW kind \in {"table", "capabilities"}
  PROVE  Reported(kind) \in Seq(Bytes) /\ Len(Reported(kind)) \in Nat
BY VcpAccessAssumption, LenProperties DEF TypeOK, Reported

(* An answer to a request for what starts within the value is true, and is  *)
(* an answer to this request.                                               *)
LEMMA AnswersAreTrue ==
  ASSUME TypeOK, call.kind \in {"table", "capabilities"},
         ofs <= Len(Reported(call.kind)), NEW a \in AnswersAt(ofs)
  PROVE  /\ TrueFragment(a)
         /\ a.kind = call.kind /\ a.ofs = ofs
         /\ a \in [kind : Kinds \cup {"none"}, ofs : Nat, bytes : Seq(Bytes)]
<1> DEFINE all == Reported(call.kind)
<1>1. all \in Seq(Bytes) /\ Len(all) \in Nat /\ ofs \in Nat
  BY ReportedType DEF TypeOK
<1> HIDE DEF all
<1>2. PICK n \in Nat :
        /\ ofs + n <= Len(all)
        /\ n = 0 => ofs = Len(all)
        /\ a = [kind |-> call.kind, ofs |-> ofs, bytes |-> SubSeq(all, ofs + 1, ofs + n)]
  <2>1. ReadFragment \in Nat \ {0}
    BY VcpAccessAssumption
  <2> DEFINE least == IF ofs < Len(all) THEN 1 ELSE 0
             most  == IF Len(all) - ofs < ReadFragment THEN Len(all) - ofs ELSE ReadFragment
  <2>2. IF ofs < Len(all) THEN TRUE ELSE ofs = Len(all)
    BY <1>1 DEF all
  <2>3. (IF ofs < Len(all) THEN ofs ELSE Len(all)) = ofs
    BY <2>2
  <2>4. PICK n \in least..most :
          a = [kind |-> call.kind, ofs |-> ofs, bytes |-> SubSeq(all, ofs + 1, ofs + n)]
    BY <2>3 DEF AnswersAt, all
  <2>5. n \in Nat /\ ofs + n <= Len(all) /\ (n = 0 => ofs = Len(all))
    BY <2>1, <2>2, <2>4, <1>1
  <2> QED
    BY <2>4, <2>5
<1>3. /\ SubSeq(all, ofs + 1, ofs + n) \in Seq(Bytes)
      /\ Len(SubSeq(all, ofs + 1, ofs + n)) = n
  BY <1>1, <1>2, PieceOf
<1>4. a.kind = call.kind /\ a.ofs = ofs /\ a.bytes = SubSeq(all, ofs + 1, ofs + n)
  BY <1>2
<1>5. TrueFragment(a)
  <2>1. a.bytes = <<>> => n = 0
    BY <1>3, <1>4
  <2> QED
    BY <2>1, <1>1, <1>2, <1>3, <1>4 DEF TrueFragment, all
<1>6. a \in [kind : Kinds \cup {"none"}, ofs : Nat, bytes : Seq(Bytes)]
  BY <1>1, <1>2, <1>3 DEF Kinds
<1> QED
  BY <1>4, <1>5, <1>6

----------------------------------------------------------------------------
(***************************************************************************)
(* What a step of a read does.                                             *)
(***************************************************************************)

AnswerType == [kind : Kinds \cup {"none"}, ofs : Nat, bytes : Seq(Bytes)]

\* It starts over.
ReadRepeated ==
  /\ pc' = "read"
  /\ ofs' = 0 /\ accumulator' = <<>> /\ packet_tries' = 0
  /\ tries' \in 0..MaxReadTries + MaxWriteTries
  /\ UNCHANGED outcome

\* It fails, and with it the call.
ReadFailed ==
  /\ pc' = "idle"
  /\ status' \in Statuses \ {"OK", "VERIFY"}
  /\ UNCHANGED loop

\* It goes on after another fragment.
ReadGrown ==
  /\ pc' = "read"
  /\ ofs' \in Nat /\ ofs' <= Len(Reported(call.kind))
  /\ accumulator' = SubSeq(Reported(call.kind), 1, ofs')
  /\ UNCHANGED <<tries, packet_tries, outcome>>

\* It is complete, and the call returns what the monitor reports.
ReadDone ==
  /\ pc' = "idle"
  /\ call.op = "set" =>
       /\ value' = Reported(call.kind)
       /\ status' = IF Reported(call.kind) = call.new THEN "OK" ELSE "VERIFY"
  /\ call.op = "get" =>
       /\ status' = "OK"
       /\ value' = IF call.kind = "capabilities" THEN Trimmed(Reported(call.kind))
                                                 ELSE Reported(call.kind)
  /\ UNCHANGED loop

ReadStep == ReadRepeated \/ ReadFailed \/ ReadGrown \/ ReadDone

(* A failed try is repeated, or ends the call with an error. *)
LEMMA FailedTryEffect ==
  ASSUME TypeOK, pc = "read",
         NEW rc \in {"NULL", "NULLS", "ZERO", "BADF", "DATA", "FRAGMENT"}, ReadTryFailed(rc)
  PROVE  ReadRepeated \/ ReadFailed
<1>1. /\ tries \in Nat /\ MaxReadTries \in Nat /\ MaxWriteTries \in Nat
  BY VcpAccessAssumption DEF TypeOK
<1>2. CASE tries + 1 < MaxReadTries /\ ReadRetryable(rc)
  <2>1. StartTry(tries + 1) /\ UNCHANGED <<pc, outcome>>
    BY <1>2 DEF ReadTryFailed
  <2>2. tries + 1 \in 0..MaxReadTries + MaxWriteTries
    BY <1>1, <1>2
  <2> QED
    BY <2>1, <2>2 DEF StartTry, ReadRepeated
<1>3. CASE ~(tries + 1 < MaxReadTries /\ ReadRetryable(rc))
  <2> DEFINE final == IF tries + 1 >= MaxReadTries THEN "RETRIES" ELSE rc
  <2>1. ReadReturns(final, <<>>)
    BY <1>3 DEF ReadTryFailed
  <2>2. final \in {"NULL", "NULLS", "ZERO", "BADF", "DATA", "FRAGMENT", "RETRIES"}
    OBVIOUS
  <2> HIDE DEF final
  <2>3. Return(IF final = "NULL" /\ call.kind = "table"
                 THEN "DETERMINED_UNSUPPORTED" ELSE final, None)
    BY <2>1, <2>2 DEF ReadReturns
  <2> QED
    BY <2>2, <2>3 DEF Return, ReadFailed, Statuses
<1> QED
  BY <1>2, <1>3

(* Any true fragment of the kind that is read is turned down, is added to   *)
(* the beginning that was read, or ends the read at its end.                *)
LEMMA FragmentEffect ==
  ASSUME ReadInv, pc = "read", NEW f \in AnswerType, f.kind = call.kind, TrueFragment(f),
         FragmentRead(f)
  PROVE  ReadStep
<1> DEFINE all == Reported(call.kind)
<1>1. call.kind \in {"table", "capabilities"} /\ call.op \in {"get", "set"}
  BY DEF ReadInv, CallMakesSense
<1>2. all \in Seq(Bytes) /\ Len(all) \in Nat /\ ofs \in Nat
  BY <1>1, ReportedType DEF ReadInv, TypeOK
<1>3. ofs <= Len(all) /\ accumulator = SubSeq(all, 1, ofs)
  BY DEF ReadInv, ReadSoFar
<1>4. /\ f.bytes \in Seq(Bytes) /\ Len(f.bytes) \in Nat
      /\ f.ofs + Len(f.bytes) <= Len(all)
      /\ f.bytes = SubSeq(all, f.ofs + 1, f.ofs + Len(f.bytes))
      /\ f.bytes = <<>> => f.ofs = Len(all)
  BY LenProperties DEF TrueFragment, AnswerType
<1> HIDE DEF all
<1>5. CASE f.ofs # ofs
  <2>1. ReadTryFailed("FRAGMENT")
    BY <1>5 DEF FragmentRead
  <2> QED
    BY <2>1, FailedTryEffect DEF ReadInv, ReadStep
<1>6. CASE f.ofs = ofs /\ f.bytes = <<>>
  <2>1. ReadReturns("OK", accumulator)
    BY <1>6 DEF FragmentRead
  <2>2. accumulator = all
    BY <1>2, <1>3, <1>4, <1>6, SubSeqFull
  <2>3. CASE call.op = "set"
    <3>1. Return(IF all = call.new THEN "OK" ELSE "VERIFY", all)
      BY <2>1, <2>2, <2>3 DEF ReadReturns
    <3> QED
      BY <3>1, <2>3 DEF Return, ReadDone, ReadStep, all
  <2>4. CASE call.op = "get"
    <3>1. Return("OK", IF call.kind = "capabilities" THEN Trimmed(all) ELSE all)
      BY <2>1, <2>2, <2>4 DEF ReadReturns
    <3> QED
      BY <3>1, <2>4 DEF Return, ReadDone, ReadStep, all
  <2> QED
    BY <2>3, <2>4, <1>1
<1>7. CASE f.ofs = ofs /\ f.bytes # <<>>
  <2>1. /\ accumulator' = accumulator \o f.bytes
        /\ ofs' = ofs + Len(f.bytes)
        /\ UNCHANGED <<pc, tries, packet_tries, outcome>>
    BY <1>7 DEF FragmentRead
  <2>2. ofs' \in Nat /\ ofs <= ofs' /\ ofs' <= Len(all)
    BY <2>1, <1>2, <1>4, <1>7
  <2>3. accumulator' = SubSeq(all, 1, ofs) \o SubSeq(all, ofs + 1, ofs')
    BY <2>1, <1>3, <1>4, <1>7
  <2>4. accumulator' = SubSeq(all, 1, ofs')
    BY <2>2, <2>3, <1>2, PiecesJoin
  <2> QED
    BY <2>1, <2>2, <2>4 DEF ReadGrown, ReadStep, all
<1> QED
  BY <1>5, <1>6, <1>7

(* A step of a read keeps the invariant, whatever the monitor answered, as  *)
(* long as it was the truth.                                                *)
LEMMA ReadStepKeeps ==
  ASSUME ReadInv, pc = "read", ReadStep, answer' \in AnswerType, AnswerIsTrue',
         UNCHANGED <<table, register, buffer, verify, call, refused>>
  PROVE  ReadInv'
<1>1. call.kind \in {"table", "capabilities"} /\ call.op \in {"get", "set"}
  BY DEF ReadInv, CallMakesSense
<1>2. Reported(call.kind) \in Seq(Bytes) /\ Len(Reported(call.kind)) \in Nat
  BY <1>1, ReportedType DEF ReadInv
<1>3. Reported(call.kind)' = Reported(call.kind)
  BY DEF Reported
<1>4. TypeOK'
  <2>1. /\ table' \in Seq(Bytes) /\ Len(table') <= MaxLength
        /\ register' \in Registers
        /\ buffer' \in [0..MaxLength - 1 -> Bytes]
        /\ answer' \in AnswerType
        /\ verify' \in BOOLEAN
        /\ call' = call
        /\ refused' \in BOOLEAN
    BY DEF ReadInv, TypeOK
  <2>2. call' \in [op : {"none", "get", "set"}, kind : Kinds,
                   new : Tables \cup Registers \cup {None}, verified : BOOLEAN]
    BY <2>1 DEF ReadInv, TypeOK
  <2>3. pc' \in {"idle", "read", "write", "aborted"}
    BY DEF ReadStep, ReadRepeated, ReadFailed, ReadGrown, ReadDone
  <2>4. /\ tries \in 0..MaxReadTries + MaxWriteTries /\ packet_tries \in 0..MaxPacketTries
        /\ ofs \in Nat /\ accumulator \in Seq(Bytes) /\ status \in Statuses
        /\ 0 \in 0..MaxPacketTries
    BY VcpAccessAssumption DEF ReadInv, TypeOK
  <2>5. tries' \in 0..MaxReadTries + MaxWriteTries /\ packet_tries' \in 0..MaxPacketTries
    BY <2>4 DEF ReadStep, ReadRepeated, ReadFailed, ReadGrown, ReadDone, loop
  <2>6. ofs' \in Nat
    BY <2>4 DEF ReadStep, ReadRepeated, ReadFailed, ReadGrown, ReadDone, loop
  <2>7. accumulator' \in Seq(Bytes)
    <3>1. CASE ReadGrown
      <4>1. SubSeq(Reported(call.kind), 0 + 1, ofs') \in Seq(Bytes)
        BY <3>1, <1>2, PieceOf DEF ReadGrown
      <4> QED
        BY <4>1, <3>1 DEF ReadGrown
    <3>2. CASE ReadRepeated
      BY <3>2, EmptySeq DEF ReadRepeated
    <3>3. CASE ReadFailed \/ ReadDone
      BY <3>3, <2>4 DEF ReadFailed, ReadDone, loop
    <3> QED
      BY <3>1, <3>2, <3>3 DEF ReadStep
  <2>8. status' \in Statuses
    <3>1. CASE ReadDone
      BY <3>1, <1>1 DEF ReadDone, Statuses
    <3>2. CASE ReadFailed
      BY <3>2 DEF ReadFailed
    <3>3. CASE ReadRepeated \/ ReadGrown
      BY <3>3, <2>4 DEF ReadRepeated, ReadGrown, outcome
    <3> QED
      BY <3>1, <3>2, <3>3 DEF ReadStep
  <2> QED
    BY <2>1, <2>2, <2>3, <2>5, <2>6, <2>7, <2>8 DEF TypeOK, AnswerType
<1>5. pc' \in {"read", "idle"}
  BY DEF ReadStep, ReadRepeated, ReadFailed, ReadGrown, ReadDone
<1>6. CallMakesSense'
  BY <1>5 DEF ReadInv, CallMakesSense
<1>7. OffsetInTable'
  BY <1>5 DEF OffsetInTable
<1>8. ReadSoFar'
  <2> SUFFICES ASSUME pc' = "read"
               PROVE  /\ ofs' <= Len(Reported(call.kind))
                      /\ accumulator' = SubSeq(Reported(call.kind), 1, ofs')
    BY <1>3 DEF ReadSoFar
  <2>1. SubSeq(Reported(call.kind), 1, 0) = <<>>
    BY SubSeqEmpty
  <2>2. CASE ReadRepeated
    BY <2>1, <2>2, <1>2 DEF ReadRepeated
  <2>3. CASE ReadGrown
    BY <2>3 DEF ReadGrown
  <2> QED
    BY <2>2, <2>3 DEF ReadStep, ReadFailed, ReadDone
<1>9. WholeOrError'
  <2> SUFFICES ASSUME pc' = "idle", call.op = "get", status' = "OK"
               PROVE  /\ call.kind = "table" => value' = table
                      /\ call.kind = "capabilities" => value' = Trimmed(Capabilities)
    BY DEF WholeOrError, Returned
  <2>1. ReadDone
    BY DEF ReadStep, ReadRepeated, ReadFailed, ReadGrown
  <2> QED
    BY <2>1 DEF ReadDone, Reported
<1>10. VerifiedTable'
  <2> SUFFICES ASSUME pc' = "idle", call.op = "set", call.kind = "table"
               PROVE  /\ status' = "OK" => table = call.new /\ value' = table
                      /\ status' = "VERIFY" => table # call.new /\ value' = table
    BY DEF VerifiedTable, Returned
  <2>1. CASE ReadFailed
    BY <2>1 DEF ReadFailed
  <2>2. CASE ReadDone
    BY <2>2 DEF ReadDone, Reported
  <2> QED
    BY <2>1, <2>2 DEF ReadStep, ReadRepeated, ReadGrown
<1> QED
  BY <1>4, <1>6, <1>7, <1>8, <1>9, <1>10 DEF ReadInv

----------------------------------------------------------------------------
(***************************************************************************)
(* What a step of a write does.                                            *)
(***************************************************************************)

\* What is known of the offset and the try after it.
WriteLoopType ==
  /\ ofs' \in Nat /\ accumulator' \in Seq(Bytes)
  /\ tries' \in 0..MaxReadTries + MaxWriteTries
  /\ packet_tries' \in 0..MaxPacketTries

\* The write goes on, at an offset within the table.
WriteGoesOn ==
  /\ pc' = "write"
  /\ call.kind = "table" => ofs' <= Len(call.new)
  /\ WriteLoopType
  /\ UNCHANGED outcome

\* It is done, and the verification begins.
VerificationBegins ==
  /\ pc' = "read"
  /\ call.kind = "table" /\ call.verified
  /\ ofs' = 0 /\ accumulator' = <<>>
  /\ WriteLoopType
  /\ UNCHANGED outcome

\* The call returns: without an error only if nothing is to be verified.
WriteDone ==
  /\ pc' = "idle"
  /\ status' \in {"OK", "RETRIES", "BUSY"}
  /\ status' = "OK" => ~(call.kind = "table" /\ call.verified)
  /\ UNCHANGED loop

\* The assertion of ddc_write_only_with_retry fails.
WriteAborts ==
  /\ pc' = "aborted"
  /\ UNCHANGED <<loop, outcome>>

WriteStep == WriteGoesOn \/ VerificationBegins \/ WriteDone \/ WriteAborts

(* A fragment to be written is a piece of the table from the offset on, of  *)
(* at least a byte before the end.                                          *)
LEMMA FragmentToWrite ==
  ASSUME TypeOK, call.new \in Tables, ofs <= Len(call.new)
  PROVE  /\ BytesToWrite \in Seq(Bytes) /\ Len(BytesToWrite) \in Nat
         /\ ofs + Len(BytesToWrite) <= Len(call.new)
         /\ \A k \in 1..Len(BytesToWrite) : BytesToWrite[k] = call.new[ofs + k]
         /\ BytesToWrite = <<>> => ofs = Len(call.new)
<1> DEFINE remaining == Len(call.new) - ofs
           n == IF remaining <= WriteFragment THEN remaining ELSE WriteFragment
<1>1. /\ call.new \in Seq(Bytes) /\ Len(call.new) \in Nat /\ ofs \in Nat
      /\ WriteFragment \in Nat \ {0}
  BY VcpAccessAssumption, LenProperties DEF TypeOK
<1>2. /\ n \in Nat /\ ofs + n \in Nat /\ ofs <= ofs + n /\ ofs + n <= Len(call.new)
      /\ (ofs + n) - ofs = n
      /\ n = 0 => ofs = Len(call.new)
  BY <1>1
<1>3. BytesToWrite = SubSeq(call.new, ofs + 1, ofs + n)
  BY DEF BytesToWrite
<1> HIDE DEF n, remaining
<1>4. /\ BytesToWrite \in Seq(Bytes)
      /\ Len(BytesToWrite) = n
      /\ \A k \in 1 .. n : BytesToWrite[k] = call.new[ofs + k]
  <2> DEFINE j == ofs + n
  <2>1. j \in Nat /\ ofs <= j /\ j <= Len(call.new) /\ j - ofs = n
    BY <1>2
  <2>2. BytesToWrite = SubSeq(call.new, ofs + 1, j)
    BY <1>3
  <2> HIDE DEF j
  <2>3. /\ SubSeq(call.new, ofs + 1, j) \in Seq(Bytes)
        /\ Len(SubSeq(call.new, ofs + 1, j)) = j - ofs
        /\ \A k \in 1 .. j - ofs : SubSeq(call.new, ofs + 1, j)[k] = call.new[ofs + k]
    BY <1>1, <2>1, PieceOf
  <2> QED
    BY <2>1, <2>2, <2>3
<1>5. BytesToWrite = <<>> => n = 0
  BY <1>4
<1> QED
  BY <1>2, <1>4, <1>5

(* Whatever arrives, the monitor's table is one of bytes, and an answer it  *)
(* can repeat is still true: it forgets its answers when it takes a packet. *)
LEMMA ReceiveKeepsTypes ==
  ASSUME ReadInv, pc = "write", Receive \/ NotReceived
  PROVE  /\ table' \in Seq(Bytes) /\ Len(table') <= MaxLength
         /\ register' \in Registers
         /\ buffer' \in [0..MaxLength - 1 -> Bytes]
         /\ answer' = NoAnswer \/ (answer' = answer /\ table' = table)
         /\ refused' \in BOOLEAN
<1>1. /\ table \in Seq(Bytes) /\ Len(table) <= MaxLength /\ register \in Registers
      /\ buffer \in [0..MaxLength - 1 -> Bytes] /\ refused \in BOOLEAN
      /\ call.kind = "table" => call.new \in Tables /\ ofs <= Len(call.new)
      /\ ofs \in Nat
  BY DEF ReadInv, TypeOK, CallMakesSense, OffsetInTable
<1>2. CASE NotReceived
  BY <1>1, <1>2 DEF NotReceived, monitor
<1>3. CASE Receive /\ call.kind = "register"
  <2>1. /\ answer' = NoAnswer /\ UNCHANGED <<table, buffer>>
        /\ \/ register' = call.new /\ UNCHANGED refused
           \/ refused' = TRUE /\ UNCHANGED register
    BY <1>3 DEF Receive
  <2>2. call.new \in Registers
    BY <1>3 DEF ReadInv, CallMakesSense
  <2> QED
    BY <2>1, <2>2, <1>1
<1>4. CASE Receive /\ call.kind = "table"
  <2> DEFINE o == OffsetSent(ofs)
  <2>1. /\ answer' = NoAnswer /\ UNCHANGED register
        /\ ReceiveFragment(o, BytesToWrite)
    BY <1>4 DEF Receive
  <2>2. o \in Nat /\ o <= ofs
    BY <1>1, OffsetSentBound
  <2>3. /\ BytesToWrite \in Seq(Bytes) /\ Len(BytesToWrite) \in Nat
        /\ ofs + Len(BytesToWrite) <= Len(call.new)
        /\ Len(call.new) \in Nat /\ Len(call.new) <= MaxLength /\ MaxLength \in Nat
    BY <1>1, <1>4, FragmentToWrite, VcpAccessAssumption, LenProperties DEF ReadInv
  <2> HIDE DEF o
  <2>4. CASE BytesToWrite = <<>>
    <3>1. \/ table' = [i \in 1..o |-> buffer[i - 1]] /\ UNCHANGED <<buffer, refused>>
          \/ refused' = TRUE /\ UNCHANGED <<table, buffer>>
      BY <2>1, <2>4 DEF ReceiveFragment
    <3>2. \A i \in 1..o : buffer[i - 1] \in Bytes
      BY <1>1, <1>4, <2>2, <2>3
    <3>3. /\ [i \in 1..o |-> buffer[i - 1]] \in Seq(Bytes)
          /\ Len([i \in 1..o |-> buffer[i - 1]]) <= MaxLength
      BY <3>2, <1>1, <1>4, <2>2, <2>3
    <3> QED
      BY <3>1, <3>3, <2>1, <1>1
  <2>5. CASE BytesToWrite # <<>>
    <3>1. /\ buffer' = [i \in DOMAIN buffer |->
                         IF i \in o .. o + Len(BytesToWrite) - 1
                           THEN BytesToWrite[i - o + 1] ELSE buffer[i]]
          /\ UNCHANGED <<table, refused>>
      BY <2>1, <2>5 DEF ReceiveFragment
    <3>2. \A i \in o .. o + Len(BytesToWrite) - 1 : BytesToWrite[i - o + 1] \in Bytes
      BY <2>2, <2>3, ElementOfSeq
    <3>3. buffer' \in [0..MaxLength - 1 -> Bytes]
      BY <3>1, <3>2, <1>1
    <3> QED
      BY <3>1, <3>3, <2>1, <1>1
  <2> QED
    BY <2>4, <2>5
<1> QED
  BY <1>2, <1>3, <1>4 DEF Receive

(* A packet that was written or given up moves the write on, starts it over *)
(* or ends it.                                                              *)
LEMMA PacketEffect ==
  ASSUME ReadInv, pc = "write", NEW rc \in {"OK", "RETRIES", "BUSY"}, PacketReturns(rc)
  PROVE  WriteStep
<1>1. /\ call.kind \in {"table", "register"}
      /\ call.kind = "table" => call.new \in Tables /\ ofs <= Len(call.new)
      /\ ofs \in Nat /\ accumulator \in Seq(Bytes)
      /\ tries \in 0..MaxReadTries + MaxWriteTries /\ packet_tries \in 0..MaxPacketTries
  BY DEF ReadInv, TypeOK, CallMakesSense, OffsetInTable
<1>2. /\ MaxReadTries \in Nat \ {0} /\ MaxWriteTries \in Nat \ {0}
      /\ MaxPacketTries \in Nat \ {0}
      /\ 0 \in 0..MaxPacketTries /\ 0 \in 0..MaxReadTries + MaxWriteTries
  BY VcpAccessAssumption
<1>3. ASSUME NEW s \in {"OK", "RETRIES", "BUSY"}, WriteReturns(s)
      PROVE  WriteStep
  <2>1. CASE s = "OK" /\ call.verified /\ call.kind = "table"
    <3>1. pc' = "read" /\ StartTry(0) /\ UNCHANGED outcome
      BY <1>3, <2>1 DEF WriteReturns
    <3>2. WriteLoopType
      BY <3>1, <1>2, EmptySeq DEF StartTry, WriteLoopType
    <3> QED
      BY <3>1, <3>2, <2>1 DEF StartTry, VerificationBegins, WriteStep
  <2>2. CASE ~(s = "OK" /\ call.verified /\ call.kind = "table")
    <3>1. Return(s, None)
      BY <1>3, <2>2 DEF WriteReturns
    <3> QED
      BY <3>1, <2>2 DEF Return, WriteDone, WriteStep
  <2> QED
    BY <2>1, <2>2
<1>4. CASE call.kind = "register"
  BY <1>4, <1>3 DEF PacketReturns
<1>5. CASE call.kind = "table" /\ rc # "OK"
  <2>1. CASE tries + 1 < MaxWriteTries
    <3>1. StartTry(tries + 1) /\ UNCHANGED <<pc, outcome>>
      BY <1>5, <2>1 DEF PacketReturns
    <3>2. tries + 1 \in 0..MaxReadTries + MaxWriteTries
      BY <2>1, <1>1, <1>2
    <3>3. WriteLoopType
      BY <3>1, <3>2, <1>2, EmptySeq DEF StartTry, WriteLoopType
    <3>4. ofs' = 0 /\ Len(call.new) \in Nat
      BY <3>1, <1>1, <1>5, VcpAccessAssumption, LenProperties DEF StartTry
    <3> QED
      BY <3>1, <3>3, <3>4 DEF WriteGoesOn, WriteStep
  <2>2. CASE ~(tries + 1 < MaxWriteTries)
    BY <1>5, <2>2, <1>3 DEF PacketReturns
  <2> QED
    BY <2>1, <2>2
<1>6. CASE call.kind = "table" /\ rc = "OK" /\ BytesToWrite = <<>>
  BY <1>6, <1>3 DEF PacketReturns
<1>7. CASE call.kind = "table" /\ rc = "OK" /\ BytesToWrite # <<>>
  <2>1. /\ ofs' = ofs + Len(BytesToWrite)
        /\ packet_tries' = 0
        /\ UNCHANGED <<pc, accumulator, tries, outcome>>
    BY <1>7 DEF PacketReturns
  <2>2. ofs' \in Nat /\ ofs' <= Len(call.new)
    BY <2>1, <1>1, <1>7, FragmentToWrite DEF ReadInv
  <2>3. WriteLoopType
    BY <2>1, <2>2, <1>1, <1>2 DEF WriteLoopType
  <2> QED
    BY <2>1, <2>2, <2>3 DEF WriteGoesOn, WriteStep
<1> QED
  BY <1>1, <1>4, <1>5, <1>6, <1>7

(* Every action of a write is such a step.                                  *)
LEMMA WriteActionEffect ==
  ASSUME ReadInv, WriteSucceeds \/ WriteFails \/ WriteBusy
  PROVE  /\ WriteStep
         /\ Receive \/ NotReceived
         /\ pc = "write" /\ UNCHANGED <<verify, call>>
<1>1. pc = "write" /\ UNCHANGED <<verify, call>> /\ (Receive \/ NotReceived)
  BY DEF WriteSucceeds, WriteFails, WriteBusy
<1>2. CASE WriteSucceeds
  BY <1>1, <1>2, PacketEffect DEF WriteSucceeds
<1>3. CASE WriteFails
  <2>1. CASE packet_tries + 1 < MaxPacketTries
    <3>1. /\ packet_tries' = packet_tries + 1
          /\ UNCHANGED <<pc, ofs, accumulator, tries, outcome>>
      BY <1>3, <2>1 DEF WriteFails
    <3>2. packet_tries + 1 \in 0..MaxPacketTries
      BY <2>1, VcpAccessAssumption DEF ReadInv, TypeOK
    <3>3. WriteLoopType
      BY <3>1, <3>2 DEF WriteLoopType, ReadInv, TypeOK
    <3>4. call.kind = "table" => ofs' <= Len(call.new)
      BY <3>1, <1>1 DEF ReadInv, OffsetInTable
    <3> QED
      BY <3>1, <3>3, <3>4, <1>1 DEF WriteGoesOn, WriteStep
  <2>2. CASE ~(packet_tries + 1 < MaxPacketTries)
    <3>1. PacketReturns("RETRIES")
      BY <1>3, <2>2 DEF WriteFails
    <3> QED
      BY <3>1, <1>1, PacketEffect
  <2> QED
    BY <2>1, <2>2, <1>1
<1>4. CASE WriteBusy
  <2>1. CASE packet_tries = 0
    <3>1. PacketReturns("BUSY")
      BY <1>4, <2>1 DEF WriteBusy
    <3> QED
      BY <3>1, <1>1, PacketEffect
  <2>2. CASE packet_tries # 0
    <3>1. pc' = "aborted" /\ UNCHANGED <<loop, outcome>>
      BY <1>4, <2>2 DEF WriteBusy
    <3> QED
      BY <3>1, <1>1 DEF WriteAborts, WriteStep
  <2> QED
    BY <2>1, <2>2, <1>1
<1> QED
  BY <1>1, <1>2, <1>3, <1>4

(* A step of a write keeps the invariant of reads.                          *)
LEMMA WriteStepKeeps ==
  ASSUME ReadInv, pc = "write", WriteStep, Receive \/ NotReceived,
         UNCHANGED <<verify, call>>
  PROVE  ReadInv'
<1>1. /\ table' \in Seq(Bytes) /\ Len(table') <= MaxLength
      /\ register' \in Registers
      /\ buffer' \in [0..MaxLength - 1 -> Bytes]
      /\ answer' = NoAnswer \/ (answer' = answer /\ table' = table)
      /\ refused' \in BOOLEAN
  BY ReceiveKeepsTypes
<1>2. call.op = "set"
  BY DEF ReadInv, CallMakesSense
<1>3. TypeOK'
  <2>1. answer' \in [kind : Kinds \cup {"none"}, ofs : Nat, bytes : Seq(Bytes)]
    <3>1. NoAnswer \in [kind : Kinds \cup {"none"}, ofs : Nat, bytes : Seq(Bytes)]
      BY EmptySeq DEF NoAnswer
    <3> QED
      BY <3>1, <1>1 DEF ReadInv, TypeOK
  <2>2. /\ verify' \in BOOLEAN
        /\ call' \in [op : {"none", "get", "set"}, kind : Kinds,
                      new : Tables \cup Registers \cup {None}, verified : BOOLEAN]
    BY DEF ReadInv, TypeOK
  <2>3. pc' \in {"idle", "read", "write", "aborted"}
    BY DEF WriteStep, WriteGoesOn, VerificationBegins, WriteDone, WriteAborts
  <2>4. WriteLoopType
    <3>1. UNCHANGED loop => WriteLoopType
      BY DEF loop, WriteLoopType, ReadInv, TypeOK
    <3> QED
      BY <3>1 DEF WriteStep, WriteGoesOn, VerificationBegins, WriteDone, WriteAborts
  <2>5. status' \in Statuses
    <3>1. CASE WriteDone
      BY <3>1 DEF WriteDone, Statuses
    <3>2. CASE ~WriteDone
      <4>1. status' = status
        BY <3>2 DEF WriteStep, WriteGoesOn, VerificationBegins, WriteAborts, outcome
      <4> QED
        BY <4>1 DEF ReadInv, TypeOK
    <3> QED
      BY <3>1, <3>2
  <2> QED
    BY <1>1, <2>1, <2>2, <2>3, <2>4, <2>5 DEF TypeOK, WriteLoopType
<1>4. CallMakesSense'
  <2>1. CASE pc' = "read"
    <3>1. call.kind = "table" /\ call.verified
      BY <2>1 DEF WriteStep, WriteGoesOn, VerificationBegins, WriteDone, WriteAborts
    <3> QED
      BY <3>1, <2>1, <1>2 DEF ReadInv, CallMakesSense
  <2>2. CASE pc' # "read"
    BY <2>2 DEF ReadInv, CallMakesSense
  <2> QED
    BY <2>1, <2>2
<1>5. AnswerIsTrue'
  <2>1. CASE answer' = NoAnswer
    BY <2>1 DEF AnswerIsTrue, NoAnswer
  <2>2. CASE answer' = answer /\ table' = table
    BY <2>2 DEF ReadInv, AnswerIsTrue, TrueFragment, Reported
  <2> QED
    BY <2>1, <2>2, <1>1
<1>6. OffsetInTable'
  BY DEF OffsetInTable, WriteStep, WriteGoesOn, VerificationBegins, WriteDone, WriteAborts
<1>7. ReadSoFar'
  <2> SUFFICES ASSUME pc' = "read"
               PROVE  /\ ofs' <= Len(Reported(call.kind)')
                      /\ accumulator' = SubSeq(Reported(call.kind)', 1, ofs')
    BY DEF ReadSoFar, Reported
  <2>1. ofs' = 0 /\ accumulator' = <<>> /\ call.kind = "table"
    BY DEF WriteStep, WriteGoesOn, VerificationBegins, WriteDone, WriteAborts
  <2>2. Len(Reported(call.kind)') \in Nat
    BY <2>1, <1>1, LenProperties DEF Reported
  <2>3. SubSeq(Reported(call.kind)', 1, 0) = <<>>
    BY SubSeqEmpty
  <2> QED
    BY <2>1, <2>2, <2>3
<1>8. WholeOrError'
  BY <1>2 DEF WholeOrError, Returned
<1>9. VerifiedTable'
  BY DEF VerifiedTable, Returned, WriteStep, WriteGoesOn, VerificationBegins, WriteDone,
         WriteAborts
<1> QED
  BY <1>3, <1>4, <1>5, <1>6, <1>7, <1>8, <1>9 DEF ReadInv

----------------------------------------------------------------------------
(***************************************************************************)
(* Reads are whole, for any tables.                                        *)
(***************************************************************************)

(* The invariant of reads holds initially.                                  *)
LEMMA ReadInvInit == Init => ReadInv
<1> SUFFICES ASSUME Init PROVE ReadInv
  OBVIOUS
<1>1. TypeOK
  <2>1. table \in Seq(Bytes) /\ Len(table) <= MaxLength /\ register \in Registers
    BY VcpAccessAssumption DEF Init
  <2>2. buffer \in [0..MaxLength - 1 -> Bytes]
    BY DEF Init
  <2>3. answer \in [kind : Kinds \cup {"none"}, ofs : Nat, bytes : Seq(Bytes)]
    BY EmptySeq DEF Init, NoAnswer
  <2>4. call \in [op : {"none", "get", "set"}, kind : Kinds,
                  new : Tables \cup Registers \cup {None}, verified : BOOLEAN]
    BY DEF Init, NoCall, Kinds
  <2>5. /\ verify \in BOOLEAN /\ refused \in BOOLEAN /\ pc = "idle" /\ status \in Statuses
        /\ ofs \in Nat /\ accumulator \in Seq(Bytes)
    BY EmptySeq DEF Init, Statuses
  <2>6. tries \in 0..MaxReadTries + MaxWriteTries /\ packet_tries \in 0..MaxPacketTries
    BY VcpAccessAssumption DEF Init
  <2> QED
    BY <2>1, <2>2, <2>3, <2>4, <2>5, <2>6 DEF TypeOK
<1>2. AnswerIsTrue
  BY DEF Init, NoAnswer, AnswerIsTrue
<1>3. CallMakesSense /\ OffsetInTable /\ ReadSoFar /\ WholeOrError /\ VerifiedTable
  BY DEF Init, NoCall, CallMakesSense, OffsetInTable, ReadSoFar, WholeOrError, VerifiedTable,
         Returned
<1> QED
  BY <1>1, <1>2, <1>3 DEF ReadInv

(* A call that starts, or none after a restart, keeps the invariant.        *)
LEMMA StartKeeps ==
  ASSUME ReadInv,
         StartTry(0), status' = "NONE", refused' \in BOOLEAN, verify' \in BOOLEAN,
         UNCHANGED monitor,
         call' \in [op : {"none", "get", "set"}, kind : Kinds,
                    new : Tables \cup Registers \cup {None}, verified : BOOLEAN],
         pc' \in {"idle", "read", "write"},
         pc' = "read" => call'.op = "get" /\ call'.kind \in {"table", "capabilities"},
         pc' = "write" => call'.op = "set" /\ call'.kind \in {"table", "register"},
         call'.op = "set" /\ call'.kind = "table" => call'.new \in Tables,
         call'.op = "set" /\ call'.kind = "register" => call'.new \in Registers
  PROVE  ReadInv'
<1>1. TypeOK'
  <2>1. /\ table' \in Seq(Bytes) /\ Len(table') <= MaxLength
        /\ register' \in Registers
        /\ buffer' \in [0..MaxLength - 1 -> Bytes]
        /\ answer' \in [kind : Kinds \cup {"none"}, ofs : Nat, bytes : Seq(Bytes)]
    BY DEF ReadInv, TypeOK, monitor
  <2>2. ofs' \in Nat /\ accumulator' \in Seq(Bytes) /\ status' \in Statuses
    BY EmptySeq DEF StartTry, Statuses
  <2>3. tries' \in 0..MaxReadTries + MaxWriteTries /\ packet_tries' \in 0..MaxPacketTries
    BY VcpAccessAssumption DEF StartTry
  <2> QED
    BY <2>1, <2>2, <2>3 DEF TypeOK
<1>2. CallMakesSense'
  BY DEF CallMakesSense
<1>3. AnswerIsTrue'
  BY DEF ReadInv, AnswerIsTrue, TrueFragment, Reported, monitor
<1>4. OffsetInTable'
  <2> SUFFICES ASSUME pc' = "write", call'.kind = "table" PROVE 0 <= Len(call'.new)
    BY DEF OffsetInTable, StartTry
  <2> QED
    BY VcpAccessAssumption, LenProperties
<1>5. ReadSoFar'
  <2> SUFFICES ASSUME pc' = "read"
               PROVE  /\ 0 <= Len(Reported(call.kind)')
                      /\ <<>> = SubSeq(Reported(call.kind)', 1, 0)
    BY DEF ReadSoFar, StartTry, Reported
  <2>1. Reported(call.kind)' \in Seq(Bytes)
    BY <1>1, VcpAccessAssumption DEF Reported, TypeOK
  <2> QED
    BY <2>1, LenProperties, SubSeqEmpty
<1>6. WholeOrError' /\ VerifiedTable'
  BY DEF WholeOrError, VerifiedTable
<1> QED
  BY <1>1, <1>2, <1>3, <1>4, <1>5, <1>6 DEF ReadInv

(* Every step keeps the invariant of reads.                                 *)
LEMMA ReadInvStep == ReadInv /\ [Next]_vars => ReadInv'
<1> SUFFICES ASSUME ReadInv, [Next]_vars PROVE ReadInv'
  OBVIOUS
<1>1. ASSUME NEW kind \in {"table", "capabilities"}, Get(kind) PROVE ReadInv'
  <2> DEFINE c == [op |-> "get", kind |-> kind, new |-> None, verified |-> FALSE]
  <2>1. /\ call' = c /\ pc' = "read" /\ StartTry(0) /\ refused' = FALSE /\ status' = "NONE"
        /\ UNCHANGED monitor /\ verify' = verify
    BY <1>1 DEF Get, StartCall
  <2>2. /\ c \in [op : {"none", "get", "set"}, kind : Kinds,
                  new : Tables \cup Registers \cup {None}, verified : BOOLEAN]
        /\ c.op = "get" /\ c.kind = kind
    BY DEF Kinds
  <2>3. verify' \in BOOLEAN
    BY <2>1 DEF ReadInv, TypeOK
  <2> HIDE DEF c
  <2> QED
    BY <2>1, <2>2, <2>3, StartKeeps
<1>2. ASSUME NEW kind \in {"table", "register"},
             NEW new \in IF kind = "table" THEN Tables ELSE Registers,
             NEW rereadable \in BOOLEAN, Set(kind, new, rereadable)
      PROVE  ReadInv'
  <2> DEFINE c == [op |-> "set", kind |-> kind, new |-> new,
                   verified |-> verify /\ rereadable]
  <2>1. /\ call' = c /\ pc' = "write" /\ StartTry(0) /\ refused' = FALSE /\ status' = "NONE"
        /\ UNCHANGED monitor /\ verify' = verify
    BY <1>2 DEF Set, StartCall
  <2>2. /\ c \in [op : {"none", "get", "set"}, kind : Kinds,
                  new : Tables \cup Registers \cup {None}, verified : BOOLEAN]
        /\ c.op = "set" /\ c.kind = kind /\ c.new = new
    <3>1. (verify /\ rereadable) \in BOOLEAN
      OBVIOUS
    <3>2. new \in Tables \cup Registers \cup {None}
      OBVIOUS
    <3> QED
      BY <3>1, <3>2 DEF Kinds
  <2>3. verify' \in BOOLEAN
    BY <2>1 DEF ReadInv, TypeOK
  <2> HIDE DEF c
  <2> QED
    BY <2>1, <2>2, <2>3, StartKeeps
<1>3. ASSUME NEW onoff \in BOOLEAN, SetVerify(onoff) PROVE ReadInv'
  BY <1>3 DEF SetVerify, ReadInv, TypeOK, CallMakesSense, AnswerIsTrue, TrueFragment, Reported,
     OffsetInTable, ReadSoFar, WholeOrError, VerifiedTable, Returned, monitor, loop, outcome
<1>4. CASE ReadFragmentArrives
  <2>1. /\ pc = "read" /\ FragmentRead(answer') /\ answer' \in AnswersAt(ofs)
        /\ UNCHANGED <<table, register, buffer, verify, call, refused>>
    BY <1>4 DEF ReadFragmentArrives
  <2>2. call.kind \in {"table", "capabilities"} /\ ofs <= Len(Reported(call.kind))
    BY <2>1 DEF ReadInv, CallMakesSense, ReadSoFar
  <2>3. TrueFragment(answer') /\ answer'.kind = call.kind /\ answer' \in AnswerType
    BY <2>1, <2>2, AnswersAreTrue DEF ReadInv, AnswerType
  <2>4. ReadStep
    BY <2>1, <2>3, FragmentEffect
  <2>5. AnswerIsTrue'
    BY <2>1, <2>3 DEF AnswerIsTrue, TrueFragment, Reported
  <2> QED
    BY <2>1, <2>3, <2>4, <2>5, ReadStepKeeps
<1>5. CASE StaleFragmentArrives
  <2>1. /\ pc = "read" /\ FragmentRead(answer) /\ answer.kind = call.kind
        /\ UNCHANGED <<monitor, verify, call, refused>>
    BY <1>5 DEF StaleFragmentArrives
  <2>2. TrueFragment(answer) /\ answer \in AnswerType
    BY <2>1 DEF ReadInv, TypeOK, AnswerType, CallMakesSense, AnswerIsTrue
  <2>3. ReadStep
    BY <2>1, <2>2, FragmentEffect
  <2>4. AnswerIsTrue'
    BY <2>1 DEF ReadInv, AnswerIsTrue, TrueFragment, Reported, monitor
  <2> QED
    BY <2>1, <2>2, <2>3, <2>4, ReadStepKeeps DEF monitor
<1>6. CASE ReadExchangeFails
  <2>1. PICK rc \in {"NULL", "NULLS", "ZERO", "BADF", "DATA"} : ReadTryFailed(rc)
    BY <1>6 DEF ReadExchangeFails
  <2>2. /\ pc = "read" /\ answer' \in AnswersAt(ofs) \cup {answer}
        /\ UNCHANGED <<table, register, buffer, verify, call, refused>>
    BY <1>6 DEF ReadExchangeFails
  <2>3. call.kind \in {"table", "capabilities"} /\ ofs <= Len(Reported(call.kind))
    BY <2>2 DEF ReadInv, CallMakesSense, ReadSoFar
  <2>4. ReadStep
    BY <2>1, <2>2, FailedTryEffect DEF ReadInv, ReadStep
  <2>5. answer' \in AnswerType /\ AnswerIsTrue'
    <3>1. CASE answer' \in AnswersAt(ofs)
      <4>1. TrueFragment(answer') /\ answer' \in AnswerType
        BY <3>1, <2>3, AnswersAreTrue DEF ReadInv, AnswerType
      <4> QED
        BY <4>1, <2>2 DEF AnswerIsTrue, TrueFragment, Reported
    <3>2. CASE answer' = answer
      BY <3>2, <2>2 DEF ReadInv, TypeOK, AnswerType, AnswerIsTrue, TrueFragment, Reported
    <3> QED
      BY <3>1, <3>2, <2>2
  <2> QED
    BY <2>2, <2>4, <2>5, ReadStepKeeps
<1>7. CASE WriteSucceeds \/ WriteFails \/ WriteBusy
  BY <1>7, WriteActionEffect, WriteStepKeeps
<1>8. CASE Restart
  <2>1. /\ pc' = "idle" /\ call' = NoCall /\ verify' = TRUE /\ StartTry(0)
        /\ status' = "NONE" /\ refused' = FALSE /\ UNCHANGED monitor
    BY <1>8 DEF Restart
  <2>2. /\ NoCall \in [op : {"none", "get", "set"}, kind : Kinds,
                       new : Tables \cup Registers \cup {None}, verified : BOOLEAN]
        /\ NoCall.op = "none"
    BY DEF NoCall, Kinds
  <2> QED
    BY <2>1, <2>2, StartKeeps
<1>9. CASE UNCHANGED vars
  BY <1>9 DEF ReadInv, TypeOK, CallMakesSense, AnswerIsTrue, TrueFragment, Reported,
     OffsetInTable, ReadSoFar, WholeOrError, VerifiedTable, Returned, vars, monitor, loop,
     outcome
<1> QED
  BY <1>1, <1>2, <1>3, <1>4, <1>5, <1>6, <1>7, <1>8, <1>9 DEF Next, Transfer

(* The invariant of reads, and with it the types.                           *)
THEOREM ReadInvHolds == Spec => []ReadInv
BY ReadInvInit, ReadInvStep, PTL DEF Spec

(* A read that succeeds returns the whole value and nothing else, however   *)
(* long it is, however it was cut, retried or answered with an old fragment *)
(* (try_multi_part_read).                                                   *)
THEOREM ReadsAreWhole == Spec => []WholeOrError
<1>1. ReadInv => WholeOrError
  BY DEF ReadInv
<1> QED
  BY <1>1, ReadInvHolds, PTL

(* A verified set of a table returns success only for what the monitor has  *)
(* and DDCRC_VERIFY only for another value (ddc_set_vcp_value).             *)
THEOREM VerificationHolds == Spec => []VerifiedTable
<1>1. ReadInv => VerifiedTable
  BY DEF ReadInv
<1> QED
  BY <1>1, ReadInvHolds, PTL

----------------------------------------------------------------------------
(***************************************************************************)
(* Writes are whole, when every offset fits in one byte.                   *)
(***************************************************************************)

(* A write ends only when its last packet succeeds, moves on only when a    *)
(* packet does, and otherwise starts over or fails.                         *)
LEMMA WriteProgress ==
  ASSUME ReadInv, WriteSucceeds \/ WriteFails \/ WriteBusy
  PROVE  \/ pc' = "write" /\ ofs' \in {0, ofs}
         \/ /\ pc' = "write" /\ call.kind = "table" /\ WriteSucceeds /\ BytesToWrite # <<>>
            /\ ofs' = ofs + Len(BytesToWrite)
         \/ /\ pc' \in {"read", "idle"} /\ WriteSucceeds
            /\ call.kind = "table" => BytesToWrite = <<>>
         \/ pc' = "idle" /\ status' # "OK"
         \/ pc' = "aborted"
<1>1. pc = "write" /\ call.kind \in {"table", "register"}
  BY DEF WriteSucceeds, WriteFails, WriteBusy, ReadInv, CallMakesSense
<1>2. ASSUME NEW rc \in {"RETRIES", "BUSY"}, PacketReturns(rc)
      PROVE  \/ pc' = "write" /\ ofs' = 0
             \/ pc' = "idle" /\ status' # "OK"
  <2>1. CASE call.kind = "register"
    BY <1>2, <2>1 DEF PacketReturns, WriteReturns, Return
  <2>2. CASE call.kind = "table" /\ tries + 1 < MaxWriteTries
    BY <1>1, <1>2, <2>2 DEF PacketReturns, StartTry
  <2>3. CASE call.kind = "table" /\ ~(tries + 1 < MaxWriteTries)
    BY <1>2, <2>3 DEF PacketReturns, WriteReturns, Return
  <2> QED
    BY <2>1, <2>2, <2>3, <1>1
<1>3. CASE WriteSucceeds
  <2>1. PacketReturns("OK")
    BY <1>3 DEF WriteSucceeds
  <2>2. WriteReturns("OK") => pc' \in {"read", "idle"}
    BY DEF WriteReturns, Return
  <2>3. CASE call.kind = "register"
    BY <2>1, <2>2, <2>3, <1>3 DEF PacketReturns
  <2>4. CASE call.kind = "table" /\ BytesToWrite = <<>>
    BY <2>1, <2>2, <2>4, <1>3 DEF PacketReturns
  <2>5. CASE call.kind = "table" /\ BytesToWrite # <<>>
    BY <2>1, <2>5, <1>1, <1>3 DEF PacketReturns
  <2> QED
    BY <2>3, <2>4, <2>5, <1>1
<1>4. CASE WriteFails
  <2>1. CASE packet_tries + 1 < MaxPacketTries
    BY <1>1, <1>4, <2>1 DEF WriteFails
  <2>2. CASE ~(packet_tries + 1 < MaxPacketTries)
    BY <1>2, <1>4, <2>2 DEF WriteFails
  <2> QED
    BY <2>1, <2>2
<1>5. CASE WriteBusy
  BY <1>2, <1>5 DEF WriteBusy
<1> QED
  BY <1>3, <1>4, <1>5

(* What a packet of a table does to the monitor: the empty fragment makes   *)
(* the table the one being set, or is ignored; any other adds to what the   *)
(* monitor has got.                                                         *)
LEMMA ReceiveTable ==
  ASSUME ShortTables, ReadInv, WrittenSoFar, pc = "write", call.kind = "table", Receive
  PROVE  /\ BytesToWrite = <<>> =>
              \/ table' = call.new /\ UNCHANGED <<buffer, refused>>
              \/ refused' = TRUE /\ UNCHANGED <<table, buffer>>
         /\ BytesToWrite # <<>> =>
              /\ UNCHANGED <<table, refused>>
              /\ \A i \in 1 .. ofs + Len(BytesToWrite) : buffer'[i - 1] = call.new[i]
<1>1. /\ call.new \in Tables /\ ofs \in Nat /\ ofs <= Len(call.new)
      /\ buffer \in [0..MaxLength - 1 -> Bytes]
      /\ \A i \in 1..ofs : buffer[i - 1] = call.new[i]
  BY DEF ReadInv, TypeOK, CallMakesSense, OffsetInTable, WrittenSoFar
<1>2. /\ call.new \in Seq(Bytes) /\ Len(call.new) \in Nat /\ Len(call.new) <= MaxLength
      /\ MaxLength \in Nat /\ OffsetBase \in Nat /\ Len(call.new) < OffsetBase
  BY <1>1, VcpAccessAssumption, LenProperties DEF ShortTables
<1>3. OffsetSent(ofs) = ofs
  <2>1. ofs < OffsetBase
    BY <1>1, <1>2
  <2> QED
    BY <2>1, <1>1, OffsetSentShort
<1>4. ReceiveFragment(ofs, BytesToWrite)
  BY <1>3 DEF Receive
<1>5. /\ BytesToWrite \in Seq(Bytes) /\ Len(BytesToWrite) \in Nat
      /\ ofs + Len(BytesToWrite) <= Len(call.new)
      /\ \A k \in 1..Len(BytesToWrite) : BytesToWrite[k] = call.new[ofs + k]
      /\ BytesToWrite = <<>> => ofs = Len(call.new)
  BY <1>1, FragmentToWrite DEF ReadInv
<1>6. CASE BytesToWrite = <<>>
  <2>1. \/ table' = [i \in 1..ofs |-> buffer[i - 1]] /\ UNCHANGED <<buffer, refused>>
        \/ refused' = TRUE /\ UNCHANGED <<table, buffer>>
    BY <1>4, <1>6 DEF ReceiveFragment
  <2>2. [i \in 1..ofs |-> buffer[i - 1]] = call.new
    <3>1. call.new \in [1..Len(call.new) -> Bytes] /\ ofs = Len(call.new)
      BY <1>2, <1>5, <1>6, LenProperties
    <3>2. call.new = [i \in 1..ofs |-> call.new[i]]
      BY <3>1
    <3> QED
      BY <3>2, <1>1
  <2> QED
    BY <2>1, <2>2, <1>6
<1>7. CASE BytesToWrite # <<>>
  <2> DEFINE n == Len(BytesToWrite)
  <2>1. /\ buffer' = [i \in DOMAIN buffer |->
                       IF i \in ofs .. ofs + n - 1 THEN BytesToWrite[i - ofs + 1]
                                                   ELSE buffer[i]]
        /\ UNCHANGED <<table, refused>>
    BY <1>4, <1>7 DEF ReceiveFragment
  <2>2. n \in Nat /\ ofs + n <= Len(call.new)
    BY <1>5
  <2> HIDE DEF n
  <2>3. ASSUME NEW i \in 1 .. ofs + n PROVE buffer'[i - 1] = call.new[i]
    <3>1. i \in Int /\ 1 <= i /\ i <= ofs + n /\ i - 1 \in 0..MaxLength - 1
      BY <2>2, <1>1, <1>2
    <3>2. buffer'[i - 1] = IF i - 1 \in ofs .. ofs + n - 1 THEN BytesToWrite[i - 1 - ofs + 1]
                                                         ELSE buffer[i - 1]
      BY <2>1, <3>1, <1>1
    <3>3. CASE i <= ofs
      <4>1. ~(i - 1 \in ofs .. ofs + n - 1) /\ i \in 1..ofs
        BY <3>1, <3>3, <1>1
      <4> QED
        BY <4>1, <3>2, <1>1
    <3>4. CASE i > ofs
      <4> DEFINE k == i - ofs
      <4>1. /\ i - 1 \in ofs .. ofs + n - 1 /\ i - 1 - ofs + 1 = k
            /\ k \in 1..n /\ ofs + k = i
        BY <3>1, <3>4, <1>1, <2>2
      <4>2. BytesToWrite[k] = call.new[ofs + k]
        BY <4>1, <1>5 DEF n
      <4> QED
        BY <4>1, <4>2, <3>2
    <3> QED
      BY <3>1, <3>3, <3>4, <1>1
  <2> QED
    BY <2>1, <2>3, <1>7 DEF n
<1> QED
  BY <1>6, <1>7

(* What a packet does to the monitor, for any feature.                      *)
LEMMA ReceiveSets ==
  ASSUME ShortTables, ReadInv, WrittenSoFar, pc = "write", Receive \/ NotReceived
  PROVE  /\ table' # table => call.kind = "table" /\ table' = call.new
         /\ ofs > 0 /\ call.kind = "table" =>
              \A i \in 1..ofs : buffer'[i - 1] = call.new[i]
         /\ refused => refused'
<1>1. call.kind \in {"table", "register"} /\ ofs \in Nat
  BY DEF ReadInv, CallMakesSense, TypeOK
<1>2. CASE NotReceived
  BY <1>2 DEF NotReceived, monitor, WrittenSoFar
<1>3. CASE Receive /\ call.kind = "register"
  BY <1>3 DEF Receive
<1>4. CASE Receive /\ call.kind = "table"
  <2>1. CASE BytesToWrite = <<>>
    <3>1. \/ table' = call.new /\ UNCHANGED <<buffer, refused>>
          \/ refused' = TRUE /\ UNCHANGED <<table, buffer>>
      BY <1>4, <2>1, ReceiveTable
    <3>2. \A i \in 1..ofs : buffer[i - 1] = call.new[i]
      BY <1>4 DEF WrittenSoFar
    <3> QED
      BY <3>1, <3>2, <1>4
  <2>2. CASE BytesToWrite # <<>>
    <3>1. Len(BytesToWrite) \in Nat
      BY <1>4, FragmentToWrite DEF ReadInv, CallMakesSense, OffsetInTable
    <3>2. \A i \in 1..ofs : i \in 1 .. ofs + Len(BytesToWrite)
      BY <3>1, <1>1
    <3> QED
      BY <1>4, <2>2, <3>2, ReceiveTable
  <2> QED
    BY <2>1, <2>2
<1> QED
  BY <1>1, <1>2, <1>3, <1>4

(* A step of a write keeps what is known of writes, and changes the table   *)
(* only to the value being set.                                             *)
LEMMA WriteStepSets ==
  ASSUME ShortTables, ReadInv, WriteInv, WriteSucceeds \/ WriteFails \/ WriteBusy
  PROVE  /\ WriteInv'
         /\ table' # table => call.op = "set" /\ call.kind = "table" /\ table' = call.new
<1>1. /\ pc = "write" /\ UNCHANGED <<verify, call>> /\ (Receive \/ NotReceived)
      /\ call.kind \in {"table", "register"} /\ call.op = "set"
      /\ call.kind = "table" => call.new \in Tables /\ ofs <= Len(call.new)
      /\ ofs \in Nat
  BY WriteActionEffect DEF ReadInv, CallMakesSense, OffsetInTable, TypeOK
<1>2. WrittenSoFar
  BY DEF WriteInv
<1>3. /\ table' # table => call.kind = "table" /\ table' = call.new
      /\ ofs > 0 /\ call.kind = "table" => \A i \in 1..ofs : buffer'[i - 1] = call.new[i]
  BY <1>1, <1>2, ReceiveSets
<1>4. WriteSucceeds => Receive
  BY DEF WriteSucceeds
<1>5. WrittenSoFar'
  <2> SUFFICES ASSUME pc' = "write", call.kind = "table"
               PROVE  \A i \in 1..ofs' : buffer'[i - 1] = call.new[i]
    BY <1>1 DEF WrittenSoFar
  <2>1. \/ ofs' \in {0, ofs}
        \/ WriteSucceeds /\ BytesToWrite # <<>> /\ ofs' = ofs + Len(BytesToWrite)
    BY WriteProgress
  <2>2. CASE ofs' = 0
    BY <2>2
  <2>3. CASE ofs' = ofs /\ ofs > 0
    BY <2>3, <1>3
  <2>4. CASE WriteSucceeds /\ BytesToWrite # <<>> /\ ofs' = ofs + Len(BytesToWrite)
    BY <2>4, <1>1, <1>2, <1>4, ReceiveTable
  <2> QED
    BY <2>1, <2>2, <2>3, <2>4, <1>1
<1>6. ASSUME pc' \in {"read", "idle"}, WriteSucceeds,
             call.kind = "table" => BytesToWrite = <<>>, ~refused'
      PROVE  /\ call.kind = "table" => table' = call.new
             /\ call.kind = "register" => register' = call.new
  <2>1. Receive
    BY <1>4, <1>6
  <2>2. CASE call.kind = "table"
    BY <2>1, <2>2, <1>1, <1>2, <1>6, ReceiveTable
  <2>3. CASE call.kind = "register"
    BY <2>1, <2>3, <1>6 DEF Receive
  <2> QED
    BY <2>2, <2>3, <1>1
<1>7. pc' = "read" => WriteSucceeds /\ (call.kind = "table" => BytesToWrite = <<>>)
  BY WriteProgress
<1>8. pc' = "idle" /\ status' = "OK" =>
        WriteSucceeds /\ (call.kind = "table" => BytesToWrite = <<>>)
  BY WriteProgress
<1>9. SetBeforeRead'
  <2>1. pc' = "read" => call.kind = "table"
    BY <1>1, WriteActionEffect
       DEF WriteStep, WriteGoesOn, VerificationBegins, WriteDone, WriteAborts
  <2> QED
    BY <2>1, <1>1, <1>6, <1>7 DEF SetBeforeRead
<1>10. SuccessMeansSet'
  BY <1>1, <1>6, <1>8 DEF SuccessMeansSet, Returned
<1> QED
  BY <1>1, <1>3, <1>5, <1>9, <1>10 DEF WriteInv

(* What every step does: it keeps the invariant of writes, and changes the  *)
(* table only to the value being set.                                       *)
LEMMA WriteInvStep ==
  ASSUME ShortTables, ReadInv, WriteInv, [Next]_vars
  PROVE  /\ WriteInv'
         /\ table' # table => call.op = "set" /\ call.kind = "table" /\ table' = call.new
<1>1. ASSUME NEW kind \in {"table", "capabilities"}, Get(kind)
      PROVE  WriteInv' /\ table' = table
  BY <1>1 DEF Get, StartCall, monitor, WriteInv, WrittenSoFar, SetBeforeRead, SuccessMeansSet,
     StartTry
<1>2. ASSUME NEW kind, NEW new, NEW rereadable, Set(kind, new, rereadable)
      PROVE  WriteInv' /\ table' = table
  <2>1. ofs' = 0 /\ pc' = "write" /\ status' = "NONE" /\ table' = table
    BY <1>2 DEF Set, StartCall, StartTry, monitor
  <2> QED
    BY <2>1 DEF WriteInv, WrittenSoFar, SetBeforeRead, SuccessMeansSet
<1>3. ASSUME NEW onoff, SetVerify(onoff) PROVE WriteInv' /\ table' = table
  BY <1>3 DEF SetVerify, monitor, loop, outcome, WriteInv, WrittenSoFar, SetBeforeRead,
     SuccessMeansSet, Returned
<1>4. CASE ReadFragmentArrives \/ StaleFragmentArrives \/ ReadExchangeFails
  <2>1. pc = "read" /\ UNCHANGED <<table, register, buffer, verify, call, refused>>
    BY <1>4 DEF ReadFragmentArrives, StaleFragmentArrives, ReadExchangeFails, monitor
  <2>2. ReadInv'
    BY ReadInvStep
  <2>3. call.op \in {"get", "set"} /\ (call.op = "set" => call.kind = "table")
    BY <2>1 DEF ReadInv, CallMakesSense
  <2>4. SetBeforeRead'
    BY <2>1 DEF WriteInv, SetBeforeRead
  <2>5. pc' # "write"
    <3>1. UNCHANGED pc => pc' # "write"
      BY <2>1
    <3>2. \A rc, v : Return(rc, v) => pc' # "write"
      BY DEF Return
    <3>3. \A rc, b : ReadReturns(rc, b) => pc' # "write"
      <4> SUFFICES ASSUME NEW rc, NEW b, ReadReturns(rc, b) PROVE pc' # "write"
        OBVIOUS
      <4> QED
        BY <2>3, <3>2 DEF ReadReturns
    <3>4. \A rc : ReadTryFailed(rc) => pc' # "write"
      BY <3>1, <3>3 DEF ReadTryFailed
    <3>5. \A f : FragmentRead(f) => pc' # "write"
      BY <3>1, <3>3, <3>4 DEF FragmentRead
    <3> QED
      BY <3>4, <3>5, <1>4 DEF ReadFragmentArrives, StaleFragmentArrives, ReadExchangeFails
  <2>6. SuccessMeansSet'
    <3> SUFFICES ASSUME pc' = "idle", status' = "OK", call.op = "set", ~refused
                 PROVE  table = call.new
      BY <2>1, <2>3 DEF SuccessMeansSet, Returned
    <3> QED
      BY <2>1 DEF WriteInv, SetBeforeRead
  <2> QED
    BY <2>1, <2>4, <2>5, <2>6 DEF WriteInv, WrittenSoFar
<1>5. CASE WriteSucceeds \/ WriteFails \/ WriteBusy
  BY <1>5, WriteStepSets
<1>6. CASE Restart
  <2>1. pc' = "idle" /\ status' = "NONE" /\ table' = table
    BY <1>6 DEF Restart, monitor
  <2> QED
    BY <2>1 DEF WriteInv, WrittenSoFar, SetBeforeRead, SuccessMeansSet
<1>7. CASE UNCHANGED vars
  BY <1>7 DEF vars, monitor, loop, outcome, WriteInv, WrittenSoFar, SetBeforeRead,
     SuccessMeansSet, Returned
<1> QED
  BY <1>1, <1>2, <1>3, <1>4, <1>5, <1>6, <1>7 DEF Next, Transfer

(* What is known of writes holds always.                                    *)
LEMMA WriteInvHolds == ASSUME ShortTables PROVE Spec => []WriteInv
<1>1. Init => WriteInv
  BY DEF Init, NoCall, WriteInv, WrittenSoFar, SetBeforeRead, SuccessMeansSet
<1>2. ReadInv /\ WriteInv /\ [Next]_vars => WriteInv'
  BY WriteInvStep
<1> QED
  BY <1>1, <1>2, ReadInvHolds, PTL DEF Spec

(* A set that returns success has set the value unless the monitor ignored  *)
(* it, and a verified one tells the truth even then (ddc_set_vcp_value,     *)
(* multi_part_write_with_retry, ddc_write_only_with_retry).                 *)
THEOREM SetsTellTheTruth == ASSUME ShortTables PROVE Spec => []SetTellsTheTruth
<1>1. ReadInv /\ WriteInv => SetTellsTheTruth
  BY DEF ReadInv, WriteInv, SetTellsTheTruth
<1> QED
  BY <1>1, ReadInvHolds, WriteInvHolds, PTL

(* The monitor's table changes only to the whole value being set, wherever  *)
(* a write fails, is repeated or is broken off (try_multi_part_write).      *)
THEOREM TablesAreSetWhole == ASSUME ShortTables PROVE Spec => TableSetWhole
<1>1. ReadInv /\ WriteInv /\ [Next]_vars =>
        [table' # table => call.op = "set" /\ call.kind = "table" /\ table' = call.new]_vars
  BY WriteInvStep
<1> QED
  BY <1>1, ReadInvHolds, WriteInvHolds, PTL DEF Spec, TableSetWhole

=============================================================================
