--------------------------- MODULE WriteReadProofs ---------------------------
(***************************************************************************)
(* Proofs about WriteRead and the dynamic sleep algorithm it drives, for   *)
(* any number of steps and tries, any floor, window and interval; and in   *)
(* the second part about Packets, the bytes an exchange sends and gets,    *)
(* for any features, values, offsets and fragments, any byte damaged in    *)
(* any way and anything on the bus after an answer.                        *)
(***************************************************************************)
EXTENDS WriteRead, Packets, FiniteSetTheorems, SequenceTheorems, TLAPS

\* What holds of the tries of the loop so far: each failed in a way that is
\* retried, there is one left, and the table in use is not a freed one,
\* which only a multiplier the user sets brings about.
LoopGoesOn ==
  /\ pc = "try" => ~detached
  /\ pc = "idle" => statuses = <<>>
  /\ Len(statuses) < MaxTries
  /\ \A i \in DOMAIN statuses : statuses[i] \in {"NULL", "DATA"}
  /\ NullCt(statuses) <= NullResponseMax
  /\ detached => user_step # NoStep

\* The per loop state is as dsa2_record_final leaves it until a try of an
\* operation with dynamic sleep fails, or a loop was left without it.
ResetUntilFailure ==
  ~detached /\ ~left_early /\ (statuses = <<>> \/ ~op.dynamic) =>
    /\ rtable.loop_step = rtable.cur_step
    /\ rtable.null_ct = 0
    /\ null_msg_ct = 0

\* The last try is made at the slowest step, unless the operation counts
\* Null Responses that may mean unsupported.
SlowestStepLast ==
  /\ pc = "try" /\ op.dynamic /\ ~op.null_means
  /\ MaxTries > 1 /\ Len(statuses) = MaxTries - 1
  => rtable.loop_step = StepLast

IInv ==
  /\ TypeOK
  /\ LoopGoesOn
  /\ StepOrder
  /\ ResetUntilFailure
  /\ SlowestStepLast
----------------------------------------------------------------------------
(* Least and Greatest return one of their arguments.                       *)
LEMMA LeastIs ==
  ASSUME NEW a \in Int, NEW b \in Int
  PROVE  /\ Least(a, b) \in {a, b} /\ Least(a, b) <= a /\ Least(a, b) <= b
         /\ Greatest(a, b) \in {a, b} /\ Greatest(a, b) >= a /\ Greatest(a, b) >= b
BY DEF Least, Greatest

(* dsa2_next_retry_step never goes back nor past the slowest step, and     *)
(* spends all steps that are left on the last try.                         *)
LEMMA NextRetryStepBounds ==
  ASSUME NEW prev \in AllSteps, NEW remaining \in Int
  PROVE  /\ NextRetryStep(prev, remaining) \in prev..StepLast
         /\ remaining = 1 => NextRetryStep(prev, remaining) = StepLast
<1> DEFINE steps == StepLast - prev
           tries == IF remaining > 1 THEN remaining - 1 ELSE 1
<1>1. StepLast \in Nat /\ prev \in Nat /\ steps \in Nat /\ tries \in Nat \ {0}
  BY Dsa2Assumption DEF AllSteps
<1>2. steps \div tries \in Nat
  <2> HIDE DEF steps, tries
  <2> QED
    BY <1>1
<1>3. Spread(steps, tries) \in Nat
  <2> HIDE DEF steps, tries
  <2> QED
    BY <1>2 DEF Spread
<1>4. NextRetryStep(prev, remaining) =
        IF remaining <= 0 THEN prev ELSE Least(StepLast, prev + Spread(steps, tries))
  BY DEF NextRetryStep
<1>5. NextRetryStep(prev, remaining) \in prev..StepLast
  <2> HIDE DEF steps, tries
  <2> QED
    BY <1>1, <1>3, <1>4 DEF Least, AllSteps
<1>6. ASSUME remaining = 1 PROVE NextRetryStep(prev, remaining) = StepLast
  <2>1. tries = 1 /\ steps \div 1 = steps
    BY <1>1, <1>6
  <2>2. Spread(steps, 1) = steps
    <3> HIDE DEF steps, tries
    <3> QED
      BY <1>1, <2>1 DEF Spread
  <2> QED
    BY <1>1, <1>4, <1>6, <2>1, <2>2 DEF Least
<1> QED
  BY <1>5, <1>6

(* dsa2_note_retryable_failure keeps a results table one, and its steps in *)
(* order.                                                                  *)
LEMMA NoteKeepsTable ==
  ASSUME NEW table \in ResultsTables, NEW null \in BOOLEAN, NEW remaining \in Int
  PROVE  LET noted == NoteRetryableFailure(table, null, remaining)
         IN  /\ noted \in ResultsTables
             /\ noted.loop_step >= table.loop_step
             /\ noted.cur_step = table.cur_step
             /\ noted.recent = table.recent
             /\ noted.recent_step = table.recent_step
             /\ remaining = 1 => noted.loop_step = StepLast
<1>1. table.loop_step \in AllSteps /\ table.null_ct \in 0..1
  BY DEF ResultsTables, NullCtBound
<1>2. /\ NextRetryStep(table.loop_step, remaining) \in table.loop_step..StepLast
      /\ remaining = 1 => NextRetryStep(table.loop_step, remaining) = StepLast
  BY <1>1, NextRetryStepBounds
<1>3. CountNull(table.null_ct, null) \in 0..1
  BY <1>1 DEF CountNull, Least, NullCtBound
<1> DEFINE noted == NoteRetryableFailure(table, null, remaining)
<1>4. /\ noted.loop_step = NextRetryStep(table.loop_step, remaining)
      /\ noted.cur_step = table.cur_step
      /\ noted.recent = table.recent
      /\ noted.recent_step = table.recent_step
  BY DEF NoteRetryableFailure, ResultsTables
<1>5. NextRetryStep(table.loop_step, remaining) \in AllSteps
  BY <1>1, <1>2, Dsa2Assumption DEF AllSteps
<1>6. noted \in ResultsTables
  BY <1>3, <1>5 DEF NoteRetryableFailure, ResultsTables, NullCtBound
<1>7. noted.loop_step >= table.loop_step
  BY <1>1, <1>2, <1>4, Dsa2Assumption DEF AllSteps
<1> QED
  BY <1>2, <1>4, <1>6, <1>7

(* cirb_add keeps at most Lookback values.                                 *)
LEMMA RememberKeepsTable ==
  ASSUME NEW table \in ResultsTables, NEW tries \in Nat
  PROVE  LET next == Remember(table, tries)
         IN  /\ next \in ResultsTables
             /\ next.cur_step = table.cur_step
             /\ next.loop_step = table.loop_step
             /\ next.null_ct = table.null_ct
             /\ next.recent_step = table.loop_step
             /\ next.recent # <<>>
             /\ \A i \in DOMAIN next.recent :
                  \/ next.recent[i] = tries
                  \/ \E j \in DOMAIN table.recent : next.recent[i] = table.recent[j]
<1> DEFINE all == Append(table.recent, tries)
           kept == IF Len(all) > Lookback THEN Tail(all) ELSE all
           next == Remember(table, tries)
<1>1. table.recent \in Seq(Nat) /\ Len(table.recent) <= Lookback /\ table.loop_step \in AllSteps
  BY DEF ResultsTables
<1>2. /\ all \in Seq(Nat) /\ Len(all) = Len(table.recent) + 1
      /\ \A i \in 1..Len(table.recent) : all[i] = table.recent[i]
      /\ all[Len(all)] = tries
  BY <1>1, AppendProperties
<1>3. /\ Tail(all) \in Seq(Nat) /\ Len(Tail(all)) = Len(table.recent)
      /\ \A i \in 1..Len(Tail(all)) : Tail(all)[i] = all[i + 1]
  <2>1. all # <<>> /\ Len(table.recent) \in Nat
    BY <1>1
  <2> HIDE DEF all
  <2> QED
    BY <1>2, <2>1, HeadTailProperties
<1>4. /\ kept \in Seq(Nat) /\ Len(kept) <= Lookback /\ kept # <<>>
      /\ \A i \in 1..Len(kept) :
           kept[i] = tries \/ \E j \in 1..Len(table.recent) : kept[i] = table.recent[j]
  <2>1. Lookback \in Nat \ {0} /\ Len(table.recent) \in Nat
    BY <1>1, Dsa2Assumption
  <2>2. \A i \in 1..Len(all) :
          all[i] = tries \/ \E j \in 1..Len(table.recent) : all[i] = table.recent[j]
    <3> HIDE DEF all
    <3> QED
      BY <1>2, <2>1, SMTT(40)
  <2>3. CASE Len(all) > Lookback
    <3>1. kept = Tail(all)
      BY <2>3
    <3> HIDE DEF all, kept
    <3>2. Len(kept) > 0
      BY <1>2, <1>3, <2>1, <2>3, <3>1
    <3>3. \A i \in 1..Len(kept) : i + 1 \in 1..Len(all) /\ kept[i] = all[i + 1]
      BY <1>2, <1>3, <2>1, <3>1
    <3>4. ASSUME NEW i \in 1..Len(kept)
          PROVE  kept[i] = tries \/ \E j \in 1..Len(table.recent) : kept[i] = table.recent[j]
      BY <2>2, <3>3
    <3>5. kept \in Seq(Nat) /\ Len(kept) <= Lookback
      BY <1>1, <1>3, <3>1
    <3> QED
      BY <3>2, <3>4, <3>5
  <2>4. CASE ~(Len(all) > Lookback)
    <3>1. kept = all
      BY <2>4
    <3> HIDE DEF all, kept
    <3>2. all \in Seq(Nat) /\ Len(all) <= Lookback /\ Len(all) > 0
      BY <1>2, <2>1, <2>4
    <3>3. all # <<>>
      BY <3>2
    <3>4. /\ all \in Seq(Nat) /\ Len(all) <= Lookback /\ all # <<>>
          /\ \A i \in 1..Len(all) :
               all[i] = tries \/ \E j \in 1..Len(table.recent) : all[i] = table.recent[j]
      BY <2>2, <3>2, <3>3
    <3> QED
      BY <3>1, <3>4
  <2> QED
    BY <2>3, <2>4
<1>5. DOMAIN kept = 1..Len(kept) /\ DOMAIN table.recent = 1..Len(table.recent)
  <2> HIDE DEF kept
  <2> QED
    BY <1>1, <1>4
<1>6. next = [table EXCEPT !.recent = kept, !.recent_step = table.loop_step]
  BY DEF Remember
<1> HIDE DEF kept, next
<1>7. /\ next \in ResultsTables
      /\ next.cur_step = table.cur_step
      /\ next.loop_step = table.loop_step
      /\ next.null_ct = table.null_ct
      /\ next.recent_step = table.loop_step
      /\ next.recent = kept
  BY <1>1, <1>4, <1>6 DEF ResultsTables
<1> QED
  BY <1>4, <1>5, <1>7 DEF next

(* What dsa2_record_final learns from a success: a table, slower after     *)
(* Null Responses or many tries, faster by one step after few errors only. *)
LEMMA AfterSuccessLearns ==
  ASSUME NEW table \in ResultsTables, table.cur_step <= table.loop_step, NEW tries \in Nat
  PROVE  LET next == AfterSuccess(table, tries)
         IN  /\ next \in ResultsTables
             /\ next.recent = table.recent
             /\ tries > TargetMaxTries => next.cur_step = SlowerThanLoop(table)
             /\ \/ next.cur_step \in {SlowerThanLoop(table), table.cur_step}
                \/ next.cur_step = table.cur_step - 1 /\ MayDecrease(table)
<1> DEFINE next == AfterSuccess(table, tries)
<1>1. /\ table.cur_step \in AllSteps /\ table.loop_step \in AllSteps
      /\ table.interval \in 1..AdjustmentInterval
      /\ StepLast \in Nat /\ AdjustmentInterval \in Nat \ {0}
  BY Dsa2Assumption DEF ResultsTables
<1>2. SlowerThanLoop(table) \in AllSteps
  BY <1>1 DEF SlowerThanLoop, Least, AllSteps
<1>3. CASE table.null_ct > 0 \/ tries > TargetMaxTries
  <2>1. next = [table EXCEPT !.cur_step = SlowerThanLoop(table)]
    BY <1>3 DEF AfterSuccess
  <2> QED
    BY <1>2, <2>1 DEF ResultsTables
<1>4. CASE ~(table.null_ct > 0 \/ tries > TargetMaxTries) /\ AdjustNow(table, tries)
  <2> DEFINE adjusted == AdjustForRecentSuccesses(table)
  <2>1. next = [table EXCEPT !.cur_step = adjusted, !.interval = AdjustmentInterval]
    BY <1>4 DEF AfterSuccess
  <2>2. \/ adjusted = table.cur_step
        \/ adjusted = table.cur_step - 1 /\ MayDecrease(table)
    BY DEF AdjustForRecentSuccesses
  <2>3. MayDecrease(table) => table.cur_step > 0
    BY DEF MayDecrease
  <2>4. adjusted \in AllSteps /\ AdjustmentInterval \in 1..AdjustmentInterval
    BY <1>1, <2>2, <2>3 DEF AllSteps
  <2> HIDE DEF adjusted
  <2>5. /\ next \in ResultsTables /\ next.cur_step = adjusted
        /\ next.recent = table.recent
    BY <2>1, <2>4 DEF ResultsTables
  <2> QED
    BY <1>4, <2>2, <2>5
<1>5. CASE ~(table.null_ct > 0 \/ tries > TargetMaxTries) /\ ~AdjustNow(table, tries)
  <2>1. next = [table EXCEPT !.interval = @ - 1]
    BY <1>5 DEF AfterSuccess
  <2>2. table.interval - 1 \in 1..AdjustmentInterval
    BY <1>1, <1>5 DEF AdjustNow
  <2> QED
    BY <1>5, <2>1, <2>2 DEF ResultsTables
<1> QED
  BY <1>3, <1>4, <1>5

(* What dsa2_record_final does to a results table: it is ready for the     *)
(* next loop, slower after trouble, faster only after a row of successes   *)
(* that needed two tries at most.                                          *)
LEMMA RecordFinalLearns ==
  ASSUME NEW table \in ResultsTables, table.cur_step <= table.loop_step,
         NEW status \in TryStatuses, NEW tries \in Nat, NEW nullAdjusted \in BOOLEAN
  PROVE  LET next == RecordFinal(table, status, tries, nullAdjusted)
         IN  /\ next \in ResultsTables
             /\ next.loop_step = next.cur_step
             /\ next.null_ct = 0
             /\ \A i \in DOMAIN next.recent :
                  \/ next.recent[i] = tries
                  \/ \E j \in DOMAIN table.recent : next.recent[i] = table.recent[j]
             /\ status # "OK" \/ tries > TargetMaxTries =>
                  next.cur_step > table.cur_step \/ next.cur_step = StepLast
             /\ next.cur_step < table.cur_step =>
                  /\ next.cur_step = table.cur_step - 1
                  /\ status = "OK"
                  /\ Len(next.recent) >= MinDecrementLookback
                  /\ \A i \in DOMAIN next.recent : next.recent[i] <= 2
<1> DEFINE floored == IF nullAdjusted
                      THEN [table EXCEPT !.null_max = Greatest(@, table.loop_step)]
                      ELSE table
           remembered == Remember(floored, tries)
           learned == IF status = "OK" THEN AfterSuccess(remembered, tries)
                                       ELSE AfterFailure(floored, status)
           next == RecordFinal(table, status, tries, nullAdjusted)
<1>1. /\ table.cur_step \in AllSteps /\ table.loop_step \in AllSteps
      /\ StepLast \in Nat /\ StepFloor \in 0..StepLast /\ AdjustmentInterval \in Nat \ {0}
  BY Dsa2Assumption DEF ResultsTables
<1>2. /\ floored \in ResultsTables
      /\ floored.cur_step = table.cur_step /\ floored.loop_step = table.loop_step
      /\ floored.recent = table.recent
  <2>1. Greatest(table.null_max, table.loop_step) \in -1..StepLast
    BY <1>1 DEF ResultsTables, Greatest, AllSteps
  <2> QED
    BY <2>1 DEF ResultsTables
<1>3. /\ remembered \in ResultsTables
      /\ remembered.cur_step = table.cur_step /\ remembered.loop_step = table.loop_step
      /\ \A i \in DOMAIN remembered.recent :
           \/ remembered.recent[i] = tries
           \/ \E j \in DOMAIN table.recent : remembered.recent[i] = table.recent[j]
  <2> HIDE DEF floored
  <2> QED
    BY <1>2, RememberKeepsTable, SMTT(40)
<1>4. SlowerThanLoop(table) \in AllSteps
      /\ (SlowerThanLoop(table) > table.cur_step \/ SlowerThanLoop(table) = StepLast)
      /\ SlowerThanLoop(table) >= table.cur_step
  BY <1>1 DEF SlowerThanLoop, Least, AllSteps
<1>5. /\ learned \in ResultsTables
      /\ \A i \in DOMAIN learned.recent :
           \/ learned.recent[i] = tries
           \/ \E j \in DOMAIN table.recent : learned.recent[i] = table.recent[j]
      /\ status # "OK" \/ tries > TargetMaxTries => learned.cur_step = SlowerThanLoop(table)
      /\ \/ learned.cur_step \in {SlowerThanLoop(table), table.cur_step}
         \/ /\ learned.cur_step = table.cur_step - 1 /\ status = "OK"
            /\ Len(learned.recent) >= MinDecrementLookback
            /\ \A i \in DOMAIN learned.recent : learned.recent[i] <= 2
  <2>1. CASE status = "OK"
    <3>1. learned = AfterSuccess(remembered, tries)
      BY <2>1
    <3> HIDE DEF floored, remembered, learned
    <3>2. SlowerThanLoop(remembered) = SlowerThanLoop(table)
      BY <1>3 DEF SlowerThanLoop
    <3>3. MayDecrease(remembered) =>
            /\ Len(remembered.recent) >= MinDecrementLookback
            /\ \A i \in DOMAIN remembered.recent : remembered.recent[i] <= 2
      BY DEF MayDecrease, TooFewErrors, GreatestTriesLower
    <3>4. /\ learned \in ResultsTables
          /\ learned.recent = remembered.recent
          /\ tries > TargetMaxTries => learned.cur_step = SlowerThanLoop(table)
          /\ \/ learned.cur_step \in {SlowerThanLoop(table), table.cur_step}
             \/ learned.cur_step = table.cur_step - 1 /\ MayDecrease(remembered)
      BY <1>3, <3>1, <3>2, AfterSuccessLearns
    <3> QED
      BY <1>3, <2>1, <3>3, <3>4
  <2>2. CASE status # "OK"
    <3>1. learned = [floored EXCEPT !.cur_step = SlowerThanLoop(floored),
                                    !.interval = AdjustmentInterval]
      BY <2>2 DEF AfterFailure, TryStatuses
    <3> HIDE DEF floored, remembered, learned
    <3>2. SlowerThanLoop(floored) = SlowerThanLoop(table)
      BY <1>2 DEF SlowerThanLoop
    <3>3. AdjustmentInterval \in 1..AdjustmentInterval
      BY <1>1
    <3>4. learned \in ResultsTables /\ learned.recent = table.recent
          /\ learned.cur_step = SlowerThanLoop(table)
      BY <1>2, <1>4, <3>1, <3>2, <3>3 DEF ResultsTables
    <3> QED
      BY <3>4
  <2> QED
    BY <2>1, <2>2
<1>6. next = ForNextLoop(learned)
  BY DEF RecordFinal
<1> HIDE DEF floored, remembered, learned, next
<1>7. learned.cur_step \in AllSteps
  BY <1>5 DEF ResultsTables
<1>8. /\ Clamp(learned.cur_step) \in AllSteps
      /\ Clamp(learned.cur_step) \in {learned.cur_step, StepFloor}
      /\ Clamp(learned.cur_step) >= learned.cur_step
  BY <1>1, <1>7 DEF Clamp, Least, Greatest, AllSteps
<1>9. /\ next.cur_step = Clamp(learned.cur_step) /\ next.loop_step = next.cur_step
      /\ next.null_ct = 0 /\ next.recent = learned.recent
      /\ next \in ResultsTables
  <2> DEFINE step == Clamp(learned.cur_step)
  <2>1. next = [learned EXCEPT !.cur_step = step, !.loop_step = step, !.null_ct = 0]
    BY <1>6 DEF ForNextLoop
  <2>2. step \in AllSteps /\ learned \in ResultsTables
    BY <1>5, <1>8
  <2> HIDE DEF step
  <2>3. 0 \in 0..NullCtBound
    BY DEF NullCtBound
  <2>4. next \in ResultsTables
    BY <2>1, <2>2, <2>3 DEF ResultsTables
  <2>5. /\ next.cur_step = step /\ next.loop_step = step /\ next.null_ct = 0
        /\ next.recent = learned.recent
    BY <2>1, <2>2 DEF ResultsTables
  <2> QED
    BY <2>4, <2>5 DEF step
<1>10. status # "OK" \/ tries > TargetMaxTries =>
         next.cur_step > table.cur_step \/ next.cur_step = StepLast
  BY <1>1, <1>4, <1>5, <1>7, <1>8, <1>9 DEF AllSteps
<1>11. ASSUME next.cur_step < table.cur_step
       PROVE  /\ next.cur_step = table.cur_step - 1
              /\ status = "OK"
              /\ Len(next.recent) >= MinDecrementLookback
              /\ \A i \in DOMAIN next.recent : next.recent[i] <= 2
  <2>1. learned.cur_step < table.cur_step
    BY <1>1, <1>7, <1>8, <1>9, <1>11 DEF AllSteps
  <2>2. learned.cur_step = table.cur_step - 1 /\ status = "OK"
        /\ Len(learned.recent) >= MinDecrementLookback
        /\ \A i \in DOMAIN learned.recent : learned.recent[i] <= 2
    BY <1>1, <1>4, <1>5, <1>7, <2>1 DEF AllSteps
  <2> QED
    BY <1>1, <1>7, <1>8, <1>9, <1>11, <2>2 DEF AllSteps
<1> QED
  BY <1>5, <1>9, <1>10, <1>11 DEF next

----------------------------------------------------------------------------
(* The tables a process may begin with, or a multiplier brings, are as     *)
(* between two loops.                                                      *)
LEMMA NewTableIsReset ==
  ASSUME NEW step \in AllSteps
  PROVE  /\ NewTable(step) \in ResultsTables
         /\ NewTable(step).loop_step = NewTable(step).cur_step
         /\ NewTable(step).null_ct = 0
         /\ NewTable(step).recent = <<>>
<1>1. /\ -1 \in -1..StepLast /\ AdjustmentInterval \in 1..AdjustmentInterval
      /\ 0 \in 0..NullCtBound /\ <<>> \in Seq(Nat) /\ Len(<<>>) <= Lookback
  BY Dsa2Assumption DEF NullCtBound
<1> QED
  BY <1>1 DEF NewTable, ResultsTables

(* So are those restored from the stats file, whenever it was saved.       *)
LEMMA RestoredIsReset ==
  ASSUME NEW table \in ResultsTables, NEW initial \in AllSteps,
         NEW next \in AtProcessStart(table, initial)
  PROVE  /\ next \in ResultsTables
         /\ next.loop_step = next.cur_step
         /\ next.null_ct = 0
         /\ next.recent \in {<<>>, table.recent}
<1> DEFINE line == Saved(table)
           step == Least(line.cur_step, StepLast)
<1>1. CASE next = Restored(line)
  <2>1. /\ line.cur_step = table.cur_step /\ line.interval = table.interval
        /\ line.recent = table.recent /\ line.recent_step = table.recent_step
    BY DEF Saved
  <2>2. step \in AllSteps
    BY <2>1, Dsa2Assumption DEF Least, AllSteps, ResultsTables
  <2> HIDE DEF line, step
  <2>3. next = [NewTable(step) EXCEPT !.interval = table.interval, !.recent = table.recent,
                                      !.recent_step = table.recent_step]
    BY <1>1, <2>1 DEF Restored, step
  <2>4. NewTable(step) \in ResultsTables
    BY <2>2, NewTableIsReset
  <2>5. /\ next \in ResultsTables
        /\ next.loop_step = NewTable(step).loop_step /\ next.cur_step = NewTable(step).cur_step
        /\ next.null_ct = NewTable(step).null_ct /\ next.recent = table.recent
    BY <2>3, <2>4 DEF ResultsTables
  <2> QED
    BY <2>2, <2>5, NewTableIsReset
<1>2. CASE \E new \in AllSteps : next = NewTable(new)
  BY <1>2, NewTableIsReset
<1> QED
  BY <1>1, <1>2 DEF AtProcessStart, OfMonitor

----------------------------------------------------------------------------
(* Counting the tries with a status: one more try counts at most one more. *)
LEMMA CountOfTries ==
  ASSUME NEW tries \in Seq(TryStatuses), NEW status, NEW new \in TryStatuses
  PROVE  /\ CountOf(status, <<>>) = 0
         /\ CountOf(status, tries) \in 0..Len(tries)
         /\ CountOf(status, Append(tries, new)) =
              IF new = status THEN CountOf(status, tries) + 1 ELSE CountOf(status, tries)
         /\ CountOf(status, tries) = Len(tries) => \A i \in DOMAIN tries : tries[i] = status
<1> DEFINE places == {i \in DOMAIN tries : tries[i] = status}
           more == Append(tries, new)
           morePlaces == {i \in DOMAIN more : more[i] = status}
<1>1. /\ Len(tries) \in Nat /\ DOMAIN tries = 1..Len(tries)
      /\ IsFiniteSet(DOMAIN tries) /\ Cardinality(DOMAIN tries) = Len(tries)
  <2>1. Len(tries) \in Nat /\ DOMAIN tries = 1..Len(tries)
    OBVIOUS
  <2>2. /\ IsFiniteSet(1..Len(tries))
        /\ Cardinality(1..Len(tries)) = IF 1 > Len(tries) THEN 0 ELSE Len(tries) - 1 + 1
    BY <2>1, FS_Interval
  <2> QED
    BY <2>1, <2>2
<1>2. /\ IsFiniteSet(places) /\ Cardinality(places) \in 0..Len(tries)
      /\ Cardinality(places) = Len(tries) => places = DOMAIN tries
  <2>1. places \in SUBSET DOMAIN tries
    OBVIOUS
  <2> HIDE DEF places
  <2>2. IsFiniteSet(places) /\ Cardinality(places) <= Len(tries)
        /\ (Cardinality(places) = Len(tries) => places = DOMAIN tries)
    BY <1>1, <2>1, FS_Subset
  <2> QED
    BY <1>1, <2>2, FS_CardinalityType
<1>3. /\ DOMAIN more = 1..(Len(tries) + 1)
      /\ \A i \in 1..Len(tries) : more[i] = tries[i]
      /\ more[Len(tries) + 1] = new
  BY AppendProperties
<1>4. morePlaces = IF new = status THEN places \cup {Len(tries) + 1} ELSE places
  <2> HIDE DEF more
  <2> QED
    BY <1>1, <1>3
<1>5. Len(tries) + 1 \notin places
  BY <1>1
<1>6. Cardinality(morePlaces) =
        IF new = status THEN Cardinality(places) + 1 ELSE Cardinality(places)
  <2> HIDE DEF places, morePlaces
  <2> QED
    BY <1>2, <1>4, <1>5, FS_AddElement
<1>7. CountOf(status, <<>>) = 0
  <2>1. {i \in DOMAIN <<>> : <<>>[i] = status} = {}
    OBVIOUS
  <2> QED
    BY <2>1, FS_EmptySet DEF CountOf
<1> QED
  BY <1>2, <1>6, <1>7 DEF CountOf

(* One more try.                                                           *)
LEMMA AttemptAdds ==
  ASSUME IInv, NEW status \in Responses
  PROVE  /\ status \in TryStatuses
         /\ Attempt(status) \in Seq(TryStatuses)
         /\ Len(Attempt(status)) = Len(statuses) + 1
         /\ Len(Attempt(status)) \in 1..MaxTries
         /\ Attempt(status)[Len(Attempt(status))] = status
         /\ \A i \in 1..Len(statuses) : Attempt(status)[i] = statuses[i]
         /\ NullCt(Attempt(status)) =
              IF op.null_means /\ status = "NULL" THEN NullCt(statuses) + 1
                                                  ELSE NullCt(statuses)
         /\ NullCt(statuses) \in 0..NullResponseMax
<1>1. status \in TryStatuses /\ statuses \in Seq(TryStatuses) /\ Len(statuses) < MaxTries
      /\ MaxTries \in Nat
  BY WriteReadAssumption DEF IInv, TypeOK, LoopGoesOn, Responses
<1>2. /\ Attempt(status) \in Seq(TryStatuses)
      /\ Len(Attempt(status)) = Len(statuses) + 1
      /\ Attempt(status)[Len(statuses) + 1] = status
      /\ \A i \in 1..Len(statuses) : Attempt(status)[i] = statuses[i]
  BY <1>1, AppendProperties DEF Attempt
<1>3. Len(statuses) \in Nat
  BY <1>1
<1>4. /\ NullCt(statuses) \in Nat
      /\ NullCt(Attempt(status)) =
           IF op.null_means /\ status = "NULL" THEN NullCt(statuses) + 1
                                               ELSE NullCt(statuses)
  BY <1>1, <1>3, CountOfTries DEF NullCt, Attempt
<1> QED
  BY <1>1, <1>2, <1>3, <1>4 DEF IInv, LoopGoesOn, NullResponseMax

(* The status after the loop, for the tries of a loop that ended: the      *)
(* three answers that speak of all tries are true of them.                 *)
LEMMA FinalStatusIsTrue ==
  ASSUME IInv, NEW status \in Responses \ {"DEAD"},
         ~Retryable(Attempt(status)) \/ Len(Attempt(status)) = MaxTries
  PROVE  LET tried == Attempt(status)
             final == FinalStatus(tried)
         IN  /\ final \in Results \ {"NONE", "DISCONNECTED"}
             /\ final = "OK" <=> status = "OK"
             /\ final = "RETRIES" => Len(tried) = MaxTries /\ status \in {"NULL", "DATA"}
             /\ final = "DETERMINED_UNSUPPORTED" =>
                  /\ Len(tried) > NullResponseMax
                  /\ \A i \in DOMAIN tried : tried[i] = "NULL"
             /\ final = "ALL_RESPONSES_NULL" =>
                  status = "NULL" /\ CountOf("NULL", tried) > NullResponseMax
<1> DEFINE tried == Attempt(status)
           final == FinalStatus(tried)
           nulls == NullCt(tried)
<1>1. /\ tried \in Seq(TryStatuses) /\ tried[Len(tried)] = status
      /\ Len(tried) \in 1..MaxTries /\ status \in TryStatuses \ {"DEAD"}
      /\ DOMAIN tried = 1..Len(tried) /\ Len(tried) \in Nat
      /\ nulls = IF op.null_means /\ status = "NULL" THEN NullCt(statuses) + 1
                                                      ELSE NullCt(statuses)
      /\ NullCt(statuses) \in 0..NullResponseMax
  BY AttemptAdds
<1>2. /\ nulls \in Nat
      /\ op.null_means => nulls = CountOf("NULL", tried)
      /\ ~op.null_means => nulls = 0
      /\ op.null_means /\ nulls = Len(tried) => \A i \in DOMAIN tried : tried[i] = "NULL"
  <2> HIDE DEF tried
  <2> QED
    BY <1>1, CountOfTries DEF NullCt, TryStatuses
<1>3. Retryable(tried) <=> (status = "NULL" /\ nulls <= NullResponseMax) \/ status = "DATA"
  BY <1>1 DEF Retryable
<1>4. AllNullMeantUnsupported(tried) => op.null_means /\ nulls = Len(tried)
  BY DEF AllNullMeantUnsupported
<1>5. final = IF status = "OK" THEN "OK"
              ELSE IF Retryable(tried) THEN "RETRIES"
              ELSE IF CountOf("ALL_ZERO", tried) = MaxTries THEN "ALL_TRIES_ZERO"
              ELSE IF AllNullMeantUnsupported(tried) THEN "DETERMINED_UNSUPPORTED"
              ELSE IF nulls > NullResponseMax THEN "ALL_RESPONSES_NULL"
              ELSE status
  BY <1>1 DEF FinalStatus
<1> SUFFICES
      /\ final \in Results \ {"NONE", "DISCONNECTED"}
      /\ final = "OK" <=> status = "OK"
      /\ final = "RETRIES" => Len(tried) = MaxTries /\ status \in {"NULL", "DATA"}
      /\ final = "DETERMINED_UNSUPPORTED" =>
           /\ Len(tried) > NullResponseMax
           /\ \A i \in DOMAIN tried : tried[i] = "NULL"
      /\ final = "ALL_RESPONSES_NULL" =>
           status = "NULL" /\ CountOf("NULL", tried) > NullResponseMax
  OBVIOUS
<1>9. ~Retryable(tried) \/ Len(tried) = MaxTries
  OBVIOUS
<1> HIDE DEF tried, final, nulls
<1>6. CASE status = "OK"
  BY <1>5, <1>6 DEF Results
<1>7. CASE status # "OK" /\ Retryable(tried)
  <2>1. final = "RETRIES"
    BY <1>5, <1>7
  <2> QED
    BY <1>3, <1>7, <1>9, <2>1 DEF Results
<1>8. CASE status # "OK" /\ ~Retryable(tried)
  <2>1. CASE CountOf("ALL_ZERO", tried) = MaxTries
    BY <1>5, <1>8, <2>1 DEF Results
  <2>2. CASE CountOf("ALL_ZERO", tried) # MaxTries /\ AllNullMeantUnsupported(tried)
    <3>1. \A i \in DOMAIN tried : tried[i] = "NULL"
      BY <1>2, <1>4, <2>2
    <3>2. status = "NULL"
      BY <1>1, <3>1
    <3>3. Len(tried) > NullResponseMax
      BY <1>2, <1>3, <1>4, <1>8, <2>2, <3>2 DEF NullResponseMax
    <3>4. final = "DETERMINED_UNSUPPORTED"
      BY <1>5, <1>8, <2>2
    <3> QED
      BY <1>8, <3>1, <3>3, <3>4 DEF Results
  <2>3. CASE /\ CountOf("ALL_ZERO", tried) # MaxTries /\ ~AllNullMeantUnsupported(tried)
             /\ nulls > NullResponseMax
    <3>1. final = "ALL_RESPONSES_NULL"
      BY <1>5, <1>8, <2>3
    <3>2. op.null_means /\ status = "NULL"
      BY <1>1, <1>2, <2>3 DEF NullResponseMax
    <3> QED
      BY <1>2, <2>3, <3>1, <3>2 DEF Results
  <2>4. CASE /\ CountOf("ALL_ZERO", tried) # MaxTries /\ ~AllNullMeantUnsupported(tried)
             /\ ~(nulls > NullResponseMax)
    <3>1. final = status
      BY <1>5, <1>8, <2>4
    <3>2. status \in {"ALL_ZERO", "FATAL"}
      BY <1>1, <1>2, <1>3, <1>8, <2>4 DEF TryStatuses, NullResponseMax
    <3> QED
      BY <3>1, <3>2 DEF Results
  <2> QED
    BY <2>1, <2>2, <2>3, <2>4
<1> QED
  BY <1>6, <1>7, <1>8

----------------------------------------------------------------------------
(* A try that fails and is followed by another keeps the steps in order,   *)
(* and leaves the last of them the slowest one.                            *)
LEMMA RetryKeepsInvariant ==
  ASSUME IInv, Retry
  PROVE  IInv'
<1>1. PICK status \in Responses :
        LET tried == Attempt(status)
        IN  /\ Retryable(tried)
            /\ Len(tried) < MaxTries
            /\ statuses' = tried
            /\ null_adjusted' \in NullAdjustment(status)
            /\ rtable' =
                 IF op.dynamic
                 THEN NoteRetryableFailure(rtable, status = "NULL", RemainingTries(tried))
                 ELSE rtable
            /\ null_msg_ct' = CountNull(null_msg_ct, op.dynamic /\ status = "NULL")
  BY DEF Retry
<1> DEFINE tried == Attempt(status)
           noted == NoteRetryableFailure(rtable, status = "NULL", RemainingTries(tried))
<1>2. /\ pc = "try" /\ Retryable(tried) /\ Len(tried) < MaxTries /\ statuses' = tried
      /\ rtable' = IF op.dynamic THEN noted ELSE rtable
      /\ UNCHANGED <<detached, user_step, op, pc, result, last, left_early>>
  BY <1>1 DEF Retry, history
<1>3. /\ tried \in Seq(TryStatuses) /\ tried[Len(tried)] = status
      /\ Len(tried) = Len(statuses) + 1 /\ Len(tried) \in 1..MaxTries
      /\ DOMAIN tried = 1..Len(tried) /\ Len(statuses) \in Nat
      /\ \A i \in 1..Len(statuses) : tried[i] = statuses[i]
      /\ NullCt(tried) = IF op.null_means /\ status = "NULL" THEN NullCt(statuses) + 1
                                                             ELSE NullCt(statuses)
      /\ NullCt(statuses) \in 0..NullResponseMax
      /\ DOMAIN statuses = 1..Len(statuses)
  BY AttemptAdds DEF IInv, TypeOK
<1>4. /\ null_msg_ct' \in 0..NullCtBound
      /\ null_adjusted' \in BOOLEAN
      /\ ~op.dynamic => null_msg_ct' = null_msg_ct
  <2>1. null_msg_ct \in 0..NullCtBound /\ null_adjusted \in BOOLEAN
    BY DEF IInv, TypeOK
  <2>2. NullAdjustment(status) \subseteq BOOLEAN
    BY <2>1 DEF NullAdjustment
  <2>3. null_msg_ct' = CountNull(null_msg_ct, op.dynamic /\ status = "NULL")
    BY <1>1
  <2>4. null_msg_ct' \in 0..NullCtBound /\ (~op.dynamic => null_msg_ct' = null_msg_ct)
    BY <2>1, <2>3 DEF CountNull, Least, NullCtBound
  <2> QED
    BY <1>1, <2>2, <2>4
<1> HIDE DEF tried, noted
<1>5. RemainingTries(tried) \in Int
      /\ (~op.null_means /\ Len(tried) = MaxTries - 1 => RemainingTries(tried) = 1)
  BY <1>3, WriteReadAssumption DEF RemainingTries, NullResponseMax
<1>6. /\ noted \in ResultsTables
      /\ noted.loop_step >= rtable.loop_step
      /\ noted.cur_step = rtable.cur_step
      /\ noted.recent = rtable.recent
      /\ noted.recent_step = rtable.recent_step
      /\ RemainingTries(tried) = 1 => noted.loop_step = StepLast
  <2>1. rtable \in ResultsTables /\ (status = "NULL") \in BOOLEAN
    BY DEF IInv, TypeOK
  <2> QED
    BY <1>5, <2>1, NoteKeepsTable DEF noted
<1>7. /\ rtable' \in ResultsTables
      /\ rtable'.recent = rtable.recent
      /\ rtable'.loop_step >= rtable.loop_step
      /\ rtable'.cur_step = rtable.cur_step
      /\ rtable'.recent_step = rtable.recent_step
      /\ ~op.dynamic => rtable' = rtable
      /\ op.dynamic /\ RemainingTries(tried) = 1 => rtable'.loop_step = StepLast
  <2>1. rtable \in ResultsTables /\ rtable.loop_step \in Int
    BY DEF IInv, TypeOK, ResultsTables, AllSteps
  <2>2. CASE op.dynamic
    BY <1>2, <1>6, <2>2
  <2>3. CASE ~op.dynamic
    <3>1. rtable' = rtable
      BY <1>2, <2>3
    <3> QED
      BY <2>1, <2>3, <3>1
  <2> QED
    BY <2>2, <2>3
<1>8. TypeOK'
  BY <1>2, <1>3, <1>4, <1>7 DEF IInv, TypeOK
<1>9. LoopGoesOn'
  <2>1. status \in {"NULL", "DATA"} /\ NullCt(tried) <= NullResponseMax
    BY <1>2, <1>3 DEF Retryable, NullResponseMax
  <2>2. \A i \in DOMAIN tried : tried[i] \in {"NULL", "DATA"}
    <3> SUFFICES ASSUME NEW i \in 1..Len(tried) PROVE tried[i] \in {"NULL", "DATA"}
      BY <1>3
    <3>1. CASE i = Len(tried)
      BY <1>3, <2>1, <3>1
    <3>2. CASE i \in 1..Len(statuses)
      BY <1>3, <3>2 DEF IInv, LoopGoesOn
    <3> QED
      BY <1>3, <3>1, <3>2
  <2>3. NullCt(statuses)' = NullCt(tried)
    BY <1>2 DEF NullCt
  <2> QED
    BY <1>2, <2>1, <2>2, <2>3 DEF IInv, LoopGoesOn
<1>10. StepOrder'
  <2>1. /\ rtable.cur_step \in Int /\ rtable.loop_step \in Int /\ rtable'.loop_step \in Int
        /\ detached \/ (rtable.cur_step <= rtable.loop_step /\ rtable.recent_step <= StepLast)
    BY <1>7 DEF IInv, TypeOK, StepOrder, ResultsTables, AllSteps
  <2> QED
    BY <1>2, <1>7, <2>1 DEF StepOrder
<1>11. ResetUntilFailure'
  <2>1. statuses' # <<>>
    BY <1>2, <1>3
  <2> QED
    BY <1>2, <1>4, <1>7, <2>1 DEF IInv, ResetUntilFailure
<1>12. SlowestStepLast'
  BY <1>2, <1>5, <1>7 DEF SlowestStepLast
<1> QED
  BY <1>8, <1>9, <1>10, <1>11, <1>12 DEF IInv

(* The end of a loop: what dsa2_record_final makes of the table, and the   *)
(* status the operation returns.                                           *)
LEMMA FinishEffect ==
  ASSUME IInv, Finish
  PROVE  \E status \in Responses \ {"DEAD"} :
           LET tried == Attempt(status)
               tries == IF AllNullMeantUnsupported(tried) THEN 1 ELSE Len(tried)
           IN  /\ ~Retryable(tried) \/ Len(tried) = MaxTries
               /\ last' = status
               /\ result' = FinalStatus(tried)
               /\ tries \in 1..MaxTries
               /\ status = "OK" => tries = Len(tried)
               /\ op.dynamic => \E adjusted \in BOOLEAN :
                                  rtable' = RecordFinal(rtable, status, tries, adjusted)
               /\ ~op.dynamic => rtable' = rtable
<1>1. PICK status \in Responses \ {"DEAD"} :
       LET tried == Attempt(status)
       IN  /\ ~Retryable(tried) \/ Len(tried) = MaxTries
           /\ last' = status
           /\ result' = FinalStatus(tried)
           /\ \E adjusted \in NullAdjustment(status) :
                rtable' = IF op.dynamic
                          THEN RecordFinal(rtable, status,
                                 IF AllNullMeantUnsupported(tried) THEN 1 ELSE Len(tried),
                                 adjusted)
                          ELSE rtable
  BY DEF Finish
<1> DEFINE tried == Attempt(status)
           tries == IF AllNullMeantUnsupported(tried) THEN 1 ELSE Len(tried)
<1>2. /\ Len(tried) \in 1..MaxTries /\ tried[Len(tried)] = status
      /\ tried \in Seq(TryStatuses)
  BY AttemptAdds
<1>3. tries \in 1..MaxTries
  BY <1>2, WriteReadAssumption
<1>4. ASSUME status = "OK" PROVE tries = Len(tried)
  <2>1. ~(\A i \in DOMAIN tried : tried[i] = "NULL")
    BY <1>2, <1>4
  <2>2. "OK" \in TryStatuses
    BY DEF TryStatuses
  <2> HIDE DEF tried
  <2>3. CountOf("NULL", tried) # Len(tried)
    BY <1>2, <2>1, <2>2, CountOfTries
  <2> QED
    BY <2>3 DEF AllNullMeantUnsupported, NullCt
<1>5. NullAdjustment(status) \subseteq BOOLEAN
  BY DEF NullAdjustment, IInv, TypeOK
<1>6. /\ op.dynamic => \E adjusted \in BOOLEAN :
                         rtable' = RecordFinal(rtable, status, tries, adjusted)
      /\ ~op.dynamic => rtable' = rtable
  BY <1>1, <1>5
<1> QED
  BY <1>1, <1>3, <1>4, <1>6

(* The table after a loop.                                                 *)
LEMMA FinishLearns ==
  ASSUME IInv, Finish
  PROVE  /\ rtable' \in ResultsTables
         /\ \A i \in DOMAIN rtable'.recent : rtable'.recent[i] \in 1..MaxTries
         /\ op.dynamic => rtable'.loop_step = rtable'.cur_step /\ rtable'.null_ct = 0
         /\ ~op.dynamic => rtable' = rtable
         /\ result' \in Results \ {"NONE", "DISCONNECTED"}
         /\ last' \in TryStatuses
<1>1. PICK status \in Responses \ {"DEAD"} :
           LET tried == Attempt(status)
               tries == IF AllNullMeantUnsupported(tried) THEN 1 ELSE Len(tried)
           IN  /\ ~Retryable(tried) \/ Len(tried) = MaxTries
               /\ last' = status
               /\ result' = FinalStatus(tried)
               /\ tries \in 1..MaxTries
               /\ status = "OK" => tries = Len(tried)
               /\ op.dynamic => \E adjusted \in BOOLEAN :
                                  rtable' = RecordFinal(rtable, status, tries, adjusted)
               /\ ~op.dynamic => rtable' = rtable
  BY FinishEffect
<1>2. result' \in Results \ {"NONE", "DISCONNECTED"}
  BY <1>1, FinalStatusIsTrue
<1>3. last' \in TryStatuses
  BY <1>1 DEF Responses, TryStatuses
<1>4. pc = "try" /\ ~detached
  BY DEF Finish, IInv, LoopGoesOn
<1>5. /\ rtable \in ResultsTables /\ rtable.cur_step <= rtable.loop_step
      /\ \A i \in DOMAIN rtable.recent : rtable.recent[i] \in 1..MaxTries
  BY <1>4 DEF IInv, TypeOK, StepOrder
<1>6. CASE op.dynamic
  <2> DEFINE tries == IF AllNullMeantUnsupported(Attempt(status)) THEN 1
                                                                  ELSE Len(Attempt(status))
  <2>1. PICK adjusted \in BOOLEAN : rtable' = RecordFinal(rtable, status, tries, adjusted)
    BY <1>1, <1>6
  <2>2. tries \in 1..MaxTries /\ tries \in Nat
    BY <1>1, WriteReadAssumption
  <2>3. status \in TryStatuses
    BY DEF Responses, TryStatuses
  <2> HIDE DEF tries
  <2>4. /\ rtable' \in ResultsTables
        /\ rtable'.loop_step = rtable'.cur_step
        /\ rtable'.null_ct = 0
        /\ \A i \in DOMAIN rtable'.recent :
             \/ rtable'.recent[i] = tries
             \/ \E j \in DOMAIN rtable.recent : rtable'.recent[i] = rtable.recent[j]
    BY <1>5, <2>1, <2>2, <2>3, RecordFinalLearns
  <2> QED
    BY <1>2, <1>3, <1>5, <1>6, <2>2, <2>4
<1>7. CASE ~op.dynamic
  BY <1>1, <1>2, <1>3, <1>5, <1>7
<1> QED
  BY <1>6, <1>7

(* An operation that returns, or a process that ends, leaves no tries.     *)
LEMMA ReturnKeepsLoop ==
  ASSUME Return, detached' => user_step' # NoStep
  PROVE  /\ LoopGoesOn' /\ SlowestStepLast'
         /\ op' \in KindsInUse /\ pc' = "idle"
         /\ statuses' = <<>> /\ statuses' \in Seq(TryStatuses) /\ Len(statuses') <= MaxTries
<1>1. pc' = "idle" /\ op' = NoOp /\ statuses' = <<>>
  BY DEF Return
<1>2. NullCt(statuses)' = 0
  BY <1>1, FS_EmptySet DEF NullCt, NoOp
<1>3. NoOp \in KindsInUse
  BY DEF NoOp, KindsInUse, Kinds
<1> QED
  BY <1>1, <1>2, <1>3, WriteReadAssumption DEF LoopGoesOn, SlowestStepLast, NullResponseMax

(* The actions that end a loop, with and without dsa2_record_final.        *)
LEMMA FinishKeepsInvariant ==
  ASSUME IInv, Finish
  PROVE  IInv'
<1>1. /\ Return /\ UNCHANGED <<detached, user_step>>
      /\ null_msg_ct' = 0 /\ null_adjusted' = FALSE
      /\ pc = "try"
  BY DEF Finish
<1>2. left_early' = (left_early /\ ~op.dynamic)
  BY DEF Finish
<1>3. left_early' \in BOOLEAN /\ (~left_early' /\ ~op.dynamic => ~left_early)
  BY <1>2, Zenon DEF IInv, TypeOK
<1>4. ~detached
  BY <1>1 DEF IInv, LoopGoesOn
<1>5. /\ LoopGoesOn' /\ SlowestStepLast'
      /\ op' \in KindsInUse /\ pc' = "idle"
      /\ statuses' = <<>> /\ statuses' \in Seq(TryStatuses) /\ Len(statuses') <= MaxTries
  BY <1>1, <1>4, ReturnKeepsLoop
<1>6. /\ rtable' \in ResultsTables
      /\ \A j \in DOMAIN rtable'.recent : rtable'.recent[j] \in 1..MaxTries
      /\ op.dynamic => rtable'.loop_step = rtable'.cur_step /\ rtable'.null_ct = 0
      /\ ~op.dynamic => rtable' = rtable
      /\ result' \in Results
      /\ last' \in TryStatuses
  BY FinishLearns
<1>7. TypeOK'
  <2>1. 0 \in 0..NullCtBound /\ FALSE \in BOOLEAN
    BY DEF NullCtBound
  <2> QED
    BY <1>1, <1>3, <1>5, <1>6, <2>1 DEF IInv, TypeOK
<1>8. StepOrder'
  <2>1. rtable'.cur_step \in Int /\ rtable'.recent_step <= StepLast
    BY <1>6, Dsa2Assumption DEF ResultsTables, AllSteps
  <2>2. CASE op.dynamic
    BY <1>6, <2>1, <2>2 DEF StepOrder
  <2>3. CASE ~op.dynamic
    <3>1. rtable' = rtable
      BY <1>6, <2>3
    <3> QED
      BY <1>1, <3>1 DEF IInv, StepOrder
  <2> QED
    BY <2>2, <2>3
<1>9. ResetUntilFailure'
  <2>1. CASE op.dynamic
    BY <1>1, <1>6, <2>1 DEF ResetUntilFailure
  <2>2. CASE ~op.dynamic
    <3>1. rtable' = rtable
      BY <1>6, <2>2
    <3> QED
      BY <1>1, <1>3, <1>4, <2>2, <3>1 DEF IInv, ResetUntilFailure
  <2> QED
    BY <2>1, <2>2
<1> QED
  BY <1>5, <1>7, <1>8, <1>9 DEF IInv

(* The bus is dead: the per loop state stays, and left_early says so.      *)
LEMMA AbandonKeepsInvariant ==
  ASSUME IInv, Abandon
  PROVE  IInv'
<1>1. /\ Return /\ last' = "DEAD" /\ result' = "DISCONNECTED"
      /\ null_adjusted' \in NullAdjustment("DEAD")
      /\ UNCHANGED <<rtable, detached, null_msg_ct, user_step>>
      /\ pc = "try"
  BY DEF Abandon
<1>2. left_early' = (left_early \/ statuses # <<>>)
  BY DEF Abandon
<1>3. left_early' \in BOOLEAN /\ (~left_early' => ~left_early /\ statuses = <<>>)
  BY <1>2, Zenon DEF IInv, TypeOK
<1>4. ~detached
  BY <1>1 DEF IInv, LoopGoesOn
<1>5. /\ LoopGoesOn' /\ SlowestStepLast'
      /\ op' \in KindsInUse /\ pc' = "idle"
      /\ statuses' = <<>> /\ statuses' \in Seq(TryStatuses) /\ Len(statuses') <= MaxTries
  BY <1>1, <1>4, ReturnKeepsLoop
<1>6. null_adjusted' \in BOOLEAN
  BY <1>1 DEF NullAdjustment, IInv, TypeOK
<1>7. TypeOK'
  BY <1>1, <1>3, <1>5, <1>6 DEF IInv, TypeOK, TryStatuses, Results
<1>8. StepOrder' /\ ResetUntilFailure'
  BY <1>1, <1>3, <1>4 DEF IInv, StepOrder, ResetUntilFailure
<1> QED
  BY <1>5, <1>7, <1>8 DEF IInv

(* An operation begins with the table as the one before left it.           *)
LEMMA StartKeepsInvariant ==
  ASSUME IInv, Start
  PROVE  IInv'
<1>1. /\ pc = "idle" /\ ~detached /\ op' \in KindsInUse /\ pc' = "try"
      /\ result' = "NONE" /\ last' = "NONE"
      /\ UNCHANGED <<rtable, detached, null_msg_ct, null_adjusted, user_step, statuses,
                     left_early>>
  BY DEF Start, pdd
<1>2. statuses = <<>>
  BY <1>1 DEF IInv, LoopGoesOn
<1>3. NullCt(statuses)' = 0
  BY <1>1, <1>2, FS_EmptySet DEF NullCt, CountOf
<1>4. TypeOK'
  BY <1>1 DEF IInv, TypeOK, Results
<1>5. LoopGoesOn'
  BY <1>1, <1>3 DEF IInv, LoopGoesOn, NullResponseMax
<1>6. StepOrder' /\ ResetUntilFailure'
  BY <1>1, <1>2 DEF IInv, StepOrder, ResetUntilFailure
<1>7. SlowestStepLast'
  BY <1>1, <1>2, WriteReadAssumption DEF SlowestStepLast
<1> QED
  BY <1>4, <1>5, <1>6, <1>7 DEF IInv

(* A multiplier, and a new process, bring a table that is reset.           *)
LEMMA NewTablesKeepInvariant ==
  ASSUME IInv, SetMultiplier \/ Restart
  PROVE  IInv'
<1>1. DsaSteps \subseteq AllSteps
  BY Dsa2Assumption DEF DsaSteps, AllSteps
<1>2. CASE SetMultiplier
  <2>1. PICK step \in DsaSteps : rtable' = NewTable(step)
    BY <1>2 DEF SetMultiplier
  <2>2. /\ pc = "idle" /\ detached' = TRUE /\ user_step' \in DsaSteps
        /\ UNCHANGED <<null_msg_ct, null_adjusted, op, pc, statuses, result, last, left_early>>
    BY <1>2 DEF SetMultiplier, pdd, history
  <2>3. /\ rtable' \in ResultsTables /\ rtable'.recent = <<>>
    BY <1>1, <2>1, NewTableIsReset
  <2>4. user_step' # NoStep
    BY <2>2, WriteReadAssumption, Dsa2Assumption DEF DsaSteps
  <2>5. TypeOK'
    BY <2>2, <2>3 DEF IInv, TypeOK
  <2>6. LoopGoesOn'
    <3>1. NullCt(statuses)' = NullCt(statuses)
      BY <2>2 DEF NullCt
    <3> QED
      BY <2>2, <2>4, <3>1 DEF IInv, LoopGoesOn
  <2> QED
    BY <2>2, <2>5, <2>6 DEF IInv, StepOrder, ResetUntilFailure, SlowestStepLast
<1>3. CASE Restart
  <2> DEFINE table == IF detached THEN NewTable(user_step) ELSE rtable
  <2>1. /\ rtable' \in AtProcessStart(table, InitialStep)
        /\ detached' = FALSE /\ null_msg_ct' = 0 /\ null_adjusted' = FALSE
        /\ user_step' = NoStep /\ last' = "NONE" /\ result' = "NONE" /\ left_early' = FALSE
        /\ Return
    BY <1>3 DEF Restart
  <2>2. /\ table \in ResultsTables
        /\ \A j \in DOMAIN table.recent : table.recent[j] \in 1..MaxTries
    <3>1. CASE detached
      <4>1. user_step \in AllSteps
        BY <1>1, <3>1 DEF IInv, TypeOK, LoopGoesOn
      <4>2. table = NewTable(user_step)
        BY <3>1
      <4> QED
        BY <4>1, <4>2, NewTableIsReset
    <3>2. CASE ~detached
      BY <3>2 DEF IInv, TypeOK
    <3> QED
      BY <3>1, <3>2
  <2> HIDE DEF table
  <2>3. /\ rtable' \in ResultsTables
        /\ rtable'.loop_step = rtable'.cur_step
        /\ rtable'.null_ct = 0
        /\ rtable'.recent \in {<<>>, table.recent}
    BY <2>1, <2>2, RestoredIsReset, WriteReadAssumption
  <2>4. \A j \in DOMAIN rtable'.recent : rtable'.recent[j] \in 1..MaxTries
    BY <2>2, <2>3
  <2>5. /\ LoopGoesOn' /\ SlowestStepLast'
        /\ op' \in KindsInUse /\ pc' = "idle"
        /\ statuses' = <<>> /\ statuses' \in Seq(TryStatuses) /\ Len(statuses') <= MaxTries
    BY <2>1, ReturnKeepsLoop
  <2>6. TypeOK'
    <3>1. 0 \in 0..NullCtBound /\ FALSE \in BOOLEAN /\ "NONE" \in Results
      BY DEF NullCtBound, Results
    <3> QED
      BY <2>1, <2>3, <2>4, <2>5, <3>1 DEF TypeOK
  <2>7. StepOrder'
    <3>1. rtable'.cur_step \in Int /\ rtable'.recent_step <= StepLast
      BY <2>3, Dsa2Assumption DEF ResultsTables, AllSteps
    <3> QED
      BY <2>3, <3>1 DEF StepOrder
  <2>8. ResetUntilFailure'
    BY <2>1, <2>3 DEF ResetUntilFailure
  <2> QED
    BY <2>5, <2>6, <2>7, <2>8 DEF IInv
<1> QED
  BY <1>2, <1>3

(* IInv holds in every reachable state.                                    *)
THEOREM InvariantHolds == Spec => []IInv
<1>1. Init => IInv
  <2> SUFFICES ASSUME Init PROVE IInv
    OBVIOUS
  <2>1. /\ rtable \in ResultsTables /\ rtable.loop_step = rtable.cur_step
        /\ rtable.null_ct = 0 /\ rtable.recent = <<>>
    BY NewTableIsReset, WriteReadAssumption DEF Init
  <2>2. NullCt(statuses) = 0
    BY FS_EmptySet DEF Init, NullCt, CountOf
  <2>3. NoOp \in KindsInUse
    BY DEF NoOp, KindsInUse, Kinds
  <2>4. TypeOK
    <3>1. 0 \in 0..NullCtBound /\ FALSE \in BOOLEAN /\ "NONE" \in Results
      BY DEF NullCtBound, Results
    <3>2. /\ statuses = <<>> /\ statuses \in Seq(TryStatuses) /\ Len(statuses) <= MaxTries
      BY WriteReadAssumption DEF Init
    <3>3. \A j \in DOMAIN rtable.recent : rtable.recent[j] \in 1..MaxTries
      BY <2>1
    <3> QED
      BY <2>1, <2>3, <3>1, <3>2, <3>3 DEF Init, TypeOK
  <2>5. LoopGoesOn
    BY <2>2, WriteReadAssumption DEF Init, LoopGoesOn, NullResponseMax
  <2>6. StepOrder
    <3>1. rtable.cur_step \in Int /\ rtable.recent_step <= StepLast
      BY <2>1, Dsa2Assumption DEF ResultsTables, AllSteps
    <3> QED
      BY <2>1, <3>1 DEF StepOrder
  <2>7. ResetUntilFailure /\ SlowestStepLast
    BY <2>1 DEF Init, ResetUntilFailure, SlowestStepLast
  <2> QED
    BY <2>4, <2>5, <2>6, <2>7 DEF IInv
<1>2. IInv /\ [Next]_vars => IInv'
  <2>1. ASSUME IInv, UNCHANGED vars PROVE IInv'
    <3>1. NullCt(statuses)' = NullCt(statuses)
      BY <2>1 DEF vars, NullCt
    <3> QED
      BY <2>1, <3>1 DEF vars, pdd, history, IInv, TypeOK, LoopGoesOn, StepOrder,
                        ResetUntilFailure, SlowestStepLast
  <2> QED
    BY <2>1, StartKeepsInvariant, RetryKeepsInvariant, FinishKeepsInvariant,
       AbandonKeepsInvariant, NewTablesKeepInvariant DEF Next
<1> QED
  BY <1>1, <1>2, PTL DEF Spec

(* LoopState: the assertions of base/dsa2.c on the order of the steps hold *)
(* at every moment, and an operation starts with the per loop state reset  *)
(* unless the one before left its loop because the bus was dead.           *)
THEOREM LoopStateHolds == Spec => []LoopState
<1>1. IInv => LoopState
  BY DEF IInv, LoopGoesOn, ResetUntilFailure, LoopState, LoopStateReset
<1> QED
  BY <1>1, InvariantHolds, PTL

----------------------------------------------------------------------------
(* An operation returns by the end of its loop or because the bus is dead, *)
(* and its tries are those before and the last.                            *)
LEMMA ReturnsBy ==
  ASSUME IInv, Next, Returned
  PROVE  /\ Finish \/ Abandon
         /\ result' = "DISCONNECTED" <=> Abandon
         /\ ~detached
         /\ \A status : last' = status => Tried = Attempt(status)
<1>1. Finish \/ Abandon
  BY DEF Next, Returned, Start, Retry, SetMultiplier, Restart
<1>2. Abandon => result' = "DISCONNECTED"
  BY DEF Abandon
<1>3. Finish => result' # "DISCONNECTED"
  BY FinishLearns
<1>4. ~detached
  BY DEF Returned, IInv, LoopGoesOn
<1> QED
  BY <1>1, <1>2, <1>3, <1>4 DEF Tried, Attempt

(* ResultIsTrue: the status an operation returns is true of the responses  *)
(* it got, whatever the monitor answers and however often.                 *)
THEOREM StatusTellsTheTruth == Spec => ResultIsTrue
<1>1. IInv /\ [Next]_vars =>
        [Returned =>
           /\ \A i \in DOMAIN statuses : statuses[i] \in {"NULL", "DATA"}
           /\ result' = "OK" <=> last' = "OK"
           /\ result' = "RETRIES" => Len(Tried) = MaxTries /\ last' \in {"NULL", "DATA"}
           /\ result' = "DETERMINED_UNSUPPORTED" =>
                /\ Len(Tried) > NullResponseMax
                /\ \A i \in DOMAIN Tried : Tried[i] = "NULL"
           /\ result' = "ALL_RESPONSES_NULL" =>
                last' = "NULL" /\ CountOf("NULL", Tried) > NullResponseMax
           /\ result' = "DISCONNECTED" => last' = "DEAD"]_vars
  <2> SUFFICES ASSUME IInv, Next, Returned
               PROVE  /\ \A i \in DOMAIN statuses : statuses[i] \in {"NULL", "DATA"}
                      /\ result' = "OK" <=> last' = "OK"
                      /\ result' = "RETRIES" =>
                           Len(Tried) = MaxTries /\ last' \in {"NULL", "DATA"}
                      /\ result' = "DETERMINED_UNSUPPORTED" =>
                           /\ Len(Tried) > NullResponseMax
                           /\ \A i \in DOMAIN Tried : Tried[i] = "NULL"
                      /\ result' = "ALL_RESPONSES_NULL" =>
                           last' = "NULL" /\ CountOf("NULL", Tried) > NullResponseMax
                      /\ result' = "DISCONNECTED" => last' = "DEAD"
    OBVIOUS
  <2>1. \A i \in DOMAIN statuses : statuses[i] \in {"NULL", "DATA"}
    BY DEF IInv, LoopGoesOn
  <2>2. CASE Finish
    <3>1. PICK status \in Responses \ {"DEAD"} :
            /\ ~Retryable(Attempt(status)) \/ Len(Attempt(status)) = MaxTries
            /\ last' = status
            /\ result' = FinalStatus(Attempt(status))
      BY <2>2, FinishEffect
    <3>2. Tried = Attempt(status) /\ last' = status /\ result' = FinalStatus(Attempt(status))
      BY <3>1, ReturnsBy
    <3> QED
      BY <2>1, <3>1, <3>2, FinalStatusIsTrue
  <2>3. CASE Abandon
    <3>1. result' = "DISCONNECTED" /\ last' = "DEAD"
      BY <2>3 DEF Abandon
    <3> QED
      BY <2>1, <3>1
  <2> QED
    BY <2>2, <2>3, ReturnsBy
<1> QED
  BY <1>1, InvariantHolds, PTL DEF Spec, ResultIsTrue

(* What an operation leaves in the results table, by how it ended.         *)
LEMMA RecordedLearns ==
  ASSUME IInv, Next, Recorded
  PROVE  /\ rtable.cur_step \in AllSteps /\ rtable'.cur_step \in AllSteps
         /\ result' # "OK" \/ Len(Tried) > TargetMaxTries =>
              rtable'.cur_step > rtable.cur_step \/ rtable'.cur_step = StepLast
         /\ rtable'.cur_step < rtable.cur_step =>
              /\ rtable'.cur_step = rtable.cur_step - 1
              /\ result' = "OK"
              /\ Len(rtable'.recent) >= MinDecrementLookback
              /\ \A i \in DOMAIN rtable'.recent : rtable'.recent[i] <= 2
<1>1. Finish /\ op.dynamic /\ ~detached
  BY ReturnsBy DEF Recorded
<1>2. PICK status \in Responses \ {"DEAD"} :
        LET tried == Attempt(status)
            tries == IF AllNullMeantUnsupported(tried) THEN 1 ELSE Len(tried)
        IN  /\ ~Retryable(tried) \/ Len(tried) = MaxTries
            /\ last' = status
            /\ result' = FinalStatus(tried)
            /\ tries \in 1..MaxTries
            /\ status = "OK" => tries = Len(tried)
            /\ op.dynamic => \E adjusted \in BOOLEAN :
                               rtable' = RecordFinal(rtable, status, tries, adjusted)
            /\ ~op.dynamic => rtable' = rtable
  BY <1>1, FinishEffect
<1> DEFINE tries == IF AllNullMeantUnsupported(Attempt(status)) THEN 1
                                                                ELSE Len(Attempt(status))
<1>3. PICK adjusted \in BOOLEAN : rtable' = RecordFinal(rtable, status, tries, adjusted)
  BY <1>1, <1>2
<1>4. /\ tries \in Nat /\ status \in TryStatuses
      /\ status = "OK" => tries = Len(Tried)
      /\ result' = "OK" <=> status = "OK"
  <2>1. Tried = Attempt(status)
    BY <1>2, ReturnsBy DEF Recorded
  <2>2. result' = "OK" <=> status = "OK"
    BY <1>2, FinalStatusIsTrue
  <2>3. tries \in Nat
    BY <1>2, WriteReadAssumption
  <2> QED
    BY <1>2, <2>1, <2>2, <2>3 DEF Responses
<1>5. rtable \in ResultsTables /\ rtable.cur_step <= rtable.loop_step
  BY <1>1 DEF IInv, TypeOK, StepOrder
<1> HIDE DEF tries
<1>6. /\ rtable' \in ResultsTables
      /\ status # "OK" \/ tries > TargetMaxTries =>
           rtable'.cur_step > rtable.cur_step \/ rtable'.cur_step = StepLast
      /\ rtable'.cur_step < rtable.cur_step =>
           /\ rtable'.cur_step = rtable.cur_step - 1
           /\ status = "OK"
           /\ Len(rtable'.recent) >= MinDecrementLookback
           /\ \A i \in DOMAIN rtable'.recent : rtable'.recent[i] <= 2
  BY <1>3, <1>4, <1>5, RecordFinalLearns
<1>7. rtable.cur_step \in AllSteps /\ rtable'.cur_step \in AllSteps
  BY <1>5, <1>6 DEF ResultsTables
<1> QED
  BY <1>4, <1>6, <1>7

(* TroubleSlowsDown: a failure, or a success after more than three tries,  *)
(* makes the next operation slower, as far as there is a slower step.      *)
THEOREM TroubleIsHeeded == Spec => TroubleSlowsDown
<1>1. IInv /\ [Next]_vars =>
        [Recorded /\ ~MeantUnsupported /\ (result' # "OK" \/ Len(Tried) > TargetMaxTries)
           => rtable'.cur_step > rtable.cur_step \/ rtable'.cur_step = StepLast]_vars
  BY RecordedLearns
<1> QED
  BY <1>1, InvariantHolds, PTL DEF Spec, TroubleSlowsDown

(* SpeedUpIsEarned: the step falls by one, and only when all of a row of   *)
(* recent successes needed two tries at most.                              *)
THEOREM SpeedUpsAreEarned == Spec => SpeedUpIsEarned
<1>1. IInv /\ [Next]_vars =>
        [Recorded /\ rtable'.cur_step < rtable.cur_step =>
           /\ rtable'.cur_step = rtable.cur_step - 1
           /\ result' = "OK"
           /\ Len(rtable'.recent) >= MinDecrementLookback
           /\ \A i \in DOMAIN rtable'.recent : rtable'.recent[i] <= 2]_vars
  BY RecordedLearns
<1> QED
  BY <1>1, InvariantHolds, PTL DEF Spec, SpeedUpIsEarned

(* GivesUpAtSlowestStep: dsa2_next_retry_step spreads the steps over the   *)
(* tries left so that an operation never gives up before the slowest step. *)
THEOREM SlowestStepIsTried == Spec => GivesUpAtSlowestStep
<1>1. IInv /\ [Next]_vars =>
        [Recorded /\ result' = "RETRIES" /\ ~op.null_means /\ MaxTries > 1
           => rtable.loop_step = StepLast]_vars
  <2> SUFFICES ASSUME IInv, Next, Recorded, result' = "RETRIES", ~op.null_means, MaxTries > 1
               PROVE  rtable.loop_step = StepLast
    OBVIOUS
  <2>1. Finish /\ pc = "try" /\ op.dynamic
    BY ReturnsBy DEF Recorded, Finish
  <2>2. PICK status \in Responses \ {"DEAD"} :
          /\ ~Retryable(Attempt(status)) \/ Len(Attempt(status)) = MaxTries
          /\ result' = FinalStatus(Attempt(status))
    BY <2>1, FinishEffect
  <2>3. Len(Attempt(status)) = MaxTries
    BY <2>2, FinalStatusIsTrue
  <2>4. Len(statuses) = MaxTries - 1
    <3>1. Len(Attempt(status)) = Len(statuses) + 1 /\ statuses \in Seq(TryStatuses)
      BY AttemptAdds DEF IInv, TypeOK
    <3> QED
      BY <2>3, <3>1
  <2> QED
    BY <2>1, <2>4 DEF IInv, SlowestStepLast
<1> QED
  BY <1>1, InvariantHolds, PTL DEF Spec, GivesUpAtSlowestStep

----------------------------------------------------------------------------
(***************************************************************************)
(* What is asked, and the packet it is asked with.                         *)
(***************************************************************************)
IsRequest(r) ==
  /\ r \in Message
  /\ \/ r.kind \in {"get", "table"} /\ r.data = <<>>
     \/ r.kind = "set" /\ Len(r.data) = 2
     \/ r.kind \in {"save", "capabilities"} /\ r.code = 0 /\ r.data = <<>>
     \/ r.kind = "write" /\ r.offset \in WriteOffsets
        /\ Len(r.data) \in 0..MAX_DDC_MULTI_PART_FRAGMENT_SIZE
  /\ r.kind \in {"get", "set", "save"} => r.offset = 0

\* The data bytes of a packet whose offset is complete, updated or not.
SentData(r) ==
  CASE r.kind = "get"          -> <<1, r.code>>
    [] r.kind = "set"          -> <<3, r.code>> \o r.data
    [] r.kind = "save"         -> <<12>>
    [] r.kind = "capabilities" -> <<243, HiByte(r.offset), LoByte(r.offset)>>
    [] r.kind = "table"        -> <<226, r.code, HiByte(r.offset), LoByte(r.offset)>>
    [] r.kind = "write"        -> <<231, r.code, HiByte(r.offset), LoByte(r.offset)>> \o r.data

Header(data) == <<110, 81, 128 + Len(data)>> \o data
Sealed(bytes) == Append(bytes, XorAll(bytes))
PacketFor(r)  == Sealed(Header(SentData(r)))

OffsetFits(r) == r.kind = "write" => r.offset \in Byte
RequestInv == IsRequest(request) /\ (OffsetFits(request) => packet = PacketFor(request))

(***************************************************************************)
(* What is answered, and the bytes that came.                              *)
(***************************************************************************)
IsAnswer(a) ==
  /\ a \in Message
  /\ \/ a.kind \in {"null", "zeros"}
     \/ a.kind \in {"value", "unsupported"} /\ a.offset = 0 /\ Len(a.data) = 4
     \/ a.kind \in {"capabilities", "table"} /\ a.code = 0
        /\ Len(a.data) \in 0..MAX_DDC_MULTI_PART_FRAGMENT_SIZE

\* The two ways an answer can come.
Copies(a) == {AnswerBytes(a), IF a.kind = "zeros" THEN AnswerBytes(a)
                                                  ELSE <<110>> \o AnswerBytes(a)}

\* Byte k and no other is not what it was.
ChangedAt(bytes, k, sent) ==
  /\ bytes \in Seq(Byte) /\ Len(bytes) = Len(sent)
  /\ bytes[k] # sent[k]
  /\ \A i \in 1..Len(sent) : i # k => bytes[i] = sent[i]

AnswerInv ==
  /\ fill \in Byte
  /\ damaged \in BOOLEAN
  /\ answer = None => readbuf = <<>> /\ ~damaged
  /\ answer # None =>
       /\ IsAnswer(answer)
       /\ request.kind \in {"get", "capabilities", "table"}
       /\ \E sent \in Copies(answer) :
            IF damaged THEN \E k \in 1..Len(sent) : ChangedAt(readbuf, k, sent)
                       ELSE readbuf = sent

Interpretation == IF AllZero(readbuf) THEN Failed("READ_ALL_ZERO") ELSE TypedResponse(readbuf)
ToldInv == told # None => answer # None /\ told = Interpretation

PacketsInv == RequestInv /\ AnswerInv /\ ToldInv

(* A bit is 0 or 1.                                                          *)
LEMMA BitType ==
  ASSUME NEW x \in Nat, NEW w \in Weights
  PROVE  Bit(x, w) \in {0, 1}
BY DEF Bit, Weights

(* Bytes are numbers, and zero is one of them.                               *)
LEMMA BytesAreNumbers == Byte \subseteq Nat /\ 0 \in Byte
BY DEF Byte

(* The positions whose byte has a bit set can be counted.                    *)
LEMMA ParityType ==
  ASSUME NEW s \in Seq(Byte), NEW w \in Weights
  PROVE  /\ IsFiniteSet({i \in DOMAIN s : Bit(s[i], w) = 1})
         /\ Parity(s, w) \in {0, 1}
<1> DEFINE P == {i \in DOMAIN s : Bit(s[i], w) = 1}
<1>1. DOMAIN s = 1..Len(s) /\ Len(s) \in Nat
  BY LenProperties
<1>2. IsFiniteSet(1..Len(s))
  BY <1>1, FS_Interval
<1>3. IsFiniteSet(P)
  BY <1>1, <1>2, FS_Subset
<1>4. Cardinality(P) \in Nat
  BY <1>3, FS_CardinalityType
<1> QED
  BY <1>3, <1>4 DEF Parity

(* What is put together of bits has exactly these bits.                      *)
LEMMA BitsOfOfBits ==
  ASSUME NEW b \in [Weights -> {0, 1}], NEW w \in Weights
  PROVE  OfBits(b) \in Byte /\ Bit(OfBits(b), w) = b[w]
<1>1. /\ b[1] \in {0, 1} /\ b[2] \in {0, 1} /\ b[4] \in {0, 1} /\ b[8] \in {0, 1}
      /\ b[16] \in {0, 1} /\ b[32] \in {0, 1} /\ b[64] \in {0, 1} /\ b[128] \in {0, 1}
  BY DEF Weights
<1>2. OfBits(b) \in Byte
  BY <1>1 DEF OfBits, Byte
<1>3. w = 1 \/ w = 2 \/ w = 4 \/ w = 8 \/ w = 16 \/ w = 32 \/ w = 64 \/ w = 128
  BY DEF Weights
<1>4. Bit(OfBits(b), w) = b[w]
  BY <1>1, <1>3 DEF OfBits, Bit
<1> QED
  BY <1>2, <1>4

(* A byte is put together of its bits.                                       *)
LEMMA OfBitsOfBits ==
  ASSUME NEW x \in Byte
  PROVE  x = OfBits([w \in Weights |-> Bit(x, w)])
<1>1. x = Bit(x, 1) + 2 * Bit(x, 2) + 4 * Bit(x, 4) + 8 * Bit(x, 8)
            + 16 * Bit(x, 16) + 32 * Bit(x, 32) + 64 * Bit(x, 64) + 128 * Bit(x, 128)
  BY DEF Byte, Bit
<1> QED
  BY <1>1 DEF OfBits, Weights

(* Bytes with the same bits are the same.                                    *)
LEMMA SameBits ==
  ASSUME NEW x \in Byte, NEW y \in Byte, \A w \in Weights : Bit(x, w) = Bit(y, w)
  PROVE  x = y
<1>1. [w \in Weights |-> Bit(x, w)] = [w \in Weights |-> Bit(y, w)]
  OBVIOUS
<1> QED
  BY <1>1, OfBitsOfBits

(* The bits of an exclusive or are the parities.                             *)
LEMMA BitOfXorAll ==
  ASSUME NEW s \in Seq(Byte)
  PROVE  /\ XorAll(s) \in Byte
         /\ \A w \in Weights : Bit(XorAll(s), w) = Parity(s, w)
<1>1. [w \in Weights |-> Parity(s, w)] \in [Weights -> {0, 1}]
  BY ParityType
<1>2. 1 \in Weights
  BY DEF Weights
<1> QED
  BY <1>1, <1>2, BitsOfOfBits DEF XorAll

(* One more byte.                                                            *)
LEMMA ParityOfAppend ==
  ASSUME NEW s \in Seq(Byte), NEW x \in Byte, NEW w \in Weights
  PROVE  Parity(Append(s, x), w) = (Parity(s, w) + Bit(x, w)) % 2
<1> DEFINE P == {i \in DOMAIN s : Bit(s[i], w) = 1}
           Q == {i \in DOMAIN Append(s, x) : Bit(Append(s, x)[i], w) = 1}
           n == Len(s) + 1
<1>1. /\ Append(s, x) \in Seq(Byte) /\ Len(Append(s, x)) = n
      /\ \A i \in 1..Len(s) : Append(s, x)[i] = s[i]
      /\ Append(s, x)[n] = x
  BY AppendProperties
<1>2. DOMAIN s = 1..Len(s) /\ DOMAIN Append(s, x) = 1..n /\ Len(s) \in Nat
  BY <1>1, LenProperties
<1>3. IsFiniteSet(P) /\ Cardinality(P) \in Nat
  BY ParityType, FS_CardinalityType
<1>4. n \notin P
  BY <1>2
<1>5. CASE Bit(x, w) = 1
  <2>1. Q = P \cup {n}
    BY <1>1, <1>2, <1>5
  <2>2. Cardinality(Q) = Cardinality(P) + 1
    BY <2>1, <1>3, <1>4, FS_AddElement
  <2>3. Parity(Append(s, x), w) = Cardinality(Q) % 2 /\ Parity(s, w) = Cardinality(P) % 2
    BY DEF Parity
  <2> HIDE DEF P, Q
  <2> QED
    BY <2>2, <2>3, <1>3, <1>5
<1>6. CASE Bit(x, w) = 0
  <2>1. Q = P
    BY <1>1, <1>2, <1>6
  <2>2. Cardinality(Q) = Cardinality(P)
    BY <2>1
  <2>3. Parity(Append(s, x), w) = Cardinality(Q) % 2 /\ Parity(s, w) = Cardinality(P) % 2
    BY DEF Parity
  <2> HIDE DEF P, Q
  <2> QED
    BY <2>2, <2>3, <1>3, <1>6
<1> QED
  BY <1>5, <1>6, BitType DEF Byte

(* A checksum makes the exclusive or of all bytes zero.                      *)
LEMMA SealedIsZero ==
  ASSUME NEW s \in Seq(Byte)
  PROVE  XorAll(Append(s, XorAll(s))) = 0
<1> DEFINE sealed == Append(s, XorAll(s))
<1>1. XorAll(s) \in Byte /\ sealed \in Seq(Byte)
  BY BitOfXorAll, AppendProperties
<1>2. ASSUME NEW w \in Weights PROVE Bit(XorAll(sealed), w) = Bit(0, w)
  <2>1. Bit(XorAll(sealed), w) = (Parity(s, w) + Bit(XorAll(s), w)) % 2
    BY <1>1, BitOfXorAll, ParityOfAppend
  <2>2. Bit(XorAll(s), w) = Parity(s, w) /\ Parity(s, w) \in {0, 1}
    BY BitOfXorAll, ParityType
  <2>3. Bit(0, w) = 0
    BY DEF Bit, Weights
  <2> QED
    BY <2>1, <2>2, <2>3
<1>3. XorAll(sealed) \in Byte /\ 0 \in Byte
  BY <1>1, BitOfXorAll, BytesAreNumbers
<1> QED
  BY <1>2, <1>3, SameBits

(* If one byte differs, so does the exclusive or.                            *)
LEMMA OneByteDiffers ==
  ASSUME NEW s \in Seq(Byte), NEW t \in Seq(Byte), Len(s) = Len(t),
         NEW k \in 1..Len(s), s[k] # t[k],
         \A i \in 1..Len(s) : i # k => s[i] = t[i]
  PROVE  XorAll(s) # XorAll(t)
<1>1. DOMAIN s = 1..Len(s) /\ DOMAIN t = 1..Len(s) /\ s[k] \in Byte /\ t[k] \in Byte
  BY LenProperties, ElementOfSeq
<1>2. PICK w \in Weights : Bit(s[k], w) # Bit(t[k], w)
  BY <1>1, SameBits
<1> DEFINE P == {i \in DOMAIN s : Bit(s[i], w) = 1}
           Q == {i \in DOMAIN t : Bit(t[i], w) = 1}
<1>3. /\ IsFiniteSet(P) /\ Cardinality(P) \in Nat
      /\ IsFiniteSet(Q) /\ Cardinality(Q) \in Nat
  BY ParityType, FS_CardinalityType
<1>4. Bit(s[k], w) \in {0, 1} /\ Bit(t[k], w) \in {0, 1}
  BY <1>1, BitType, BytesAreNumbers
<1>5. \/ k \notin P /\ Q = P \cup {k}
      \/ k \notin Q /\ P = Q \cup {k}
  <2>1. CASE Bit(s[k], w) = 0 /\ Bit(t[k], w) = 1
    BY <1>1, <2>1
  <2>2. CASE Bit(s[k], w) = 1 /\ Bit(t[k], w) = 0
    BY <1>1, <2>2
  <2> QED
    BY <1>2, <1>4, <2>1, <2>2
<1>6. Parity(s, w) = Cardinality(P) % 2 /\ Parity(t, w) = Cardinality(Q) % 2
  BY DEF Parity
<1> HIDE DEF P, Q
<1>7. \/ Cardinality(Q) = Cardinality(P) + 1
      \/ Cardinality(P) = Cardinality(Q) + 1
  <2>1. CASE k \notin P /\ Q = P \cup {k}
    BY <1>3, <2>1, FS_AddElement
  <2>2. CASE k \notin Q /\ P = Q \cup {k}
    BY <1>3, <2>2, FS_AddElement
  <2> QED
    BY <1>5, <2>1, <2>2
<1>8. Parity(s, w) # Parity(t, w)
  <2> DEFINE m == Cardinality(P)  n == Cardinality(Q)
  <2>1. m \in Nat /\ n \in Nat /\ (n = m + 1 \/ m = n + 1)
    BY <1>3, <1>7
  <2>2. Parity(s, w) = m % 2 /\ Parity(t, w) = n % 2
    BY <1>6
  <2> HIDE DEF m, n
  <2> QED
    BY <2>1, <2>2
<1> QED
  BY <1>8, BitOfXorAll

(* No bytes, one, two and three bytes.                                       *)
LEMMA XorOfFew ==
  /\ XorAll(<<>>) = 0
  /\ \A x \in Byte : XorAll(<<x>>) = x
  /\ \A x, y \in Byte, w \in Weights : Bit(XorAll(<<x, y>>), w) = (Bit(x, w) + Bit(y, w)) % 2
  /\ \A x, y, z \in Byte, w \in Weights :
       Bit(XorAll(<<x, y, z>>), w) = (Bit(x, w) + Bit(y, w) + Bit(z, w)) % 2
<1>1. ASSUME NEW w \in Weights PROVE Parity(<<>>, w) = 0
  <2>1. {i \in DOMAIN <<>> : Bit(<<>>[i], w) = 1} = {}
    OBVIOUS
  <2> QED
    BY <2>1, FS_EmptySet DEF Parity
<1>2. <<>> \in Seq(Byte)
  BY EmptySeq
<1>3. ASSUME NEW x \in Byte
      PROVE  /\ <<x>> = Append(<<>>, x) /\ <<x>> \in Seq(Byte)
             /\ \A w \in Weights : Parity(<<x>>, w) = Bit(x, w)
  <2>1. <<x>> = Append(<<>>, x) /\ <<x>> \in Seq(Byte)
    OBVIOUS
  <2>2. ASSUME NEW w \in Weights PROVE Parity(<<x>>, w) = Bit(x, w)
    <3>1. Parity(<<x>>, w) = (0 + Bit(x, w)) % 2
      BY <1>1, <1>2, <2>1, ParityOfAppend
    <3>2. Bit(x, w) \in {0, 1}
      BY BitType DEF Byte
    <3> QED
      BY <3>1, <3>2
  <2> QED
    BY <2>1, <2>2
<1>4. ASSUME NEW x \in Byte, NEW y \in Byte
      PROVE  /\ <<x, y>> \in Seq(Byte)
             /\ \A w \in Weights : Parity(<<x, y>>, w) = (Bit(x, w) + Bit(y, w)) % 2
  <2>1. <<x, y>> = Append(<<x>>, y) /\ <<x, y>> \in Seq(Byte)
    OBVIOUS
  <2> QED
    BY <1>3, <2>1, ParityOfAppend
<1>5. ASSUME NEW x \in Byte, NEW y \in Byte, NEW z \in Byte
      PROVE  /\ <<x, y, z>> \in Seq(Byte)
             /\ \A w \in Weights :
                  Parity(<<x, y, z>>, w) = (Bit(x, w) + Bit(y, w) + Bit(z, w)) % 2
  <2>1. <<x, y, z>> = Append(<<x, y>>, z) /\ <<x, y, z>> \in Seq(Byte)
    OBVIOUS
  <2>2. ASSUME NEW w \in Weights
        PROVE  Parity(<<x, y, z>>, w) = (Bit(x, w) + Bit(y, w) + Bit(z, w)) % 2
    <3> DEFINE two == <<x, y>>
    <3>1. two \in Seq(Byte) /\ Parity(two, w) = (Bit(x, w) + Bit(y, w)) % 2
      BY <1>4
    <3> HIDE DEF two
    <3>3. Parity(Append(two, z), w) = (Parity(two, w) + Bit(z, w)) % 2
      BY <3>1, ParityOfAppend
    <3>4. Parity(<<x, y, z>>, w) = (Parity(two, w) + Bit(z, w)) % 2
      BY <2>1, <3>3 DEF two
    <3>2. Bit(x, w) \in {0, 1} /\ Bit(y, w) \in {0, 1} /\ Bit(z, w) \in {0, 1}
      BY BitType DEF Byte
    <3> QED
      BY <3>1, <3>2, <3>4
  <2> QED
    BY <2>1, <2>2
<1>6. XorAll(<<>>) = 0
  <2>1. XorAll(<<>>) \in Byte /\ 0 \in Byte
    BY <1>2, BitOfXorAll, BytesAreNumbers
  <2>2. \A w \in Weights : Bit(0, w) = 0
    BY DEF Bit, Weights
  <2>3. \A w \in Weights : Bit(XorAll(<<>>), w) = Bit(0, w)
    BY <1>1, <1>2, <2>2, BitOfXorAll
  <2> QED
    BY <2>1, <2>3, SameBits
<1>7. ASSUME NEW x \in Byte PROVE XorAll(<<x>>) = x
  BY <1>3, BitOfXorAll, SameBits, SMTT(30)
<1>8. \A x, y \in Byte, w \in Weights :
        Bit(XorAll(<<x, y>>), w) = (Bit(x, w) + Bit(y, w)) % 2
  BY <1>4, BitOfXorAll
<1>9. \A x, y, z \in Byte, w \in Weights :
        Bit(XorAll(<<x, y, z>>), w) = (Bit(x, w) + Bit(y, w) + Bit(z, w)) % 2
  <2> TAKE x, y, z \in Byte, w \in Weights
  <2> DEFINE three == <<x, y, z>>
  <2>1. three \in Seq(Byte) /\ Parity(three, w) = (Bit(x, w) + Bit(y, w) + Bit(z, w)) % 2
    BY <1>5
  <2> HIDE DEF three
  <2>2. Bit(XorAll(three), w) = (Bit(x, w) + Bit(y, w) + Bit(z, w)) % 2
    BY <2>1, BitOfXorAll
  <2> QED
    BY <2>2 DEF three
<1> QED
  BY <1>6, <1>7, <1>8, <1>9

(* The checksum of an answer without data, and that of forty zeros.          *)
LEMMA TwoChecksums ==
  XorAll(<<80, 110, 128>>) = 190 /\ XorAll(<<80, 110, 0>>) = 62
<1>1. 80 \in Byte /\ 110 \in Byte /\ 128 \in Byte /\ 0 \in Byte /\ 190 \in Byte /\ 62 \in Byte
  BY DEF Byte
<1>2. <<80, 110, 128>> \in Seq(Byte) /\ <<80, 110, 0>> \in Seq(Byte)
  BY <1>1
<1>3. \A w \in Weights : Bit(XorAll(<<80, 110, 128>>), w) = Bit(190, w)
  BY <1>1, XorOfFew, SMTT(30) DEF Bit, Weights
<1>4. \A w \in Weights : Bit(XorAll(<<80, 110, 0>>), w) = Bit(62, w)
  BY <1>1, XorOfFew, SMTT(30) DEF Bit, Weights
<1>5. XorAll(<<80, 110, 128>>) \in Byte /\ XorAll(<<80, 110, 0>>) \in Byte
  BY <1>2, BitOfXorAll
<1>6. XorAll(<<80, 110, 128>>) = 190
  BY <1>1, <1>3, <1>5, SameBits
<1>7. XorAll(<<80, 110, 0>>) = 62
  BY <1>1, <1>4, <1>5, SameBits
<1> QED
  BY <1>6, <1>7

(* What DamageByte makes of a byte is another byte.                          *)
LEMMA DamagedByte ==
  ASSUME NEW x \in Byte, NEW mask \in Byte \ {0}
  PROVE  XorAll(<<x, mask>>) \in Byte \ {x}
<1>1. <<x, mask>> \in Seq(Byte) /\ 0 \in Byte
  BY DEF Byte
<1>2. PICK w \in Weights : Bit(mask, w) # Bit(0, w)
  BY <1>1, SameBits
<1>3. Bit(mask, w) = 1
  BY <1>2, BitType DEF Byte, Bit, Weights
<1>4. Bit(XorAll(<<x, mask>>), w) = (Bit(x, w) + 1) % 2
  BY <1>3, XorOfFew
<1>5. Bit(x, w) \in {0, 1}
  BY BitType DEF Byte
<1>6. Bit(XorAll(<<x, mask>>), w) # Bit(x, w)
  BY <1>4, <1>5
<1> QED
  BY <1>1, <1>6, BitOfXorAll

(***************************************************************************)
(* Requests.                                                               *)
(***************************************************************************)
(* One sequence of bytes after another.                                      *)
LEMMA Joined ==
  ASSUME NEW a \in Seq(Byte), NEW b \in Seq(Byte)
  PROVE  /\ a \o b \in Seq(Byte)
         /\ Len(a) \in Nat /\ Len(b) \in Nat /\ Len(a \o b) = Len(a) + Len(b)
         /\ \A i \in 1..Len(a) : (a \o b)[i] = a[i]
         /\ \A i \in 1..Len(b) : (a \o b)[Len(a) + i] = b[i]
<1>1. Len(a) \in Nat /\ Len(b) \in Nat
  BY LenProperties
<1>2. /\ a \o b \in Seq(Byte) /\ Len(a \o b) = Len(a) + Len(b)
      /\ \A i \in 1..Len(a) + Len(b) : (a \o b)[i] = IF i <= Len(a) THEN a[i] ELSE b[i - Len(a)]
  BY ConcatProperties
<1> QED
  BY <1>1, <1>2

(* The numbers from zero to one below a bound.                               *)
LEMMA BelowBound ==
  ASSUME NEW a \in Int, NEW o \in 0..a - 1
  PROVE  o \in Nat /\ o < a
OBVIOUS

(* The bytes of an offset are bytes, and give the offset back.               *)
LEMMA OffsetBytes ==
  ASSUME NEW o \in Offset
  PROVE  /\ HiByte(o) \in Byte /\ LoByte(o) \in Byte
         /\ 256 * HiByte(o) + LoByte(o) = o
         /\ o \in Byte => HiByte(o) = 0
<1>1. o \in Nat /\ o < 256 * 256
  <2>1. 256 * 256 \in Int
    OBVIOUS
  <2> QED
    BY <2>1, BelowBound, Zenon DEF Offset
<1>2. /\ o \div 256 \in 0..255 /\ o % 256 \in 0..255
      /\ o = 256 * (o \div 256) + (o % 256)
      /\ o <= 255 => o \div 256 = 0
  BY <1>1, SMTT(30)
<1>3. (o \div 256) % 256 = o \div 256
  BY <1>2
<1> QED
  BY <1>1, <1>2, <1>3 DEF HiByte, LoByte, Byte

(* The data of a request are bytes, at most 36.                              *)
LEMMA SentDataType ==
  ASSUME NEW r, IsRequest(r)
  PROVE  SentData(r) \in Seq(Byte) /\ Len(SentData(r)) \in 1..36
<1>1. /\ r.code \in Byte /\ r.offset \in Offset /\ r.data \in Seq(Byte)
      /\ Len(r.data) \in Nat
  BY LenProperties DEF IsRequest, Message
<1>2. HiByte(r.offset) \in Byte /\ LoByte(r.offset) \in Byte
  BY <1>1, OffsetBytes
<1>3. /\ 1 \in Byte /\ 3 \in Byte /\ 12 \in Byte /\ 243 \in Byte /\ 226 \in Byte
      /\ 231 \in Byte
  BY DEF Byte
<1>4. CASE r.kind = "get"
  <2>1. SentData(r) = <<1, r.code>>
    BY <1>4 DEF SentData
  <2> QED
    BY <2>1, <1>1, <1>3
<1>5. CASE r.kind = "set"
  <2>1. SentData(r) = <<3, r.code>> \o r.data /\ Len(r.data) = 2
    BY <1>5 DEF SentData, IsRequest
  <2>2. <<3, r.code>> \in Seq(Byte) /\ Len(<<3, r.code>>) = 2
    BY <1>1, <1>3
  <2>3. SentData(r) \in Seq(Byte) /\ Len(SentData(r)) = 2 + Len(r.data)
    BY <2>1, <2>2, <1>1, ConcatProperties, SMTT(30)
  <2> QED
    BY <2>1, <2>3
<1>6. CASE r.kind = "save"
  <2>1. SentData(r) = <<12>>
    BY <1>6 DEF SentData
  <2> QED
    BY <2>1, <1>3
<1>7. CASE r.kind = "capabilities"
  <2>1. SentData(r) = <<243, HiByte(r.offset), LoByte(r.offset)>>
    BY <1>7 DEF SentData
  <2> QED
    BY <2>1, <1>2, <1>3
<1>8. CASE r.kind = "table"
  <2>1. SentData(r) = <<226, r.code, HiByte(r.offset), LoByte(r.offset)>>
    BY <1>8 DEF SentData
  <2> QED
    BY <2>1, <1>1, <1>2, <1>3
<1>9. CASE r.kind = "write"
  <2>1. PICK d \in Seq(Byte) : d = r.data
    BY <1>1
  <2>2. PICK head \in Seq(Byte) :
          head = <<231, r.code, HiByte(r.offset), LoByte(r.offset)>> /\ Len(head) = 4
    <3> DEFINE four == <<231, r.code, HiByte(r.offset), LoByte(r.offset)>>
    <3>1. four \in Seq(Byte) /\ Len(four) = 4
      BY <1>1, <1>2, <1>3
    <3> HIDE DEF four
    <3> QED
      BY <3>1 DEF four
  <2>3. Len(d) \in 0..32
    BY <1>1, <1>9, <2>1 DEF IsRequest, MAX_DDC_MULTI_PART_FRAGMENT_SIZE
  <2>4. SentData(r) = head \o d
    BY <1>9, <2>1, <2>2 DEF SentData
  <2>5. SentData(r) \in Seq(Byte) /\ Len(SentData(r)) = 4 + Len(d)
    BY <2>2, <2>4, Joined
  <2>6. PICK n \in 0..32 : n = Len(d)
    BY <2>3
  <2>7. Len(SentData(r)) = 4 + n
    BY <2>5, <2>6
  <2>8. Len(SentData(r)) \in 1..36
    BY <2>7
  <2> QED
    BY <2>5, <2>8
<1> QED
  BY <1>4, <1>5, <1>6, <1>7, <1>8, <1>9 DEF IsRequest

\* The bytes of a packet, one by one, without its checksum and with it.
IsHeader(h, data) ==
  /\ h \in Seq(Byte) /\ Len(h) = 3 + Len(data)
  /\ h[1] = 110 /\ h[2] = 81 /\ h[3] = 128 + Len(data)
  /\ \A i \in 1..Len(data) : h[3 + i] = data[i]

IsSealed(p, data) ==
  /\ p \in Seq(Byte) /\ Len(p) = 4 + Len(data)
  /\ p[1] = 110 /\ p[2] = 81 /\ p[3] = 128 + Len(data)
  /\ \A i \in 1..Len(data) : p[3 + i] = data[i]
  /\ XorAll(p) = 0

(* What create_ddc_base_request_packet puts before the data, and the data.   *)
LEMMA HeaderBytes ==
  ASSUME NEW data \in Seq(Byte), Len(data) \in 1..36
  PROVE  IsHeader(Header(data), data)
<1>1. 110 \in Byte /\ 81 \in Byte /\ 128 + Len(data) \in Byte
  <2>1. PICK n \in 1..36 : n = Len(data)
    OBVIOUS
  <2>2. 110 \in Byte /\ 81 \in Byte /\ 128 + n \in Byte
    BY DEF Byte
  <2> QED
    BY <2>1, <2>2
<1>2. PICK head \in Seq(Byte) : head = <<110, 81, 128 + Len(data)>> /\ Len(head) = 3
  <2> DEFINE head == <<110, 81, 128 + Len(data)>>
  <2>1. head \in Seq(Byte) /\ Len(head) = 3
    BY <1>1
  <2> HIDE DEF head
  <2> QED
    BY <2>1 DEF head
<1>3. Header(data) = head \o data
  BY <1>2 DEF Header
<1>4. /\ head \o data \in Seq(Byte) /\ Len(head \o data) = Len(head) + Len(data)
      /\ \A i \in 1..Len(head) : (head \o data)[i] = head[i]
      /\ \A i \in 1..Len(data) : (head \o data)[Len(head) + i] = data[i]
  BY Joined
<1>5. head[1] = 110 /\ head[2] = 81 /\ head[3] = 128 + Len(data)
  BY <1>2
<1>6. PICK h : h = head \o data
  OBVIOUS
<1>7. /\ h \in Seq(Byte) /\ Len(h) = 3 + Len(data)
      /\ \A i \in 1..3 : h[i] = head[i]
      /\ \A i \in 1..Len(data) : h[3 + i] = data[i]
  BY <1>2, <1>4, <1>6
<1>8. IsHeader(h, data)
  <2>1. h[1] = 110 /\ h[2] = 81 /\ h[3] = 128 + Len(data)
    BY <1>5, <1>7
  <2> QED
    BY <1>7, <2>1 DEF IsHeader
<1> QED
  BY <1>3, <1>6, <1>8

(* ... and after the checksum is appended.                                   *)
LEMMA PacketBytes ==
  ASSUME NEW data \in Seq(Byte), Len(data) \in 1..36
  PROVE  IsSealed(Sealed(Header(data)), data)
<1>1. PICK h : h = Header(data)
  OBVIOUS
<1>2. /\ h \in Seq(Byte) /\ Len(h) = 3 + Len(data)
      /\ h[1] = 110 /\ h[2] = 81 /\ h[3] = 128 + Len(data)
      /\ \A i \in 1..Len(data) : h[3 + i] = data[i]
  <2>1. IsHeader(h, data)
    BY <1>1, HeaderBytes
  <2> QED
    BY <2>1 DEF IsHeader
<1>3. XorAll(h) \in Byte
  BY <1>2, BitOfXorAll
<1>4. PICK p : p = Sealed(h)
  OBVIOUS
<1>5. /\ p \in Seq(Byte) /\ Len(p) = Len(h) + 1
      /\ \A i \in 1..Len(h) : p[i] = h[i]
  BY <1>2, <1>3, <1>4, AppendProperties DEF Sealed
<1>6. PICK n \in 1..36 : n = Len(data)
  OBVIOUS
<1>7. Len(h) = n + 3
  BY <1>2, <1>6
<1>8. Len(p) = n + 4 /\ \A i \in 1..n + 3 : p[i] = h[i]
  <2>1. PICK m \in Nat : m = Len(h) /\ m = n + 3
    BY <1>7
  <2>2. Len(p) = m + 1 /\ \A i \in 1..m : p[i] = h[i]
    BY <1>5, <2>1
  <2> QED
    BY <2>1, <2>2
<1>9. \A i \in 1..n : 3 + i \in 1..n + 3
  OBVIOUS
<1>10. XorAll(p) = 0
  BY <1>2, <1>4, SealedIsZero DEF Sealed
<1>11. p[1] = 110 /\ p[2] = 81 /\ p[3] = 128 + Len(data)
  <2>1. 1 \in 1..n + 3 /\ 2 \in 1..n + 3 /\ 3 \in 1..n + 3
    OBVIOUS
  <2> QED
    BY <1>2, <1>8, <2>1
<1>12. ASSUME NEW i \in 1..Len(data) PROVE p[3 + i] = data[i]
  <2>1. h[3 + i] = data[i]
    BY <1>2
  <2>2. 3 + i \in 1..n + 3
    BY <1>6, <1>9
  <2>3. p[3 + i] = h[3 + i]
    BY <1>8, <2>2
  <2> QED
    BY <2>1, <2>3
<1>13. Len(p) = 4 + Len(data)
  BY <1>6, <1>8
<1>14. IsSealed(p, data)
  BY <1>5, <1>10, <1>11, <1>12, <1>13 DEF IsSealed
<1> QED
  BY <1>1, <1>4, <1>14

(* A request as it is first made: its offset is zero, or one that is written *)
(* at and fits its byte.                                                     *)
LEMMA FirstPacket ==
  ASSUME NEW r, IsRequest(r), OffsetFits(r), r.kind # "write" => r.offset = 0
  PROVE  BaseRequest(RequestData(r)) = PacketFor(r)
<1>1. r.offset \in Byte /\ r.offset \in Offset
  BY BytesAreNumbers DEF OffsetFits, IsRequest, Message
<1>2. (r.offset \div 65536) % 256 = HiByte(r.offset)
  <2>1. (r.offset \div 65536) % 256 = 0
    BY <1>1 DEF Byte
  <2> QED
    BY <1>1, <2>1, OffsetBytes
<1>3. RequestData(r) = SentData(r)
  BY <1>2 DEF RequestData, SentData, IsRequest
<1> QED
  BY <1>3 DEF BaseRequest, Checksum, PacketFor, Sealed, Header

\* Two sequences with the same bytes.
Alike(a, b) == Len(a) = Len(b) /\ \A i \in 1..Len(a) : a[i] = b[i]

(* They are the same.                                                        *)
LEMMA SameBytes ==
  ASSUME NEW a \in Seq(Byte), NEW b \in Seq(Byte), Alike(a, b)
  PROVE  a = b
BY SeqEqual DEF Alike

\* A packet without its last byte, and with x and y for two of the rest.
IsReplaced(q, p, k, l, x, y) ==
  /\ q \in Seq(Byte) /\ Len(p) = Len(q) + 1
  /\ q[k] = x /\ q[l] = y
  /\ \A i \in 1..Len(q) : i # k /\ i # l => q[i] = p[i]

(* A packet without its last byte, and with other bytes for two of the rest. *)
LEMMA ReplacedBytes ==
  ASSUME NEW p \in Seq(Byte), NEW k \in 1..Len(p) - 1, NEW l \in 1..Len(p) - 1,
         NEW x \in Byte, NEW y \in Byte, NEW q,
         k # l, q = Front([p EXCEPT ![k] = x, ![l] = y])
  PROVE  IsReplaced(q, p, k, l, x, y)
<1> DEFINE r == [p EXCEPT ![k] = x, ![l] = y]
<1>1. PICK n \in Nat : n = Len(p)
  BY LenProperties
<1>2. p \in [1..n -> Byte] /\ DOMAIN p = 1..n /\ k \in 1..n - 1 /\ l \in 1..n - 1
  BY <1>1, LenProperties
<1>3. /\ r \in [1..n -> Byte]
      /\ \A i \in 1..n : r[i] = IF i = k THEN x ELSE IF i = l THEN y ELSE p[i]
  BY <1>2
<1>4. r \in Seq(Byte) /\ Len(r) = n
  BY <1>3, SeqDef
<1> HIDE DEF r
<1>5. PICK m \in Nat : m = n - 1 /\ 1..m \subseteq 1..n
  BY <1>2
<1>6. Front(r) = SubSeq(r, 1, m)
  BY <1>4, <1>5 DEF Front
<1>7. \A i \in 1..m : r[i] \in Byte
  BY <1>3, <1>5
<1>8. /\ SubSeq(r, 1, m) \in Seq(Byte)
      /\ Len(SubSeq(r, 1, m)) = IF 1 <= m THEN m - 1 + 1 ELSE 0
      /\ \A i \in 1..m - 1 + 1 : SubSeq(r, 1, m)[i] = r[1 + i - 1]
  BY <1>7, SubSeqProperties
<1>9. m - 1 + 1 = m /\ (1 <= m \/ m = 0) /\ \A i \in 1..m : 1 + i - 1 = i
  OBVIOUS
<1>10. q \in Seq(Byte) /\ Len(q) = m /\ \A i \in 1..m : q[i] = r[i]
  BY <1>6, <1>8, <1>9 DEF r
<1>11. \A i \in 1..m : q[i] = IF i = k THEN x ELSE IF i = l THEN y ELSE p[i]
  BY <1>3, <1>5, <1>10
<1>12. Len(p) = Len(q) + 1
  BY <1>1, <1>5, <1>10
<1>13. k \in 1..m /\ l \in 1..m
  BY <1>2, <1>5
<1>14. q[k] = x /\ q[l] = y
  BY <1>11, <1>13
<1>15. \A i \in 1..Len(q) : i # k /\ i # l => q[i] = p[i]
  BY <1>10, <1>11
<1> QED
  BY <1>10, <1>12, <1>14, <1>15 DEF IsReplaced

(* The last two data bytes of a packet, replaced.                            *)
LEMMA PatchedPacket ==
  ASSUME NEW n \in 3..4, NEW k \in 5..6, k = n + 2,
         NEW d \in Seq(Byte), Len(d) = n, NEW e \in Seq(Byte), Len(e) = n,
         \A i \in 1..n - 2 : e[i] = d[i]
  PROVE  Front([Sealed(Header(d)) EXCEPT ![k] = e[n - 1], ![k + 1] = e[n]]) = Header(e)
<1>0. Len(d) \in 1..36 /\ Len(e) \in 1..36
  OBVIOUS
<1>1. PICK p : p = Sealed(Header(d))
  OBVIOUS
<1>2. PICK h : h = Header(e)
  OBVIOUS
<1>3. /\ p \in Seq(Byte) /\ Len(p) = n + 4 /\ p[1] = 110 /\ p[2] = 81 /\ p[3] = 128 + n
      /\ \A i \in 1..n : p[3 + i] = d[i]
  <2>1. /\ p \in Seq(Byte) /\ Len(p) = 4 + Len(d) /\ p[1] = 110 /\ p[2] = 81
        /\ p[3] = 128 + Len(d) /\ \A i \in 1..Len(d) : p[3 + i] = d[i]
    <3>1. IsSealed(p, d)
      BY <1>0, <1>1, PacketBytes
    <3> QED
      BY <3>1 DEF IsSealed
  <2> QED
    BY <2>1
<1>4. /\ h \in Seq(Byte) /\ Len(h) = n + 3 /\ h[1] = 110 /\ h[2] = 81 /\ h[3] = 128 + n
      /\ \A i \in 1..n : h[3 + i] = e[i]
  <2>1. /\ h \in Seq(Byte) /\ Len(h) = 3 + Len(e) /\ h[1] = 110 /\ h[2] = 81
        /\ h[3] = 128 + Len(e) /\ \A i \in 1..Len(e) : h[3 + i] = e[i]
    <3>1. IsHeader(h, e)
      BY <1>0, <1>2, HeaderBytes
    <3> QED
      BY <3>1 DEF IsHeader
  <2> QED
    BY <2>1
<1>5. e[n - 1] \in Byte /\ e[n] \in Byte
  BY ElementOfSeq
<1>6. PICK q : q = Front([p EXCEPT ![k] = e[n - 1], ![k + 1] = e[n]])
  OBVIOUS
<1>7. /\ q \in Seq(Byte) /\ Len(q) = n + 3
      /\ \A i \in 1..n + 3 : q[i] = IF i = k THEN e[n - 1]
                                   ELSE IF i = k + 1 THEN e[n] ELSE p[i]
  <2>1. p \in Seq(Byte)
    BY <1>3
  <2>2. PICK x \in Byte, y \in Byte : x = e[n - 1] /\ y = e[n]
    BY <1>5
  <2>3. PICK j \in 1..Len(p) - 1 : j = k
    BY <1>3
  <2>4. PICK l \in 1..Len(p) - 1 : l = k + 1
    BY <1>3
  <2>5. j # l /\ q = Front([p EXCEPT ![j] = x, ![l] = y])
    BY <1>6, <2>2, <2>3, <2>4
  <2>6. IsReplaced(q, p, j, l, x, y)
    BY <2>1, <2>5, ReplacedBytes
  <2>7. q \in Seq(Byte) /\ Len(p) = Len(q) + 1
    BY <2>6 DEF IsReplaced
  <2>8. q[j] = x /\ q[l] = y
    BY <2>6 DEF IsReplaced
  <2>9. ASSUME NEW i \in 1..Len(q), i # j, i # l PROVE q[i] = p[i]
    BY <2>6, <2>9 DEF IsReplaced
  <2>10. Len(q) = n + 3
    BY <1>3, <2>7, LenProperties
  <2> QED
    BY <2>2, <2>3, <2>4, <2>7, <2>8, <2>9, <2>10
<1>8. ASSUME NEW i \in 1..n + 3 PROVE q[i] = h[i]
  <2>1. CASE i \in 1..3
    BY <1>3, <1>4, <1>7, <2>1
  <2>2. CASE i \in 4..n + 1
    <3>1. i - 3 \in 1..n - 2 /\ i - 3 \in 1..n /\ 3 + (i - 3) = i
      BY <2>2
    <3>2. p[i] = d[i - 3] /\ h[i] = e[i - 3]
      BY <1>3, <1>4, <3>1
    <3>3. q[i] = p[i]
      BY <1>7, <2>2
    <3> QED
      BY <3>1, <3>2, <3>3
  <2>3. CASE i = n + 2
    <3>1. n - 1 \in 1..n /\ 3 + (n - 1) = n + 2
      OBVIOUS
    <3> QED
      BY <1>4, <1>7, <2>3, <3>1
  <2>4. CASE i = n + 3
    <3>1. n \in 1..n /\ 3 + n = n + 3
      OBVIOUS
    <3> QED
      BY <1>4, <1>7, <2>4, <3>1
  <2> QED
    BY <2>1, <2>2, <2>3, <2>4
<1>9. q = h
  <2>1. Alike(q, h)
    BY <1>4, <1>7, <1>8 DEF Alike
  <2> QED
    BY <1>4, <1>7, <1>8, <2>1, SameBytes
<1> QED
  BY <1>1, <1>2, <1>6, <1>9

(* Updating the offset in the packet is as good as making the packet anew.   *)
LEMMA UpdatedPacket ==
  ASSUME NEW r, IsRequest(r), r.kind \in {"capabilities", "table"}, NEW o \in Offset
  PROVE  WithOffset(PacketFor(r), o) = PacketFor([r EXCEPT !.offset = o])
<1>1. PICK s : s = [r EXCEPT !.offset = o]
  OBVIOUS
<1>2. IsRequest(s) /\ s.kind = r.kind /\ s.code = r.code /\ s.offset = o
  BY <1>1 DEF IsRequest, Message
<1>3. PICK d \in Seq(Byte) : d = SentData(r)
  BY SentDataType
<1>4. PICK e \in Seq(Byte) : e = SentData(s)
  BY <1>2, SentDataType
<1>5. PICK n \in 3..4 :
        /\ n = IF r.kind = "capabilities" THEN 3 ELSE 4
        /\ Len(d) = n /\ Len(e) = n /\ \A i \in 1..n - 2 : e[i] = d[i]
        /\ d[1] = IF n = 3 THEN 243 ELSE 226
        /\ e[n - 1] = HiByte(o) /\ e[n] = LoByte(o)
  <2>1. CASE r.kind = "capabilities"
    <3>1. /\ d = <<243, HiByte(r.offset), LoByte(r.offset)>>
          /\ e = <<243, HiByte(o), LoByte(o)>>
      BY <1>2, <1>3, <1>4, <2>1 DEF SentData
    <3> QED
      BY <2>1, <3>1
  <2>2. CASE r.kind = "table"
    <3>1. /\ d = <<226, r.code, HiByte(r.offset), LoByte(r.offset)>>
          /\ e = <<226, r.code, HiByte(o), LoByte(o)>>
      BY <1>2, <1>3, <1>4, <2>2 DEF SentData
    <3> QED
      BY <2>2, <3>1
  <2> QED
    BY <2>1, <2>2
<1>6. PICK p : p = PacketFor(r)
  OBVIOUS
<1> DEFINE k == n + 2
<1>7. OffsetAt(p) = k
  <2>1. Len(d) \in 1..36 /\ 1 \in 1..Len(d) /\ p = Sealed(Header(d))
    BY <1>3, <1>5, <1>6 DEF PacketFor
  <2>2. p[3 + 1] = d[1]
    <3>1. IsSealed(p, d)
      BY <2>1, PacketBytes
    <3> QED
      BY <2>1, <3>1 DEF IsSealed
  <2> QED
    BY <1>5, <2>2 DEF OffsetAt
<1>8. Front([p EXCEPT ![k] = HiByte(o), ![k + 1] = LoByte(o)]) = Header(e)
  <2>1. k \in 5..6 /\ k = n + 2
    OBVIOUS
  <2> HIDE DEF k
  <2> QED
    BY <1>3, <1>5, <1>6, <2>1, PatchedPacket DEF PacketFor
<1> HIDE DEF k
<1>9. WithOffset(p, o) = Sealed(Header(e))
  BY <1>7, <1>8 DEF WithOffset, Checksum, Sealed
<1> QED
  BY <1>1, <1>4, <1>6, <1>9 DEF PacketFor

(* A message is what its fields are.                                         *)
LEMMA MessageIs ==
  ASSUME NEW r \in Message
  PROVE  r = Ask(r.kind, r.code, r.offset, r.data)
BY DEF Message, Ask

\* The bytes of a packet from one to another.
IsCut(d, p, a, b) == Len(d) = b - a + 1 /\ \A i \in 1..Len(d) : d[i] = p[a + i - 1]

(* The data of a packet, cut out of it.                                      *)
LEMMA CutOut ==
  ASSUME NEW p \in Seq(Byte), NEW d \in Seq(Byte), NEW a \in 1..Len(p) + 1, NEW b \in 0..Len(p),
         IsCut(d, p, a, b)
  PROVE  SubSeq(p, a, b) = d
<1>0. Len(d) = b - a + 1 /\ \A i \in 1..Len(d) : d[i] = p[a + i - 1]
  BY DEF IsCut
<1>1. PICK n \in Nat : n = Len(p)
  BY LenProperties
<1>2. PICK m \in Nat : m = Len(d)
  BY LenProperties
<1>3. a \in 1..n + 1 /\ b \in 0..n /\ m = b - a + 1
  BY <1>0, <1>1, <1>2
<1>4. \A i \in a..b : i \in 1..n
  BY <1>3
<1>5. \A i \in a..b : p[i] \in Byte
  BY <1>1, <1>4, ElementOfSeq
<1>6. /\ SubSeq(p, a, b) \in Seq(Byte)
      /\ Len(SubSeq(p, a, b)) = IF a <= b THEN b - a + 1 ELSE 0
      /\ \A i \in 1..b - a + 1 : SubSeq(p, a, b)[i] = p[a + i - 1]
  BY <1>3, <1>5, SubSeqProperties
<1>7. Len(SubSeq(p, a, b)) = m /\ \A i \in 1..m : SubSeq(p, a, b)[i] = p[a + i - 1]
  BY <1>3, <1>6
<1>8. \A i \in 1..m : SubSeq(p, a, b)[i] = d[i]
  BY <1>0, <1>2, <1>7
<1> QED
  <2>1. Alike(SubSeq(p, a, b), d)
    BY <1>2, <1>6, <1>7, <1>8 DEF Alike
  <2> QED
    BY <1>2, <1>6, <1>7, <1>8, <2>1, SameBytes

(* The monitor reads in a packet what was asked.                             *)
LEMMA UnderstoodPacket ==
  ASSUME NEW r, IsRequest(r)
  PROVE  Understood(PacketFor(r)) = r
<1>1. PICK d \in Seq(Byte) : d = SentData(r)
  BY SentDataType
<1>2. PICK n \in 1..36 : n = Len(d)
  BY <1>1, SentDataType
<1>3. PICK p : p = PacketFor(r)
  OBVIOUS
<1>4. /\ p \in Seq(Byte) /\ Len(p) = 4 + Len(d) /\ p[3] = 128 + Len(d)
      /\ \A i \in 1..Len(d) : p[3 + i] = d[i]
      /\ XorAll(p) = 0
  <2>1. IsSealed(p, d)
    BY <1>1, <1>2, <1>3, PacketBytes DEF PacketFor
  <2> QED
    BY <2>1 DEF IsSealed
<1>5. /\ Len(p) = 4 + n /\ Len(p) - 4 = n /\ p[3] = 128 + n
      /\ \A i \in 1..n : p[3 + i] = d[i]
  BY <1>2, <1>4
<1>6. ~(XorAll(p) # 0 \/ p[3] # 128 + (Len(p) - 4))
  BY <1>4, <1>5
<1>7. /\ r = Ask(r.kind, r.code, r.offset, r.data)
      /\ r.code \in Byte /\ r.offset \in Offset /\ r.data \in Seq(Byte) /\ Len(r.data) \in Nat
  BY MessageIs, LenProperties DEF IsRequest, Message
<1>8. 256 * HiByte(r.offset) + LoByte(r.offset) = r.offset
  BY <1>7, OffsetBytes
<1>9. CASE r.kind = "get"
  <2>1. d = <<1, r.code>> /\ n = 2
    BY <1>1, <1>2, <1>9 DEF SentData
  <2>2. p[3 + 1] = 1 /\ p[3 + 2] = r.code
    BY <1>5, <2>1
  <2>3. Understood(p) = Ask("get", r.code, 0, <<>>)
    BY <1>6, <2>2 DEF Understood
  <2> QED
    BY <1>3, <1>7, <1>9, <2>3 DEF IsRequest
<1>10. CASE r.kind = "save"
  <2>1. d = <<12>> /\ n = 1
    BY <1>1, <1>2, <1>10 DEF SentData
  <2>2. p[3 + 1] = 12
    BY <1>5, <2>1
  <2>3. Understood(p) = Ask("save", 0, 0, <<>>)
    BY <1>6, <2>2 DEF Understood
  <2> QED
    BY <1>3, <1>7, <1>10, <2>3 DEF IsRequest
<1>11. CASE r.kind = "capabilities"
  <2>1. d = <<243, HiByte(r.offset), LoByte(r.offset)>> /\ n = 3
    BY <1>1, <1>2, <1>11 DEF SentData
  <2>2. p[3 + 1] = 243 /\ p[3 + 2] = HiByte(r.offset) /\ p[3 + 3] = LoByte(r.offset)
    BY <1>5, <2>1
  <2>3. Understood(p) = Ask("capabilities", 0, r.offset, <<>>)
    BY <1>6, <1>8, <2>2 DEF Understood
  <2> QED
    BY <1>3, <1>7, <1>11, <2>3 DEF IsRequest
<1>12. CASE r.kind = "table"
  <2>1. d = <<226, r.code, HiByte(r.offset), LoByte(r.offset)>> /\ n = 4
    BY <1>1, <1>2, <1>12 DEF SentData
  <2>2. /\ p[3 + 1] = 226 /\ p[3 + 2] = r.code /\ p[3 + 3] = HiByte(r.offset)
        /\ p[3 + 4] = LoByte(r.offset)
    BY <1>5, <2>1
  <2>3. Understood(p) = Ask("table", r.code, r.offset, <<>>)
    BY <1>6, <1>8, <2>2 DEF Understood
  <2> QED
    BY <1>3, <1>7, <1>12, <2>3 DEF IsRequest
<1>13. CASE r.kind = "set"
  <2>1. PICK x \in Byte, y \in Byte : r.data = <<x, y>>
    <3>1. Len(r.data) = 2
      BY <1>13 DEF IsRequest
    <3>2. r.data[1] \in Byte /\ r.data[2] \in Byte
      BY <1>7, <3>1, ElementOfSeq
    <3>3. r.data = <<r.data[1], r.data[2]>>
      BY <1>7, <3>1, <3>2, SeqEqual
    <3> QED
      BY <3>2, <3>3
  <2>2. n = 4 /\ d[1] = 3 /\ d[2] = r.code /\ d[3] = x /\ d[4] = y
    <3>0. 3 \in Byte
      BY DEF Byte
    <3>1. PICK head \in Seq(Byte) : head = <<3, r.code>> /\ Len(head) = 2
      <4> DEFINE two == <<3, r.code>>
      <4>1. two \in Seq(Byte) /\ Len(two) = 2
        BY <1>7, <3>0
      <4> HIDE DEF two
      <4> QED
        BY <4>1 DEF two
    <3>2. PICK b \in Seq(Byte) : b = <<x, y>> /\ b = r.data /\ Len(b) = 2
      BY <1>7, <2>1
    <3>3. d = head \o b
      BY <1>1, <1>13, <3>1, <3>2 DEF SentData
    <3>4. /\ Len(d) = Len(head) + Len(b) /\ \A i \in 1..Len(head) : d[i] = head[i]
          /\ \A i \in 1..Len(b) : d[Len(head) + i] = b[i]
      BY <3>3, Joined
    <3>5. n = 4 /\ (\A i \in 1..2 : d[i] = head[i]) /\ \A i \in 1..2 : d[2 + i] = b[i]
      BY <1>2, <3>1, <3>2, <3>4
    <3> QED
      BY <3>1, <3>2, <3>5
  <2>3. p[3 + 1] = 3 /\ p[3 + 2] = r.code /\ p[3 + 3] = x /\ p[3 + 4] = y
    BY <1>5, <2>2
  <2>4. Understood(p) = Ask("set", r.code, 0, <<x, y>>)
    BY <1>6, <2>3 DEF Understood
  <2> QED
    BY <1>3, <1>7, <1>13, <2>1, <2>4 DEF IsRequest
<1>14. CASE r.kind = "write"
  <2>1. PICK b \in Seq(Byte) : b = r.data /\ Len(b) \in 0..32
    BY <1>7, <1>14 DEF IsRequest, MAX_DDC_MULTI_PART_FRAGMENT_SIZE
  <2>2. PICK m \in 0..32 : m = Len(b)
    BY <2>1
  <2>3. PICK head \in Seq(Byte) :
          head = <<231, r.code, HiByte(r.offset), LoByte(r.offset)>> /\ Len(head) = 4
    <3>0. 231 \in Byte
      BY DEF Byte
    <3>1. 231 \in Byte /\ HiByte(r.offset) \in Byte /\ LoByte(r.offset) \in Byte
      BY <1>7, <3>0, OffsetBytes
    <3> DEFINE four == <<231, r.code, HiByte(r.offset), LoByte(r.offset)>>
    <3>2. four \in Seq(Byte) /\ Len(four) = 4
      BY <1>7, <3>1
    <3> HIDE DEF four
    <3> QED
      BY <3>2 DEF four
  <2>4. d = head \o b
    BY <1>1, <1>14, <2>1, <2>3 DEF SentData
  <2>5. /\ Len(d) = Len(head) + Len(b) /\ \A i \in 1..Len(head) : d[i] = head[i]
        /\ \A i \in 1..Len(b) : d[Len(head) + i] = b[i]
    BY <2>4, Joined
  <2>6. n = 4 + m /\ (\A i \in 1..4 : d[i] = head[i]) /\ \A i \in 1..m : d[4 + i] = b[i]
    BY <1>2, <2>2, <2>3, <2>5
  <2>7. /\ p[3 + 1] = 231 /\ p[3 + 2] = r.code /\ p[3 + 3] = HiByte(r.offset)
        /\ p[3 + 4] = LoByte(r.offset)
    <3>1. 1 \in 1..n /\ 2 \in 1..n /\ 3 \in 1..n /\ 4 \in 1..n
      BY <2>6
    <3>2. d[1] = 231 /\ d[2] = r.code /\ d[3] = HiByte(r.offset) /\ d[4] = LoByte(r.offset)
      BY <2>3, <2>6
    <3> QED
      BY <1>5, <3>1, <3>2
  <2>8. \A i \in 1..m : p[7 + i] = b[i]
    <3> TAKE i \in 1..m
    <3>1. 4 + i \in 1..n /\ 3 + (4 + i) = 7 + i
      BY <2>6
    <3> QED
      BY <1>5, <2>6, <3>1
  <2>9. SubSeq(p, 8, 3 + n) = b
    <3>1. PICK c \in 1..Len(p) + 1 : c = 8
      BY <1>5, <2>6
    <3>2. PICK e \in 0..Len(p) : e = 3 + n
      BY <1>5, <2>6
    <3>3. Len(b) = e - c + 1
      BY <2>2, <2>6, <3>1, <3>2
    <3>4. \A i \in 1..Len(b) : b[i] = p[c + i - 1]
      BY <2>2, <2>8, <3>1
    <3>5. SubSeq(p, c, e) = b
      <4>1. IsCut(b, p, c, e)
        BY <3>3, <3>4 DEF IsCut
      <4> QED
        BY <1>4, <4>1, CutOut
    <3> QED
      BY <3>1, <3>2, <3>5
  <2>10. SubSeq(p, 8, 3 + (Len(p) - 4)) = b
    BY <1>5, <2>9
  <2>11. Understood(p) = Ask("write", r.code, r.offset, b)
    <3>1. Understood(p) = Ask("write", p[3 + 2], (256 * p[3 + 3]) + p[3 + 4],
                             SubSeq(p, 8, 3 + (Len(p) - 4)))
      BY <1>6, <2>7 DEF Understood
    <3> QED
      BY <1>8, <2>7, <2>10, <3>1
  <2> QED
    BY <1>3, <1>7, <1>14, <2>1, <2>11
<1> QED
  BY <1>9, <1>10, <1>11, <1>12, <1>13, <1>14 DEF IsRequest

(* The fields of a message.                                                  *)
LEMMA MessageFields ==
  ASSUME NEW k \in MessageKinds, NEW c \in Byte, NEW o \in Offset, NEW d \in Seq(Byte)
  PROVE  /\ Ask(k, c, o, d) \in Message
         /\ Ask(k, c, o, d).kind = k /\ Ask(k, c, o, d).code = c
         /\ Ask(k, c, o, d).offset = o /\ Ask(k, c, o, d).data = d
BY DEF Ask, Message

(* Zero is a byte and an offset.                                             *)
LEMMA ZeroFits == 0 \in Byte /\ 0 \in Offset
<1>1. 0 \in Byte
  BY DEF Byte
<1>2. 0 \in Offset
  BY DEF Offset
<1> QED
  BY <1>1, <1>2

(* What the program asks when it starts.                                     *)
LEMMA FirstRequest ==
  ASSUME NEW r \in ReadRequests \cup OtherRequests
  PROVE  IsRequest(r) /\ (r.kind # "write" => r.offset = 0)
<1>0. /\ "get" \in MessageKinds /\ "set" \in MessageKinds /\ "save" \in MessageKinds
      /\ "capabilities" \in MessageKinds /\ "table" \in MessageKinds /\ "write" \in MessageKinds
  BY DEF MessageKinds
<1>1. 0 \in Byte /\ 0 \in Offset /\ <<>> \in Seq(Byte)
  BY ZeroFits
<1>2. /\ Features \subseteq Byte /\ Settings \subseteq Offset /\ WriteOffsets \subseteq Offset
      /\ \A b \in Fragments : b \in Seq(Byte) /\ Len(b) \in 0..MAX_DDC_MULTI_PART_FRAGMENT_SIZE
  BY PacketsAssumption
<1>3. CASE r = Ask("capabilities", 0, 0, <<>>)
  <2>1. r \in Message
    BY <1>0, <1>1, <1>3, MessageFields
  <2>1a. r.kind = "capabilities" /\ r.code = 0 /\ r.offset = 0 /\ r.data = <<>>
    BY <1>3 DEF Ask
  <2> QED
    BY <2>1, <2>1a DEF IsRequest
<1>4. CASE r \in {Ask("table", c, 0, <<>>) : c \in Features}
  <2>1. PICK c \in Byte : r = Ask("table", c, 0, <<>>)
    BY <1>2, <1>4
  <2>2. r \in Message
    BY <1>0, <1>1, <2>1, MessageFields
  <2>2a. r.kind = "table" /\ r.offset = 0 /\ r.data = <<>>
    BY <2>1 DEF Ask
  <2> QED
    BY <2>2, <2>2a DEF IsRequest
<1>5. CASE r \in {Ask("get", c, 0, <<>>) : c \in Features}
  <2>1. PICK c \in Byte : r = Ask("get", c, 0, <<>>)
    BY <1>2, <1>5
  <2>2. r \in Message
    BY <1>0, <1>1, <2>1, MessageFields
  <2>2a. r.kind = "get" /\ r.offset = 0 /\ r.data = <<>>
    BY <2>1 DEF Ask
  <2> QED
    BY <2>2, <2>2a DEF IsRequest
<1>6. CASE r \in {Ask("set", c, 0, <<HiByte(v), LoByte(v)>>) : c \in Features, v \in Settings}
  <2>1. PICK c \in Features, v \in Settings : r = Ask("set", c, 0, <<HiByte(v), LoByte(v)>>)
    BY <1>6
  <2>2. HiByte(v) \in Byte /\ LoByte(v) \in Byte
    BY <1>2, OffsetBytes
  <2>3. PICK d \in Seq(Byte) : d = <<HiByte(v), LoByte(v)>> /\ Len(d) = 2
    <3> DEFINE two == <<HiByte(v), LoByte(v)>>
    <3>1. two \in Seq(Byte) /\ Len(two) = 2
      BY <2>2
    <3> HIDE DEF two
    <3> QED
      BY <3>1 DEF two
  <2>4. c \in Byte /\ d \in Seq(Byte) /\ r = Ask("set", c, 0, d)
    BY <1>2, <2>1, <2>3
  <2>5. r \in Message
    BY <1>0, <1>1, <2>4, MessageFields
  <2>5a. r.kind = "set" /\ r.offset = 0 /\ Len(r.data) = 2
    BY <2>3, <2>4 DEF Ask
  <2> QED
    BY <2>5, <2>5a DEF IsRequest
<1>7. CASE r \in {Ask("write", c, o, b) : c \in Features, o \in WriteOffsets, b \in Fragments}
  <2>1. PICK c \in Byte, o \in WriteOffsets, b \in Fragments : r = Ask("write", c, o, b)
    BY <1>2, <1>7
  <2>2. o \in Offset /\ b \in Seq(Byte) /\ Len(b) \in 0..MAX_DDC_MULTI_PART_FRAGMENT_SIZE
    BY <1>2
  <2>3. /\ r \in Message /\ r.kind = "write" /\ r.offset \in WriteOffsets
        /\ Len(r.data) \in 0..MAX_DDC_MULTI_PART_FRAGMENT_SIZE
    BY <1>0, <2>1, <2>2, MessageFields
  <2> QED
    BY <2>3 DEF IsRequest
<1>8. CASE r = Ask("save", 0, 0, <<>>)
  <2>1. r \in Message
    BY <1>0, <1>1, <1>8, MessageFields
  <2>1a. r.kind = "save" /\ r.code = 0 /\ r.offset = 0 /\ r.data = <<>>
    BY <1>8 DEF Ask
  <2> QED
    BY <2>1, <2>1a DEF IsRequest
<1> QED
  BY <1>3, <1>4, <1>5, <1>6, <1>7, <1>8 DEF ReadRequests, OtherRequests

(* The packet is always as good as one made anew for the request.            *)
LEMMA RequestInvInit == PacketsInit => RequestInv
BY FirstRequest, FirstPacket DEF PacketsInit, RequestInv

(* Also by the update of an offset in place.                                 *)
LEMMA RequestInvNext == RequestInv /\ [PacketsNext]_packetVars => RequestInv'
<1> SUFFICES ASSUME RequestInv, [PacketsNext]_packetVars PROVE RequestInv'
  OBVIOUS
<1>1. CASE UNCHANGED <<request, packet>>
  BY <1>1 DEF RequestInv, OffsetFits
<1>2. ASSUME NEW o \in ReadOffsets, UpdateOffset(o) PROVE RequestInv'
  <2>1. /\ request.kind \in {"capabilities", "table"}
        /\ request' = [request EXCEPT !.offset = o]
        /\ packet' = WithOffset(packet, o)
    BY <1>2 DEF UpdateOffset
  <2>2. o \in Offset
    BY PacketsAssumption
  <2>3. IsRequest(request) /\ packet = PacketFor(request)
    BY <2>1 DEF RequestInv, OffsetFits
  <2>4. packet' = PacketFor(request')
    BY <2>1, <2>2, <2>3, UpdatedPacket
  <2>5. IsRequest(request')
    BY <2>1, <2>2, <2>3 DEF IsRequest, Message
  <2> QED
    BY <2>4, <2>5 DEF RequestInv
<1>3. CASE AnswerAsked
  BY <1>1, <1>3 DEF AnswerAsked, Answer
<1>4. CASE AnswerStale
  BY <1>1, <1>4 DEF AnswerStale, Answer
<1>5. CASE DamageByte
  BY <1>1, <1>5 DEF DamageByte
<1>6. CASE Interpret
  BY <1>1, <1>6 DEF Interpret
<1>7. CASE UNCHANGED packetVars
  BY <1>1, <1>7 DEF packetVars
<1> QED
  BY <1>2, <1>3, <1>4, <1>5, <1>6, <1>7 DEF PacketsNext

(* A monitor reads in a packet exactly what was asked, however often its     *)
(* offset was updated in place, unless it is that of a table write at an     *)
(* offset beyond 255.                                                        *)
THEOREM RequestUnderstoodIfOffsetFits ==
  PacketsSpec => [](OffsetFits(request) => RequestUnderstood)
<1>1. RequestInv => (OffsetFits(request) => RequestUnderstood)
  BY UnderstoodPacket DEF RequestInv, RequestUnderstood
<1> QED
  BY <1>1, RequestInvInit, RequestInvNext, PTL DEF PacketsSpec

(* Where table writes stay below offset 256, that is every request.          *)
THEOREM RequestUnderstoodHolds ==
  ASSUME WriteOffsets \subseteq Byte
  PROVE  PacketsSpec => []RequestUnderstood
<1>1. RequestInv => OffsetFits(request)
  BY DEF RequestInv, IsRequest, OffsetFits
<1>2. RequestInv => RequestUnderstood
  BY <1>1, UnderstoodPacket DEF RequestInv, RequestUnderstood
<1> QED
  BY <1>2, RequestInvInit, RequestInvNext, PTL DEF PacketsSpec

(***************************************************************************)
(* Answers.                                                                *)
(***************************************************************************)
Frame(data) ==
  LET body == <<110, 128 + Len(data)>> \o data
  IN  Append(body, XorAll(<<80>> \o body))

(* A number below 256 is a byte.                                             *)
LEMMA IsByte ==
  ASSUME NEW x \in Nat, x <= 255
  PROVE  x \in Byte
BY DEF Byte

(* Two, three and four bytes in a row.                                       *)
LEMMA TwoBytes ==
  ASSUME NEW x \in Byte, NEW y \in Byte
  PROVE  \E s \in Seq(Byte) : s = <<x, y>> /\ Len(s) = 2 /\ s[1] = x /\ s[2] = y
<1> DEFINE s == <<x, y>>
<1>1. s \in Seq(Byte) /\ Len(s) = 2 /\ s[1] = x /\ s[2] = y
  OBVIOUS
<1> HIDE DEF s
<1> QED
  BY <1>1 DEF s

LEMMA ThreeBytes ==
  ASSUME NEW x \in Byte, NEW y \in Byte, NEW z \in Byte
  PROVE  \E s \in Seq(Byte) : /\ s = <<x, y, z>> /\ Len(s) = 3
                              /\ s[1] = x /\ s[2] = y /\ s[3] = z
<1> DEFINE s == <<x, y, z>>
<1>1. s \in Seq(Byte) /\ Len(s) = 3 /\ s[1] = x /\ s[2] = y /\ s[3] = z
  OBVIOUS
<1> HIDE DEF s
<1> QED
  BY <1>1 DEF s

IsFour(s, w, x, y, z) ==
  s \in Seq(Byte) /\ Len(s) = 4 /\ s[1] = w /\ s[2] = x /\ s[3] = y /\ s[4] = z

LEMMA FourBytes ==
  ASSUME NEW w \in Byte, NEW x \in Byte, NEW y \in Byte, NEW z \in Byte
  PROVE  IsFour(<<w, x, y, z>>, w, x, y, z)
<1> DEFINE s == <<w, x, y, z>>
<1>1. s \in Seq(Byte) /\ Len(s) = 4 /\ s[1] = w /\ s[2] = x /\ s[3] = y /\ s[4] = z
  OBVIOUS
<1> HIDE DEF s
<1>2. IsFour(s, w, x, y, z)
  BY <1>1 DEF IsFour
<1> QED
  BY <1>2 DEF s

\* What the bytes of an answer are.
IsBody(f, data) ==
  /\ f \in Seq(Byte) /\ Len(f) = 3 + Len(data)
  /\ f[1] = 110 /\ f[2] = 128 + Len(data)
  /\ \A i \in 3..2 + Len(data) : f[i] = data[i - 2]

(* The bytes of an answer, one by one.                                       *)
LEMMA FrameBytes ==
  ASSUME NEW data \in Seq(Byte), Len(data) <= 35
  PROVE  IsBody(Frame(data), data)
<1>1. PICK n \in Nat : n = Len(data) /\ n <= 35
  BY LenProperties
<1>2. 110 \in Byte /\ 128 + Len(data) \in Byte /\ 80 \in Byte
  <2>1. PICK x \in Nat : x = 128 + n /\ x <= 255
    BY <1>1
  <2>2. x \in Byte
    BY <2>1, IsByte
  <2>3. 110 \in Byte /\ 80 \in Byte
    BY DEF Byte
  <2> QED
    BY <1>1, <2>1, <2>2, <2>3
<1>3. PICK h \in Seq(Byte) : /\ h = <<110, 128 + Len(data)>> /\ Len(h) = 2
                             /\ h[1] = 110 /\ h[2] = 128 + Len(data)
  BY <1>2, TwoBytes
<1>4. PICK b : b = h \o data
  OBVIOUS
<1>5. /\ b \in Seq(Byte) /\ Len(b) = Len(h) + Len(data)
      /\ \A i \in 1..Len(h) : b[i] = h[i]
      /\ \A i \in 1..Len(data) : b[Len(h) + i] = data[i]
  BY <1>4, Joined
<1>6. Len(b) = 2 + n /\ (\A i \in 1..2 : b[i] = h[i]) /\ \A i \in 1..n : b[2 + i] = data[i]
  BY <1>1, <1>3, <1>5
<1>7. PICK c \in Byte : c = XorAll(<<80>> \o b)
  <2>1. <<80>> \in Seq(Byte)
    BY <1>2
  <2>2. <<80>> \o b \in Seq(Byte)
    BY <1>5, <2>1, Joined
  <2> QED
    BY <2>2, BitOfXorAll
<1>8. PICK f : f = Append(b, c)
  OBVIOUS
<1>9. Frame(data) = f
  BY <1>3, <1>4, <1>7, <1>8 DEF Frame
<1>10. f \in Seq(Byte) /\ Len(f) = Len(b) + 1 /\ \A i \in 1..Len(b) : f[i] = b[i]
  BY <1>5, <1>7, <1>8, AppendProperties
<1>11. Len(f) = 3 + n /\ \A i \in 1..2 + n : f[i] = b[i]
  BY <1>6, <1>10
<1>12. f[1] = 110 /\ f[2] = 128 + Len(data)
  <2>1. 1 \in 1..2 + n /\ 2 \in 1..2 + n
    OBVIOUS
  <2> QED
    BY <1>3, <1>6, <1>11, <2>1
<1>13. ASSUME NEW i \in 3..2 + n PROVE f[i] = data[i - 2]
  <2>1. i - 2 \in 1..n /\ 2 + (i - 2) = i /\ i \in 1..2 + n
    OBVIOUS
  <2> QED
    BY <1>6, <1>11, <2>1
<1>14. IsBody(f, data)
  BY <1>1, <1>10, <1>11, <1>12, <1>13 DEF IsBody
<1> QED
  BY <1>9, <1>14

(* What the data of an answer are, by its kind.                              *)
LEMMA AnswerDataIs ==
  ASSUME NEW a, IsAnswer(a)
  PROVE  /\ AnswerData(a) \in Seq(Byte) /\ Len(AnswerData(a)) <= 35
         /\ a.kind \in {"null", "zeros"} => AnswerData(a) = <<>>
         /\ a.kind \in {"value", "unsupported"} =>
              /\ Len(AnswerData(a)) = 8 /\ AnswerData(a)[1] = 2
              /\ AnswerData(a)[2] = IF a.kind = "value" THEN 0 ELSE 1
              /\ AnswerData(a)[3] = a.code
              /\ \A i \in 1..4 : AnswerData(a)[4 + i] = a.data[i]
         /\ a.kind \in {"capabilities", "table"} =>
              /\ Len(AnswerData(a)) = 3 + Len(a.data)
              /\ AnswerData(a)[1] = IF a.kind = "capabilities" THEN 227 ELSE 228
              /\ AnswerData(a)[2] = HiByte(a.offset) /\ AnswerData(a)[3] = LoByte(a.offset)
              /\ \A i \in 1..Len(a.data) : AnswerData(a)[3 + i] = a.data[i]
<1>1. PICK v \in Seq(Byte), c \in Byte, o \in Offset : v = a.data /\ c = a.code /\ o = a.offset
  BY DEF IsAnswer, Message
<1>2. 0 \in Byte /\ 1 \in Byte /\ 227 \in Byte /\ 228 \in Byte
  BY DEF Byte
<1>3. CASE a.kind \in {"null", "zeros"}
  <2>1. AnswerData(a) = <<>>
    BY <1>3 DEF AnswerData
  <2>2. <<>> \in Seq(Byte) /\ Len(<<>>) <= 35
    OBVIOUS
  <2> QED
    BY <1>3, <2>1, <2>2
<1>4. CASE a.kind \in {"value", "unsupported"}
  <2>1. Len(v) = 4
    BY <1>1, <1>4 DEF IsAnswer
  <2>2. PICK x \in Byte : x = IF a.kind = "value" THEN 0 ELSE 1
    BY <1>2
  <2>3. PICK d \in Seq(Byte) :
          /\ d = <<2, x, c, 0>> \o v /\ Len(d) = 8
          /\ d[1] = 2 /\ d[2] = x /\ d[3] = c
          /\ \A i \in 1..4 : d[4 + i] = v[i]
    <3>1. PICK h \in Seq(Byte) : /\ h = <<2, x, c, 0>> /\ Len(h) = 4
                                 /\ h[1] = 2 /\ h[2] = x /\ h[3] = c /\ h[4] = 0
      <4>1. 2 \in Byte /\ 0 \in Byte
        BY DEF Byte
      <4>2. PICK s : s = <<2, x, c, 0>>
        OBVIOUS
      <4>3. IsFour(s, 2, x, c, 0)
        BY <4>1, <4>2, FourBytes
      <4> QED
        BY <4>2, <4>3 DEF IsFour
    <3>2. PICK d : d = h \o v
      OBVIOUS
    <3>3. /\ d \in Seq(Byte) /\ Len(d) = Len(h) + Len(v)
          /\ \A i \in 1..Len(h) : d[i] = h[i]
          /\ \A i \in 1..Len(v) : d[Len(h) + i] = v[i]
      BY <3>2, Joined
    <3>4. /\ Len(d) = 8 /\ (\A i \in 1..4 : d[i] = h[i])
          /\ \A i \in 1..4 : d[4 + i] = v[i]
      BY <2>1, <3>1, <3>3
    <3>5. d[1] = 2 /\ d[2] = x /\ d[3] = c
      BY <3>1, <3>4
    <3>6. d = <<2, x, c, 0>> \o v
      BY <3>1, <3>2
    <3> QED
      BY <3>3, <3>4, <3>5, <3>6
  <2>4. AnswerData(a) = d
    BY <1>1, <1>4, <2>2, <2>3 DEF AnswerData
  <2> QED
    BY <1>1, <1>4, <2>2, <2>3, <2>4
<1>5. CASE a.kind \in {"capabilities", "table"}
  <2>1. Len(v) <= 32
    <3>1. PICK most \in Nat : most = MAX_DDC_MULTI_PART_FRAGMENT_SIZE
      BY DEF MAX_DDC_MULTI_PART_FRAGMENT_SIZE
    <3>2. Len(v) \in 0..most
      BY <1>1, <1>5, <3>1 DEF IsAnswer
    <3>3. Len(v) <= most
      BY <3>2
    <3> QED
      BY <3>1, <3>3 DEF MAX_DDC_MULTI_PART_FRAGMENT_SIZE
  <2>2. PICK t \in Byte : t = IF a.kind = "capabilities" THEN 227 ELSE 228
    BY <1>2
  <2>3. PICK h \in Byte, l \in Byte : h = HiByte(o) /\ l = LoByte(o)
    BY OffsetBytes
  <2>4. PICK d \in Seq(Byte) :
          /\ d = <<t, h, l>> \o v /\ Len(d) = 3 + Len(v)
          /\ d[1] = t /\ d[2] = h /\ d[3] = l
          /\ \A i \in 1..Len(v) : d[3 + i] = v[i]
    <3>1. PICK f \in Seq(Byte) : /\ f = <<t, h, l>> /\ Len(f) = 3
                                 /\ f[1] = t /\ f[2] = h /\ f[3] = l
      BY ThreeBytes
    <3>2. PICK d : d = f \o v
      OBVIOUS
    <3>3. /\ d \in Seq(Byte) /\ Len(d) = Len(f) + Len(v)
          /\ \A i \in 1..Len(f) : d[i] = f[i]
          /\ \A i \in 1..Len(v) : d[Len(f) + i] = v[i]
      BY <3>2, Joined
    <3>4. /\ Len(d) = 3 + Len(v) /\ (\A i \in 1..3 : d[i] = f[i])
          /\ \A i \in 1..Len(v) : d[3 + i] = v[i]
      BY <3>1, <3>3
    <3>5. d[1] = t /\ d[2] = h /\ d[3] = l
      BY <3>1, <3>4
    <3>6. d = <<t, h, l>> \o v
      BY <3>1, <3>2
    <3> QED
      BY <3>3, <3>4, <3>5, <3>6
  <2>5. AnswerData(a) = d
    BY <1>1, <1>5, <2>2, <2>3, <2>4 DEF AnswerData
  <2>6. Len(d) <= 35
    <3>1. PICK n \in Nat : n = Len(v) /\ n <= 32
      BY <2>1, LenProperties
    <3>2. Len(d) = 3 + n
      BY <2>4, <3>1
    <3> QED
      BY <3>1, <3>2
  <2> QED
    BY <1>1, <1>5, <2>2, <2>3, <2>4, <2>5, <2>6
<1> QED
  BY <1>3, <1>4, <1>5 DEF IsAnswer

(***************************************************************************)
(* What the receiver makes of the bytes.                                   *)
(***************************************************************************)
(* A byte of the buffer, or the fill after it.                               *)
LEMMA AtByte ==
  ASSUME NEW b \in Seq(Byte), fill \in Byte, NEW i \in Nat
  PROVE  /\ At(b, i) \in Byte
         /\ i < Len(b) => At(b, i) = b[i + 1]
<1>1. PICK n \in Nat : n = Len(b)
  BY LenProperties
<1>2. i < n => i + 1 \in 1..n
  OBVIOUS
<1>3. i < Len(b) => b[i + 1] \in Byte
  BY <1>1, <1>2, ElementOfSeq
<1> QED
  BY <1>3 DEF At

\* What a part of it is.
IsPart(p, b, f, n) ==
  p \in Seq(Byte) /\ Len(p) = n /\ \A i \in 1..n : p[i] = At(b, f + i - 1)

(* A part of it.                                                             *)
LEMMA PartBytes ==
  ASSUME NEW b \in Seq(Byte), fill \in Byte, NEW f \in Nat \ {0}, NEW n \in Nat
  PROVE  IsPart(Part(b, f, n), b, f, n)
<1>1. \A i \in 1..n : f + i - 1 \in Nat
  OBVIOUS
<1>2. \A i \in 1..n : At(b, f + i - 1) \in Byte
  BY <1>1, AtByte
<1>3. Part(b, f, n) \in [1..n -> Byte]
  BY <1>2 DEF Part
<1>4. Part(b, f, n) \in Seq(Byte) /\ Len(Part(b, f, n)) = n
  BY <1>3, SeqDef
<1>5. \A i \in 1..n : Part(b, f, n)[i] = At(b, f + i - 1)
  BY DEF Part
<1> QED
  BY <1>4, <1>5 DEF IsPart

\* The bytes that are under the checksum.
Covered(b, n) == <<80, 110>> \o Part(b, 1, n + 1)

\* What they are.
IsCovered(v, b, n) ==
  /\ v \in Seq(Byte) /\ Len(v) = n + 3
  /\ \A i \in 1..n + 3 : v[i] = IF i = 1 THEN 80 ELSE IF i = 2 THEN 110 ELSE At(b, i - 2)

(* The bytes that are under the checksum, one by one.                        *)
LEMMA CoveredBytes ==
  ASSUME NEW b \in Seq(Byte), fill \in Byte, NEW n \in Nat
  PROVE  IsCovered(Covered(b, n), b, n)
<1>1. 80 \in Byte /\ 110 \in Byte
  BY DEF Byte
<1>2. PICK h \in Seq(Byte) : h = <<80, 110>> /\ Len(h) = 2 /\ h[1] = 80 /\ h[2] = 110
  BY <1>1, TwoBytes
<1>3. PICK m \in Nat : m = n + 1
  OBVIOUS
<1>4. PICK p : p = Part(b, 1, n + 1)
  OBVIOUS
<1>5. p \in Seq(Byte) /\ Len(p) = m /\ \A i \in 1..m : p[i] = At(b, 1 + i - 1)
  <2>1. p = Part(b, 1, m) /\ 1 \in Nat \ {0}
    BY <1>3, <1>4
  <2>2. IsPart(p, b, 1, m)
    BY <2>1, PartBytes
  <2> QED
    BY <2>2 DEF IsPart
<1>6. PICK c : c = h \o p
  OBVIOUS
<1>7. /\ c \in Seq(Byte) /\ Len(c) = Len(h) + Len(p)
      /\ \A i \in 1..Len(h) : c[i] = h[i]
      /\ \A i \in 1..Len(p) : c[Len(h) + i] = p[i]
  BY <1>5, <1>6, Joined
<1>8. Len(c) = n + 3 /\ (\A i \in 1..2 : c[i] = h[i]) /\ \A i \in 1..m : c[2 + i] = p[i]
  BY <1>2, <1>3, <1>5, <1>7
<1>9. \A i \in 1..m : 1 + i - 1 = i
  OBVIOUS
<1>10. c[1] = 80 /\ c[2] = 110
  BY <1>2, <1>8
<1>11. \A i \in 1..m : c[2 + i] = At(b, i)
  BY <1>5, <1>8, <1>9
<1>12. Covered(b, n) = c
  BY <1>2, <1>4, <1>6 DEF Covered
<1>13. ASSUME NEW i \in 3..n + 3 PROVE c[i] = At(b, i - 2)
  <2>1. i - 2 \in 1..m /\ 2 + (i - 2) = i
    BY <1>3
  <2> QED
    BY <1>11, <2>1
<1>14. \A i \in 1..n + 3 : c[i] = IF i = 1 THEN 80 ELSE IF i = 2 THEN 110 ELSE At(b, i - 2)
  BY <1>10, <1>13
<1>15. IsCovered(c, b, n)
  BY <1>7, <1>8, <1>14 DEF IsCovered
<1> QED
  BY <1>12, <1>15

(* The checksum of an answer is that of the bytes the receiver takes it of.  *)
LEMMA FrameSum ==
  ASSUME NEW data \in Seq(Byte), Len(data) <= 35, fill \in Byte
  PROVE  Frame(data)[Len(data) + 3] = XorAll(Covered(Frame(data), Len(data)))
<1>1. PICK n \in Nat : n = Len(data) /\ n <= 35
  BY LenProperties
<1>2. 110 \in Byte /\ 128 + Len(data) \in Byte /\ 80 \in Byte
  <2>1. PICK x \in Nat : x = 128 + n /\ x <= 255
    BY <1>1
  <2>2. x \in Byte
    BY <2>1, IsByte
  <2>3. 110 \in Byte /\ 80 \in Byte
    BY DEF Byte
  <2> QED
    BY <1>1, <2>1, <2>2, <2>3
<1>3. PICK h \in Seq(Byte) : /\ h = <<110, 128 + Len(data)>> /\ Len(h) = 2
                             /\ h[1] = 110 /\ h[2] = 128 + Len(data)
  BY <1>2, TwoBytes
<1>4. PICK b : b = h \o data
  OBVIOUS
<1>5. /\ b \in Seq(Byte) /\ Len(b) = Len(h) + Len(data)
      /\ \A i \in 1..Len(h) : b[i] = h[i]
  BY <1>4, Joined
<1>6. Len(b) = 2 + n /\ b[1] = 110
  BY <1>1, <1>3, <1>5
<1>7. PICK e \in Seq(Byte) : e = <<80>> \o b /\ Len(e) = n + 3 /\ e[1] = 80
                             /\ \A i \in 1..n + 2 : e[1 + i] = b[i]
  <2>1. PICK z \in Seq(Byte) : z = <<80>> /\ Len(z) = 1 /\ z[1] = 80
    <3> DEFINE z == <<80>>
    <3>1. z \in Seq(Byte) /\ Len(z) = 1 /\ z[1] = 80
      BY <1>2
    <3> HIDE DEF z
    <3> QED
      BY <3>1 DEF z
  <2>2. PICK e : e = z \o b
    OBVIOUS
  <2>3. /\ e \in Seq(Byte) /\ Len(e) = Len(z) + Len(b)
        /\ \A i \in 1..Len(z) : e[i] = z[i]
        /\ \A i \in 1..Len(b) : e[Len(z) + i] = b[i]
    BY <1>5, <2>2, Joined
  <2>4. Len(e) = n + 3 /\ e[1] = 80 /\ \A i \in 1..n + 2 : e[1 + i] = b[i]
    BY <1>6, <2>1, <2>3
  <2>5. e = <<80>> \o b
    BY <2>1, <2>2
  <2> QED
    BY <2>3, <2>4, <2>5
<1>8. PICK c \in Byte : c = XorAll(e)
  BY BitOfXorAll
<1>9. PICK f : f = Append(b, c)
  OBVIOUS
<1>10. Frame(data) = f
  BY <1>3, <1>4, <1>7, <1>8, <1>9 DEF Frame
<1>11. /\ f \in Seq(Byte) /\ Len(f) = Len(b) + 1 /\ f[Len(b) + 1] = c
       /\ \A i \in 1..Len(b) : f[i] = b[i]
  <2>1. b \in Seq(Byte) /\ c \in Byte /\ f = Append(b, c)
    BY <1>5, <1>8, <1>9
  <2> QED
    BY <2>1, AppendProperties
<1>12. Len(f) = n + 3 /\ f[n + 3] = c /\ \A i \in 1..n + 2 : f[i] = b[i]
  BY <1>6, <1>11
<1>13. PICK v : v = Covered(f, n)
  OBVIOUS
<1>14. IsCovered(v, f, n)
  BY <1>11, <1>13, CoveredBytes
<1>15. /\ v \in Seq(Byte) /\ Len(v) = n + 3
       /\ \A i \in 1..n + 3 : v[i] = IF i = 1 THEN 80 ELSE IF i = 2 THEN 110 ELSE At(f, i - 2)
  BY <1>14 DEF IsCovered
<1>16. ASSUME NEW i \in 1..n + 1 PROVE At(f, i) = b[i + 1]
  <2>1. i \in Nat /\ i < Len(f) /\ i + 1 \in 1..n + 2
    BY <1>12
  <2>2. At(f, i) = f[i + 1]
    BY <2>1 DEF At
  <2> QED
    BY <1>12, <2>1, <2>2
<1>17. ASSUME NEW i \in 1..n + 3 PROVE v[i] = e[i]
  <2>1. CASE i = 1
    BY <1>7, <1>15, <2>1
  <2>2. CASE i = 2
    <3>1. 1 \in 1..n + 2 /\ 1 + 1 = 2
      OBVIOUS
    <3> QED
      BY <1>6, <1>7, <1>15, <2>2, <3>1
  <2>3. CASE i \in 3..n + 3
    <3>1. i - 2 \in 1..n + 1 /\ (i - 2) + 1 = i - 1
      BY <2>3
    <3>2. i - 1 \in 1..n + 2 /\ 1 + (i - 1) = i
      BY <2>3
    <3>3. v[i] = At(f, i - 2) /\ At(f, i - 2) = b[i - 1]
      BY <1>15, <1>16, <2>3, <3>1
    <3>4. e[i] = b[i - 1]
      BY <1>7, <3>2
    <3> QED
      BY <3>3, <3>4
  <2> QED
    BY <2>1, <2>2, <2>3
<1>18. v = e
  <2>1. Alike(v, e)
    BY <1>7, <1>15, <1>17 DEF Alike
  <2> QED
    BY <1>7, <1>15, <1>17, <2>1, SameBytes
<1> QED
  BY <1>1, <1>8, <1>10, <1>12, <1>13, <1>18

\* The same where the buffer has all the bytes of an answer.
IsWhole(v, b, n) ==
  /\ v \in Seq(Byte) /\ Len(v) = n + 3
  /\ \A i \in 1..n + 3 : v[i] = IF i = 1 THEN 80 ELSE IF i = 2 THEN 110 ELSE b[i - 1]

(* The bytes under the checksum, where the buffer has them all.              *)
LEMMA CoveredOf ==
  ASSUME NEW b \in Seq(Byte), fill \in Byte, NEW n \in Nat, Len(b) = n + 3
  PROVE  IsWhole(Covered(b, n), b, n)
<1>1. PICK v : v = Covered(b, n)
  OBVIOUS
<1>2. IsCovered(v, b, n)
  BY <1>1, CoveredBytes
<1>3. /\ v \in Seq(Byte) /\ Len(v) = n + 3
      /\ \A i \in 1..n + 3 : v[i] = IF i = 1 THEN 80 ELSE IF i = 2 THEN 110 ELSE At(b, i - 2)
  BY <1>2 DEF IsCovered
<1>4. ASSUME NEW i \in 3..n + 3 PROVE At(b, i - 2) = b[i - 1]
  <2>1. i - 2 < Len(b) /\ (i - 2) + 1 = i - 1
    OBVIOUS
  <2> QED
    BY <2>1 DEF At
<1>5. IsWhole(v, b, n)
  BY <1>3, <1>4 DEF IsWhole
<1> QED
  BY <1>1, <1>5

(* A well formed answer, spelled out.                                        *)
LEMMA WellFormedIs ==
  ASSUME NEW b \in Seq(Byte), fill \in Byte
  PROVE  /\ DataCount(b) \in Nat
         /\ WellFormed(b) <=> /\ At(b, 0) = 110 /\ DataCount(b) <= 35
                              /\ XorAll(Covered(b, DataCount(b))) = At(b, DataCount(b) + 2)
<1>1. PICK x \in 0..255 : x = At(b, 1)
  <2>1. At(b, 1) \in Byte
    BY AtByte
  <2> QED
    BY <2>1 DEF Byte
<1>2. x % 128 \in Nat
  OBVIOUS
<1>3. PICK m \in Nat : m = DataCount(b)
  BY <1>1, <1>2 DEF DataCount
<1>4. WellFormed(b) <=> At(b, 0) = 110 /\ m <= 35 /\ XorAll(Covered(b, m)) = At(b, m + 2)
  BY <1>3 DEF WellFormed, Covered, Checksum, MAX_DDC_DATA_SIZE
<1> QED
  BY <1>3, <1>4

\* The bytes of an answer that came whole, one of them perhaps another.
IsRead(b, n) ==
  /\ At(b, 0) = b[1] /\ At(b, 1) = b[2] /\ At(b, n + 2) = b[n + 3]
  /\ b[2] = 128 + n => DataCount(b) = n

(* They are read from where they are.                                        *)
LEMMA CountRead ==
  ASSUME NEW b \in Seq(Byte), NEW n \in Nat, n <= 35, Len(b) = n + 3
  PROVE  IsRead(b, n)
<1>1. 0 < Len(b) /\ 1 < Len(b) /\ n + 2 < Len(b) /\ n + 2 + 1 = n + 3
  OBVIOUS
<1>2. At(b, 0) = b[1] /\ At(b, 1) = b[2] /\ At(b, n + 2) = b[n + 3]
  BY <1>1 DEF At
<1>3. (128 + n) % 128 = n
  OBVIOUS
<1>4. b[2] = 128 + n => DataCount(b) = n
  BY <1>2, <1>3 DEF DataCount
<1> QED
  BY <1>2, <1>4 DEF IsRead

\* The data that are read.
IsData(r, b, m) ==
  /\ r \in Seq(Byte) /\ Len(r) = m
  /\ \A i \in 1..m : i + 2 <= Len(b) => r[i] = b[i + 2]

(* They are the bytes after the count, as far as there are any.              *)
LEMMA DataRead ==
  ASSUME NEW b \in Seq(Byte), fill \in Byte, NEW m \in Nat
  PROVE  IsData(Part(b, 2, m), b, m)
<1>1. PICK r : r = Part(b, 2, m)
  OBVIOUS
<1>2. IsPart(r, b, 2, m)
  <2>1. 2 \in Nat \ {0}
    OBVIOUS
  <2> QED
    BY <1>1, <2>1, PartBytes
<1>3. r \in Seq(Byte) /\ Len(r) = m /\ \A i \in 1..m : r[i] = At(b, 2 + i - 1)
  BY <1>2 DEF IsPart
<1>4. PICK n \in Nat : n = Len(b)
  BY LenProperties
<1>5. ASSUME NEW i \in 1..m, i + 2 <= n PROVE r[i] = b[i + 2]
  <2>1. 2 + i - 1 < n /\ (2 + i - 1) + 1 = i + 2
    BY <1>5
  <2>2. At(b, 2 + i - 1) = b[i + 2]
    BY <1>4, <2>1 DEF At
  <2> QED
    BY <1>3, <2>2
<1>6. IsData(r, b, m)
  BY <1>3, <1>4, <1>5 DEF IsData
<1> QED
  BY <1>1, <1>6

(* An answer of no data has a checksum that is no type of an answer.         *)
LEMMA EmptyFrame ==
  ASSUME NEW f, NEW data \in Seq(Byte), Len(data) = 0, IsBody(f, data), fill \in Byte,
         f[Len(data) + 3] = XorAll(Covered(f, Len(data)))
  PROVE  f[3] = 190
<1>1. PICK n \in Nat : n = 0
  OBVIOUS
<1>2. /\ f \in Seq(Byte) /\ Len(f) = n + 3 /\ f[1] = 110 /\ f[2] = 128
      /\ f[3] = XorAll(Covered(f, n))
  BY <1>1 DEF IsBody
<1>3. PICK v : v = Covered(f, n)
  OBVIOUS
<1>4. IsWhole(v, f, n)
  BY <1>2, <1>3, CoveredOf
<1>5. v \in Seq(Byte) /\ Len(v) = 3 /\ v[1] = 80 /\ v[2] = 110 /\ v[3] = 128
  BY <1>1, <1>2, <1>4 DEF IsWhole
<1>6. 80 \in Byte /\ 110 \in Byte /\ 128 \in Byte
  BY DEF Byte
<1>7. PICK s \in Seq(Byte) : /\ s = <<80, 110, 128>> /\ Len(s) = 3
                             /\ s[1] = 80 /\ s[2] = 110 /\ s[3] = 128
  BY <1>6, ThreeBytes
<1>8. v = s
  <2>1. PICK l \in Nat : l = 3
    OBVIOUS
  <2>2. Len(v) = l /\ Len(s) = l /\ \A i \in 1..l : v[i] = s[i]
    BY <1>5, <1>7, <2>1
  <2> QED
    <3>1. Alike(v, s)
      BY <1>5, <1>7, <2>2 DEF Alike
    <3> QED
      BY <1>5, <1>7, <2>2, <3>1, SameBytes
<1> QED
  BY <1>2, <1>3, <1>7, <1>8, TwoChecksums

\* An answer as it is sent.
IsFrame(f, data) ==
  /\ IsBody(f, data)
  /\ f[Len(data) + 3] = XorAll(Covered(f, Len(data)))
  /\ Len(data) = 0 => f[3] = 190

(* That is what AnswerBytes makes.                                           *)
LEMMA FrameIs ==
  ASSUME NEW data \in Seq(Byte), Len(data) <= 35, fill \in Byte
  PROVE  IsFrame(Frame(data), data)
BY FrameBytes, FrameSum, EmptyFrame DEF IsFrame

(* An answer that came as it was sent.                                       *)
LEMMA FrameIntact ==
  ASSUME NEW data \in Seq(Byte), Len(data) <= 35, fill \in Byte, NEW f, IsFrame(f, data)
  PROVE  /\ DataCount(f) = Len(data)
         /\ Part(f, 2, Len(data)) = data
         /\ WellFormed(f)
<1>1. PICK n \in Nat : n = Len(data) /\ n <= 35
  BY LenProperties
<1>2. /\ f \in Seq(Byte) /\ Len(f) = n + 3 /\ f[1] = 110 /\ f[2] = 128 + n
      /\ \A i \in 3..n + 2 : f[i] = data[i - 2]
      /\ f[n + 3] = XorAll(Covered(f, n))
  BY <1>1 DEF IsFrame, IsBody
<1>3. IsRead(f, n)
  BY <1>1, <1>2, CountRead
<1>4. At(f, 0) = 110 /\ At(f, n + 2) = f[n + 3] /\ DataCount(f) = n
  BY <1>2, <1>3 DEF IsRead
<1>5. WellFormed(f)
  BY <1>1, <1>2, <1>4, WellFormedIs
<1>6. PICK r : r = Part(f, 2, n)
  OBVIOUS
<1>7. IsData(r, f, n)
  BY <1>2, <1>6, DataRead
<1>8. /\ r \in Seq(Byte) /\ Len(r) = n
      /\ \A i \in 1..n : i + 2 <= n + 3 => r[i] = f[i + 2]
  BY <1>2, <1>7 DEF IsData
<1>9. ASSUME NEW i \in 1..n PROVE r[i] = data[i]
  <2>1. i + 2 <= n + 3 /\ i + 2 \in 3..n + 2 /\ (i + 2) - 2 = i
    OBVIOUS
  <2> QED
    BY <1>2, <1>8, <2>1
<1>10. r = data
  <2>1. Alike(r, data)
    BY <1>1, <1>8, <1>9 DEF Alike
  <2> QED
    BY <1>1, <1>8, <1>9, <2>1, SameBytes
<1> QED
  BY <1>1, <1>4, <1>5, <1>6, <1>10

(* If its third byte or a later one is another, the checksum is wrong.       *)
LEMMA WrongChecksum ==
  ASSUME NEW data \in Seq(Byte), NEW n \in Nat, n = Len(data), NEW f, IsFrame(f, data),
         NEW b, NEW k \in Nat, k > 2, ChangedAt(b, k, f), k <= Len(f), fill \in Byte
  PROVE  b[n + 3] # XorAll(Covered(b, n))
<1>0. /\ f \in Seq(Byte) /\ Len(f) = n + 3 /\ f[n + 3] = XorAll(Covered(f, n))
      /\ b \in Seq(Byte) /\ Len(b) = n + 3 /\ b[k] # f[k] /\ k \in 3..n + 3
      /\ \A i \in 1..n + 3 : i # k => b[i] = f[i]
  BY DEF IsFrame, IsBody, ChangedAt
<1>1. PICK v : v = Covered(b, n)
  OBVIOUS
<1>2. PICK u : u = Covered(f, n)
  OBVIOUS
<1>3. /\ v \in Seq(Byte) /\ Len(v) = n + 3
      /\ \A i \in 1..n + 3 : v[i] = IF i = 1 THEN 80 ELSE IF i = 2 THEN 110 ELSE b[i - 1]
  <2>1. IsWhole(v, b, n)
    BY <1>0, <1>1, CoveredOf
  <2> QED
    BY <2>1 DEF IsWhole
<1>4. /\ u \in Seq(Byte) /\ Len(u) = n + 3
      /\ \A i \in 1..n + 3 : u[i] = IF i = 1 THEN 80 ELSE IF i = 2 THEN 110 ELSE f[i - 1]
  <2>1. IsWhole(u, f, n)
    BY <1>0, <1>2, CoveredOf
  <2> QED
    BY <2>1 DEF IsWhole
<1>5. CASE k = n + 3
  <2>1. ASSUME NEW i \in 3..n + 3 PROVE b[i - 1] = f[i - 1]
    <3>1. i - 1 \in 1..n + 3 /\ i - 1 # k
      BY <1>5
    <3> QED
      BY <1>0, <3>1
  <2>2. ASSUME NEW i \in 1..n + 3 PROVE v[i] = u[i]
    <3>1. CASE i = 1 \/ i = 2
      BY <1>3, <1>4, <3>1
    <3>2. CASE i # 1 /\ i # 2
      <4>1. i \in 3..n + 3
        BY <3>2
      <4>2. v[i] = b[i - 1] /\ u[i] = f[i - 1]
        BY <1>3, <1>4, <3>2
      <4>3. b[i - 1] = f[i - 1]
        BY <2>1, <4>1
      <4> QED
        BY <4>2, <4>3
    <3> QED
      BY <3>1, <3>2
  <2>3. v = u
    <3>1. Alike(v, u)
      BY <1>3, <1>4, <2>2 DEF Alike
    <3> QED
      BY <1>3, <1>4, <2>2, <3>1, SameBytes
  <2> QED
    BY <1>0, <1>1, <1>2, <1>5, <2>3
<1>6. CASE k \in 3..n + 2
  <2>1. PICK j \in 4..n + 3 : j = k + 1 /\ j - 1 = k /\ j \in 1..n + 3
    BY <1>6
  <2>2. v[j] = b[j - 1] /\ u[j] = f[j - 1]
    BY <1>3, <1>4, <2>1
  <2>3. v[j] # u[j]
    BY <1>0, <2>1, <2>2
  <2>4. ASSUME NEW i \in 3..n + 3, i # j PROVE b[i - 1] = f[i - 1]
    <3>1. i - 1 \in 1..n + 3 /\ i - 1 # k
      BY <2>1, <2>4
    <3> QED
      BY <1>0, <3>1
  <2>5. ASSUME NEW i \in 1..n + 3, i # j PROVE v[i] = u[i]
    <3>1. CASE i \in 1..2
      <4>1. i \in 1..n + 3 /\ (i = 1 \/ i = 2)
        BY <3>1
      <4> QED
        BY <1>3, <1>4, <4>1
    <3>2. CASE i \in 3..n + 3
      <4>1. v[i] = b[i - 1] /\ u[i] = f[i - 1]
        BY <1>3, <1>4, <3>2
      <4> QED
        BY <2>4, <2>5, <3>2, <4>1
    <3> QED
      BY <3>1, <3>2
  <2>6. j \in 1..Len(v) /\ Len(v) = Len(u) /\ \A i \in 1..Len(v) : i # j => v[i] = u[i]
    BY <1>3, <1>4, <2>1, <2>5
  <2>7. XorAll(v) # XorAll(u)
    BY <1>3, <1>4, <2>3, <2>6, OneByteDiffers
  <2>8. n + 3 \in 1..n + 3 /\ n + 3 # k
    BY <1>6
  <2>9. b[n + 3] = f[n + 3]
    BY <1>0, <2>8
  <2> QED
    BY <1>0, <1>1, <1>2, <2>7, <2>9
<1> QED
  BY <1>0, <1>5, <1>6

\* What a damaged answer still says.
StillSays(b, data) ==
  LET n    == DataCount(b)
      read == Part(b, 2, n)
  IN  /\ Len(data) # 0
      /\ n = Len(data) => read = data
      /\ \A i \in 1..n : i \in 1..Len(data) => read[i] = data[i]

\* The same of the data that were read.
StillSaysOf(r, m, data, n) ==
  n # 0 /\ (m = n => r = data) /\ \A i \in 1..m : i \in 1..n => r[i] = data[i]

(* If its second byte is another, what is read of its data is right.         *)
LEMMA WrongCount ==
  ASSUME NEW data \in Seq(Byte), NEW n \in Nat, n = Len(data), NEW f, IsFrame(f, data),
         NEW b, ChangedAt(b, 2, f), NEW m \in Nat, m # 0, NEW r, IsData(r, b, m),
         r[1] \in {2, 227, 228}
  PROVE  StillSaysOf(r, m, data, n)
<1>0. /\ Len(f) = n + 3
      /\ n = 0 => f[3] = 190
      /\ \A i \in 3..n + 2 : f[i] = data[i - 2]
      /\ Len(b) = n + 3 /\ \A i \in 1..n + 3 : i # 2 => b[i] = f[i]
      /\ r \in Seq(Byte) /\ Len(r) = m
      /\ \A i \in 1..m : i + 2 <= n + 3 => r[i] = b[i + 2]
  <2>1. /\ Len(f) = n + 3
        /\ n = 0 => f[3] = 190
        /\ \A i \in 3..n + 2 : f[i] = data[i - 2]
    BY DEF IsFrame, IsBody
  <2>2. Len(b) = n + 3 /\ \A i \in 1..n + 3 : i # 2 => b[i] = f[i]
    BY <2>1 DEF ChangedAt
  <2>3. /\ r \in Seq(Byte) /\ Len(r) = m
        /\ \A i \in 1..m : i + 2 <= n + 3 => r[i] = b[i + 2]
    BY <2>2 DEF IsData
  <2> QED
    BY <2>1, <2>2, <2>3
<1>1. ASSUME NEW i \in 1..m, i \in 1..n + 1 PROVE r[i] = f[i + 2]
  <2>1. i + 2 <= n + 3 /\ i + 2 \in 1..n + 3 /\ i + 2 # 2
    BY <1>1
  <2> QED
    BY <1>0, <2>1
<1>2. ASSUME NEW i \in 1..m, i \in 1..n PROVE r[i] = data[i]
  <2>1. i \in 1..n + 1 /\ i + 2 \in 3..n + 2 /\ (i + 2) - 2 = i
    BY <1>2
  <2>2. f[i + 2] = data[i]
    BY <1>0, <2>1
  <2>3. r[i] = f[i + 2]
    BY <1>1, <1>2, <2>1
  <2> QED
    BY <2>2, <2>3
<1>3. n # 0
  <2> SUFFICES ASSUME n = 0 PROVE FALSE
    OBVIOUS
  <2>1. 1 \in 1..m /\ 1 \in 1..n + 1 /\ 1 + 2 = 3
    OBVIOUS
  <2>2. r[1] = f[3]
    BY <1>1, <2>1
  <2> QED
    BY <1>0, <2>2
<1>4. ASSUME m = n PROVE r = data
  <2>1. Alike(r, data)
    BY <1>0, <1>2, <1>4 DEF Alike
  <2> QED
    BY <1>0, <1>2, <1>4, <2>1, SameBytes
<1> QED
  BY <1>2, <1>3, <1>4 DEF StillSaysOf

(* What is accepted of an answer of which one byte was damaged is right.     *)
LEMMA FrameChanged ==
  ASSUME NEW data \in Seq(Byte), Len(data) <= 35, fill \in Byte, NEW f, IsFrame(f, data),
         NEW b, NEW k \in 1..Len(f), ChangedAt(b, k, f),
         WellFormed(b), DataCount(b) # 0, Part(b, 2, DataCount(b))[1] \in {2, 227, 228}
  PROVE  StillSays(b, data)
<1>1. PICK n \in Nat : n = Len(data) /\ n <= 35
  BY LenProperties
<1>2. /\ f \in Seq(Byte) /\ Len(f) = n + 3 /\ f[1] = 110 /\ f[2] = 128 + n
      /\ \A i \in 3..n + 2 : f[i] = data[i - 2]
      /\ f[n + 3] = XorAll(Covered(f, n))
      /\ n = 0 => f[3] = 190
  BY <1>1 DEF IsFrame, IsBody
<1>3. /\ b \in Seq(Byte) /\ Len(b) = n + 3 /\ b[k] # f[k] /\ k \in 1..n + 3
      /\ \A i \in 1..n + 3 : i # k => b[i] = f[i]
  BY <1>2 DEF ChangedAt
<1>4. IsRead(b, n)
  BY <1>1, <1>3, CountRead
<1>5. /\ At(b, 0) = b[1] /\ At(b, n + 2) = b[n + 3]
      /\ b[2] = 128 + n => DataCount(b) = n
  BY <1>4 DEF IsRead
<1>6. PICK m \in Nat : m = DataCount(b)
  BY <1>3, WellFormedIs
<1>7. At(b, 0) = 110 /\ XorAll(Covered(b, m)) = At(b, m + 2)
  BY <1>3, <1>6, WellFormedIs
<1>8. k # 1
  BY <1>2, <1>3, <1>5, <1>7
<1>9. CASE k \in 3..n + 3
  <2>1. b[2] = f[2]
    <3>1. 2 \in 1..n + 3 /\ 2 # k
      BY <1>9
    <3> QED
      BY <1>3, <3>1
  <2>2. m = n
    BY <1>2, <1>5, <1>6, <2>1
  <2>3. b[n + 3] # XorAll(Covered(b, n))
    BY <1>1, <1>2, <1>9, WrongChecksum
  <2> QED
    BY <1>5, <1>7, <2>2, <2>3
<1>10. CASE k = 2
  <2>1. PICK r : r = Part(b, 2, m)
    OBVIOUS
  <2>2. m # 0 /\ r[1] \in {2, 227, 228}
    BY <1>6, <2>1
  <2>3. IsData(r, b, m)
    BY <1>3, <2>1, DataRead
  <2>4. ChangedAt(b, 2, f)
    BY <1>10
  <2>5. StillSaysOf(r, m, data, n)
    BY <1>1, <2>2, <2>3, <2>4, WrongCount
  <2> QED
    BY <1>1, <1>6, <2>1, <2>5 DEF StillSays, StillSaysOf
<1> QED
  BY <1>3, <1>8, <1>9, <1>10

(***************************************************************************)
(* The double first byte.                                                  *)
(***************************************************************************)
\* What the data of an answer begin with.
IsTyped(data) ==
  Len(data) # 0 => /\ data[1] \in {2, 227, 228}
                   /\ data[1] = 2 => Len(data) = 8 /\ data[2] \in {0, 1}

(* The data of an answer begin with its type.                                *)
LEMMA AnswerTyped ==
  ASSUME NEW a, IsAnswer(a)
  PROVE  AnswerData(a) \in Seq(Byte) /\ Len(AnswerData(a)) <= 35 /\ IsTyped(AnswerData(a))
<1>1. PICK d \in Seq(Byte) : d = AnswerData(a)
  BY AnswerDataIs
<1>2. Len(d) <= 35
  BY <1>1, AnswerDataIs
<1>3. CASE a.kind \in {"null", "zeros"}
  <2>1. d = <<>>
    BY <1>1, <1>3, AnswerDataIs
  <2> QED
    BY <1>1, <1>2, <2>1 DEF IsTyped
<1>4. CASE a.kind \in {"value", "unsupported"}
  <2>1. Len(d) = 8 /\ d[1] = 2 /\ d[2] = IF a.kind = "value" THEN 0 ELSE 1
    BY <1>1, <1>4, AnswerDataIs
  <2> QED
    BY <1>1, <1>2, <2>1 DEF IsTyped
<1>5. CASE a.kind \in {"capabilities", "table"}
  <2>1. d[1] = IF a.kind = "capabilities" THEN 227 ELSE 228
    BY <1>1, <1>5, AnswerDataIs
  <2> QED
    BY <1>1, <1>2, <2>1 DEF IsTyped
<1> QED
  BY <1>3, <1>4, <1>5 DEF IsAnswer

\* An answer whose first byte came twice.
IsDoubled(s, f) ==
  /\ s \in Seq(Byte) /\ Len(s) = Len(f) + 1 /\ s[1] = 110
  /\ \A i \in 1..Len(f) : s[i + 1] = f[i]

(* One byte more in front.                                                   *)
LEMMA DoubledBytes ==
  ASSUME NEW f \in Seq(Byte)
  PROVE  IsDoubled(<<110>> \o f, f)
<1>1. PICK z \in Seq(Byte) : z = <<110>> /\ Len(z) = 1 /\ z[1] = 110
  <2> DEFINE z == <<110>>
  <2>1. 110 \in Byte
    BY DEF Byte
  <2>2. z \in Seq(Byte) /\ Len(z) = 1 /\ z[1] = 110
    BY <2>1
  <2> HIDE DEF z
  <2> QED
    BY <2>2 DEF z
<1>2. PICK s : s = z \o f
  OBVIOUS
<1>3. /\ s \in Seq(Byte) /\ Len(f) \in Nat /\ Len(s) = Len(z) + Len(f)
      /\ \A i \in 1..Len(z) : s[i] = z[i]
      /\ \A i \in 1..Len(f) : s[Len(z) + i] = f[i]
  BY <1>2, Joined
<1>4. Len(s) = Len(f) + 1 /\ s[1] = 110
  BY <1>1, <1>3
<1>5. ASSUME NEW i \in 1..Len(f) PROVE s[i + 1] = f[i]
  <2>1. Len(z) + i = i + 1
    BY <1>1
  <2> QED
    BY <1>3, <2>1
<1>6. IsDoubled(s, f)
  BY <1>3, <1>4, <1>5 DEF IsDoubled
<1> QED
  BY <1>1, <1>2, <1>6

\* A sequence without its first byte.
IsTail(t, s) ==
  t \in Seq(Byte) /\ Len(s) = Len(t) + 1 /\ \A i \in 1..Len(t) : t[i] = s[i + 1]

(* Tail.                                                                     *)
LEMMA TailBytes ==
  ASSUME NEW s \in Seq(Byte), Len(s) # 0
  PROVE  IsTail(Tail(s), s)
<1>1. s # <<>> /\ Len(s) \in Nat
  BY LenProperties
<1>2. /\ Tail(s) \in Seq(Byte) /\ Len(Tail(s)) = Len(s) - 1
      /\ \A i \in 1..Len(Tail(s)) : Tail(s)[i] = s[i + 1]
  BY <1>1, HeadTailProperties
<1>3. Len(s) = Len(Tail(s)) + 1
  BY <1>1, <1>2
<1> QED
  BY <1>2, <1>3 DEF IsTail

(* An answer that came once is taken as it is.                               *)
LEMMA OnceIntact ==
  ASSUME NEW data \in Seq(Byte), Len(data) <= 35, NEW f, IsFrame(f, data)
  PROVE  Unquirked(f) = f /\ At(f, 0) = 110
<1>1. PICK n \in Nat : n = Len(data) /\ n <= 35
  BY LenProperties
<1>2. f \in Seq(Byte) /\ Len(f) = n + 3 /\ f[1] = 110 /\ f[2] = 128 + n
  BY <1>1 DEF IsFrame, IsBody
<1>3. 0 < Len(f) /\ 1 < Len(f)
  BY <1>2
<1>4. At(f, 0) = 110 /\ At(f, 1) = 128 + n
  BY <1>2, <1>3 DEF At
<1>5. 128 + n # 110
  OBVIOUS
<1> QED
  BY <1>4, <1>5 DEF Unquirked

(* An answer whose first byte came twice is taken without the first.         *)
LEMMA TwiceIntact ==
  ASSUME NEW data \in Seq(Byte), Len(data) <= 35, NEW f, IsFrame(f, data),
         NEW s, IsDoubled(s, f)
  PROVE  Unquirked(s) = f /\ At(s, 0) = 110
<1>1. PICK n \in Nat : n = Len(data) /\ n <= 35
  BY LenProperties
<1>2. f \in Seq(Byte) /\ Len(f) = n + 3 /\ f[1] = 110
  BY <1>1 DEF IsFrame, IsBody
<1>3. /\ s \in Seq(Byte) /\ Len(s) = n + 4 /\ s[1] = 110
      /\ \A i \in 1..n + 3 : s[i + 1] = f[i]
  BY <1>2 DEF IsDoubled
<1>4. 0 < Len(s) /\ 1 < Len(s) /\ Len(s) # 0 /\ 1 \in 1..n + 3 /\ 1 + 1 = 2
  BY <1>3
<1>5. s[2] = 110
  BY <1>2, <1>3, <1>4
<1>6. At(s, 0) = 110 /\ At(s, 1) = 110
  BY <1>3, <1>4, <1>5 DEF At
<1>7. IsTail(Tail(s), s)
  BY <1>3, <1>4, TailBytes
<1>8. PICK t : t = Tail(s)
  OBVIOUS
<1>9. t \in Seq(Byte) /\ Len(t) = n + 3 /\ \A i \in 1..n + 3 : t[i] = s[i + 1]
  BY <1>3, <1>7, <1>8 DEF IsTail
<1>10. \A i \in 1..n + 3 : t[i] = f[i]
  BY <1>3, <1>9
<1>11. t = f
  <2>1. Alike(t, f)
    BY <1>2, <1>9, <1>10 DEF Alike
  <2> QED
    BY <1>2, <1>9, <1>10, <2>1, SameBytes
<1> QED
  BY <1>6, <1>8, <1>11 DEF Unquirked

\* What the caller goes on with: a packet that is well formed, has data, and
\* those of a type it can have asked for.
Accepted(b) ==
  WellFormed(b) /\ DataCount(b) # 0 /\ Part(b, 2, DataCount(b))[1] \in {2, 227, 228}

(* An accepted packet, spelled out.                                          *)
LEMMA AcceptedBytes ==
  ASSUME NEW b \in Seq(Byte), fill \in Byte, Accepted(b)
  PROVE  /\ At(b, 0) = 110 /\ At(b, 1) % 128 <= 35 /\ At(b, 1) % 128 # 0
         /\ At(b, 2) \in {2, 227, 228}
<1>1. PICK m \in Nat : m = DataCount(b)
  BY WellFormedIs
<1>2. At(b, 0) = 110 /\ m <= 35 /\ m # 0
  BY <1>1, WellFormedIs DEF Accepted
<1>3. PICK r : r = Part(b, 2, m)
  OBVIOUS
<1>4. r[1] \in {2, 227, 228}
  BY <1>1, <1>3 DEF Accepted
<1>5. IsPart(r, b, 2, m)
  <2>1. 2 \in Nat \ {0}
    OBVIOUS
  <2> QED
    BY <1>3, <2>1, PartBytes
<1>6. r[1] = At(b, 2)
  <2>1. 1 \in 1..m /\ 2 + 1 - 1 = 2
    BY <1>2
  <2>2. r[1] = At(b, 2 + 1 - 1)
    BY <1>5, <2>1 DEF IsPart
  <2> QED
    BY <2>1, <2>2
<1> QED
  BY <1>1, <1>2, <1>4, <1>6 DEF DataCount

(* A sequence without its first byte is not itself.                          *)
LEMMA TailShorter ==
  ASSUME NEW s \in Seq(Byte), Len(s) # 0
  PROVE  Tail(s) # s
<1>1. PICK t : t = Tail(s)
  OBVIOUS
<1>2. IsTail(t, s)
  BY <1>1, TailBytes
<1>3. Len(s) = Len(t) + 1
  BY <1>2 DEF IsTail
<1>4. PICK n \in Nat : n = Len(s)
  BY LenProperties
<1>5. t # s
  BY <1>3, <1>4
<1> QED
  BY <1>1, <1>5

(* If one byte of it was damaged and it came once, what is accepted of it is *)
(* right: also if the damage made its count look like a first byte.          *)
LEMMA OnceDamaged ==
  ASSUME NEW data \in Seq(Byte), Len(data) <= 35, IsTyped(data), fill \in Byte,
         NEW f, IsFrame(f, data), NEW b, NEW k \in 1..Len(f), ChangedAt(b, k, f),
         Accepted(Unquirked(b))
  PROVE  StillSays(Unquirked(b), data)
<1>1. PICK n \in Nat : n = Len(data) /\ n <= 35
  BY LenProperties
<1>2. /\ f \in Seq(Byte) /\ Len(f) = n + 3 /\ f[1] = 110 /\ f[2] = 128 + n
      /\ \A i \in 3..n + 2 : f[i] = data[i - 2]
  BY <1>1 DEF IsFrame, IsBody
<1>3. n = 0 => f[3] = 190
  BY <1>1 DEF IsFrame
<1>4. /\ b \in Seq(Byte) /\ Len(b) = n + 3 /\ k \in 1..n + 3
      /\ \A i \in 1..n + 3 : i # k => b[i] = f[i]
  BY <1>2 DEF ChangedAt
<1>5. At(b, 0) = b[1] /\ At(b, 1) = b[2]
  <2>1. 0 < Len(b) /\ 1 < Len(b)
    BY <1>4
  <2> QED
    BY <2>1 DEF At
<1>6. CASE Unquirked(b) = b
  BY <1>6, FrameChanged DEF Accepted
<1>7. CASE Unquirked(b) # b
  <2>1. PICK t : t = Unquirked(b)
    OBVIOUS
  <2>2. t = Tail(b) /\ b[2] = 110
    BY <1>5, <1>7, <2>1 DEF Unquirked
  <2>3. k = 2
    <3>1. 2 \in 1..n + 3 /\ 128 + n # 110
      OBVIOUS
    <3> QED
      BY <1>2, <1>4, <2>2, <3>1
  <2>4. t \in Seq(Byte) /\ Len(t) = n + 2 /\ \A i \in 1..n + 2 : t[i] = b[i + 1]
    <3>1. IsTail(t, b)
      <4>1. Len(b) # 0
        BY <1>4
      <4> QED
        BY <1>4, <2>2, <4>1, TailBytes
    <3> QED
      BY <1>4, <3>1 DEF IsTail
  <2>5. t[2] = f[3]
    <3>1. 2 \in 1..n + 2 /\ 2 + 1 = 3 /\ 3 \in 1..n + 3 /\ 3 # k
      BY <2>3
    <3> QED
      BY <1>4, <2>4, <3>1
  <2>6. At(t, 1) = f[3]
    <3>1. 1 < Len(t)
      BY <2>4
    <3> QED
      BY <2>5, <3>1 DEF At
  <2>7. /\ At(t, 1) % 128 <= 35
        /\ At(t, 2) \in {2, 227, 228}
    BY <2>1, <2>4, AcceptedBytes
  <2>8. n # 0
    BY <1>3, <2>6, <2>7
  <2>9. f[3] = data[1]
    <3>1. 3 \in 3..n + 2 /\ 3 - 2 = 1
      BY <2>8
    <3> QED
      BY <1>2, <3>1
  <2>10. data[1] = 2
    BY <1>1, <2>6, <2>7, <2>8, <2>9 DEF IsTyped
  <2>11. n = 8 /\ data[2] \in {0, 1}
    BY <1>1, <2>8, <2>10 DEF IsTyped
  <2>12. At(t, 2) = data[2]
    <3>1. 2 < Len(t) /\ 3 \in 1..n + 2 /\ 3 + 1 = 4 /\ 4 \in 1..n + 3 /\ 4 # k
          /\ 4 \in 3..n + 2 /\ 4 - 2 = 2
      BY <2>3, <2>4, <2>11
    <3>2. At(t, 2) = t[3]
      BY <3>1 DEF At
    <3>3. t[3] = b[4] /\ b[4] = f[4]
      BY <1>4, <2>4, <3>1
    <3>4. f[4] = data[2]
      BY <1>2, <3>1
    <3> QED
      BY <3>2, <3>3, <3>4
  <2> QED
    BY <2>7, <2>11, <2>12
<1> QED
  BY <1>6, <1>7

(* The same if its first byte came twice: also if the damage was to one of   *)
(* the two.                                                                  *)
LEMMA TwiceDamaged ==
  ASSUME NEW data \in Seq(Byte), Len(data) <= 35, fill \in Byte,
         NEW f, IsFrame(f, data), NEW s, IsDoubled(s, f),
         NEW b, NEW k \in 1..Len(s), ChangedAt(b, k, s),
         Accepted(Unquirked(b))
  PROVE  StillSays(Unquirked(b), data)
<1>1. PICK n \in Nat : n = Len(data) /\ n <= 35
  BY LenProperties
<1>2. f \in Seq(Byte) /\ Len(f) = n + 3 /\ f[1] = 110 /\ f[2] = 128 + n
  BY <1>1 DEF IsFrame, IsBody
<1>3. /\ s \in Seq(Byte) /\ Len(s) = n + 4 /\ s[1] = 110
      /\ \A i \in 1..n + 3 : s[i + 1] = f[i]
  BY <1>2 DEF IsDoubled
<1>4. s[2] = 110 /\ s[3] = 128 + n
  <2>1. 1 \in 1..n + 3 /\ 1 + 1 = 2 /\ 2 \in 1..n + 3 /\ 2 + 1 = 3
    OBVIOUS
  <2> QED
    BY <1>2, <1>3, <2>1
<1>5. /\ b \in Seq(Byte) /\ Len(b) = n + 4 /\ k \in 1..n + 4 /\ b[k] # s[k]
      /\ \A i \in 1..n + 4 : i # k => b[i] = s[i]
  BY <1>3 DEF ChangedAt
<1>6. At(b, 0) = b[1] /\ At(b, 1) = b[2] /\ At(b, 2) = b[3]
  <2>1. 0 < Len(b) /\ 1 < Len(b) /\ 2 < Len(b)
    BY <1>5
  <2> QED
    BY <2>1 DEF At
<1>7. CASE Unquirked(b) = b
  <2>1. At(b, 0) = 110 /\ At(b, 2) \in {2, 227, 228}
    BY <1>5, <1>7, AcceptedBytes
  <2>2. k # 1
    BY <1>3, <1>5, <1>6, <2>1
  <2>3. k = 2
    <3>1. b[2] # 110
      <4>1. Len(b) # 0
        BY <1>5
      <4>2. Tail(b) # b
        BY <1>5, <4>1, TailShorter
      <4> QED
        BY <1>6, <1>7, <2>1, <4>2 DEF Unquirked
    <3>2. 2 \in 1..n + 4 /\ Len(b) # 0
      BY <1>5
    <3> QED
      BY <1>4, <1>5, <3>1, <3>2
  <2>4. b[3] = 128 + n
    <3>1. 3 \in 1..n + 4 /\ 3 # k
      BY <2>3
    <3> QED
      BY <1>4, <1>5, <3>1
  <2>5. 128 + n \notin {2, 227, 228}
    BY <1>1
  <2> QED
    BY <1>6, <2>1, <2>4, <2>5
<1>8. CASE Unquirked(b) # b
  <2>1. PICK t : t = Unquirked(b)
    OBVIOUS
  <2>2. t = Tail(b) /\ b[1] = 110 /\ b[2] = 110
    BY <1>6, <1>8, <2>1 DEF Unquirked
  <2>3. k # 1 /\ k # 2
    BY <1>3, <1>4, <1>5, <2>2
  <2>4. t \in Seq(Byte) /\ Len(t) = n + 3 /\ \A i \in 1..n + 3 : t[i] = b[i + 1]
    <3>1. IsTail(t, b)
      <4>1. Len(b) # 0
        BY <1>5
      <4> QED
        BY <1>5, <2>2, <4>1, TailBytes
    <3> QED
      BY <1>5, <3>1 DEF IsTail
  <2>5. PICK j \in 2..n + 3 : j + 1 = k
    <3>1. k - 1 \in 2..n + 3 /\ (k - 1) + 1 = k
      BY <1>5, <2>3
    <3> QED
      BY <3>1
  <2>6. ChangedAt(t, j, f)
    <3>1. t[j] = b[k] /\ f[j] = s[k]
      <4>1. j \in 1..n + 3 /\ j + 1 = k
        BY <2>5
      <4> QED
        BY <1>3, <2>4, <4>1
    <3>2. t[j] # f[j]
      BY <1>5, <3>1
    <3>3. ASSUME NEW i \in 1..n + 3, i # j PROVE t[i] = f[i]
      <4>1. i + 1 \in 1..n + 4 /\ i + 1 # k
        BY <2>5, <3>3
      <4>2. b[i + 1] = s[i + 1]
        BY <1>5, <4>1
      <4> QED
        BY <1>3, <2>4, <4>2
    <3> QED
      BY <1>2, <2>4, <3>2, <3>3 DEF ChangedAt
  <2>7. j \in 1..Len(f)
    BY <1>2
  <2> QED
    BY <2>1, <2>6, <2>7, FrameChanged DEF Accepted
<1> QED
  BY <1>7, <1>8

(***************************************************************************)
(* The bytes that came.                                                    *)
(***************************************************************************)
(* An answer that is not all zeros is a frame.                               *)
LEMMA AnswerFrame ==
  ASSUME NEW a, IsAnswer(a), a.kind # "zeros", fill \in Byte
  PROVE  IsFrame(AnswerBytes(a), AnswerData(a))
<1>1. AnswerBytes(a) = Frame(AnswerData(a))
  BY DEF AnswerBytes, Frame
<1>2. PICK data \in Seq(Byte) : data = AnswerData(a) /\ Len(data) <= 35
  BY AnswerTyped
<1>3. IsFrame(Frame(data), data)
  BY <1>2, FrameIs
<1> QED
  BY <1>1, <1>2, <1>3

(* The ways it can come.                                                     *)
LEMMA FrameCopies ==
  ASSUME NEW a, IsAnswer(a), a.kind # "zeros", fill \in Byte, NEW s \in Copies(a)
  PROVE  s = AnswerBytes(a) \/ IsDoubled(s, AnswerBytes(a))
<1>1. AnswerBytes(a) \in Seq(Byte)
  BY AnswerFrame DEF IsFrame, IsBody
<1>2. s = AnswerBytes(a) \/ s = <<110>> \o AnswerBytes(a)
  BY DEF Copies
<1> QED
  BY <1>1, <1>2, DoubledBytes

\* Forty zeros, one byte perhaps changed.
Zeros(b, k) == b \in Seq(Byte) /\ Len(b) = 40 /\ \A i \in 1..Len(b) : i # k => b[i] = 0

(* Forty zeros.                                                              *)
LEMMA ZeroBytes ==
  ASSUME NEW a, a.kind = "zeros"
  PROVE  Zeros(AnswerBytes(a), 0)
<1>1. PICK n \in Nat : n = 40
  OBVIOUS
<1>2. PICK z : z = [i \in 1..n |-> 0]
  OBVIOUS
<1>3. AnswerBytes(a) = z
  BY <1>1, <1>2 DEF AnswerBytes
<1>4. 0 \in Byte
  BY DEF Byte
<1>5. z \in [1..n -> Byte] /\ \A i \in 1..n : z[i] = 0
  BY <1>2, <1>4
<1>6. z \in Seq(Byte) /\ Len(z) = n
  BY <1>5, SeqDef
<1>7. Zeros(z, 0)
  BY <1>1, <1>5, <1>6 DEF Zeros
<1> QED
  BY <1>3, <1>7

(* They come as they are, unless one is damaged.                             *)
LEMMA ZerosChanged ==
  ASSUME NEW f, Zeros(f, 0), NEW b, NEW k \in 1..Len(f), ChangedAt(b, k, f)
  PROVE  Zeros(b, k)
<1>1. PICK n \in Nat : n = 40
  OBVIOUS
<1>2. f \in Seq(Byte) /\ Len(f) = n /\ \A i \in 1..n : i # 0 => f[i] = 0
  BY <1>1 DEF Zeros
<1>3. /\ b \in Seq(Byte) /\ Len(b) = n
      /\ \A i \in 1..n : i # k => b[i] = f[i]
  BY <1>2 DEF ChangedAt
<1>4. \A i \in 1..n : i # k => b[i] = 0
  BY <1>2, <1>3
<1> QED
  BY <1>1, <1>3, <1>4 DEF Zeros

(* Nothing is accepted of them, even if one of them is damaged.              *)
LEMMA ZerosRefused ==
  ASSUME NEW b, NEW k \in Nat, Zeros(b, k), fill \in Byte
  PROVE  ~Accepted(Unquirked(b))
<1>1. PICK n \in Nat : n = 40
  OBVIOUS
<1>2. b \in Seq(Byte) /\ Len(b) = n /\ \A i \in 1..n : i # k => b[i] = 0
  BY <1>1 DEF Zeros
<1>3. 0 < Len(b) /\ 1 < Len(b) /\ 1 \in 1..n /\ 2 \in 1..n
  BY <1>1, <1>2
<1>4. At(b, 0) = b[1] /\ At(b, 1) = b[2]
  BY <1>3 DEF At
<1>5. (k # 1 => b[1] = 0) /\ (k # 2 => b[2] = 0)
  BY <1>2, <1>3
<1>6. Unquirked(b) = b
  BY <1>4, <1>5 DEF Unquirked
<1> SUFFICES ASSUME Accepted(b) PROVE FALSE
  BY <1>6
<1>7. At(b, 0) = 110 /\ At(b, 1) % 128 # 0
  BY <1>2, AcceptedBytes
<1> QED
  BY <1>4, <1>5, <1>7

(* They are all zero if none is.                                             *)
LEMMA ZerosIntact ==
  ASSUME NEW b, Zeros(b, 0)
  PROVE  AllZero(b)
<1>1. PICK n \in Nat : n = 40
  OBVIOUS
<1>2. Len(b) = n /\ \A i \in 1..n : b[i] = 0
  BY <1>1 DEF Zeros
<1>3. ASSUME NEW i \in 0..n - 1 PROVE At(b, i) = 0
  <2>1. i < Len(b) /\ i + 1 \in 1..n
    BY <1>2
  <2> QED
    BY <1>2, <2>1 DEF At
<1>4. PICK l \in Nat : l = 39
  OBVIOUS
<1>5. l = n - 1
  BY <1>1, <1>4
<1>6. \A i \in 0..l : At(b, i) = 0
  BY <1>3, <1>5
<1> QED
  BY <1>4, <1>6 DEF AllZero

(* The bytes that came are bytes.                                            *)
LEMMA ReadbufType ==
  ASSUME AnswerInv, answer # None
  PROVE  readbuf \in Seq(Byte) /\ Unquirked(readbuf) \in Seq(Byte)
<1>1. IsAnswer(answer) /\ fill \in Byte
  BY DEF AnswerInv
<1>2. \A s \in Copies(answer) : s \in Seq(Byte)
  <2>1. CASE answer.kind = "zeros"
    BY <2>1, ZeroBytes DEF Copies, Zeros
  <2>2. CASE answer.kind # "zeros"
    <3>1. AnswerBytes(answer) \in Seq(Byte)
      BY <1>1, <2>2, AnswerFrame DEF IsFrame, IsBody
    <3> QED
      BY <1>1, <2>2, <3>1, FrameCopies DEF IsDoubled
  <2> QED
    BY <2>1, <2>2
<1>3. readbuf \in Seq(Byte)
  BY <1>2 DEF AnswerInv, ChangedAt
<1>4. PICK b \in Seq(Byte) : b = readbuf
  BY <1>3
<1>5. Unquirked(b) \in Seq(Byte)
  <2>1. CASE Unquirked(b) = b
    BY <2>1
  <2>2. CASE Unquirked(b) # b
    <3>1. Unquirked(b) = Tail(b) /\ At(b, 0) = 110 /\ At(b, 1) = 110
      BY <2>2 DEF Unquirked
    <3>2. CASE Len(b) = 0
      <4>1. b = <<>>
        BY <3>2, EmptySeq
      <4> QED
        BY <3>1, <4>1
    <3>3. CASE Len(b) # 0
      BY <3>1, <3>3, TailBytes DEF IsTail
    <3> QED
      BY <3>2, <3>3
  <2> QED
    BY <2>1, <2>2
<1> QED
  BY <1>4, <1>5

(* What is accepted of the bytes that came is what was sent, as far as it is *)
(* there.                                                                    *)
LEMMA AcceptedSays ==
  ASSUME AnswerInv, answer # None, Accepted(Unquirked(readbuf))
  PROVE  answer.kind # "zeros" /\ StillSays(Unquirked(readbuf), AnswerData(answer))
<1>1. IsAnswer(answer) /\ fill \in Byte
  BY DEF AnswerInv
<1>2. PICK s \in Copies(answer) : IF damaged THEN \E k \in 1..Len(s) : ChangedAt(readbuf, k, s)
                                             ELSE readbuf = s
  BY DEF AnswerInv
<1>3. PICK b : b = readbuf
  OBVIOUS
<1>4. answer.kind # "zeros"
  <2> SUFFICES ASSUME answer.kind = "zeros" PROVE FALSE
    OBVIOUS
  <2>1. PICK f : f = AnswerBytes(answer) /\ Zeros(f, 0)
    BY ZeroBytes
  <2>2. s = f
    BY <2>1 DEF Copies
  <2>3. CASE damaged
    <3>1. PICK k \in 1..Len(f) : ChangedAt(b, k, f)
      BY <1>2, <1>3, <2>2, <2>3
    <3>2. Zeros(b, k)
      BY <2>1, <3>1, ZerosChanged
    <3>3. k \in Nat
      <4>1. Len(f) \in Nat
        BY <2>1, LenProperties DEF Zeros
      <4> QED
        BY <4>1
    <3> QED
      BY <1>1, <1>3, <3>2, <3>3, ZerosRefused
  <2>4. CASE ~damaged
    <3>1. Zeros(b, 0) /\ 0 \in Nat
      BY <1>2, <1>3, <2>1, <2>2, <2>4
    <3> QED
      BY <1>1, <1>3, <3>1, ZerosRefused
  <2> QED
    BY <2>3, <2>4
<1>5. PICK data \in Seq(Byte) : data = AnswerData(answer) /\ Len(data) <= 35 /\ IsTyped(data)
  BY <1>1, AnswerTyped
<1>6. PICK f : f = AnswerBytes(answer) /\ IsFrame(f, data)
  BY <1>1, <1>4, <1>5, AnswerFrame
<1>7. s = f \/ IsDoubled(s, f)
  BY <1>1, <1>4, <1>6, FrameCopies
<1>8. Accepted(Unquirked(b))
  BY <1>3
<1>9. CASE damaged
  <2>1. PICK k \in 1..Len(s) : ChangedAt(b, k, s)
    BY <1>2, <1>3, <1>9
  <2>2. CASE s = f
    <3>1. k \in 1..Len(f) /\ ChangedAt(b, k, f)
      BY <2>1, <2>2
    <3>2. StillSays(Unquirked(b), data)
      BY <1>1, <1>5, <1>6, <1>8, <3>1, OnceDamaged
    <3> QED
      BY <1>3, <1>4, <1>5, <3>2
  <2>3. CASE IsDoubled(s, f)
    <3>1. StillSays(Unquirked(b), data)
      BY <1>1, <1>5, <1>6, <1>8, <2>1, <2>3, TwiceDamaged
    <3> QED
      BY <1>3, <1>4, <1>5, <3>1
  <2> QED
    BY <1>7, <2>2, <2>3
<1>10. CASE ~damaged
  <2>1. b = s
    BY <1>2, <1>3, <1>10
  <2>2. Unquirked(b) = f
    BY <1>5, <1>6, <1>7, <2>1, OnceIntact, TwiceIntact
  <2>3. DataCount(f) = Len(data) /\ Part(f, 2, Len(data)) = data
    BY <1>1, <1>5, <1>6, FrameIntact
  <2>4. StillSays(f, data)
    BY <1>8, <2>2, <2>3 DEF StillSays, Accepted
  <2> QED
    BY <1>3, <1>4, <1>5, <2>2, <2>4
<1> QED
  BY <1>9, <1>10

(***************************************************************************)
(* What is told.                                                           *)
(***************************************************************************)
(* Only an accepted packet is answered with success.                         *)
LEMMA SuccessAccepted ==
  ASSUME NEW b, NEW u \in Seq(Byte), u = Unquirked(b), fill \in Byte,
         request.kind \in {"get", "capabilities", "table"},
         NEW m, m = DataCount(u), NEW d, d = Part(u, 2, m),
         TypedResponse(b).rc = "OK"
  PROVE  /\ Accepted(u)
         /\ d[1] = ExpectedType(request.kind)
         /\ TypedResponse(b) = IF request.kind = "get"
                                 THEN InterpretValue(d, request.code)
                                 ELSE InterpretFragment(d, request.kind)
<1>1. m \in Nat
  BY WellFormedIs
<1>2. d \in Seq(Byte) /\ Len(d) = m
  BY <1>1, DataRead DEF IsData
<1>3. WellFormed(u) /\ d # <<>> /\ d[1] = ExpectedType(request.kind)
  <2>1. CASE ~WellFormed(u)
    BY <2>1 DEF TypedResponse, Failed
  <2>2. CASE WellFormed(u) /\ d = <<>>
    BY <2>2 DEF TypedResponse, Failed
  <2>3. CASE WellFormed(u) /\ d # <<>> /\ d[1] # ExpectedType(request.kind)
    BY <2>3 DEF TypedResponse, Failed
  <2> QED
    BY <2>1, <2>2, <2>3
<1>4. TypedResponse(b) = IF request.kind = "get"
                           THEN InterpretValue(d, request.code)
                           ELSE InterpretFragment(d, request.kind)
  BY <1>3 DEF TypedResponse
<1>5. m # 0
  BY <1>2, <1>3, EmptySeq
<1>6. d[1] \in {2, 227, 228}
  BY <1>3 DEF ExpectedType
<1> QED
  BY <1>3, <1>4, <1>5, <1>6 DEF Accepted

(* A value that is returned.                                                 *)
LEMMA ValueReturned ==
  ASSUME NEW d, NEW c, InterpretValue(d, c).rc = "OK"
  PROVE  /\ Len(d) = 8 /\ d[2] = 0 /\ d[3] = c
         /\ InterpretValue(d, c).said = Say("value", d[3], 0, SubSeq(d, 5, 8))
<1>1. Len(d) = 8
  BY DEF InterpretValue, Failed
<1>2. d[3] = c
  BY <1>1 DEF InterpretValue, Failed
<1>3. d[2] = 0
  BY <1>1, <1>2 DEF InterpretValue, Failed
<1> QED
  BY <1>1, <1>2, <1>3 DEF InterpretValue

(* A fragment that is returned.                                              *)
LEMMA FragmentReturned ==
  ASSUME NEW d \in Seq(Byte), NEW kind, InterpretFragment(d, kind).rc = "OK"
  PROVE  /\ Len(d) >= 3
         /\ InterpretFragment(d, kind).said =
              Say(kind, 0, (256 * d[2]) + d[3], SubSeq(d, 4, Len(d)))
<1>1. ~(Len(d) < 3)
  BY DEF InterpretFragment, Failed
<1>2. Len(d) >= 3
  BY <1>1, LenProperties
<1> QED
  BY <1>1, <1>2 DEF InterpretFragment

\* What is said with the data of an answer.
IsSaid(d, a) ==
  /\ a.kind \in {"null", "zeros"} => Len(d) = 0
  /\ a.kind \in {"value", "unsupported"} =>
       /\ Len(d) = 8 /\ d[1] = 2 /\ d[2] = (IF a.kind = "value" THEN 0 ELSE 1)
       /\ d[3] = a.code /\ SubSeq(d, 5, 8) = a.data
  /\ a.kind \in {"capabilities", "table"} =>
       /\ Len(d) = 3 + Len(a.data)
       /\ d[1] = (IF a.kind = "capabilities" THEN 227 ELSE 228)
       /\ (256 * d[2]) + d[3] = a.offset
       /\ SubSeq(d, 4, Len(d)) = a.data
       /\ \A i \in 1..Len(a.data) : d[3 + i] = a.data[i]

(* That is what the data of an answer say.                                   *)
LEMMA AnswerSaid ==
  ASSUME NEW a, IsAnswer(a)
  PROVE  IsSaid(AnswerData(a), a)
<1>1. PICK d \in Seq(Byte) : d = AnswerData(a)
  BY AnswerTyped
<1>2. PICK v \in Seq(Byte), o \in Offset : v = a.data /\ o = a.offset
  BY DEF IsAnswer, Message
<1>3. CASE a.kind \in {"null", "zeros"}
  <2>1. d = <<>>
    BY <1>1, <1>3, AnswerDataIs
  <2>2. Len(d) = 0
    BY <2>1
  <2> QED
    BY <1>1, <1>3, <2>2 DEF IsSaid
<1>4. CASE a.kind \in {"value", "unsupported"}
  <2>1. /\ Len(d) = 8 /\ d[1] = 2 /\ d[2] = IF a.kind = "value" THEN 0 ELSE 1
        /\ d[3] = a.code
    BY <1>1, <1>4, AnswerDataIs
  <2>2. \A i \in 1..4 : d[4 + i] = v[i]
    BY <1>1, <1>2, <1>4, AnswerDataIs
  <2>3. Len(v) = 4
    BY <1>2, <1>4 DEF IsAnswer
  <2>4. SubSeq(d, 5, 8) = v
    <3>1. PICK x \in Nat, y \in Nat : x = 5 /\ y = 8
      OBVIOUS
    <3>2. x \in 1..Len(d) + 1 /\ y \in 0..Len(d) /\ Len(v) = y - x + 1
      BY <2>1, <2>3, <3>1
    <3>3. \A i \in 1..Len(v) : v[i] = d[x + i - 1]
      <4>1. \A i \in 1..4 : 4 + i = x + i - 1
        BY <3>1
      <4> QED
        BY <2>2, <2>3, <4>1
    <3>4. SubSeq(d, x, y) = v
      <4>1. IsCut(v, d, x, y)
        BY <3>2, <3>3 DEF IsCut
      <4> QED
        BY <3>2, <4>1, CutOut
    <3> QED
      BY <3>1, <3>4
  <2> QED
    BY <1>1, <1>2, <1>4, <2>1, <2>4 DEF IsSaid
<1>5. CASE a.kind \in {"capabilities", "table"}
  <2>1. /\ Len(d) = 3 + Len(v)
        /\ d[1] = IF a.kind = "capabilities" THEN 227 ELSE 228
    BY <1>1, <1>2, <1>5, AnswerDataIs
  <2>2. d[2] = HiByte(o) /\ d[3] = LoByte(o)
    BY <1>1, <1>2, <1>5, AnswerDataIs
  <2>3. \A i \in 1..Len(v) : d[3 + i] = v[i]
    BY <1>1, <1>2, <1>5, AnswerDataIs
  <2>4. (256 * d[2]) + d[3] = o
    BY <2>2, OffsetBytes
  <2>5. SubSeq(d, 4, Len(d)) = v
    <3>1. PICK x \in Nat, y \in Nat, n \in Nat : x = 4 /\ y = Len(d) /\ n = Len(v)
      BY LenProperties
    <3>2. y = 3 + n
      BY <2>1, <3>1
    <3>3. x \in 1..Len(d) + 1 /\ y \in 0..Len(d) /\ Len(v) = y - x + 1
      BY <3>1, <3>2
    <3>4. \A i \in 1..Len(v) : v[i] = d[x + i - 1]
      <4>1. \A i \in 1..n : 3 + i = x + i - 1
        BY <3>1
      <4> QED
        BY <2>3, <3>1, <4>1
    <3>5. SubSeq(d, x, y) = v
      <4>1. IsCut(v, d, x, y)
        BY <3>3, <3>4 DEF IsCut
      <4> QED
        BY <3>3, <4>1, CutOut
    <3> QED
      BY <3>1, <3>5
  <2> QED
    BY <1>1, <1>2, <1>5, <2>1, <2>3, <2>4, <2>5 DEF IsSaid
<1> QED
  BY <1>3, <1>4, <1>5 DEF IsAnswer

(* An answer that came undamaged is taken apart as what was said with it.    *)
LEMMA IntactResponse ==
  ASSUME AnswerInv, answer # None, ~damaged, answer.kind # "zeros"
  PROVE  \E d \in Seq(Byte) :
           /\ IsSaid(d, answer)
           /\ ~AllZero(readbuf)
           /\ TypedResponse(readbuf) =
                CASE d = <<>> -> Failed("NULL_RESPONSE")
                  [] d # <<>> /\ d[1] # ExpectedType(request.kind) -> Failed("DDC_DATA")
                  [] OTHER -> IF request.kind = "get" THEN InterpretValue(d, request.code)
                                                      ELSE InterpretFragment(d, request.kind)
<1>1. IsAnswer(answer) /\ fill \in Byte
  BY DEF AnswerInv
<1>2. PICK s \in Copies(answer) : readbuf = s
  BY DEF AnswerInv
<1>3. PICK d \in Seq(Byte) : d = AnswerData(answer) /\ Len(d) <= 35
  BY <1>1, AnswerTyped
<1>4. PICK f : f = AnswerBytes(answer) /\ IsFrame(f, d)
  BY <1>1, <1>3, AnswerFrame
<1>5. s = f \/ IsDoubled(s, f)
  BY <1>1, <1>4, FrameCopies
<1>6. Unquirked(s) = f /\ At(s, 0) = 110
  BY <1>3, <1>4, <1>5, OnceIntact, TwiceIntact
<1>7. DataCount(f) = Len(d) /\ Part(f, 2, Len(d)) = d /\ WellFormed(f)
  BY <1>1, <1>3, <1>4, FrameIntact
<1>8. IsSaid(d, answer)
  BY <1>1, <1>3, AnswerSaid
<1>9. ~AllZero(s)
  <2>1. 0 \in 0..39
    OBVIOUS
  <2>2. AllZero(s) => At(s, 0) = 0
    BY <2>1, Zenon DEF AllZero
  <2> QED
    BY <1>6, <2>2
<1>10. TypedResponse(s) =
         CASE d = <<>> -> Failed("NULL_RESPONSE")
           [] d # <<>> /\ d[1] # ExpectedType(request.kind) -> Failed("DDC_DATA")
           [] OTHER -> IF request.kind = "get" THEN InterpretValue(d, request.code)
                                               ELSE InterpretFragment(d, request.kind)
  BY <1>6, <1>7 DEF TypedResponse
<1> QED
  BY <1>2, <1>8, <1>9, <1>10

(* What is told of an answer that was not damaged is what was said.          *)
LEMMA UndamagedUnderstood ==
  ASSUME AnswerInv, ToldInv
  PROVE  AnswerUnderstood
<1> SUFFICES ASSUME told # None, ~damaged
             PROVE  /\ answer.kind = "null"  => told = Failed("NULL_RESPONSE")
                    /\ answer.kind = "zeros" => told = Failed("READ_ALL_ZERO")
                    /\ request.kind = "get" /\ answer.code = request.code =>
                         /\ answer.kind = "unsupported" => told = Failed("REPORTED_UNSUPPORTED")
                         /\ answer.kind = "value"       => told = [rc |-> "OK", said |-> answer]
                    /\ answer.kind = request.kind => told = [rc |-> "OK", said |-> answer]
  BY DEF AnswerUnderstood
<1>1. answer # None /\ told = Interpretation
  BY DEF ToldInv
<1>2. IsAnswer(answer) /\ request.kind \in {"get", "capabilities", "table"}
  BY <1>1 DEF AnswerInv
<1>3. answer = Ask(answer.kind, answer.code, answer.offset, answer.data)
  BY <1>2, MessageIs DEF IsAnswer
<1>4. CASE answer.kind = "zeros"
  <2>1. PICK f : f = AnswerBytes(answer) /\ Zeros(f, 0)
    BY <1>4, ZeroBytes
  <2>2. readbuf = f
    BY <1>1, <1>4, <2>1 DEF AnswerInv, Copies
  <2>3. AllZero(readbuf)
    BY <2>1, <2>2, ZerosIntact
  <2> QED
    BY <1>1, <1>2, <1>4, <2>3 DEF Interpretation
<1>5. CASE answer.kind # "zeros"
  <2>1. PICK d \in Seq(Byte) :
          /\ IsSaid(d, answer)
          /\ ~AllZero(readbuf)
          /\ TypedResponse(readbuf) =
               CASE d = <<>> -> Failed("NULL_RESPONSE")
                 [] d # <<>> /\ d[1] # ExpectedType(request.kind) -> Failed("DDC_DATA")
                 [] OTHER -> IF request.kind = "get" THEN InterpretValue(d, request.code)
                                                     ELSE InterpretFragment(d, request.kind)
    BY <1>1, <1>5, IntactResponse
  <2>2. told = TypedResponse(readbuf)
    BY <1>1, <2>1 DEF Interpretation
  <2>3. answer.kind = "null" => told = Failed("NULL_RESPONSE")
    <3>1. answer.kind = "null" => Len(d) = 0
      BY <2>1 DEF IsSaid
    <3>2. Len(d) = 0 => d = <<>>
      BY EmptySeq
    <3> QED
      BY <2>1, <2>2, <3>1, <3>2
  <2>4. ASSUME request.kind = "get", answer.code = request.code,
               answer.kind \in {"value", "unsupported"}
        PROVE  told = IF answer.kind = "value" THEN [rc |-> "OK", said |-> answer]
                                               ELSE Failed("REPORTED_UNSUPPORTED")
    <3>1. /\ Len(d) = 8 /\ d[1] = 2 /\ d[2] = IF answer.kind = "value" THEN 0 ELSE 1
          /\ d[3] = answer.code /\ SubSeq(d, 5, 8) = answer.data
      BY <2>1, <2>4 DEF IsSaid
    <3>2. d # <<>>
      BY <3>1
    <3>3. told = InterpretValue(d, answer.code)
      BY <2>1, <2>2, <2>4, <3>1, <3>2 DEF ExpectedType
    <3>4. answer.offset = 0
      BY <1>2, <2>4 DEF IsAnswer
    <3>5. CASE answer.kind = "value"
      <4>1. told = [rc |-> "OK", said |-> Say("value", d[3], 0, SubSeq(d, 5, 8))]
        BY <3>1, <3>3, <3>5 DEF InterpretValue
      <4>2. Say("value", d[3], 0, SubSeq(d, 5, 8)) = answer
        BY <1>3, <3>1, <3>4, <3>5 DEF Say
      <4> QED
        BY <3>5, <4>1, <4>2
    <3>6. CASE answer.kind # "value"
      BY <3>1, <3>3, <3>6 DEF InterpretValue
    <3> QED
      BY <3>5, <3>6
  <2>5. ASSUME answer.kind = request.kind
        PROVE  told = [rc |-> "OK", said |-> answer]
    <3>1. answer.kind \in {"capabilities", "table"}
      BY <1>2, <2>5 DEF IsAnswer
    <3>2. /\ Len(d) = 3 + Len(answer.data)
          /\ d[1] = (IF answer.kind = "capabilities" THEN 227 ELSE 228)
          /\ (256 * d[2]) + d[3] = answer.offset
          /\ SubSeq(d, 4, Len(d)) = answer.data
      BY <2>1, <3>1 DEF IsSaid
    <3>3. Len(answer.data) \in Nat
      BY <1>2, LenProperties DEF IsAnswer, Message
    <3>4. d # <<>> /\ ~(Len(d) < 3)
      BY <3>2, <3>3
    <3>5. told = InterpretFragment(d, answer.kind)
      BY <2>1, <2>2, <2>5, <3>1, <3>2, <3>4 DEF ExpectedType
    <3>6. told = [rc |-> "OK", said |-> Say(answer.kind, 0, answer.offset, answer.data)]
      BY <3>2, <3>4, <3>5 DEF InterpretFragment
    <3>7. answer.code = 0
      BY <1>2, <3>1 DEF IsAnswer
    <3> QED
      BY <1>3, <3>6, <3>7 DEF Say
  <2> QED
    BY <1>5, <2>3, <2>4, <2>5
<1> QED
  BY <1>4, <1>5

(* What is accepted is what was said, damaged or not.                        *)
LEMMA AcceptedUnderstood ==
  ASSUME AnswerInv, ToldInv
  PROVE  NothingMisread
<1> SUFFICES ASSUME told # None, told.rc = "OK"
             PROVE  /\ request.kind = "get" => told.said = answer /\ answer.code = request.code
                    /\ request.kind # "get" =>
                         /\ answer.kind = request.kind
                         /\ told.said.offset = answer.offset
                         /\ \A i \in DOMAIN told.said.data \cap DOMAIN answer.data :
                              told.said.data[i] = answer.data[i]
  BY DEF NothingMisread
<1>1. answer # None /\ told = Interpretation
  BY DEF ToldInv
<1>2. /\ IsAnswer(answer) /\ request.kind \in {"get", "capabilities", "table"}
      /\ fill \in Byte
  BY <1>1 DEF AnswerInv
<1>3. answer = Ask(answer.kind, answer.code, answer.offset, answer.data)
  BY <1>2, MessageIs DEF IsAnswer
<1>4. told = TypedResponse(readbuf)
  BY <1>1 DEF Interpretation, Failed
<1>5. PICK b \in Seq(Byte), u \in Seq(Byte) : b = readbuf /\ u = Unquirked(b)
  BY <1>1, ReadbufType
<1>6. PICK m \in Nat : m = DataCount(u)
  BY <1>2, WellFormedIs
<1>7. PICK d \in Seq(Byte) : d = Part(u, 2, m) /\ Len(d) = m
  BY <1>2, DataRead DEF IsData
<1>8. /\ Accepted(u)
      /\ d[1] = ExpectedType(request.kind)
      /\ told = IF request.kind = "get" THEN InterpretValue(d, request.code)
                                        ELSE InterpretFragment(d, request.kind)
  <2>1. TypedResponse(b).rc = "OK"
    BY <1>4, <1>5
  <2> QED
    BY <1>2, <1>4, <1>5, <1>6, <1>7, <2>1, SuccessAccepted
<1>9. PICK s \in Seq(Byte) : s = AnswerData(answer) /\ IsSaid(s, answer)
  BY <1>2, AnswerTyped, AnswerSaid
<1>10. answer.kind # "zeros" /\ StillSays(u, s)
  BY <1>1, <1>5, <1>8, <1>9, AcceptedSays
<1>11. PICK n \in Nat : n = Len(s)
  BY LenProperties
<1>12. /\ n # 0
       /\ m = n => d = s
       /\ \A i \in 1..m : i \in 1..n => d[i] = s[i]
  BY <1>6, <1>7, <1>10, <1>11 DEF StillSays
<1>13. answer.kind \in {"value", "unsupported", "capabilities", "table"}
  <2>1. answer.kind # "null"
    BY <1>9, <1>11, <1>12 DEF IsSaid
  <2> QED
    BY <1>2, <1>10, <2>1 DEF IsAnswer
<1>14. m # 0 => d[1] = s[1]
  <2>1. m # 0 => 1 \in 1..m /\ 1 \in 1..n
    BY <1>12
  <2> QED
    BY <1>12, <2>1
<1>15. ASSUME request.kind = "get"
       PROVE  told.said = answer /\ answer.code = request.code
  <2>1. told = InterpretValue(d, request.code)
    BY <1>8, <1>15
  <2>2. /\ Len(d) = 8 /\ d[2] = 0 /\ d[3] = request.code
        /\ told.said = Say("value", d[3], 0, SubSeq(d, 5, 8))
    BY <2>1, ValueReturned
  <2>3. s[1] = 2
    BY <1>7, <1>8, <1>14, <1>15, <2>2 DEF ExpectedType
  <2>4. answer.kind \in {"value", "unsupported"}
    BY <1>9, <1>13, <2>3 DEF IsSaid
  <2>5. /\ Len(s) = 8 /\ s[2] = IF answer.kind = "value" THEN 0 ELSE 1
        /\ s[3] = answer.code /\ SubSeq(s, 5, 8) = answer.data
    BY <1>9, <2>4 DEF IsSaid
  <2>6. d = s
    BY <1>7, <1>11, <1>12, <2>2, <2>5
  <2>7. answer.kind = "value" /\ answer.code = request.code
    BY <2>2, <2>4, <2>5, <2>6
  <2>8. answer.offset = 0
    BY <1>2, <2>7 DEF IsAnswer
  <2>9. told.said = Ask(answer.kind, answer.code, answer.offset, answer.data)
    BY <2>2, <2>5, <2>6, <2>7, <2>8 DEF Say
  <2> QED
    BY <1>3, <2>7, <2>9
<1>16. ASSUME request.kind # "get"
       PROVE  /\ answer.kind = request.kind
              /\ told.said.offset = answer.offset
              /\ \A i \in DOMAIN told.said.data \cap DOMAIN answer.data :
                   told.said.data[i] = answer.data[i]
  <2>1. told = InterpretFragment(d, request.kind)
    BY <1>8, <1>16
  <2>2. /\ m >= 3
        /\ told.said = Say(request.kind, 0, (256 * d[2]) + d[3], SubSeq(d, 4, m))
    BY <1>7, <2>1, FragmentReturned
  <2>3. s[1] = IF request.kind = "capabilities" THEN 227 ELSE 228
    BY <1>2, <1>8, <1>14, <1>16, <2>2 DEF ExpectedType
  <2>4. answer.kind = request.kind
    <3>1. answer.kind \in {"capabilities", "table"}
      BY <1>9, <1>13, <2>3 DEF IsSaid
    <3>2. s[1] = IF answer.kind = "capabilities" THEN 227 ELSE 228
      BY <1>9, <3>1 DEF IsSaid
    <3> QED
      BY <1>2, <1>16, <2>3, <3>1, <3>2
  <2>5. PICK v \in Seq(Byte) : v = answer.data
    BY <1>2 DEF IsAnswer, Message
  <2>6. PICK l \in Nat : l = Len(v)
    BY LenProperties
  <2>7. /\ n = 3 + l
        /\ (256 * s[2]) + s[3] = answer.offset
        /\ \A i \in 1..l : s[3 + i] = v[i]
    BY <1>2, <1>9, <1>11, <1>16, <2>4, <2>5, <2>6 DEF IsSaid
  <2>8. d[2] = s[2] /\ d[3] = s[3]
    <3>1. 2 \in 1..m /\ 2 \in 1..n /\ 3 \in 1..m /\ 3 \in 1..n
      BY <2>2, <2>7
    <3> QED
      BY <1>12, <3>1
  <2>9. told.said.offset = answer.offset
    BY <2>2, <2>7, <2>8 DEF Say, Ask
  <2>10. PICK w : w = SubSeq(d, 4, m)
    OBVIOUS
  <2>11. w \in Seq(Byte) /\ Len(w) = m - 3 /\ \A i \in 1..m - 3 : w[i] = d[3 + i]
    <3>1. \A i \in 4..m : d[i] \in Byte
      <4>1. \A i \in 4..m : i \in 1..m
        OBVIOUS
      <4> QED
        BY <1>7, <4>1, ElementOfSeq
    <3>2. PICK x \in Nat : x = 4
      OBVIOUS
    <3>3. /\ SubSeq(d, x, m) \in Seq(Byte)
          /\ Len(SubSeq(d, x, m)) = IF x <= m THEN m - x + 1 ELSE 0
          /\ \A i \in 1..m - x + 1 : SubSeq(d, x, m)[i] = d[x + i - 1]
      BY <3>1, <3>2, SubSeqProperties, SMTT(30)
    <3>4. w = SubSeq(d, x, m)
      BY <2>10, <3>2
    <3>5. w \in Seq(Byte) /\ Len(w) = m - 3 /\ \A i \in 1..m - 3 : w[i] = d[x + i - 1]
      BY <2>2, <3>2, <3>3, <3>4
    <3>6. \A i \in 1..m - 3 : x + i - 1 = 3 + i
      BY <3>2
    <3> QED
      BY <3>5, <3>6
  <2>12. told.said.data = w
    BY <2>2, <2>10 DEF Say, Ask
  <2>13. ASSUME NEW i \in DOMAIN w \cap DOMAIN v PROVE w[i] = v[i]
    <3>1. i \in 1..m - 3 /\ i \in 1..l
      BY <2>6, <2>11, <2>13, LenProperties
    <3>2. 3 + i \in 1..m /\ 3 + i \in 1..n
      BY <2>2, <2>7, <3>1
    <3>3. d[3 + i] = s[3 + i]
      BY <1>12, <3>2
    <3> QED
      BY <2>7, <2>11, <3>1, <3>3
  <2> QED
    BY <2>4, <2>5, <2>9, <2>12, <2>13
<1> QED
  BY <1>15, <1>16

(***************************************************************************)
(* The invariant.                                                          *)
(***************************************************************************)
(* What a monitor says to a request is an answer.                            *)
LEMMA AnswersType ==
  ASSUME NEW r, r.code \in Byte, r.offset \in Offset, NEW a \in AnswersTo(r)
  PROVE  IsAnswer(a)
<1>0. /\ "null" \in MessageKinds /\ "zeros" \in MessageKinds /\ "value" \in MessageKinds
      /\ "unsupported" \in MessageKinds
      /\ "capabilities" \in MessageKinds /\ "table" \in MessageKinds
  BY DEF MessageKinds
<1>1. 0 \in Byte /\ 0 \in Offset
  BY ZeroFits
<1>2. /\ \A v \in Values : v \in Seq(Byte) /\ Len(v) = 4
      /\ \A b \in Fragments : b \in Seq(Byte) /\ Len(b) \in 0..MAX_DDC_MULTI_PART_FRAGMENT_SIZE
  BY PacketsAssumption
<1>3. CASE a = Say("null", 0, 0, <<>>) \/ a = Say("zeros", 0, 0, <<>>)
  <2>1. PICK e \in Seq(Byte), k \in {"null", "zeros"} : a = Ask(k, 0, 0, e)
    BY <1>3, EmptySeq DEF Say
  <2>2. a \in Message /\ a.kind = k
    BY <1>0, <1>1, <2>1, MessageFields
  <2> QED
    BY <2>1, <2>2 DEF IsAnswer
<1>4. CASE r.kind = "get" /\ a \in {Say("value", r.code, 0, v) : v \in Values}
  <2>1. PICK v \in Seq(Byte) : a = Say("value", r.code, 0, v) /\ Len(v) = 4
    BY <1>2, <1>4
  <2>2. a \in Message
    BY <1>0, <1>1, <2>1, MessageFields DEF Say
  <2>3. a.kind = "value" /\ a.offset = 0 /\ Len(a.data) = 4
    BY <2>1 DEF Say, Ask
  <2> QED
    BY <2>2, <2>3 DEF IsAnswer
<1>5. CASE a = Say("unsupported", r.code, 0, <<0, 0, 0, 0>>)
  <2>1. PICK v \in Seq(Byte) : v = <<0, 0, 0, 0>> /\ Len(v) = 4
    <3>1. PICK v : v = <<0, 0, 0, 0>>
      OBVIOUS
    <3>2. IsFour(v, 0, 0, 0, 0)
      BY <1>1, <3>1, FourBytes
    <3> QED
      BY <3>1, <3>2 DEF IsFour
  <2>2. a = Say("unsupported", r.code, 0, v)
    BY <1>5, <2>1
  <2>3. a \in Message
    BY <1>0, <1>1, <2>2, MessageFields DEF Say
  <2>4. a.kind = "unsupported" /\ a.offset = 0 /\ Len(a.data) = 4
    BY <2>1, <2>2 DEF Say, Ask
  <2> QED
    BY <2>3, <2>4 DEF IsAnswer
<1>6. CASE /\ r.kind \in {"capabilities", "table"}
           /\ a \in {Say(r.kind, 0, r.offset, b) : b \in Fragments}
  <2>1. PICK b \in Fragments : a = Say(r.kind, 0, r.offset, b)
    BY <1>6
  <2>2. b \in Seq(Byte) /\ Len(b) \in 0..MAX_DDC_MULTI_PART_FRAGMENT_SIZE /\ r.kind \in MessageKinds
    BY <1>0, <1>2, <1>6
  <2>3. a \in Message
    BY <1>1, <2>1, <2>2, MessageFields DEF Say
  <2>4. a.kind \in {"capabilities", "table"} /\ a.code = 0 /\ a.data = b
    BY <1>6, <2>1 DEF Say, Ask
  <2> QED
    BY <2>2, <2>3, <2>4 DEF IsAnswer
<1>7. \/ a = Say("null", 0, 0, <<>>) \/ a = Say("zeros", 0, 0, <<>>)
      \/ r.kind = "get" /\ a \in {Say("value", r.code, 0, v) : v \in Values}
      \/ a = Say("unsupported", r.code, 0, <<0, 0, 0, 0>>)
      \/ /\ r.kind \in {"capabilities", "table"}
         /\ a \in {Say(r.kind, 0, r.offset, b) : b \in Fragments}
  BY DEF AnswersTo
<1> QED
  BY <1>3, <1>4, <1>5, <1>6, <1>7

(* An answer comes as its bytes.                                             *)
LEMMA AnswerKept ==
  ASSUME AnswerInv, ToldInv, NEW a, IsAnswer(a), Answer(a)
  PROVE  AnswerInv' /\ ToldInv'
<1>1. /\ request.kind \in {"get", "capabilities", "table"} /\ answer = None
      /\ answer' = a /\ readbuf' \in Copies(a) /\ fill' \in Fill
      /\ request' = request /\ damaged' = damaged /\ told' = told
  BY DEF Answer, Copies
<1>2. fill' \in Byte
  BY <1>1, PacketsAssumption
<1>3. damaged = FALSE /\ told = None
  BY <1>1 DEF AnswerInv, ToldInv
<1>4. a # None
  BY PacketsAssumption DEF IsAnswer
<1>5. AnswerInv'
  BY <1>1, <1>2, <1>3, <1>4 DEF AnswerInv
<1> QED
  BY <1>1, <1>3, <1>5 DEF ToldInv

(* A byte is damaged.                                                        *)
LEMMA DamageKept ==
  ASSUME AnswerInv, ToldInv, DamageByte
  PROVE  AnswerInv' /\ ToldInv'
<1>1. PICK i \in DOMAIN readbuf, mask \in Damage :
        readbuf' = [readbuf EXCEPT ![i] = XorAll(<<@, mask>>)]
  BY DEF DamageByte
<1>2. /\ readbuf # <<>> /\ ~damaged /\ told = None /\ damaged' = TRUE
      /\ request' = request /\ answer' = answer /\ fill' = fill /\ told' = told
  BY DEF DamageByte
<1>3. answer # None
  BY <1>2 DEF AnswerInv
<1>4. /\ fill \in Byte /\ IsAnswer(answer)
      /\ request.kind \in {"get", "capabilities", "table"}
      /\ readbuf \in Copies(answer)
  BY <1>2, <1>3 DEF AnswerInv
<1>5. PICK b \in Seq(Byte) : b = readbuf
  BY <1>3, ReadbufType
<1>6. i \in 1..Len(b) /\ DOMAIN b = 1..Len(b) /\ Len(b) \in Nat
  BY <1>1, <1>5, LenProperties
<1>7. b[i] \in Byte
  BY <1>6, ElementOfSeq
<1>8. PICK y \in Byte : y = XorAll(<<b[i], mask>>) /\ y # b[i]
  <2>1. mask \in Byte \ {0}
    BY PacketsAssumption
  <2> QED
    BY <1>7, <2>1, DamagedByte
<1>9. PICK c : c = [b EXCEPT ![i] = y]
  OBVIOUS
<1>10. readbuf' = c
  BY <1>1, <1>5, <1>8, <1>9
<1>11. /\ c \in Seq(Byte) /\ Len(c) = Len(b)
       /\ c[i] = y /\ \A j \in 1..Len(b) : j # i => c[j] = b[j]
  BY <1>6, <1>8, <1>9, ExceptSeq
<1>12. ChangedAt(c, i, b)
  BY <1>8, <1>11 DEF ChangedAt
<1>13. b \in Copies(answer) /\ \E k \in 1..Len(b) : ChangedAt(c, k, b)
  BY <1>4, <1>5, <1>6, <1>12
<1>14. AnswerInv'
  BY <1>2, <1>3, <1>4, <1>10, <1>13 DEF AnswerInv, Copies
<1> QED
  BY <1>2, <1>14 DEF ToldInv

(* What the buffer says changes with the buffer only.                        *)
LEMMA SameInterpretation ==
  ASSUME readbuf' = readbuf, fill' = fill, request' = request
  PROVE  Interpretation' = Interpretation
<1>1. ASSUME NEW b, NEW i PROVE At(b, i)' = At(b, i)
  BY DEF At
<1>2. ASSUME NEW b, NEW f, NEW n PROVE Part(b, f, n)' = Part(b, f, n)
  BY <1>1 DEF Part
<1>3. ASSUME NEW b PROVE Unquirked(b)' = Unquirked(b) /\ DataCount(b)' = DataCount(b)
  BY <1>1 DEF Unquirked, DataCount
<1>4. ASSUME NEW b PROVE WellFormed(b)' = WellFormed(b)
  BY <1>1, <1>2, <1>3 DEF WellFormed
<1>5. ASSUME NEW b PROVE TypedResponse(b)' = TypedResponse(b)
  BY <1>2, <1>3, <1>4 DEF TypedResponse
<1>6. ASSUME NEW b PROVE AllZero(b)' = AllZero(b)
  BY <1>1 DEF AllZero
<1> QED
  BY <1>5, <1>6 DEF Interpretation

(* What is told is what the buffer says.                                     *)
LEMMA InterpretKept ==
  ASSUME AnswerInv, Interpret
  PROVE  AnswerInv' /\ ToldInv'
<1>1. /\ readbuf # <<>> /\ told' = Interpretation
      /\ request' = request /\ answer' = answer /\ readbuf' = readbuf /\ fill' = fill
      /\ damaged' = damaged
  BY DEF Interpret, Interpretation
<1>2. answer # None
  BY <1>1 DEF AnswerInv
<1>3. AnswerInv'
  BY <1>1 DEF AnswerInv
<1>4. Interpretation' = Interpretation
  BY <1>1, SameInterpretation
<1> QED
  BY <1>1, <1>2, <1>3, <1>4 DEF ToldInv

(* What holds at the start.                                                  *)
LEMMA PacketsInvInit == PacketsInit => PacketsInv
<1> SUFFICES ASSUME PacketsInit PROVE PacketsInv
  OBVIOUS
<1>1. answer = None /\ told = None /\ readbuf = <<>> /\ damaged = FALSE /\ fill \in Fill
  BY DEF PacketsInit
<1>2. fill \in Byte
  BY <1>1, PacketsAssumption
<1>3. AnswerInv
  BY <1>1, <1>2 DEF AnswerInv
<1>4. ToldInv
  BY <1>1 DEF ToldInv
<1> QED
  BY <1>3, <1>4, RequestInvInit DEF PacketsInv

(* And is kept by every step.                                                *)
LEMMA PacketsInvNext == PacketsInv /\ [PacketsNext]_packetVars => PacketsInv'
<1> SUFFICES ASSUME PacketsInv, [PacketsNext]_packetVars PROVE PacketsInv'
  OBVIOUS
<1>1. RequestInv /\ AnswerInv /\ ToldInv
  BY DEF PacketsInv
<1>2. RequestInv'
  BY <1>1, RequestInvNext
<1>3. ASSUME NEW o \in ReadOffsets, UpdateOffset(o) PROVE AnswerInv' /\ ToldInv'
  <2>1. answer = None /\ UNCHANGED <<answer, readbuf, fill, damaged, told>>
    BY <1>3 DEF UpdateOffset
  <2>2. told = None
    BY <1>1, <2>1 DEF ToldInv
  <2>3. AnswerInv'
    BY <1>1, <2>1 DEF AnswerInv
  <2> QED
    BY <2>1, <2>2, <2>3 DEF ToldInv
<1>4. ASSUME AnswerAsked PROVE AnswerInv' /\ ToldInv'
  <2>1. PICK a \in AnswersTo(Understood(packet)) : Answer(a)
    BY <1>4 DEF AnswerAsked
  <2>2. request.kind # "write"
    BY <2>1 DEF Answer
  <2>3. IsRequest(request) /\ packet = PacketFor(request)
    BY <1>1, <2>2 DEF RequestInv, OffsetFits
  <2>4. Understood(packet) = request
    BY <2>3, UnderstoodPacket
  <2>5. request.code \in Byte /\ request.offset \in Offset
    BY <2>3 DEF IsRequest, Message
  <2>6. IsAnswer(a)
    BY <2>1, <2>4, <2>5, AnswersType
  <2> QED
    BY <1>1, <2>1, <2>6, AnswerKept
<1>5. ASSUME AnswerStale PROVE AnswerInv' /\ ToldInv'
  <2>1. PICK r \in ReadRequests \cup OtherRequests, o \in ReadOffsets :
          \E a \in AnswersTo([r EXCEPT !.offset = o]) : Answer(a)
    BY <1>5 DEF AnswerStale
  <2>2. PICK q : q = [r EXCEPT !.offset = o]
    OBVIOUS
  <2>3. PICK a \in AnswersTo(q) : Answer(a)
    BY <2>1, <2>2
  <2>4. r \in Message /\ o \in Offset
    BY FirstRequest, PacketsAssumption DEF IsRequest
  <2>5. q.code \in Byte /\ q.offset \in Offset
    BY <2>2, <2>4 DEF Message
  <2>6. IsAnswer(a)
    BY <2>3, <2>5, AnswersType
  <2> QED
    BY <1>1, <2>3, <2>6, AnswerKept
<1>6. ASSUME DamageByte PROVE AnswerInv' /\ ToldInv'
  BY <1>1, <1>6, DamageKept
<1>7. ASSUME Interpret PROVE AnswerInv' /\ ToldInv'
  BY <1>1, <1>7, InterpretKept
<1>8. ASSUME UNCHANGED packetVars PROVE AnswerInv' /\ ToldInv'
  <2>1. /\ request' = request /\ answer' = answer /\ readbuf' = readbuf /\ fill' = fill
        /\ damaged' = damaged /\ told' = told
    BY <1>8 DEF packetVars
  <2>2. AnswerInv'
    BY <1>1, <2>1 DEF AnswerInv
  <2>3. Interpretation' = Interpretation
    BY <2>1, SameInterpretation
  <2> QED
    BY <1>1, <2>1, <2>2, <2>3 DEF ToldInv
<1>9. AnswerInv' /\ ToldInv'
  BY <1>3, <1>4, <1>5, <1>6, <1>7, <1>8 DEF PacketsNext
<1> QED
  BY <1>2, <1>9 DEF PacketsInv

(* What the code says of an answer no byte of which was damaged is what the  *)
(* monitor said: whether or not its first byte came twice, and whatever the  *)
(* bus gives after it (create_ddc_typed_response_packet).                    *)
THEOREM AnswerUnderstoodHolds == PacketsSpec => []AnswerUnderstood
<1>1. PacketsInv => AnswerUnderstood
  BY UndamagedUnderstood DEF PacketsInv
<1> QED
  BY <1>1, PacketsInvInit, PacketsInvNext, PTL DEF PacketsSpec

(* No byte of a value or a fragment is taken for another, whichever byte of  *)
(* the answer was damaged, and however: the first byte when it came twice,   *)
(* the number of bytes, and the checksum included.                           *)
THEOREM NothingMisreadHolds == PacketsSpec => []NothingMisread
<1>1. PacketsInv => NothingMisread
  BY AcceptedUnderstood DEF PacketsInv
<1> QED
  BY <1>1, PacketsInvInit, PacketsInvNext, PTL DEF PacketsSpec
=============================================================================
