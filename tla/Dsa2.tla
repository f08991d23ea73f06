-------------------------------- MODULE Dsa2 --------------------------------
(***************************************************************************)
(* The dynamic sleep algorithm (base/dsa2.c): the step a display is at,    *)
(* an index into a table of sleep multipliers, follows from how many tries *)
(* recent operations needed.  A results table is a record                  *)
(*                                                                         *)
(*   cur_step   the step an operation starts at                            *)
(*   loop_step  cur_retry_loop_step, the step of the next try              *)
(*   null_ct    cur_retry_loop_null_msg_ct                                 *)
(*   interval   remaining_interval                                         *)
(*   null_max   null_msg_max_step_for_success, -1 when there is none       *)
(*   recent     the try counts of the newest Lookback entries of           *)
(*              recent_values, a circular buffer of 100 of which no others *)
(*              are read                                                   *)
(*   recent_step  the step of the newest entry, the only one looked at     *)
(*                                                                         *)
(* The multipliers themselves, time stamps, and the fields that are only   *)
(* reported (adjustment totals, reset_ct, ...) are left out.               *)
(***************************************************************************)
EXTENDS Integers, Sequences

CONSTANTS StepLast,              \* index of the slowest step
          StepFloor,             \* dsa2_step_floor
          Lookback,              \* 10 in dsa2_adjust_for_rcnt_successes
          MinDecrementLookback,  \* Min_Decrement_Lookback
          AdjustmentInterval     \* adjustment_interval, Default_Interval

ASSUME Dsa2Assumption ==
          /\ StepLast \in Nat \ {0}
          /\ StepFloor \in 0..StepLast
          /\ Lookback \in Nat \ {0}
          /\ MinDecrementLookback \in 1..Lookback
          /\ AdjustmentInterval \in Nat \ {0}

TargetMaxTries     == 3
GreatestTriesUpper == 3
AverageTriesUpper  == 14   \* target_avg_tries_upper_bound_10
GreatestTriesLower == 2
AverageTriesLower  == 11   \* target_avg_tries_lower_bound_10
NullFloorLimit     == 3    \* "is this a good number?"

AllSteps == 0..StepLast
DsaSteps == StepFloor..StepLast   \* those dsa2_multiplier_to_step may find

\* The Null Response counters are only compared with 0, but for the length
\* of an extra sleep: they saturate at 1.
NullCtBound == 1

ResultsTables ==
  [cur_step : AllSteps, loop_step : AllSteps, null_ct : 0..NullCtBound,
   interval : 1..AdjustmentInterval, null_max : -1..StepLast,
   recent : {r \in Seq(Nat) : Len(r) <= Lookback}, recent_step : AllSteps]

Least(a, b)    == IF a <= b THEN a ELSE b
Greatest(a, b) == IF a >= b THEN a ELSE b

NewTable(step) ==
  [cur_step |-> step, loop_step |-> step, null_ct |-> 0,
   interval |-> AdjustmentInterval, null_max |-> -1,
   recent |-> <<>>, recent_step |-> step]

----------------------------------------------------------------------------
(***************************************************************************)
(* dsa2_next_retry_step.  The quotient is a float that is truncated; more  *)
(* than three quarters of a step counts as one.  That three or more tries  *)
(* remain changes nothing: the divisor it sets is set again below it.      *)
(***************************************************************************)
Spread(steps, tries) ==
  IF 4 * steps > 3 * tries /\ steps < tries THEN 1 ELSE steps \div tries

\* Fault: the divisor is one more than the tries that remain, not one less.
NextRetryStep_oneMore(prev, remaining) ==
  IF remaining <= 0
  THEN prev
  ELSE Least(StepLast, prev + Spread(StepLast - prev, remaining + 1))

NextRetryStep(prev, remaining) ==
  IF remaining <= 0
  THEN prev
  ELSE Least(StepLast,
             prev + Spread(StepLast - prev, IF remaining > 1 THEN remaining - 1 ELSE 1))

CountNull(ct, null) == IF null THEN Least(ct + 1, NullCtBound) ELSE ct

\* dsa2_note_retryable_failure
NoteRetryableFailure(table, null, remaining) ==
  [table EXCEPT !.null_ct = CountNull(@, null),
                !.loop_step = NextRetryStep(@, remaining)]

----------------------------------------------------------------------------
\* cirb_add and cirb_get_latest
Remember(table, tries) ==
  LET all == Append(table.recent, tries)
  IN  [table EXCEPT !.recent = IF Len(all) > Lookback THEN Tail(all) ELSE all,
                    !.recent_step = table.loop_step]

TotalTries(recent) ==
  LET sum[n \in 0..Len(recent)] == IF n = 0 THEN 0 ELSE sum[n - 1] + recent[n]
  IN  sum[Len(recent)]

\* ten times the average try count, in integers
AverageTries(recent) == (TotalTries(recent) * 10) \div Len(recent)

TooManyErrors(recent) ==
  \/ recent[Len(recent)] > TargetMaxTries
  \/ \E i \in DOMAIN recent : recent[i] > GreatestTriesUpper
  \/ AverageTries(recent) > AverageTriesUpper

TooFewErrors(recent) ==
  /\ \A i \in DOMAIN recent : recent[i] <= GreatestTriesLower
  /\ AverageTries(recent) <= AverageTriesLower

\* Fault: a decrease does not wait for enough results.
MayDecrease_atOnce(table) ==
  /\ TooFewErrors(table.recent)
  /\ table.cur_step > 0
  /\ table.cur_step > Least(table.null_max, NullFloorLimit)

\* The step does not go below one at which Null Responses were overcome,
\* unless that is one of the slower ones.
MayDecrease(table) ==
  /\ Len(table.recent) >= MinDecrementLookback
  /\ TooFewErrors(table.recent)
  /\ table.cur_step > 0
  /\ table.cur_step > Least(table.null_max, NullFloorLimit)

RaiseWanted(table) ==
  /\ TooManyErrors(table.recent)
  /\ table.cur_step < table.recent_step

\* dsa2_adjust_for_rcnt_successes.  Where a raise is wanted the code assigns
\* next_step = cur_step++, the step before the raise, and the caller stores
\* that over cur_step.
AdjustForRecentSuccesses(table) ==
  IF MayDecrease(table) /\ ~RaiseWanted(table)
  THEN table.cur_step - 1
  ELSE table.cur_step

----------------------------------------------------------------------------
(***************************************************************************)
(* dsa2_record_final, at the end of a retry loop                           *)
(***************************************************************************)
SlowerThanLoop(table) == Least(table.loop_step + 1, StepLast)

Clamp(step) == Least(StepLast, Greatest(StepFloor, step))

AdjustNow(table, tries) == tries <= 2 \/ table.interval = 1

\* Fault: a success after many tries counts as any other.
AfterSuccess_anyTries(table, tries) ==
  IF table.null_ct > 0
  THEN [table EXCEPT !.cur_step = SlowerThanLoop(table)]
  ELSE IF AdjustNow(table, tries)
  THEN [table EXCEPT !.cur_step = AdjustForRecentSuccesses(table),
                     !.interval = AdjustmentInterval]
  ELSE [table EXCEPT !.interval = @ - 1]

\* table.recent holds the success already
AfterSuccess(table, tries) ==
  IF table.null_ct > 0 \/ tries > TargetMaxTries
  THEN [table EXCEPT !.cur_step = SlowerThanLoop(table)]
  ELSE IF AdjustNow(table, tries)
  THEN [table EXCEPT !.cur_step = AdjustForRecentSuccesses(table),
                     !.interval = AdjustmentInterval]
  ELSE [table EXCEPT !.interval = @ - 1]

AfterFailure(table, status) ==
  [table EXCEPT !.cur_step = IF status = "ALL_RESPONSES_NULL" THEN @
                             ELSE SlowerThanLoop(table),
                !.interval = AdjustmentInterval]

\* Fault: the null message count of the loop is not reset.
ForNextLoop_keepNulls(table) ==
  [table EXCEPT !.cur_step = Clamp(@), !.loop_step = Clamp(table.cur_step)]

\* loop_step and null_ct are ready for the next operation.
ForNextLoop(table) ==
  [table EXCEPT !.cur_step = Clamp(@), !.loop_step = Clamp(table.cur_step), !.null_ct = 0]

RecordFinal(table, status, tries, nullAdjusted) ==
  LET floored == IF nullAdjusted
                 THEN [table EXCEPT !.null_max = Greatest(@, table.loop_step)]
                 ELSE table
      learned == IF status = "OK"
                 THEN AfterSuccess(Remember(floored, tries), tries)
                 ELSE AfterFailure(floored, status)
  IN  ForNextLoop(learned)

----------------------------------------------------------------------------
(***************************************************************************)
(* The stats file, a line per results table: dsa2_save_persistent_stats    *)
(* at the end of a process, dsa2_restore_persistent_stats at the start of  *)
(* the next.  The newest Lookback of the saved values stand for all.  The  *)
(* step floor is an option read after the file: a step that was saved may  *)
(* be below it, until the first loop ends.                                 *)
(***************************************************************************)
Saved(table) ==
  [f \in {"cur_step", "interval", "recent", "recent_step"} |-> table[f]]

Restored(line) ==
  [NewTable(Least(line.cur_step, StepLast)) EXCEPT !.interval = line.interval,
                                                   !.recent = line.recent,
                                                   !.recent_step = line.recent_step]

\* The table a new Per_Display_Data gets: the one from the file, unless the
\* monitor is another by its EDID, or no line was read for the bus.
OfMonitor(table, initial) == {table, NewTable(initial)}

\* The table of a bus in a new process, given the one the last process had.
\* A multiplier on the command line erases the file and is the step to begin
\* at; one bad line in the file drops all tables.
AtProcessStart(table, initial) ==
  OfMonitor(Restored(Saved(table)), initial) \cup {NewTable(step) : step \in AllSteps}
=============================================================================
