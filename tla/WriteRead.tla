------------------------------ MODULE WriteRead ------------------------------
(***************************************************************************)
(* A write/read exchange with a monitor, with retries                      *)
(* (ddc_write_read_with_retry, ddc/ddc_packet_io.c), and the dynamic sleep *)
(* state it drives through base/per_display_data.c: the results table of   *)
(* the display's bus (Dsa2) and the two per loop fields of                 *)
(* Per_Display_Data.                                                       *)
(*                                                                         *)
(* One display and one thread at a time: the display lock and the open     *)
(* display handle see to that.  What a try brings is the monitor's choice. *)
(* Statuses are abstracted to what the loop tells apart:                   *)
(*   NULL      DDCRC_NULL_RESPONSE                                         *)
(*   ALL_ZERO  DDCRC_READ_ALL_ZERO where that is a possible answer         *)
(*   DATA      DDCRC_DDC_DATA and all others that are retried, also        *)
(*             DDCRC_READ_ALL_ZERO elsewhere                               *)
(*   FATAL     EBADF, EBUSY, and EIO or ENXIO on a bus that is alive       *)
(*   DEAD      EIO or ENXIO, and i2c_check_open_bus_alive finds an error   *)
(***************************************************************************)
EXTENDS Dsa2, FiniteSets

CONSTANTS MaxTries,           \* try_data_get_maxtries2(WRITE_READ_TRIES_OP)
          InitialStep,        \* initial_step
          NullMsgAdjustment,  \* null_msg_adjustment_enabled
          NoStep              \* no multiplier set

ASSUME WriteReadAssumption ==
          /\ MaxTries \in Nat \ {0}
          /\ InitialStep \in AllSteps
          /\ NullMsgAdjustment \in BOOLEAN
          /\ NoStep \notin Int

NullResponseMax == 3   \* ddcrc_null_response_max

VARIABLES
  rtable,         \* the results table pdd->dsa2_data points to
  detached,       \* that table has been freed
  null_msg_ct,    \* pdd->cur_loop_null_msg_ct
  null_adjusted,  \* pdd->cur_loop_null_adjustment_occurred
  user_step,      \* step of the last user_sleep_multiplier set
  op,             \* the operation in progress
  pc,
  statuses,       \* what the operation's tries brought so far
  last,           \* history: what the latest operation's last try brought
  result,         \* what the latest operation returned
  left_early      \* history: a loop was left for "bye" after a retry

pdd     == <<null_msg_ct, null_adjusted>>
history == <<last, left_early>>
vars    == <<rtable, detached, pdd, user_step, op, pc, statuses, result, history>>

TryStatuses == {"OK", "NULL", "ALL_ZERO", "DATA", "FATAL", "DEAD"}
Results     == {"NONE", "OK", "RETRIES", "ALL_TRIES_ZERO", "DETERMINED_UNSUPPORTED",
                "ALL_RESPONSES_NULL", "DISCONNECTED", "ALL_ZERO", "FATAL"}

(***************************************************************************)
(* The kinds of operation, by the arguments and display flags the loop     *)
(* looks at.  null_means: a Null Response may mean an unsupported feature, *)
(* for a table read, or for a VCP read when DREF_DDC_USES_NULL_RESPONSE_   *)
(* FOR_UNSUPPORTED; never for capabilities nor while that is being tested. *)
(* zero_ok: the first fragment of a table read.  dynamic: pdd->dynamic_    *)
(* sleep_active, off only in the initial checks, before that flag is set.  *)
(***************************************************************************)
Kinds == [null_means : BOOLEAN, zero_ok : BOOLEAN, dynamic : BOOLEAN]
KindsInUse == {k \in Kinds : (k.zero_ok => k.null_means) /\ (k.null_means => k.dynamic)}

NoOp == [null_means |-> FALSE, zero_ok |-> FALSE, dynamic |-> TRUE]

\* Types of the state above.
TypeOK ==
  /\ rtable \in ResultsTables
  /\ \A i \in DOMAIN rtable.recent : rtable.recent[i] \in 1..MaxTries
  /\ detached \in BOOLEAN
  /\ null_msg_ct \in 0..NullCtBound
  /\ null_adjusted \in BOOLEAN
  /\ user_step \in DsaSteps \cup {NoStep}
  /\ op \in KindsInUse
  /\ pc \in {"idle", "try"}
  /\ statuses \in Seq(TryStatuses) /\ Len(statuses) <= MaxTries
  /\ last \in TryStatuses \cup {"NONE"}
  /\ result \in Results
  /\ left_early \in BOOLEAN

Init ==
  /\ rtable = NewTable(InitialStep)
  /\ detached = FALSE
  /\ null_msg_ct = 0
  /\ null_adjusted = FALSE
  /\ user_step = NoStep
  /\ op = NoOp
  /\ pc = "idle"
  /\ statuses = <<>>
  /\ last = "NONE"
  /\ result = "NONE"
  /\ left_early = FALSE

----------------------------------------------------------------------------
CountOf(status, sequence) ==
  Cardinality({i \in DOMAIN sequence : sequence[i] = status})

\* ddcrc_null_response_ct: only responses that may mean unsupported count.
NullCt(tried) == IF op.null_means THEN CountOf("NULL", tried) ELSE 0

\* Fault: a failed try starts the loop over.
Attempt_startOver(status) == <<status>>

\* statuses, after one more try
Attempt(status) == Append(statuses, status)

\* What a try may bring.
Responses == IF op.zero_ok THEN TryStatuses ELSE TryStatuses \ {"ALL_ZERO"}

\* The loop goes on after this status, tries permitting.
Retryable(tried) ==
  LET status == tried[Len(tried)]
  IN  \/ status = "NULL" /\ NullCt(tried) <= NullResponseMax
      \/ status = "DATA"

\* Fault: one Null Response is taken for all.
AllNullMeantUnsupported_some(tried) == NullCt(tried) > 0

\* all_responses_null_meant_unsupported
AllNullMeantUnsupported(tried) == op.null_means /\ NullCt(tried) = Len(tried)

\* The status after the loop.
FinalStatus(tried) ==
  LET status == tried[Len(tried)]
  IN  IF status = "OK" THEN "OK"
      ELSE IF Retryable(tried) THEN "RETRIES"
      ELSE IF CountOf("ALL_ZERO", tried) = MaxTries THEN "ALL_TRIES_ZERO"
      ELSE IF AllNullMeantUnsupported(tried) THEN "DETERMINED_UNSUPPORTED"
      ELSE IF NullCt(tried) > NullResponseMax THEN "ALL_RESPONSES_NULL"
      ELSE status

\* The tries remaining, as dsa2 is told: a Null Response that may mean
\* unsupported counts against its own limit.
RemainingTries(tried) ==
  IF tried[Len(tried)] = "NULL" /\ op.null_means
  THEN NullResponseMax - Len(tried)
  ELSE MaxTries - Len(tried)

\* The sleeps of a try lengthen after a Null Response; a write that fails
\* outright is followed by none.
NullAdjustment(status) ==
  IF NullMsgAdjustment /\ null_msg_ct > 0
  THEN IF status \in {"OK", "NULL", "ALL_ZERO"} THEN {TRUE} ELSE {null_adjusted, TRUE}
  ELSE {null_adjusted}

----------------------------------------------------------------------------
Start ==
  /\ pc = "idle"
  /\ ~detached
  /\ op' \in KindsInUse
  /\ pc' = "try"
  /\ result' = "NONE"
  /\ last' = "NONE"
  /\ UNCHANGED <<rtable, detached, pdd, user_step, statuses, left_early>>

\* A try that fails and is followed by another: pdd_note_retryable_failure.
Retry ==
  /\ pc = "try"
  /\ \E status \in Responses :
       LET tried == Attempt(status)
       IN  /\ Retryable(tried)
           /\ Len(tried) < MaxTries
           /\ statuses' = tried
           /\ null_adjusted' \in NullAdjustment(status)
           /\ rtable' = IF op.dynamic
                        THEN NoteRetryableFailure(rtable, status = "NULL",
                                                  RemainingTries(tried))
                        ELSE rtable
           /\ null_msg_ct' = CountNull(null_msg_ct, op.dynamic /\ status = "NULL")
  /\ UNCHANGED <<detached, user_step, op, pc, result, history>>

Return ==
  /\ pc' = "idle"
  /\ op' = NoOp
  /\ statuses' = <<>>

\* The last try: pdd_record_final, then the status of the operation.  The
\* try count of an unsupported feature is recorded as 1.
Finish ==
  /\ pc = "try"
  /\ \E status \in Responses \ {"DEAD"} :
       LET tried == Attempt(status)
       IN  /\ ~Retryable(tried) \/ Len(tried) = MaxTries
           /\ last' = status
           /\ result' = FinalStatus(tried)
           /\ \E adjusted \in NullAdjustment(status) :
                rtable' = IF op.dynamic
                          THEN RecordFinal(rtable, status,
                                 IF AllNullMeantUnsupported(tried) THEN 1 ELSE Len(tried),
                                 adjusted)
                          ELSE rtable
  /\ null_msg_ct' = 0
  /\ null_adjusted' = FALSE
  /\ left_early' = (left_early /\ ~op.dynamic)
  /\ Return
  /\ UNCHANGED <<detached, user_step>>

\* The bus is dead: "goto bye" skips pdd_record_final.
Abandon ==
  /\ pc = "try"
  /\ last' = "DEAD"
  /\ null_adjusted' \in NullAdjustment("DEAD")
  /\ left_early' = (left_early \/ statuses # <<>>)
  /\ result' = "DISCONNECTED"
  /\ Return
  /\ UNCHANGED <<rtable, detached, null_msg_ct, user_step>>

(***************************************************************************)
(* ddca_set_sleep_multiplier and ddca_set_display_sleep_multiplier:        *)
(* pdd_reset_multiplier frees the results table of the bus and stores a    *)
(* new one, in results_tables; pdd->dsa2_data still points to the old one, *)
(* whose memory may hold anything from now on.  Of that the model keeps    *)
(* the step the next operation would read; what the operation does with    *)
(* freed memory is undefined, and the model starts none.                   *)
(***************************************************************************)
SetMultiplier ==
  /\ pc = "idle"
  /\ user_step' \in DsaSteps
  /\ detached' = TRUE
  /\ \E step \in DsaSteps : rtable' = NewTable(step)
  /\ UNCHANGED <<pdd, op, pc, statuses, result, history>>

(***************************************************************************)
(* The process ends, perhaps in the middle of a loop, and another begins.  *)
(* What an orderly end saves is results_tables, so the new table after a   *)
(* SetMultiplier; a killed process leaves what an older one saved or no    *)
(* file, of which the model keeps the second.  The fields of               *)
(* Per_Display_Data are new.                                               *)
(***************************************************************************)
Restart ==
  /\ LET table == IF detached THEN NewTable(user_step) ELSE rtable
     IN  rtable' \in AtProcessStart(table, InitialStep)
  /\ detached' = FALSE
  /\ null_msg_ct' = 0
  /\ null_adjusted' = FALSE
  /\ user_step' = NoStep
  /\ last' = "NONE"
  /\ result' = "NONE"
  /\ left_early' = FALSE
  /\ Return

Next == Start \/ Retry \/ Finish \/ Abandon \/ SetMultiplier \/ Restart

Spec == Init /\ [][Next]_vars

\* An operation that has begun goes on; a monitor that does not answer is a
\* try that fails.
FairSpec == Spec /\ WF_vars(Retry \/ Finish \/ Abandon)
----------------------------------------------------------------------------
Returned == pc = "try" /\ pc' = "idle" /\ result' # "NONE"
Tried    == Append(statuses, last')   \* in a step that returns

\* Operations that leave a mark in the results table.
Recorded == Returned /\ op.dynamic /\ result' # "DISCONNECTED"

\* Operations whose Null Responses said, or may have said, that the monitor
\* does not have the feature: no trouble on the bus.
MeantUnsupported ==
  result' = "ALL_RESPONSES_NULL" \/ AllNullMeantUnsupported(Tried)

\* The assertions of dsa2.c:802, 930 and 931, at every moment: no try is
\* made at a faster step than its operation started at.
StepOrder ==
  detached \/ (rtable.cur_step <= rtable.loop_step /\ rtable.recent_step <= StepLast)

\* The status an operation returns is true of the responses it got: all
\* tries were used, every response was a Null Response, there were too many
\* of those, or the bus is gone; and no try follows an answer or a fatal
\* error.
ResultIsTrue ==
  [][Returned =>
       /\ \A i \in DOMAIN statuses : statuses[i] \in {"NULL", "DATA"}
       /\ result' = "OK" <=> last' = "OK"
       /\ result' = "RETRIES" => Len(Tried) = MaxTries /\ last' \in {"NULL", "DATA"}
       /\ result' = "DETERMINED_UNSUPPORTED" =>
            /\ Len(Tried) > NullResponseMax
            /\ \A i \in DOMAIN Tried : Tried[i] = "NULL"
       /\ result' = "ALL_RESPONSES_NULL" =>
            last' = "NULL" /\ CountOf("NULL", Tried) > NullResponseMax
       /\ result' = "DISCONNECTED" => last' = "DEAD"]_vars

\* An operation that gives up after its last try has tried the slowest
\* step: dsa2_next_retry_step spreads the steps over the tries left.  (The
\* limit on Null Responses that may mean unsupported spreads differently.)
GivesUpAtSlowestStep ==
  [][Recorded /\ result' = "RETRIES" /\ ~op.null_means /\ MaxTries > 1
       => rtable.loop_step = StepLast]_vars

\* Between operations the per loop state is reset, so that the next one
\* starts at cur_step, also in a new process; unless a loop was left because
\* the bus was dead, which dsa2_record_final never hears of.
LoopStateReset ==
  pc = "idle" /\ ~left_early /\ ~detached =>
    /\ rtable.loop_step = rtable.cur_step
    /\ rtable.null_ct = 0
    /\ null_msg_ct = 0

\* The state of a loop is in order while it lasts, and does not outlast it.
LoopState == StepOrder /\ LoopStateReset

\* An operation that fails, or succeeds only after more than three tries,
\* makes the next one slower, as far as there is a slower step.  Operations
\* whose Null Responses meant "unsupported" are no such trouble, and are left
\* to UnsupportedDoesNotSlowDown.
TroubleSlowsDown ==
  [][Recorded /\ ~MeantUnsupported /\ (result' # "OK" \/ Len(Tried) > TargetMaxTries)
       => rtable'.cur_step > rtable.cur_step \/ rtable'.cur_step = StepLast]_vars

\* The next operation is faster only after a row of successes that needed
\* two tries at most, and then by one step.
SpeedUpIsEarned ==
  [][Recorded /\ rtable'.cur_step < rtable.cur_step =>
       /\ rtable'.cur_step = rtable.cur_step - 1
       /\ result' = "OK"
       /\ Len(rtable'.recent) >= MinDecrementLookback
       /\ \A i \in DOMAIN rtable'.recent : rtable'.recent[i] <= 2]_vars

\* Every operation returns, whatever the monitor does.
OperationsReturn == pc = "try" ~> pc = "idle"

(***************************************************************************)
(* Contradicted by the code                                                *)
(***************************************************************************)
\* A multiplier set with ddca_set_display_sleep_multiplier "takes precedence
\* over any other sleep multiplier calculation" (ddcutil_c_api.h:293): it is
\* the one the next operation starts with.
MultiplierTakesEffect ==
  detached => rtable.cur_step = user_step

\* Responses that meant "unsupported" do not make the next operation slower:
\* "don't pollute the stats with try counts that don't reflect real errors"
\* (ddc_packet_io.c:978), and dsa2_record_final spares DDCRC_ALL_RESPONSES_NULL
\* since it "may mean unsupported" (dsa2.c:964).  But what is recorded is the
\* status of the last try, and only after that is it converted to this one
\* or to DDCRC_DETERMINED_UNSUPPORTED (ddc_packet_io.c:981-1011).
UnsupportedDoesNotSlowDown ==
  [][Recorded /\ MeantUnsupported
       => rtable'.cur_step <= Greatest(rtable.cur_step, StepFloor)]_vars
=============================================================================
