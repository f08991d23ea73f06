------------------------------ MODULE Detection ------------------------------
(***************************************************************************)
(* Detection of displays: ddc_ensure_displays_detected and all it calls    *)
(* (ddc/ddc_displays.c), the initial checks of each display, one thread    *)
(* per display or one after the other (ddc/ddc_initial_checks.c), and the  *)
(* display numbers, with the filter that finds phantom displays            *)
(* (ddc/ddc_phantom_displays.c).                                           *)
(*                                                                         *)
(* A display is named by the index of its bus, and the list of displays is *)
(* in that order.  What is connected to a bus is a socket, a record of     *)
(* what detection can learn of it, with the answers it may give when asked *)
(* for a feature that should not exist; sockets change between detections. *)
(* An exchange with a display is one step with the statuses that the checks   *)
(* tell apart (see module WriteRead):                                      *)
(*   REPORTED  DDCRC_REPORTED_UNSUPPORTED, DDCRC_DETERMINED_UNSUPPORTED    *)
(*   NULL      DDCRC_NULL_RESPONSE, DDCRC_ALL_RESPONSES_NULL               *)
(*   NULLS     DDCRC_RETRIES, all causes DDCRC_NULL_RESPONSE               *)
(*   ZERO      success, all value bytes zero                               *)
(*   DISCONNECTED  the EDID can no longer be read                          *)
(*   UNRESPONSIVE  DDCRC_OTHER, nothing answers at x37 any longer          *)
(*   OTHER     -EIO and all others                                         *)
(* USB monitors, the cache of displays and sleeping displays are left out. *)
(***************************************************************************)
EXTENDS Integers, Sequences, FiniteSets, FiniteSetsExt

CONSTANTS
  BusCount,        \* buses are 1..BusCount
  Sockets,         \* what a bus can be connected to
  Layouts,         \* what all buses can be connected to at one time
  Callers,         \* threads that need the list of displays
  AsyncThreshold,  \* ddc_detect_async_threshold
  None

Buses == 1..BusCount

\* How an exchange about a feature that should not exist can end.
Answers == {"OK", "ZERO", "REPORTED", "NULL", "NULLS", "RETRIES", "DISCONNECTED",
            "UNRESPONSIVE", "OTHER"}

\* A socket once its connector is reported disconnected.
Disconnected(s) == [s EXCEPT !.gone = TRUE]

ASSUME DetectionAssumption ==
  /\ BusCount \in Nat \ {0}
  /\ None \notin Buses /\ \A list \in SUBSET Buses : list # None
  /\ Layouts \subseteq [Buses -> Sockets]
  /\ \A s \in Sockets :
       /\ DOMAIN s = {"edid", "accessible", "x37", "mst", "gone", "ignored", "digital",
                      "answers"}
       /\ s.edid # None => s.accessible
       /\ s.answers \subseteq Answers
       /\ Disconnected(s) \in Sockets

\* display numbers that are none
INVALID  == -1
PHANTOM  == -2
BUSY     == -4
DISABLED == -5

VARIABLES
  socket,            \* what each bus is connected to
  skip_ddc_checks,   \* options
  dynamic_sleep,
  caller,            \* where each caller is: "locked" holds all_display_refs_mutex
  all_display_refs,  \* the published list, a set of buses, or None
  open_errors,       \* display_open_errors
  display_list,      \* the list being made
  check,             \* where the initial checks of each display are
  again,             \* a check is being repeated without dynamic sleep
  dynamic,           \* pdd->dynamic_sleep_active of each display
  flags,
  dispno,
  actual_display,
  dispno_max

options == <<skip_ddc_checks, dynamic_sleep>>
checks  == <<check, again, dynamic, flags>>
numbers == <<dispno, actual_display, dispno_max>>
vars    == <<socket, options, caller, all_display_refs, open_errors, display_list,
             checks, numbers>>

Flags == {"CHECKED", "WORKING", "IS_MONITOR", "UNSUPPORTED_CHECKED", "BUSY", "REMOVED",
          "DISABLED", "USES_NULL", "USES_ZERO", "USES_DDC_FLAG", "DOES_NOT_INDICATE"}
Methods == {"USES_NULL", "USES_ZERO", "USES_DDC_FLAG", "DOES_NOT_INDICATE"}
Features == {"xdd", "x41", "x00"}

\* Types of the state above.
TypeOK ==
  /\ socket \in [Buses -> Sockets]
  /\ skip_ddc_checks \in BOOLEAN /\ dynamic_sleep \in BOOLEAN
  /\ caller \in [Callers -> {"out", "waiting", "locked", "in"}]
  /\ all_display_refs = None \/ all_display_refs \subseteq Buses
  /\ open_errors \subseteq Buses
  /\ display_list = None \/ display_list \subseteq Buses
  /\ check \in [Buses -> {"none", "start", "x10", "xdf", "done"} \cup Features]
  /\ again \in [Buses -> BOOLEAN] /\ dynamic \in [Buses -> BOOLEAN]
  /\ flags \in [Buses -> SUBSET Flags]
  /\ dispno \in [Buses -> 1..BusCount \cup {INVALID, PHANTOM, BUSY, DISABLED}]
  /\ actual_display \in [Buses -> Buses \cup {None}]
  /\ dispno_max \in 0..BusCount

\* How all that concerns single displays is before a detection.
NoChecks  == [d \in Buses |-> "none"]
NoRepeats == [d \in Buses |-> FALSE]
NoFlags   == [d \in Buses |-> {}]
NoNumbers == [d \in Buses |-> INVALID]
NoActual  == [d \in Buses |-> None]

Init ==
  /\ socket \in Layouts
  /\ skip_ddc_checks \in BOOLEAN /\ dynamic_sleep \in BOOLEAN
  /\ caller = [c \in Callers |-> "out"]
  /\ all_display_refs = None
  /\ open_errors = {}
  /\ dispno_max = 0
  /\ display_list = None
  /\ check = NoChecks /\ again = NoRepeats /\ flags = NoFlags
  /\ dynamic = [d \in Buses |-> dynamic_sleep]
  /\ dispno = NoNumbers /\ actual_display = NoActual

----------------------------------------------------------------------------
(***************************************************************************)
(* Initial checks of one display.                                          *)
(***************************************************************************)

Working(d) == "WORKING" \in flags[d]

\* The checks of d go on at a point, with these flags.
GoTo(d, point, now) ==
  /\ check' = [check EXCEPT ![d] = point]
  /\ again' = [again EXCEPT ![d] = FALSE]
  /\ flags' = [flags EXCEPT ![d] = now]

\* Fault: dynamic sleep stays on.
Repeat_forever(d) ==
  /\ again' = [again EXCEPT ![d] = ~@]
  /\ UNCHANGED <<dynamic, check, flags>>

\* Dynamic sleep is turned off and the exchange repeated.
Repeat(d) ==
  /\ dynamic' = [dynamic EXCEPT ![d] = FALSE]
  /\ again' = [again EXCEPT ![d] = TRUE]
  /\ UNCHANGED <<check, flags>>

\* Fault: a display that can no longer be found goes on working.
Left_working(now, rc) ==
  now \ (CASE rc = "DISCONNECTED" -> {"IS_MONITOR", "CHECKED"}
           [] rc = "UNRESPONSIVE" -> {"WORKING"}
           [] OTHER               -> {})

\* The flags that ddc_get_nontable_vcp_value leaves after an exchange.
Left(now, rc) ==
  now \ (CASE rc = "DISCONNECTED" -> {"IS_MONITOR", "CHECKED", "WORKING"}
           [] rc = "UNRESPONSIVE" -> {"WORKING"}
           [] OTHER               -> {})

\* The end of ddc_initial_checks_by_dh and of ddc_initial_checks_by_dref.
Finish(d, now, busy) ==
  /\ GoTo(d, "done", now \cup (IF "REMOVED" \in now THEN {} ELSE {"CHECKED"})
                         \cup (IF busy THEN {"BUSY"} ELSE {}))
  /\ dynamic' = [dynamic EXCEPT ![d] = dynamic_sleep]

\* ddc_initial_checks_by_dref of a display that is disabled by its model, is
\* not checked by option, cannot be opened, or does not answer at x37 (a laptop
\* display is left like that last one).
StartChecks(d) ==
  /\ check[d] = "start"
  /\ IF socket[d].ignored
       THEN /\ GoTo(d, "done", flags[d] \cup {"DISABLED", "CHECKED"})
            /\ UNCHANGED dynamic
     ELSE IF skip_ddc_checks
       THEN /\ GoTo(d, "done", flags[d] \cup {"CHECKED", "WORKING", "USES_DDC_FLAG"})
            /\ UNCHANGED dynamic
     ELSE \/ \E busy \in BOOLEAN : Finish(d, flags[d], busy)       \* cannot be opened
          \/ ~socket[d].x37 /\ Finish(d, flags[d], FALSE)
          \/ socket[d].x37 /\ GoTo(d, "x10", flags[d]) /\ UNCHANGED dynamic

\* What the result of reading feature x10 says of the display.
SupportedTested(d, rc) ==
  CASE rc \in {"OK", "REPORTED"} ->
         /\ GoTo(d, "xdd", flags[d] \cup {"WORKING", "CHECKED"})
         /\ UNCHANGED dynamic
    [] rc = "DISCONNECTED" -> Finish(d, {"REMOVED", "CHECKED"}, FALSE)
    [] rc = "BUSY"         -> Finish(d, flags[d], TRUE)
    [] OTHER               -> Finish(d, Left(flags[d], rc), FALSE)

\* check_supported_feature.  It is repeated if it ran out of retries with
\* dynamic sleep on and the sleeps shortened.
CheckSupported(d) ==
  /\ check[d] = "x10"
  /\ \E rc \in {"OK", "REPORTED", "DISCONNECTED", "UNRESPONSIVE", "BUSY", "RETRIES", "OTHER"},
        shortened \in BOOLEAN :
       IF rc = "RETRIES" /\ dynamic[d] /\ shortened /\ ~again[d]
         THEN Repeat(d)
         ELSE SupportedTested(d, rc)

\* Another feature that should not exist is tried, or None.
NextFeature(d) ==
  CASE check[d] = "xdd" -> IF socket[d].digital THEN "x41" ELSE "x00"
    [] check[d] = "x41" -> "x00"
    [] check[d] = "x00" -> None

\* How the display says that a feature is unsupported, by the last result.
Method(rc) ==
  CASE rc = "OK"                    -> {"DOES_NOT_INDICATE"}
    [] rc = "ZERO"                  -> {"USES_ZERO"}
    [] rc \in {"RETRIES", "REPORTED"} -> {"USES_DDC_FLAG"}
    [] rc \in {"NULL", "NULLS"}     -> {"USES_NULL"}
    [] OTHER                        -> {}

\* What check_how_unsupported_reported leaves of the flags after its last answer.
Told(d, rc) == Left(flags[d], rc) \cup Method(rc) \cup {"UNSUPPORTED_CHECKED"}

\* With these flags the version is queried if DDC still works.
Conclude(d, now) ==
  IF "WORKING" \in now
    THEN /\ GoTo(d, "xdf", now)
         /\ dynamic' = [dynamic EXCEPT ![d] = dynamic[d] \/ again[d]]
    ELSE Finish(d, now, FALSE)

\* Fault: another feature is tried whatever the answer.
UnsupportedTested_all(d, rc) ==
  IF NextFeature(d) # None
    THEN /\ GoTo(d, NextFeature(d),
                 flags[d] \cup (IF rc \in {"ZERO", "NULLS"} THEN Method(rc) ELSE {}))
         /\ dynamic' = [dynamic EXCEPT ![d] = dynamic[d] \/ again[d]]
    ELSE Conclude(d, Told(d, rc))

\* The end of read_unsupported_feature, which puts dynamic sleep on again if
\* it turned it off, and of check_how_unsupported_reported.
UnsupportedTested(d, rc) ==
  IF rc \in {"OK", "RETRIES"} /\ NextFeature(d) # None
    THEN /\ GoTo(d, NextFeature(d), flags[d])
         /\ dynamic' = [dynamic EXCEPT ![d] = dynamic[d] \/ again[d]]
    ELSE Conclude(d, Told(d, rc))

CheckUnsupported(d) ==
  /\ check[d] \in Features
  /\ \E rc \in socket[d].answers :
       IF rc = "RETRIES" /\ dynamic[d]
         THEN Repeat(d)
         ELSE UnsupportedTested(d, rc)

\* set_vcp_version_xdf_by_dh.  A version given by option is not queried, which
\* is as after an answer.
CheckVersion(d) ==
  /\ check[d] = "xdf"
  /\ \E rc \in {"OK", "DISCONNECTED", "UNRESPONSIVE", "OTHER"} :
       Finish(d, Left(flags[d], rc), FALSE)

\* A display is checked when its thread runs, or in its turn.
ItsTurn(d) ==
  \/ Cardinality(display_list) >= AsyncThreshold
  \/ \A e \in display_list : e < d => check[e] = "done"

\* The connector of a display whose EDID cannot be read may be reported
\* disconnected from then on.
PulledOut(d) ==
  \/ UNCHANGED socket
  \/ "IS_MONITOR" \notin flags'[d] /\ socket' = [socket EXCEPT ![d] = Disconnected(@)]

CheckDisplay(d) ==
  /\ display_list # None /\ d \in display_list
  /\ ItsTurn(d)
  /\ StartChecks(d) \/ CheckSupported(d) \/ CheckUnsupported(d) \/ CheckVersion(d)
  /\ PulledOut(d)
  /\ UNCHANGED <<options, caller, all_display_refs, open_errors, display_list, numbers>>

----------------------------------------------------------------------------
(***************************************************************************)
(* Numbers and phantoms, over the displays of a finished list.             *)
(***************************************************************************)

\* How many of a set come no later than d.
Rank(d, set) == Cardinality({e \in set : e <= d})

\* The numbers before phantoms are looked for.
FirstNumber(d) ==
  CASE "DISABLED" \in flags[d] -> DISABLED
    [] "BUSY" \in flags[d] /\ "DISABLED" \notin flags[d] -> BUSY
    [] Working(d) /\ flags[d] \cap {"BUSY", "DISABLED"} = {} ->
         dispno_max + Rank(d, {e \in display_list :
                                 Working(e) /\ flags[e] \cap {"BUSY", "DISABLED"} = {}})
    [] OTHER -> INVALID

Valid   == {d \in display_list : FirstNumber(d) > 0}
Invalid == display_list \ Valid

\* is_phantom_display
PhantomOf(d, v) == socket[d].gone /\ socket[d].edid.id = socket[v].edid.id

\* The last display of a set, or None.
Last(set) == IF set = {} THEN None ELSE Max(set)

Mst    == {d \in Valid : socket[d].mst}
NonMst == Valid \ Mst
DuplicateEdids == \E d, e \in NonMst : d # e /\ socket[d].edid = socket[e].edid

\* The display of which filter_phantom_displays takes d for a phantom, or None.
ActualDisplay(d) ==
  IF Cardinality(display_list) <= 1
  THEN None
  ELSE CASE d \in Invalid -> Last({v \in Valid : PhantomOf(d, v)})
         [] d \in NonMst  -> IF DuplicateEdids THEN None
                             ELSE Last({m \in Mst : socket[m].edid = socket[d].edid})
         [] OTHER         -> None

\* What filter_phantom_displays returns.
PhantomsFound == Cardinality(display_list) > 1 /\ Invalid # {}

Numbered == {d \in Valid : ActualDisplay(d) = None}

\* Fault: the second numbering passes over no display.
FinalNumber_unguarded(d) ==
  IF PhantomsFound THEN Rank(d, display_list)
  ELSE IF ActualDisplay(d) # None THEN PHANTOM
  ELSE FirstNumber(d)

\* The number a display ends with.
FinalNumber(d) ==
  CASE ActualDisplay(d) # None            -> PHANTOM
    [] d \in Numbered /\ PhantomsFound    -> Rank(d, Numbered)
    [] OTHER                              -> FirstNumber(d)

----------------------------------------------------------------------------
(***************************************************************************)
(* ddc_ensure_displays_detected                                            *)
(***************************************************************************)
Move(c, from, to) == caller[c] = from /\ caller' = [caller EXCEPT ![c] = to]

Call(c) ==
  /\ Move(c, "out", "waiting")
  /\ UNCHANGED <<socket, options, all_display_refs, open_errors, display_list, checks, numbers>>

Lock(c) ==
  /\ \A other \in Callers : caller[other] # "locked"
  /\ Move(c, "waiting", "locked")
  /\ UNCHANGED <<socket, options, all_display_refs, open_errors, display_list, checks, numbers>>

\* ddc_detect_all_displays up to the start of the checks.
StartDetection(c) ==
  /\ caller[c] = "locked"
  /\ all_display_refs = None /\ display_list = None
  /\ dispno_max' = 0
  /\ display_list' = {d \in Buses : socket[d].edid # None}
  /\ open_errors' = {d \in Buses : ~socket[d].accessible}
  /\ check' = [d \in Buses |-> IF socket[d].edid # None THEN "start" ELSE "none"]
  /\ flags' = [d \in Buses |-> IF socket[d].edid # None THEN {"IS_MONITOR"} ELSE {}]
  /\ UNCHANGED <<socket, options, caller, all_display_refs, again, dynamic, dispno,
                 actual_display>>

\* Fault: the threads are not joined.
AllChecked_notJoined == \A d \in display_list : check[d] # "start"

AllChecked == \A d \in display_list : check[d] = "done"

\* The rest of ddc_detect_all_displays.
EndDetection(c) ==
  /\ caller[c] = "locked"
  /\ all_display_refs = None /\ display_list # None
  /\ AllChecked
  /\ all_display_refs' = display_list
  /\ dispno' = [d \in Buses |-> IF d \in display_list THEN FinalNumber(d) ELSE INVALID]
  /\ actual_display' = [d \in Buses |-> IF d \in display_list THEN ActualDisplay(d) ELSE None]
  /\ dispno_max' = dispno_max + Cardinality(Valid)
  /\ UNCHANGED <<socket, options, caller, open_errors, display_list, checks>>

Unlock(c) ==
  /\ all_display_refs # None
  /\ Move(c, "locked", "in")
  /\ UNCHANGED <<socket, options, all_display_refs, open_errors, display_list, checks, numbers>>

\* The caller is done with the list.
Return(c) ==
  /\ Move(c, "in", "out")
  /\ UNCHANGED <<socket, options, all_display_refs, open_errors, display_list, checks, numbers>>

\* ddc_discard_detected_displays.  The gate of module ApiQuiesce keeps callers
\* away from it.  dispno_max is left as it is.
Discard ==
  /\ all_display_refs # None
  /\ \A c \in Callers : caller[c] = "out"
  /\ all_display_refs' = None
  /\ open_errors' = {}
  /\ display_list' = None
  /\ check' = NoChecks /\ flags' = NoFlags
  /\ dispno' = NoNumbers /\ actual_display' = NoActual
  /\ dynamic' = [d \in Buses |-> dynamic_sleep]
  /\ UNCHANGED <<socket, options, caller, again, dispno_max>>

\* Cables are moved while no list is there.
Replug ==
  /\ all_display_refs = None /\ display_list = None
  /\ socket' \in Layouts
  /\ UNCHANGED <<options, caller, all_display_refs, open_errors, display_list, checks, numbers>>

Detecting(c) == Lock(c) \/ StartDetection(c) \/ EndDetection(c) \/ Unlock(c)

Next ==
  \/ \E c \in Callers : Call(c) \/ Detecting(c) \/ Return(c)
  \/ \E d \in Buses : CheckDisplay(d)
  \/ Discard
  \/ Replug

\* Threads run, and mutexes are granted in turn.
Fairness ==
  /\ \A c \in Callers : SF_vars(Lock(c)) /\ WF_vars(Detecting(c))
  /\ \A d \in Buses : WF_vars(CheckDisplay(d))

Spec == Init /\ [][Next]_vars /\ Fairness

----------------------------------------------------------------------------
\* The list has been published.
Detected == all_display_refs # None

\* Display numbers go up with the buses, whatever the order in which the
\* checking threads end, are never above the number of displays, however often
\* displays are detected again, and belong to those displays with which DDC
\* works and that are no phantoms (ddc_detect_all_displays).
NumbersInOrder ==
  Detected =>
    /\ \A d, e \in all_display_refs : 0 < dispno[d] /\ 0 < dispno[e] /\ d < e
         => dispno[d] < dispno[e]
    /\ \A d \in all_display_refs : dispno[d] <= Cardinality(all_display_refs)
    /\ \A d \in all_display_refs : dispno[d] > 0 <=>
         /\ Working(d) /\ flags[d] \cap {"BUSY", "DISABLED", "REMOVED"} = {}
         /\ actual_display[d] = None

\* A caller that has the list sees displays that have all been checked, with
\* their dynamic sleep as it was before (threads are joined before the list is
\* published; read_unsupported_feature and ddc_initial_checks_by_dh put back
\* what they turn off).
ListIsComplete ==
  Detected => \A d \in all_display_refs :
    /\ check[d] = "done" /\ "CHECKED" \in flags[d]
    /\ dynamic[d] = dynamic_sleep

\* At most one way to say that a feature is unsupported is found for a display,
\* and only while DDC works with it: one that has a way and does not work told
\* it in its checks and was lost after that (check_how_unsupported_reported,
\* set_vcp_version_xdf_by_dh).
OneMethod ==
  \A d \in Buses :
    /\ Cardinality(flags[d] \cap Methods) <= 1
    /\ flags[d] \cap Methods # {} /\ ~Working(d)
         => check[d] = "done" /\ "UNSUPPORTED_CHECKED" \in flags[d]

\* A display whose EDID could no longer be read at some exchange of its checks,
\* whichever it was, gets no number, and no other display is said to be a
\* phantom of it (ddc_get_nontable_vcp_value, ddc_detect_all_displays).
LostIsNotNumbered ==
  Detected => \A d \in all_display_refs : "IS_MONITOR" \notin flags[d] =>
    /\ dispno[d] < 0
    /\ \A e \in all_display_refs : actual_display[e] # d

\* What the checks leave of a display fits together, at whichever exchange it
\* was lost: one way to say "unsupported", and no number without a monitor.
FlagsFitTogether == OneMethod /\ LostIsNotNumbered

\* Every caller gets the list.
CallersGetList == \A c \in Callers : caller[c] = "waiting" ~> caller[c] = "in"

\* What is said of the numbers after the search for phantoms: "in case a
\* display other than the last was marked phantom" they are given anew, so
\* that they count from 1 without a gap.
NoGap ==
  Detected =>
    LET given == {dispno[d] : d \in {e \in all_display_refs : dispno[e] > 0}}
    IN  given = 1..Cardinality(given)
=============================================================================
