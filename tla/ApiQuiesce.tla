----------------------------- MODULE ApiQuiesce -----------------------------
(***************************************************************************)
(* The gate in front of the C API (libmain/api_base.c and the API_PROLOGX  *)
(* and API_EPILOG macros of api_base_internal.h): calls are counted in and *)
(* out, and ddca_redetect_displays quiesces the API around a redetection.  *)
(*                                                                         *)
(* Two GMutexes guard two variables: api_quiesced_mutex guards             *)
(* api_quiesced, active_calls_mutex guards active_calls.  quiesce_api      *)
(* keeps both while it waits for the outstanding calls.  A step is one     *)
(* mutex operation with the unguarded code up to the next one.             *)
(* ddca_redetect_active is tested and set with no mutex (the calls that    *)
(* would take one are commented out).                                      *)
(*                                                                         *)
(* The usleep between two polls is abstracted to an interleaving point and *)
(* the two clock limits to MaxPolls, their quotient.                       *)
(***************************************************************************)
EXTENDS Integers, FiniteSets

CONSTANTS Clients,      \* threads that make API calls that respect quiesce
          Redetectors,  \* threads that call ddca_redetect_displays
          MaxPolls,     \* poll_max_millisec / poll_interval_millisec
          MaxLeaks,     \* bound: calls that return from a precondition
          NoThread

ASSUME ApiQuiesceAssumption ==
          /\ IsFiniteSet(Clients)
          /\ Clients \cap Redetectors = {}
          /\ NoThread \notin Clients \cup Redetectors
          /\ MaxPolls \in Nat \ {0}
          /\ MaxLeaks \in Nat

Threads == Clients \cup Redetectors

VARIABLES
  api_quiesced_mutex,   \* its holder
  active_calls_mutex,   \* its holder
  active_calls,
  api_quiesced,
  ddca_redetect_active,
  pc,
  polls,                \* polls[r]: sleeps of r's quiesce_api so far
  oops,                 \* oops[r]: r's quiesce_api gave up waiting
  leaked                \* history: calls that returned without the epilog

vars == <<api_quiesced_mutex, active_calls_mutex, active_calls, api_quiesced,
          ddca_redetect_active, pc, polls, oops, leaked>>

ClientSteps    == {"enter", "count", "in_call", "leave"}
RedetectSteps  == {"claim", "quiesce", "test", "poll", "close_gate",
                   "redetect", "unquiesce", "clear"}
Steps          == {"idle"} \cup ClientSteps \cup RedetectSteps

\* Types of the state above.
TypeOK ==
  /\ api_quiesced_mutex \in Threads \cup {NoThread}
  /\ active_calls_mutex \in Threads \cup {NoThread}
  /\ active_calls \in 0..(Cardinality(Clients) + MaxLeaks)
  /\ api_quiesced \in BOOLEAN
  /\ ddca_redetect_active \in BOOLEAN
  /\ pc \in [Threads -> Steps]
  /\ polls \in [Redetectors -> 0..MaxPolls]
  /\ oops \in [Redetectors -> BOOLEAN]
  /\ leaked \in 0..MaxLeaks

Init ==
  /\ api_quiesced_mutex = NoThread
  /\ active_calls_mutex = NoThread
  /\ active_calls = 0
  /\ api_quiesced = FALSE
  /\ ddca_redetect_active = FALSE
  /\ pc = [t \in Threads |-> "idle"]
  /\ polls = [r \in Redetectors |-> 0]
  /\ oops = [r \in Redetectors |-> FALSE]
  /\ leaked = 0

Goto(t, step) == pc' = [pc EXCEPT ![t] = step]

locals == <<polls, oops>>

----------------------------------------------------------------------------
(***************************************************************************)
(* An API call: increment_active_api_calls, the body, and                  *)
(* decrement_active_api_calls in the epilog.                               *)
(***************************************************************************)
Call(t) ==
  /\ pc[t] = "idle"
  /\ Goto(t, "enter")
  /\ UNCHANGED <<api_quiesced_mutex, active_calls_mutex, active_calls,
                 api_quiesced, ddca_redetect_active, locals, leaked>>

\* Fault: increment_active_api_calls takes active_calls_mutex only.
LockQuiesced_skipped(t) ==
  /\ pc[t] = "enter"
  /\ Goto(t, "count")
  /\ UNCHANGED <<api_quiesced_mutex, active_calls_mutex, active_calls, api_quiesced,
                 ddca_redetect_active, locals, leaked>>

LockQuiesced(t) ==
  /\ pc[t] = "enter"
  /\ api_quiesced_mutex = NoThread
  /\ api_quiesced_mutex' = t
  /\ Goto(t, "count")
  /\ UNCHANGED <<active_calls_mutex, active_calls, api_quiesced,
                 ddca_redetect_active, locals, leaked>>

\* Fault: the prolog does not ask whether the API is quiesced.
Admitted_always == TRUE

\* The call may go ahead.
Admitted == ~api_quiesced

\* Fault: a call is counted before it is tested.
CountIn_beforeTest(t) ==
  /\ pc[t] = "count"
  /\ active_calls_mutex = NoThread
  /\ active_calls' = active_calls + 1
  /\ Goto(t, IF Admitted THEN "in_call" ELSE "idle")
  /\ api_quiesced_mutex' = NoThread
  /\ UNCHANGED <<active_calls_mutex, api_quiesced, ddca_redetect_active, locals, leaked>>

\* The counter is changed inside both mutexes; a refused call returns
\* DDCRC_QUIESCED from the prolog.
CountIn(t) ==
  /\ pc[t] = "count"
  /\ active_calls_mutex = NoThread
  /\ active_calls' = IF Admitted THEN active_calls + 1 ELSE active_calls
  /\ Goto(t, IF Admitted THEN "in_call" ELSE "idle")
  /\ api_quiesced_mutex' = NoThread
  /\ UNCHANGED <<active_calls_mutex, api_quiesced, ddca_redetect_active, locals, leaked>>

\* The body of the call is done; the epilog runs.
Finish(t) ==
  /\ pc[t] = "in_call"
  /\ Goto(t, "leave")
  /\ UNCHANGED <<api_quiesced_mutex, active_calls_mutex, active_calls,
                 api_quiesced, ddca_redetect_active, locals, leaked>>

\* API_PRECOND_W_EPILOG on a NULL argument: it returns DDCRC_ARG without
\* the epilog, and the call stays counted.
FailPrecondition(t) ==
  /\ pc[t] = "in_call"
  /\ leaked < MaxLeaks
  /\ leaked' = leaked + 1
  /\ Goto(t, "idle")
  /\ UNCHANGED <<api_quiesced_mutex, active_calls_mutex, active_calls,
                 api_quiesced, ddca_redetect_active, locals>>

CountOut(t) ==
  /\ pc[t] = "leave"
  /\ active_calls_mutex = NoThread
  /\ active_calls' = IF active_calls > 0 THEN active_calls - 1 ELSE active_calls
  /\ Goto(t, "idle")
  /\ UNCHANGED <<api_quiesced_mutex, active_calls_mutex, api_quiesced,
                 ddca_redetect_active, locals, leaked>>
----------------------------------------------------------------------------
(***************************************************************************)
(* ddca_redetect_displays: the test of ddca_redetect_active, its setting,  *)
(* quiesce_api, dw_redetect_displays, unquiesce_api.  That callback        *)
(* threads are active is only logged.                                      *)
(***************************************************************************)
\* The test; a call that finds the flag set returns DDCRC_INVALID_OPERATION.
Redetect(r) ==
  /\ pc[r] = "idle"
  /\ ~ddca_redetect_active
  /\ Goto(r, "claim")
  /\ UNCHANGED <<api_quiesced_mutex, active_calls_mutex, active_calls,
                 api_quiesced, ddca_redetect_active, locals, leaked>>

Claim(r) ==
  /\ pc[r] = "claim"
  /\ ddca_redetect_active' = TRUE
  /\ Goto(r, "quiesce")
  /\ UNCHANGED <<api_quiesced_mutex, active_calls_mutex, active_calls,
                 api_quiesced, locals, leaked>>

QuiesceLock(r) ==
  /\ pc[r] = "quiesce"
  /\ api_quiesced_mutex = NoThread
  /\ api_quiesced_mutex' = r
  /\ Goto(r, "test")
  /\ UNCHANGED <<active_calls_mutex, active_calls, api_quiesced,
                 ddca_redetect_active, locals, leaked>>

\* The first look at active_calls; the mutex is kept while polling.
TestCalls(r) ==
  /\ pc[r] = "test"
  /\ active_calls_mutex = NoThread
  /\ polls' = [polls EXCEPT ![r] = 0]
  /\ oops' = [oops EXCEPT ![r] = active_calls > 0]
  /\ IF active_calls > 0
     THEN active_calls_mutex' = r /\ Goto(r, "poll")
     ELSE UNCHANGED active_calls_mutex /\ Goto(r, "close_gate")
  /\ UNCHANGED <<api_quiesced_mutex, active_calls, api_quiesced,
                 ddca_redetect_active, leaked>>

\* Fault: the poll forgets to count its sleeps.
WaitOver_never(r) == active_calls = 0

\* The loop ends on a count of zero or at its limit.
WaitOver(r) == active_calls = 0 \/ polls[r] + 1 = MaxPolls

\* usleep, then the next look.
Poll(r) ==
  /\ pc[r] = "poll"
  /\ oops' = [oops EXCEPT ![r] = active_calls > 0]
  /\ polls' = [polls EXCEPT ![r] = IF @ < MaxPolls THEN @ + 1 ELSE @]
  /\ IF WaitOver(r)
     THEN active_calls_mutex' = NoThread /\ Goto(r, "close_gate")
     ELSE UNCHANGED <<active_calls_mutex, pc>>
  /\ UNCHANGED <<api_quiesced_mutex, active_calls, api_quiesced,
                 ddca_redetect_active, leaked>>

\* Outstanding calls do "not prevent queiescing".
CloseGate(r) ==
  /\ pc[r] = "close_gate"
  /\ api_quiesced' = TRUE
  /\ api_quiesced_mutex' = NoThread
  /\ Goto(r, "redetect")
  /\ UNCHANGED <<active_calls_mutex, active_calls, ddca_redetect_active, locals, leaked>>

\* dw_redetect_displays, whose effect is not on this state.
Redetected(r) ==
  /\ pc[r] = "redetect"
  /\ Goto(r, "unquiesce")
  /\ UNCHANGED <<api_quiesced_mutex, active_calls_mutex, active_calls,
                 api_quiesced, ddca_redetect_active, locals, leaked>>

Unquiesce(r) ==
  /\ pc[r] = "unquiesce"
  /\ api_quiesced_mutex = NoThread
  /\ api_quiesced' = FALSE
  /\ Goto(r, "clear")
  /\ UNCHANGED <<api_quiesced_mutex, active_calls_mutex, active_calls,
                 ddca_redetect_active, locals, leaked>>

Clear(r) ==
  /\ pc[r] = "clear"
  /\ ddca_redetect_active' = FALSE
  /\ Goto(r, "idle")
  /\ UNCHANGED <<api_quiesced_mutex, active_calls_mutex, active_calls,
                 api_quiesced, locals, leaked>>

ClientNext(t) ==
  \/ Call(t) \/ LockQuiesced(t) \/ CountIn(t) \/ Finish(t)
  \/ FailPrecondition(t) \/ CountOut(t)

RedetectNext(r) ==
  \/ Redetect(r) \/ Claim(r) \/ QuiesceLock(r) \/ TestCalls(r) \/ Poll(r)
  \/ CloseGate(r) \/ Redetected(r) \/ Unquiesce(r) \/ Clear(r)

Next == (\E t \in Clients : ClientNext(t)) \/ (\E r \in Redetectors : RedetectNext(r))

Spec == Init /\ [][Next]_vars

(***************************************************************************)
(* Threads inside the gate code keep running, and a thread that waits for  *)
(* a mutex that is released again and again gets it (strong fairness).     *)
(* Nothing is assumed of the body of a call, which waits for a monitor,    *)
(* nor of a client's or a redetector's wish to call.                       *)
(***************************************************************************)
FairSpec ==
  /\ Spec
  /\ \A t \in Clients :
       /\ SF_vars(LockQuiesced(t))
       /\ SF_vars(CountIn(t))
       /\ SF_vars(CountOut(t))
  /\ \A r \in Redetectors :
       /\ WF_vars(Claim(r) \/ Poll(r) \/ CloseGate(r) \/ Redetected(r) \/ Clear(r))
       /\ SF_vars(QuiesceLock(r))
       /\ SF_vars(TestCalls(r))
       /\ SF_vars(Unquiesce(r))

----------------------------------------------------------------------------
\* Calls that were let in and are not counted out.
Inside == {t \in Clients : pc[t] \in {"in_call", "leave"}}

Redetecting(r) == pc[r] \in {"redetect", "unquiesce"}

\* active_calls counts exactly the calls in progress and the calls that
\* were lost in a failed precondition: increment_active_api_calls and
\* decrement_active_api_calls match, whatever they interleave with.
CountIsCalls == active_calls = Cardinality(Inside) + leaked

\* The API is quiesced exactly while a redetection is between quiesce_api
\* and unquiesce_api: it is never left closed, never open too early.
GateMatchesRedetection ==
  api_quiesced <=> \E r \in Redetectors : Redetecting(r)

\* If quiesce_api found no outstanding call, then no API call is in
\* progress while dw_redetect_displays replaces the display references.
DrainedUnlessGaveUp ==
  \A r \in Redetectors : Redetecting(r) /\ ~oops[r] => Inside = {}

\* No API call that respects quiesce begins during a redetection, not even
\* when quiesce_api gave up on outstanding ones.
NoCallStartsDuringRedetection ==
  [][\A r \in Redetectors :
       Redetecting(r) /\ Redetecting(r)' => Inside' \subseteq Inside]_vars

\* A redetection ends, although calls may never come back; and whoever
\* calls the API is either let in or refused.
RedetectionEnds == \A r \in Redetectors : pc[r] # "idle" ~> pc[r] = "idle"
CallsAreAnswered ==
  \A t \in Clients : pc[t] = "enter" ~> pc[t] \in {"in_call", "idle"}

\* Neither the redetecting thread nor a caller waits for ever.
NobodyIsLeftWaiting == RedetectionEnds /\ CallsAreAnswered

(***************************************************************************)
(* Contradicted by the code                                                *)
(***************************************************************************)
\* quiesce_api "waits at most 3000 miliseconds for outstanding API calls to
\* complete" (api_base.c:260): while it sleeps, a call whose body is done
\* can complete.
OutstandingCallsCanComplete ==
  \A t \in Clients, r \in Redetectors :
     pc[r] = "poll" /\ pc[t] = "leave" => ENABLED CountOut(t)

\* ddca_redetect_displays is to "block if called ... if already executing"
\* (CHANGELOG.md:80): at most one redetection is in progress.
AtMostOneRedetection ==
  \A r, s \in Redetectors : Redetecting(r) /\ Redetecting(s) => r = s
=============================================================================
