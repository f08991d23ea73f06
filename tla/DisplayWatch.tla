---------------------------- MODULE DisplayWatch ----------------------------
(***************************************************************************)
(* Display watching (dw/).  The watch thread compares the buses that have  *)
(* an EDID with those of its last pass, waits until the set is stable,     *)
(* discards the Display_Refs of buses that lost their EDID and creates one *)
(* for each bus that gained one.  A display whose DDC communication does   *)
(* not work yet goes to the recheck thread, which tries it again until it  *)
(* works, is gone, or has been queued too long.                            *)
(*                                                                         *)
(* A pass of the watch thread holds process_event_mutex.  A pass that      *)
(* finds no change does nothing and is not a step.  Monitors come and go   *)
(* between any two steps.  The answers of a monitor, and everything        *)
(* ddc_open_display and the first VCP read do, are one outcome of a check. *)
(* Each event starts a callback thread; an event is recorded with its      *)
(* Display_Ref in the order in which the threads are started.              *)
(***************************************************************************)
EXTENDS Integers, FiniteSets, FiniteSetsExt, Sequences, SequencesExt

CONSTANTS Buses,        \* bus numbers
          MaxChanges,   \* bound: times a monitor is plugged in or unplugged
          MaxAge,       \* max_sleep_time_millis / sleep_interval_millis
          Durations,    \* times between two readings of the recheck clock
          StabilizeAdded, \* stabilize_added_buses_w_edid
          NoBus, NoEntry

ASSUME DisplayWatchAssumption ==
          /\ Buses \subseteq Nat
          /\ IsFiniteSet(Buses)
          /\ MaxChanges \in Nat
          /\ MaxAge \in Nat
          /\ Durations \subseteq Nat \ {0}
          /\ Durations # {}
          /\ StabilizeAdded \in BOOLEAN
          /\ NoBus \notin Buses
          /\ NoEntry \notin [dref : Nat, age : Nat]

VARIABLES
  plugged,      \* buses with a monitor
  changes,      \* how often a monitor came or went
  \* The watch thread
  wpc,
  known,        \* bs_old_buses_w_edid of dw_watch_display_connections
  wnew,         \* bs_new_buses_w_edid
  wremoved,     \* bs_removed_buses_w_edid the handler has yet to process
  wadded,       \* bs_added_buses_w_edid the handler has yet to process
  wcur,         \* the bus being added
  drefs_to_recheck,
  \* The recheck thread
  rpc,
  rcur,         \* the queue entry being rechecked
  routcome,     \* the outcome of its check
  \* Shared
  businfo,      \* what i2c_check_bus last found on a bus
  drefs,        \* all_display_refs, in order of creation
  recheck_queue,
  terminate_watch_thread,
  disappeared   \* history: buses reported "Newly detected display has disappeared"

watchVars == <<wpc, known, wnew, wremoved, wadded, wcur, drefs_to_recheck,
               disappeared>>
recheckVars == <<rpc, rcur, routcome>>
envVars == <<plugged, changes>>
vars == <<envVars, watchVars, recheckVars, businfo, drefs, recheck_queue,
          terminate_watch_thread>>

Outcomes == {"works", "unsupported", "fails", "silent", "gone", "dead"}
Events == {"CONNECTED", "DDC_ENABLED", "DISCONNECTED"}
DrefIds == DOMAIN drefs
Entries == [dref : DrefIds, age : 0..(MaxAge + 1)]
DisplayRefs == [bus : Buses, dispno : {"valid", "invalid", "removed"},
                removed : BOOLEAN, working : BOOLEAN, detail : BOOLEAN,
                worked : BOOLEAN, events : Seq(Events)]

\* Types of the state above.
TypeOK ==
  /\ plugged \subseteq Buses
  /\ changes \in 0..MaxChanges
  /\ wpc \in {"sleep", "stabilize", "remove", "add", "check", "ended",
              "aborted"}
  /\ known \subseteq Buses
  /\ wnew \subseteq Buses
  /\ wremoved \subseteq Buses
  /\ wadded \subseteq Buses
  /\ wcur \in Buses \cup {NoBus}
  /\ drefs_to_recheck \in Seq(DrefIds)
  /\ rpc \in {"interval", "pop", "check", "resolve", "enable", "ended"}
  /\ rcur \in Entries \cup {NoEntry}
  /\ routcome \in Outcomes \cup {"none"}
  /\ businfo \in [Buses -> {"none", "edid", "edid_x37"}]
  /\ drefs \in Seq(DisplayRefs)
  /\ recheck_queue \in Seq(Entries)
  /\ terminate_watch_thread \in BOOLEAN
  /\ disappeared \subseteq Buses

-----------------------------------------------------------------------------
(* Displays *)

\* create_bus_display_ref and the fields dw_add_display_by_businfo sets.
NewDref(bus, works) ==
  [bus |-> bus, dispno |-> IF works THEN "valid" ELSE "invalid",
   removed |-> FALSE, working |-> works, detail |-> TRUE, worked |-> works,
   events |-> <<"CONNECTED">>]

\* Fault: the lookup does not pass over references without a display number.
Ignored_onlyRemoved(d) == d.removed

\* get_dref_by_busno_or_connector(ignore_invalid = true) passes over a
\* reference without a display number and one that was removed.
Ignored(d) == d.dispno # "valid" \/ d.removed

Candidates(bus) ==
  {i \in DrefIds : drefs[i].bus = bus /\ ~Ignored(drefs[i])}

\* It returns the newest reference and marks the older ones removed.
DiscardOlder(ds, bus) ==
  [i \in DOMAIN ds |->
     [ds[i] EXCEPT !.removed =
        @ \/ (i \in Candidates(bus) /\ i # Max(Candidates(bus)))]]

\* dw_emit_or_queue_display_status_event
Told(d, event) == [d EXCEPT !.events = Append(@, event)]

\* Fault: the reference is marked and its event is forgotten.
DiscardNewest_silent(ds, bus) ==
  [ds EXCEPT ![Max(Candidates(bus))] =
     [@ EXCEPT !.removed = TRUE, !.detail = FALSE]]

\* Fault: DREF_REMOVED is not set.
DiscardNewest_unmarked(ds, bus) ==
  [ds EXCEPT ![Max(Candidates(bus))] =
     Told([@ EXCEPT !.detail = FALSE], "DISCONNECTED")]

\* dw_remove_display_by_businfo and the event its caller emits.
DiscardNewest(ds, bus) ==
  [ds EXCEPT ![Max(Candidates(bus))] =
     Told([@ EXCEPT !.removed = TRUE, !.detail = FALSE], "DISCONNECTED")]

RemoveDisplay(bus) ==
  IF Candidates(bus) = {} THEN drefs
  ELSE DiscardNewest(DiscardOlder(drefs, bus), bus)

\* What ddc_initial_checks_by_dref can find, from what the bus information
\* says and from what is really there.  gone: the DRM status of the connector
\* stays "disconnected"; dead: the bus no longer answers (or the reference
\* has no bus information); silent: address x37 did not answer when the bus
\* was checked, so the monitor is not asked and no error is returned;
\* unsupported: the monitor answers that it does not know the feature asked
\* for; fails: any other error.
CheckOutcomes(bus, detail) ==
  {o \in Outcomes :
     /\ o = "dead" \/ detail
     /\ o \in {"works", "unsupported"} =>
          bus \in plugged /\ businfo[bus] = "edid_x37"
     /\ o = "silent" => businfo[bus] = "edid"
     /\ o = "gone" => bus \notin plugged
     /\ o = "dead" =>
          ~detail \/ (bus \notin plugged /\ businfo[bus] = "edid_x37")}

-----------------------------------------------------------------------------
(* Monitors come and go                                                    *)

Plug(bus) ==
  /\ bus \notin plugged
  /\ changes < MaxChanges
  /\ plugged' = plugged \cup {bus}
  /\ changes' = changes + 1
  /\ UNCHANGED <<watchVars, recheckVars, businfo, drefs, recheck_queue,
                 terminate_watch_thread>>

Unplug(bus) ==
  /\ bus \in plugged
  /\ changes < MaxChanges
  /\ plugged' = plugged \ {bus}
  /\ changes' = changes + 1
  /\ UNCHANGED <<watchVars, recheckVars, businfo, drefs, recheck_queue,
                 terminate_watch_thread>>

-----------------------------------------------------------------------------
(* The watch thread                                                        *)

\* A pass that finds a change: mutex, detection, what was added and removed.
StartPass ==
  /\ wpc = "sleep"
  /\ ~terminate_watch_thread
  /\ plugged # known
  /\ wnew' = plugged
  /\ wremoved' = known \ plugged
  /\ wadded' = plugged \ known
  /\ wpc' = IF wremoved' # {} \/ (StabilizeAdded /\ wadded' # {})
            THEN "stabilize" ELSE "remove"
  /\ UNCHANGED <<envVars, recheckVars, known, wcur, drefs_to_recheck,
                 disappeared, businfo, drefs, recheck_queue,
                 terminate_watch_thread>>

\* dw_stabilized_buses_bs: one more reading.
StillChanging ==
  /\ wpc = "stabilize"
  /\ wnew # plugged
  /\ wnew' = plugged
  /\ UNCHANGED <<envVars, recheckVars, wpc, known, wremoved, wadded, wcur,
                 drefs_to_recheck, disappeared, businfo, drefs, recheck_queue,
                 terminate_watch_thread>>

\* Fault: nothing is computed again.
Recomputed_never(stable) == [removed |-> wremoved, added |-> wadded]

\* What process_screen_change_event computes again after stabilization: the
\* removed buses; the added ones go to a variable of the block that shadows
\* the one passed to the handler.
Recomputed(stable) == [removed |-> known \ stable, added |-> wadded]

Stable ==
  /\ wpc = "stabilize"
  /\ wnew = plugged
  /\ wremoved' = Recomputed(plugged).removed
  /\ wadded' = Recomputed(plugged).added
  /\ wpc' = "remove"
  /\ UNCHANGED <<envVars, recheckVars, known, wnew, wcur, drefs_to_recheck,
                 disappeared, businfo, drefs, recheck_queue,
                 terminate_watch_thread>>

\* The first loop of dw_hotplug_change_handler, in the order of bus numbers.
RemoveBus ==
  /\ wpc = "remove"
  /\ wremoved # {}
  /\ LET bus == Min(wremoved) IN
       /\ wremoved' = wremoved \ {bus}
       /\ businfo' = [businfo EXCEPT ![bus] = "none"]
       /\ drefs' = RemoveDisplay(bus)
       /\ disappeared' = disappeared \ {bus}
  /\ UNCHANGED <<envVars, recheckVars, wpc, known, wnew, wadded, wcur,
                 drefs_to_recheck, recheck_queue, terminate_watch_thread>>

RemovesDone ==
  /\ wpc = "remove"
  /\ wremoved = {}
  /\ wpc' = "add"
  /\ UNCHANGED <<envVars, recheckVars, known, wnew, wremoved, wadded, wcur,
                 drefs_to_recheck, disappeared, businfo, drefs, recheck_queue,
                 terminate_watch_thread>>

\* The second loop: i2c_get_and_check_bus_info resets the bus information and
\* reads it again, which fails for a monitor just unplugged, and for one that is
\* there if the bus cannot be opened or its EDID not be read.  Without an EDID
\* there is no display to add.
CheckBus ==
  /\ wpc = "add"
  /\ wadded # {}
  /\ LET bus == Min(wadded) IN
       /\ wadded' = wadded \ {bus}
       /\ \/ /\ bus \in plugged
             /\ \E info \in {"edid", "edid_x37"} :
                  businfo' = [businfo EXCEPT ![bus] = info]
             /\ wcur' = bus
             /\ wpc' = "check"
             /\ UNCHANGED disappeared
          \/ /\ businfo' = [businfo EXCEPT ![bus] = "none"]
             /\ disappeared' = disappeared \cup {bus}
             /\ UNCHANGED <<wcur, wpc>>
  /\ UNCHANGED <<envVars, recheckVars, known, wnew, wremoved,
                 drefs_to_recheck, drefs, recheck_queue,
                 terminate_watch_thread>>

\* dw_add_display_by_businfo: the initial checks of the new reference.
AddDisplay(works) ==
  /\ drefs' = Append(drefs, NewDref(wcur, works))
  /\ drefs_to_recheck' = IF works THEN drefs_to_recheck
                         ELSE Append(drefs_to_recheck, Len(drefs) + 1)
  /\ disappeared' = disappeared \ {wcur}
  /\ wpc' = "add"

\* It came with DREF_REMOVED: the reference is marked transient and dropped.
DropTransient ==
  /\ disappeared' = disappeared \cup {wcur}
  /\ wpc' = "add"
  /\ UNCHANGED <<drefs, drefs_to_recheck>>

\* assert(dref->flags & DREF_REMOVED)
AssertFails ==
  /\ wpc' = "aborted"
  /\ UNCHANGED <<drefs, drefs_to_recheck, disappeared>>

CheckNewDisplay ==
  /\ wpc = "check"
  /\ \E o \in CheckOutcomes(wcur, TRUE) :
       CASE o = "gone" -> AssertFails
         [] o = "dead" -> DropTransient
         [] OTHER      -> AddDisplay(o \in {"works", "unsupported"})
  /\ wcur' = NoBus
  /\ UNCHANGED <<envVars, recheckVars, known, wnew, wremoved, wadded, businfo,
                 recheck_queue, terminate_watch_thread>>

\* The handler returns, the caller's set is updated, the displays to recheck
\* are queued from last to first, and the mutex is released.
EndPass ==
  /\ wpc = "add"
  /\ wadded = {}
  /\ known' = wnew
  /\ wnew' = {}
  /\ recheck_queue' = recheck_queue
       \o [i \in DOMAIN drefs_to_recheck |->
             [dref |-> Reverse(drefs_to_recheck)[i], age |-> 0]]
  /\ drefs_to_recheck' = <<>>
  /\ wpc' = "sleep"
  /\ UNCHANGED <<envVars, recheckVars, wremoved, wadded, wcur,
                 disappeared, businfo, drefs, terminate_watch_thread>>

EndWatch ==
  /\ wpc = "sleep"
  /\ terminate_watch_thread
  /\ wpc' = "ended"
  /\ UNCHANGED <<envVars, recheckVars, known, wnew, wremoved, wadded, wcur,
                 drefs_to_recheck, disappeared, businfo, drefs, recheck_queue,
                 terminate_watch_thread>>

-----------------------------------------------------------------------------
(* The recheck thread                                                      *)

Running == wpc # "aborted"
MutexFree == wpc \in {"sleep", "ended"}

\* SLEEP_MILLIS_WITH_SYSLOG and the reading of the clock that the next entry
\* popped is compared with.
Older(e, d) == [e EXCEPT !.age = Min({@ + d, MaxAge + 1})]

RecheckInterval ==
  /\ Running
  /\ rpc = "interval"
  /\ ~terminate_watch_thread
  /\ \E d \in Durations :
       recheck_queue' = [i \in DOMAIN recheck_queue |->
                           Older(recheck_queue[i], d)]
  /\ rpc' = "pop"
  /\ UNCHANGED <<envVars, watchVars, rcur, routcome, businfo, drefs,
                 terminate_watch_thread>>

Expired(e) == e.age > MaxAge

\* "ddc did not become enabled": the entry is dropped.
DropExpired ==
  /\ Running
  /\ rpc = "pop"
  /\ ~terminate_watch_thread
  /\ recheck_queue # <<>>
  /\ Expired(Head(recheck_queue))
  /\ recheck_queue' = Tail(recheck_queue)
  /\ rpc' = "interval"
  /\ UNCHANGED <<envVars, watchVars, rcur, routcome, businfo, drefs,
                 terminate_watch_thread>>

\* dw_recheck_dref clears the flags of the reference.
PopEntry ==
  /\ Running
  /\ rpc = "pop"
  /\ ~terminate_watch_thread
  /\ recheck_queue # <<>>
  /\ ~Expired(Head(recheck_queue))
  /\ recheck_queue' = Tail(recheck_queue)
  /\ rcur' = Head(recheck_queue)
  /\ drefs' = [drefs EXCEPT ![Head(recheck_queue).dref] =
                 [@ EXCEPT !.removed = FALSE, !.working = FALSE]]
  /\ rpc' = "check"
  /\ UNCHANGED <<envVars, watchVars, routcome, businfo,
                 terminate_watch_thread>>

\* ddc_initial_checks_by_dref and the flags it leaves.
RecheckDref ==
  /\ Running
  /\ rpc = "check"
  /\ LET d == drefs[rcur.dref] IN
       \E o \in CheckOutcomes(d.bus, d.detail) :
         /\ routcome' = o
         /\ drefs' = [drefs EXCEPT ![rcur.dref] =
                        [@ EXCEPT !.working = o \in {"works", "unsupported"},
                                  !.removed = o = "dead"]]
  /\ rpc' = "resolve"
  /\ UNCHANGED <<envVars, watchVars, rcur, businfo, recheck_queue,
                 terminate_watch_thread>>

\* No error: the reference gets a display number before the mutex is locked.
RecheckSucceeded ==
  /\ Running
  /\ rpc = "resolve"
  /\ routcome \in {"works", "silent"}
  /\ drefs' = [drefs EXCEPT ![rcur.dref].dispno = "valid"]
  /\ rpc' = "enable"
  /\ UNCHANGED <<envVars, watchVars, rcur, routcome, businfo, recheck_queue,
                 terminate_watch_thread>>

EmitEnabled ==
  /\ Running
  /\ rpc = "enable"
  /\ MutexFree
  /\ drefs' = [drefs EXCEPT ![rcur.dref] = Told(@, "DDC_ENABLED")]
  /\ rcur' = NoEntry
  /\ routcome' = "none"
  /\ rpc' = "interval"
  /\ UNCHANGED <<envVars, watchVars, businfo, recheck_queue,
                 terminate_watch_thread>>

\* DDCRC_DISCONNECTED: this event is emitted without the mutex.
RecheckDisconnected ==
  /\ Running
  /\ rpc = "resolve"
  /\ routcome \in {"gone", "dead"}
  /\ drefs' = [drefs EXCEPT ![rcur.dref] =
                 Told([@ EXCEPT !.dispno = "removed"], "DISCONNECTED")]
  /\ rcur' = NoEntry
  /\ routcome' = "none"
  /\ rpc' = "interval"
  /\ UNCHANGED <<envVars, watchVars, businfo, recheck_queue,
                 terminate_watch_thread>>

\* Fault: the entry is queued as a new one.
Requeued_fresh(e) == <<[e EXCEPT !.age = 0]>> \o recheck_queue

\* Any other error: to_check_again, which the next turn of the loop moves to
\* the front of the queue before it pops an entry.
Requeued(e) == <<e>> \o recheck_queue

RecheckFailed ==
  /\ Running
  /\ rpc = "resolve"
  /\ routcome \in {"fails", "unsupported"}
  /\ recheck_queue' = Requeued(rcur)
  /\ rcur' = NoEntry
  /\ routcome' = "none"
  /\ rpc' = "interval"
  /\ UNCHANGED <<envVars, watchVars, businfo, drefs,
                 terminate_watch_thread>>

\* What is left on the queue is flushed.
EndRecheck ==
  /\ Running
  /\ rpc \in {"interval", "pop"}
  /\ terminate_watch_thread
  /\ recheck_queue' = <<>>
  /\ rpc' = "ended"
  /\ UNCHANGED <<envVars, watchVars, rcur, routcome, businfo, drefs,
                 terminate_watch_thread>>

-----------------------------------------------------------------------------

\* dw_stop_watch_displays tells both threads to end.
StopWatch ==
  /\ Running
  /\ ~terminate_watch_thread
  /\ terminate_watch_thread' = TRUE
  /\ UNCHANGED <<envVars, watchVars, recheckVars, businfo, drefs,
                 recheck_queue>>

\* The buses of a set in the order of their numbers.
Orders(set) ==
  {order \in [1..Cardinality(set) -> set] :
     \A i, j \in DOMAIN order : i < j => order[i] < order[j]}

Init ==
  /\ plugged \in SUBSET Buses
  /\ changes = 0
  /\ wpc = "sleep"
  /\ known \in SUBSET Buses
  /\ wnew = {}
  /\ wremoved = {}
  /\ wadded = {}
  /\ wcur = NoBus
  /\ drefs_to_recheck = <<>>
  /\ rpc = "interval"
  /\ rcur = NoEntry
  /\ routcome = "none"
  /\ \E works \in [known -> BOOLEAN], order \in Orders(known) :
       /\ businfo = [b \in Buses |-> IF b \notin known THEN "none"
                                     ELSE IF works[b] THEN "edid_x37"
                                     ELSE "edid"]
       /\ drefs = [i \in DOMAIN order |-> NewDref(order[i], works[order[i]])]
  /\ recheck_queue = <<>>
  /\ terminate_watch_thread = FALSE
  /\ disappeared = {}

WatchThread == \/ StartPass \/ StillChanging \/ Stable
               \/ RemoveBus \/ RemovesDone
               \/ CheckBus \/ CheckNewDisplay
               \/ EndPass \/ EndWatch

RecheckThread == \/ RecheckInterval \/ DropExpired \/ PopEntry
                 \/ RecheckDref
                 \/ RecheckSucceeded \/ EmitEnabled
                 \/ RecheckDisconnected \/ RecheckFailed
                 \/ EndRecheck

Monitors == \E bus \in Buses : Plug(bus) \/ Unplug(bus)

Next == WatchThread \/ RecheckThread \/ Monitors \/ StopWatch

\* The threads keep running; monitors do what they like.
Spec == Init /\ [][Next]_vars /\ WF_vars(WatchThread) /\ WF_vars(RecheckThread)
-----------------------------------------------------------------------------
(* Properties                                                              *)

BusRefs(bus) == {i \in DrefIds : drefs[i].bus = bus}
HasEvent(i, e) == \E k \in DOMAIN drefs[i].events : drefs[i].events[k] = e
Queued(i) == \E k \in DOMAIN recheck_queue : recheck_queue[k].dref = i
Rechecked(i) == rcur # NoEntry /\ rcur.dref = i

\* When a pass of the watch thread ends and a bus has left the known set, every
\* reference of that bus whose DDC communication worked when it was connected
\* is discarded, and the client has been told, of it or of its successor on
\* the bus, that it is gone, whatever the recheck thread and the monitors did
\* meanwhile (dw_hotplug_change_handler, get_dref_by_busno_or_connector).
GoneIsReported ==
  [][wpc = "add" /\ wpc' = "sleep" =>
       \A bus \in known \ known' : \A i \in BusRefs(bus) :
         drefs[i].worked =>
           /\ drefs[i].removed
           /\ \E j \in BusRefs(bus) : j >= i /\ HasEvent(j, "DISCONNECTED")]_vars

\* The watch thread reports a display gone only if its bus had no EDID in the
\* reading the pass ends with: a monitor that comes back while the set
\* stabilizes is not reported (the purpose of dw_stabilized_buses_bs).
NoFalseDisconnect ==
  [][wpc = "remove" =>
       \A i \in DrefIds :
         drefs[i].bus \in wnew /\ ~Rechecked(i)
           => drefs'[i].events = drefs[i].events]_vars

\* A client never gets one event of a display twice from the two threads, hears
\* first that the display is there, and hears that DDC became enabled only of a
\* display that was announced without.
EventsAreSane ==
  \A i \in DrefIds :
    /\ IsInjective(drefs[i].events)
    /\ Head(drefs[i].events) = "CONNECTED"
    /\ HasEvent(i, "DDC_ENABLED") => ~drefs[i].worked

\* A discarded reference stays discarded.  dw_recheck_dref clears all flags of
\* a reference, DREF_REMOVED too, while the watch thread may be discarding the
\* references of the same bus: a cleared flag would let ddc_open_display open
\* a display that is gone.
DiscardedStaysDiscarded ==
  [][\A i \in DrefIds : drefs[i].removed => drefs'[i].removed]_vars

\* A pass ends: the loop of dw_stabilized_buses_bs, which holds
\* process_event_mutex, ends once the monitors stay as they are.
PassEnds == wpc \notin {"sleep", "aborted"} ~> wpc \in {"sleep", "ended", "aborted"}

\* Unless watching is stopped, every display waiting for DDC leaves the recheck
\* thread: it works, is gone, or has waited too long, even if displays before
\* it in the queue never work.
RecheckEnds ==
  \A i \in 1..(Cardinality(Buses) + MaxChanges) :
    i \in DrefIds /\ (Queued(i) \/ Rechecked(i))
      ~> \/ ~Queued(i) /\ ~Rechecked(i)
         \/ wpc = "aborted" \/ terminate_watch_thread

\* Neither of the two threads is stuck in its loop.
LoopsEnd == PassEnds /\ RecheckEnds

\* dw_common.c:344 "For buses with edid added, create a new display ref.": between
\* two passes a bus of the known set has a live reference or one that DDC did
\* not work for, unless its display was reported to have disappeared.
KnownHasDisplay ==
  wpc = "sleep" =>
    \A bus \in known :
      bus \in disappeared \/ \E i \in BusRefs(bus) : ~drefs[i].removed

\* displays.c:1074 "There should be at most one non-removed Display_Ref.": not
\* even the lookup that ignores references without a display number finds two.
OneLiveDref == \A bus \in Buses : Cardinality(Candidates(bus)) <= 1

\* CHANGELOG.md:341 "An event of type DDCA_EVENT_DDC_ENABLED will be emitted if
\* and when the recheck thread determines that DDC is working."
EnabledMeansWorking == rpc = "enable" => drefs[rcur.dref].working

\* dw_dref.c:145 assert(dref->flags & DREF_REMOVED)
NoAssertFails == wpc # "aborted"
=============================================================================
