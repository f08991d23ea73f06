----------------------------- MODULE WatchThreads -----------------------------
(***************************************************************************)
(* Starting, stopping and restarting the threads that watch displays       *)
(* (dw/dw_main.c), with what the two threads share: the flag that tells    *)
(* them to end (dw/dw_common.c), the queue of displays to check again      *)
(* (dw/dw_recheck.c) and the display references (ddc/ddc_displays.c).      *)
(* DisplayWatch looks inside one pair of threads; here there are many, one *)
(* after the other or, after a stop that does not wait, side by side.      *)
(*                                                                         *)
(* watch_thread_mutex is kept while a stop waits for the threads; what a   *)
(* start does with it is one step, since nothing in it blocks.  Display    *)
(* references are represented by their generation: ddc_discard_detected_   *)
(* displays frees those of one, detection creates those of the next.  The  *)
(* gate that ApiQuiesce models is reduced to whether it is closed.         *)
(***************************************************************************)
EXTENDS Integers, FiniteSets, Sequences

CONSTANTS Clients,      \* threads that start and stop watching
          Redetector,   \* a thread that calls ddca_redetect_displays
          Main,         \* the thread that runs _ddca_terminate at exit
          NoThread,
          MaxPairs,     \* bound: starts
          MaxRedetects, \* bound: redetections
          MaxFound      \* bound: displays found that need rechecking

ASSUME WatchThreadsAssumption ==
          /\ IsFiniteSet(Clients)
          /\ Redetector \notin Clients /\ Main \notin Clients
          /\ Redetector # Main
          /\ NoThread \notin Clients \cup {Redetector, Main}
          /\ MaxPairs \in Nat \ {0} /\ MaxRedetects \in Nat /\ MaxFound \in Nat

Callers == Clients \cup {Redetector, Main}
Pairs   == 1..MaxPairs      \* pairs of threads in the order of their start
NoPair  == 0                \* watch_thread or recheck_queue is NULL
NoRef   == -1

VARIABLES
  watch_thread_mutex,       \* its holder, while a stop waits
  watch_thread,             \* the pair recorded as running
  terminate_watch_thread,
  started,                  \* pairs started so far
  wpc, rpc,                 \* where the watch and recheck thread of a pair are
  wgen,                     \* wgen[p]: the references the pass of p works on
  recheck_queue,            \* the pair whose recheck thread made the queue
  queues,                   \* the queues made, those leaked included
  hand,                     \* hand[p]: the reference p's recheck thread has
  live, refs_up,            \* generation of references, whether they exist
  pc, resume,               \* callers: step, and whether to start again
  api_quiesced,
  aborted,                  \* an assertion of dw_redetect_displays failed
  found,
  hurried, gave_up, exiting \* history: a stop did not wait; quiesce_api gave
                            \* up on a call to start; the program ends

threads == <<watch_thread, terminate_watch_thread, started>>
pair    == <<wpc, rpc, wgen, recheck_queue, queues, hand, found>>
refs    == <<live, refs_up>>
past    == <<hurried, gave_up, exiting>>
vars    == <<watch_thread_mutex, threads, pair, refs, pc, resume, api_quiesced,
             aborted, past>>

Gens == 0..MaxRedetects
WatchSteps   == {"none", "startup", "sleeping", "pass", "done"}
RecheckSteps == {"none", "startup", "waiting", "checking", "leaving", "done"}
CallSteps    == {"idle", "start", "stop", "join_watch", "join_recheck", "active",
                 "discard", "detect", "restart", "unquiesce", "exited"}

\* Types of the state above.
TypeOK ==
  /\ watch_thread_mutex \in Callers \cup {NoThread}
  /\ watch_thread \in Pairs \cup {NoPair}
  /\ terminate_watch_thread \in BOOLEAN
  /\ started \in 0..MaxPairs
  /\ wpc \in [Pairs -> WatchSteps]
  /\ rpc \in [Pairs -> RecheckSteps]
  /\ wgen \in [Pairs -> Gens \cup {NoRef}]
  /\ recheck_queue \in Pairs \cup {NoPair}
  /\ queues \in [Pairs -> Seq(Gens)]
  /\ hand \in [Pairs -> Gens \cup {NoRef}]
  /\ live \in Gens /\ refs_up \in BOOLEAN
  /\ pc \in [Callers -> CallSteps]
  /\ resume \in BOOLEAN /\ api_quiesced \in BOOLEAN /\ aborted \in BOOLEAN
  /\ found \in 0..MaxFound
  /\ hurried \in BOOLEAN /\ gave_up \in BOOLEAN /\ exiting \in BOOLEAN

\* The displays were detected when the library was initialized.
Init ==
  /\ watch_thread_mutex = NoThread
  /\ watch_thread = NoPair
  /\ terminate_watch_thread = FALSE
  /\ started = 0
  /\ wpc = [p \in Pairs |-> "none"]
  /\ rpc = [p \in Pairs |-> "none"]
  /\ wgen = [p \in Pairs |-> NoRef]
  /\ recheck_queue = NoPair
  /\ queues = [p \in Pairs |-> <<>>]
  /\ hand = [p \in Pairs |-> NoRef]
  /\ live = 0 /\ refs_up = TRUE
  /\ pc = [c \in Callers |-> "idle"]
  /\ resume = FALSE /\ api_quiesced = FALSE /\ aborted = FALSE
  /\ found = 0
  /\ hurried = FALSE /\ gave_up = FALSE /\ exiting = FALSE

Goto(c, step) == pc' = [pc EXCEPT ![c] = step]
----------------------------------------------------------------------------
(***************************************************************************)
(* dw_start_watch_displays                                                 *)
(***************************************************************************)
\* Fault: the start does not ask whether watching is already on.
MayStart_always == TRUE

\* Watching is off.
MayStart == watch_thread = NoPair

\* The body of the start, under the mutex: the flag is cleared, the recheck
\* and the watch thread are created and recorded.
StartThreads ==
  /\ started < MaxPairs
  /\ terminate_watch_thread' = FALSE
  /\ started' = started + 1
  /\ watch_thread' = started + 1
  /\ wpc' = [wpc EXCEPT ![started + 1] = "startup"]
  /\ rpc' = [rpc EXCEPT ![started + 1] = "startup"]
  /\ UNCHANGED <<wgen, recheck_queue, queues, hand, found>>

\* ddca_start_watch_displays passes the gate.
CallStart(c) ==
  /\ pc[c] = "idle" /\ ~exiting /\ ~api_quiesced
  /\ Goto(c, "start")
  /\ UNCHANGED <<watch_thread_mutex, threads, pair, refs, resume, api_quiesced, aborted, past>>

\* It starts the threads, or returns DDCRC_INVALID_OPERATION.
Start(c) ==
  /\ pc[c] = "start"
  /\ watch_thread_mutex = NoThread
  /\ Goto(c, "idle")
  /\ IF MayStart THEN StartThreads ELSE UNCHANGED <<threads, pair>>
  /\ UNCHANGED <<watch_thread_mutex, refs, resume, api_quiesced, aborted, past>>
----------------------------------------------------------------------------
(***************************************************************************)
(* dw_stop_watch_displays.  The gate does not hold it up.                  *)
(***************************************************************************)
AfterStop(c) == IF c = Redetector THEN "discard" ELSE IF c = Main THEN "exited" ELSE "idle"

CallStop(c) ==
  /\ pc[c] = "idle" /\ ~exiting
  /\ Goto(c, "stop")
  /\ UNCHANGED <<watch_thread_mutex, threads, pair, refs, resume, api_quiesced, aborted, past>>

\* Watching is off: DDCRC_INVALID_OPERATION, which dw_redetect_displays asserts
\* not to happen.
StopNothing(c) ==
  /\ pc[c] = "stop"
  /\ watch_thread_mutex = NoThread
  /\ watch_thread = NoPair
  /\ Goto(c, AfterStop(c))
  /\ aborted' = (c = Redetector)
  /\ UNCHANGED <<watch_thread_mutex, threads, pair, refs, resume, api_quiesced, past>>

\* The threads are told to end, and the stop waits for them.
StopAndWait(c) ==
  /\ pc[c] = "stop"
  /\ watch_thread_mutex = NoThread
  /\ watch_thread # NoPair
  /\ watch_thread_mutex' = c
  /\ terminate_watch_thread' = TRUE
  /\ Goto(c, "join_watch")
  /\ UNCHANGED <<watch_thread, started, pair, refs, resume, api_quiesced, aborted, past>>

\* A client may choose not to wait: the threads are told, and forgotten.
StopOnly(c) ==
  /\ pc[c] = "stop" /\ c \in Clients
  /\ watch_thread_mutex = NoThread
  /\ watch_thread # NoPair
  /\ terminate_watch_thread' = TRUE
  /\ watch_thread' = NoPair
  /\ hurried' = TRUE
  /\ Goto(c, "idle")
  /\ UNCHANGED <<watch_thread_mutex, started, pair, refs, resume, api_quiesced, aborted,
                 gave_up, exiting>>

\* Fault: the stop does not wait for the watch thread to end.
JoinWatch_anyway(c) ==
  /\ pc[c] = "join_watch"
  /\ Goto(c, "join_recheck")
  /\ UNCHANGED <<watch_thread_mutex, threads, pair, refs, resume, api_quiesced, aborted, past>>

\* g_thread_join(watch_thread)
JoinWatch(c) ==
  /\ pc[c] = "join_watch"
  /\ wpc[watch_thread] = "done"
  /\ Goto(c, "join_recheck")
  /\ UNCHANGED <<watch_thread_mutex, threads, pair, refs, resume, api_quiesced, aborted, past>>

\* Fault: the stop does not wait for the recheck thread to end.
JoinRecheck_anyway(c) ==
  /\ pc[c] = "join_recheck"
  /\ watch_thread' = NoPair
  /\ watch_thread_mutex' = NoThread
  /\ Goto(c, AfterStop(c))
  /\ UNCHANGED <<terminate_watch_thread, started, pair, refs, resume, api_quiesced, aborted, past>>

\* g_thread_join(recheck_thread), and the rest of the stop.
JoinRecheck(c) ==
  /\ pc[c] = "join_recheck"
  /\ rpc[watch_thread] = "done"
  /\ watch_thread' = NoPair
  /\ watch_thread_mutex' = NoThread
  /\ Goto(c, AfterStop(c))
  /\ UNCHANGED <<terminate_watch_thread, started, pair, refs, resume, api_quiesced, aborted, past>>
----------------------------------------------------------------------------
(***************************************************************************)
(* ddca_redetect_displays and dw_redetect_displays                         *)
(***************************************************************************)
\* quiesce_api: whether it gave up on a call that is past the gate.
Quiesce ==
  /\ pc[Redetector] = "idle" /\ ~exiting
  /\ live < MaxRedetects
  /\ api_quiesced' = TRUE
  /\ gave_up' = (gave_up \/ \E c \in Clients : pc[c] = "start")
  /\ Goto(Redetector, "active")
  /\ UNCHANGED <<watch_thread_mutex, threads, pair, refs, resume, aborted, hurried, exiting>>

\* dw_get_active_watch_classes: stop the threads if there are any.
GetActive ==
  /\ pc[Redetector] = "active"
  /\ watch_thread_mutex = NoThread
  /\ resume' = (watch_thread # NoPair)
  /\ Goto(Redetector, IF watch_thread # NoPair THEN "stop" ELSE "discard")
  /\ UNCHANGED <<watch_thread_mutex, threads, pair, refs, api_quiesced, aborted, past>>

\* ddc_discard_detected_displays
Discard ==
  /\ pc[Redetector] = "discard"
  /\ refs_up' = FALSE
  /\ Goto(Redetector, "detect")
  /\ UNCHANGED <<watch_thread_mutex, threads, pair, live, resume, api_quiesced, aborted, past>>

\* i2c_detect_buses, ddc_detect_all_displays
Detect ==
  /\ pc[Redetector] = "detect"
  /\ refs_up' = TRUE
  /\ live' = live + 1
  /\ Goto(Redetector, IF resume THEN "restart" ELSE "unquiesce")
  /\ UNCHANGED <<watch_thread_mutex, threads, pair, resume, api_quiesced, aborted, past>>

\* The start with the same classes, which is asserted not to fail.
Restart ==
  /\ pc[Redetector] = "restart"
  /\ watch_thread_mutex = NoThread
  /\ Goto(Redetector, "unquiesce")
  /\ IF MayStart THEN StartThreads /\ UNCHANGED aborted
                 ELSE aborted' = TRUE /\ UNCHANGED <<threads, pair>>
  /\ UNCHANGED <<watch_thread_mutex, refs, resume, api_quiesced, past>>

Unquiesce ==
  /\ pc[Redetector] = "unquiesce"
  /\ api_quiesced' = FALSE
  /\ Goto(Redetector, "idle")
  /\ UNCHANGED <<watch_thread_mutex, threads, pair, refs, resume, aborted, past>>
----------------------------------------------------------------------------
\* _ddca_terminate: the references are discarded, then watching is stopped
\* if dw_is_watch_displays_executing, which looks without the mutex.
Exit ==
  /\ pc[Main] = "idle"
  /\ exiting' = TRUE
  /\ refs_up' = FALSE
  /\ Goto(Main, IF watch_thread # NoPair THEN "stop" ELSE "exited")
  /\ UNCHANGED <<watch_thread_mutex, threads, pair, live, resume, api_quiesced, aborted,
                 hurried, gave_up>>
----------------------------------------------------------------------------
(***************************************************************************)
(* The watch thread (dw_poll.c)                                            *)
(***************************************************************************)
\* The wait for all_i2c_buses, which does not look at the flag.
WatchReady(p) ==
  /\ wpc[p] = "startup"
  /\ refs_up
  /\ wpc' = [wpc EXCEPT ![p] = "sleeping"]
  /\ UNCHANGED <<rpc, wgen, recheck_queue, queues, hand, found>>

\* A pass begins; process_event_mutex keeps out the pass of another thread.
BeginPass(p) ==
  /\ wpc[p] = "sleeping"
  /\ ~terminate_watch_thread
  /\ \A q \in Pairs : wpc[q] # "pass"
  /\ wpc' = [wpc EXCEPT ![p] = "pass"]
  /\ wgen' = [wgen EXCEPT ![p] = live]
  /\ UNCHANGED <<rpc, recheck_queue, queues, hand, found>>

\* dw_put_recheck_queue: the entry goes to the queue the variable points to; with no
\* queue yet g_async_queue_push refuses it.
PutRecheckQueue(gen) ==
  IF recheck_queue = NoPair THEN queues
  ELSE [queues EXCEPT ![recheck_queue] = Append(@, gen)]

\* The pass ends, with or without a display whose DDC does not work yet.
EndPass(p) ==
  /\ wpc[p] = "pass"
  /\ wpc' = [wpc EXCEPT ![p] = "sleeping"]
  /\ wgen' = [wgen EXCEPT ![p] = NoRef]
  /\ \/ UNCHANGED <<queues, found>>
     \/ /\ found < MaxFound
        /\ found' = found + 1
        /\ queues' = PutRecheckQueue(wgen[p])
  /\ UNCHANGED <<rpc, recheck_queue, hand>>

WatchEnds(p) ==
  /\ wpc[p] = "sleeping"
  /\ terminate_watch_thread
  /\ wpc' = [wpc EXCEPT ![p] = "done"]
  /\ UNCHANGED <<rpc, wgen, recheck_queue, queues, hand, found>>
----------------------------------------------------------------------------
(***************************************************************************)
(* The recheck thread (dw_recheck.c)                                       *)
(***************************************************************************)
\* Fault: the queue is created once and kept from one thread to the next.
InitQueue_once(p) ==
  /\ rpc[p] = "startup"
  /\ recheck_queue' = IF recheck_queue = NoPair THEN p ELSE recheck_queue
  /\ rpc' = [rpc EXCEPT ![p] = "waiting"]
  /\ UNCHANGED <<wpc, wgen, queues, hand, found>>

\* init_recheck_queue; the queue of the thread before is leaked.
InitQueue(p) ==
  /\ rpc[p] = "startup"
  /\ recheck_queue' = p
  /\ rpc' = [rpc EXCEPT ![p] = "waiting"]
  /\ UNCHANGED <<wpc, wgen, queues, hand, found>>

\* The next entry: the one put back after a failed check, else the first of
\* the queue.  An entry that is too old is dropped in the same loop pass.
Pop(p) ==
  /\ rpc[p] = "waiting"
  /\ ~terminate_watch_thread
  /\ IF hand[p] # NoRef
     THEN UNCHANGED <<hand, queues>>
     ELSE /\ queues[recheck_queue] # <<>>
          /\ hand' = [hand EXCEPT ![p] = Head(queues[recheck_queue])]
          /\ queues' = [queues EXCEPT ![recheck_queue] = Tail(@)]
  /\ rpc' = [rpc EXCEPT ![p] = "checking"]
  /\ UNCHANGED <<wpc, wgen, recheck_queue, found>>

\* dw_recheck_dref has answered: the entry is done with, or tried again.
Checked(p) ==
  /\ rpc[p] = "checking"
  /\ rpc' = [rpc EXCEPT ![p] = "waiting"]
  /\ hand' = [hand EXCEPT ![p] = NoRef] \/ UNCHANGED hand
  /\ UNCHANGED <<wpc, wgen, recheck_queue, queues, found>>

\* Fault: the wait for an entry does not look at the flag.
MayLeave_withEntry(p) == rpc[p] = "waiting" /\ hand[p] # NoRef

\* The wait looks at the flag whether or not there is an entry.
MayLeave(p) == rpc[p] = "waiting"

RecheckSeesFlag(p) ==
  /\ MayLeave(p)
  /\ terminate_watch_thread
  /\ rpc' = [rpc EXCEPT ![p] = "leaving"]
  /\ UNCHANGED <<wpc, wgen, recheck_queue, queues, hand, found>>

\* If the flag is still set, what is left on the queue is dropped.  Entries put
\* back stay in the thread's own list, and are lost with it.
RecheckEnds(p) ==
  /\ rpc[p] = "leaving"
  /\ queues' = IF terminate_watch_thread
               THEN [queues EXCEPT ![recheck_queue] = <<>>] ELSE queues
  /\ hand' = [hand EXCEPT ![p] = NoRef]
  /\ rpc' = [rpc EXCEPT ![p] = "done"]
  /\ UNCHANGED <<wpc, wgen, recheck_queue, found>>
----------------------------------------------------------------------------
StopSteps(c) == StopNothing(c) \/ StopAndWait(c) \/ JoinWatch(c) \/ JoinRecheck(c)

ClientNext(c) == CallStart(c) \/ Start(c) \/ CallStop(c) \/ StopOnly(c)

RedetectNext ==
  Quiesce \/ GetActive \/ Discard \/ Detect \/ Restart \/ Unquiesce

WatchNext(p)   == WatchReady(p) \/ BeginPass(p) \/ EndPass(p) \/ WatchEnds(p)
RecheckNext(p) ==
  InitQueue(p) \/ Pop(p) \/ Checked(p) \/ RecheckSeesFlag(p) \/ RecheckEnds(p)

callers == <<watch_thread_mutex, threads, refs, pc, resume, api_quiesced, aborted, past>>

\* After a failed assertion nothing runs any more.
WatchStep(p)   == ~aborted /\ WatchNext(p) /\ UNCHANGED callers
RecheckStep(p) == ~aborted /\ RecheckNext(p) /\ UNCHANGED callers
CallerStep ==
  /\ ~aborted
  /\ \/ \E c \in Clients : ClientNext(c)
     \/ \E c \in Callers : StopSteps(c)
     \/ RedetectNext
     \/ Exit

Next == CallerStep \/ \E p \in Pairs : WatchStep(p) \/ RecheckStep(p)

Spec == Init /\ [][Next]_vars

(***************************************************************************)
(* The threads and a stop that has begun go on.  Whether a pass ends is    *)
(* DisplayWatch's PassEnds.  Nobody has to start, stop, redetect or exit.  *)
(***************************************************************************)
FairSpec ==
  /\ Spec
  /\ \A p \in Pairs : WF_vars(WatchStep(p)) /\ WF_vars(RecheckStep(p))
  /\ \A c \in Callers : WF_vars(~aborted /\ (JoinWatch(c) \/ JoinRecheck(c)))
  /\ WF_vars(~aborted /\ (Discard \/ Detect))

----------------------------------------------------------------------------
Alive(p) == wpc[p] \notin {"none", "done"} \/ rpc[p] \notin {"none", "done"}

\* As long as every stop waits, one pair of threads runs at a time, and it is the
\* one recorded: dw_start_watch_displays never doubles what runs, and a stop
\* leaves nothing behind.
OnePair == ~hurried => \A p \in Pairs : Alive(p) => watch_thread = p

\* If besides no call to start slipped past quiesce_api, then neither thread
\* works on display references that are being replaced or were freed.  (At
\* exit they are freed first: see README.)
NoStaleUse ==
  ~hurried /\ ~gave_up /\ ~exiting =>
    \A p \in Pairs :
      /\ wpc[p] = "pass" => refs_up /\ wgen[p] = live
      /\ rpc[p] = "checking" => refs_up /\ hand[p] = live

\* Nor will they: whatever the recheck thread of a pair can still reach, in
\* its hand or on the queue it reads, are references of the present generation.
QueueIsLive ==
  ~hurried /\ ~gave_up /\ refs_up =>
    \A p \in Pairs :
      rpc[p] \in {"waiting", "checking"} =>
        /\ hand[p] \in {NoRef, live}
        /\ \A i \in DOMAIN queues[recheck_queue] : queues[recheck_queue][i] = live

\* A stop that waits returns, unless the buses were discarded under a watch
\* thread that has just begun: it waits for them and ignores the flag.
StopReturns ==
  \A c \in Callers :
    pc[c] \in {"join_watch", "join_recheck"} ~>
      pc[c] \notin {"join_watch", "join_recheck"} \/ exiting \/ aborted

(***************************************************************************)
(* Contradicted by the code                                                *)
(***************************************************************************)
\* dw_stop_watch_displays "Halts threads that watch for changes in display
\* connection status": a thread that was told to end, and is forgotten, does.
StopHalts ==
  \A p \in Pairs :
    Alive(p) /\ watch_thread # p ~> ~Alive(p) \/ exiting \/ aborted
=============================================================================
