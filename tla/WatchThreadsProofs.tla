------------------------- MODULE WatchThreadsProofs -------------------------
(***************************************************************************)
(* Proofs about WatchThreads, for any number of clients, of starts and of  *)
(* redetections.                                                           *)
(***************************************************************************)
EXTENDS WatchThreads, SequenceTheorems, TLAPS

Joins == {"join_watch", "join_recheck"}

\* Which steps are whose.
OwnSteps ==
  /\ \A c \in Clients : pc[c] \in {"idle", "start", "stop"} \cup Joins
  /\ pc[Redetector] \in CallSteps \ {"start", "exited"}
  /\ pc[Main] \in {"idle", "stop", "exited"} \cup Joins

\* A stop that waits keeps the mutex, so the pair it waits for stays recorded.
StopHoldsMutex ==
  \A c \in Callers :
    /\ pc[c] \in Joins <=> watch_thread_mutex = c
    /\ pc[c] \in Joins => watch_thread # NoPair
    /\ pc[c] = "join_recheck" => wpc[watch_thread] = "done"

\* Pairs are started in order, each once.
InOrder ==
  /\ watch_thread <= started
  /\ \A p \in Pairs :
       /\ p > started => wpc[p] = "none" /\ rpc[p] = "none"
       /\ wpc[p] = "pass" => wgen[p] \in Gens

\* What init_recheck_queue makes: the variable names the queue of the recheck
\* thread that came last, and nothing is on a queue before it is made.
QueueMade ==
  /\ \A p \in Pairs :
       /\ rpc[p] \in {"none", "startup"} =>
            recheck_queue # p /\ queues[p] = <<>> /\ hand[p] = NoRef
       /\ rpc[p] \in {"waiting", "checking", "leaving"} => recheck_queue # NoPair
  /\ recheck_queue <= started

\* The gate is closed during a redetection; the display references are away
\* between discarding and detecting them, and at exit.
Gate ==
  /\ api_quiesced <=> pc[Redetector] # "idle"
  /\ pc[Redetector] \notin {"idle", "restart", "unquiesce"} => live < MaxRedetects
  /\ ~exiting => (refs_up <=> pc[Redetector] # "detect")

\* As long as every stop waits: the queue is that of the pair that runs.
OneQueue ==
  ~hurried => \A p \in Pairs :
    rpc[p] \in {"waiting", "checking", "leaving"} => recheck_queue = p

\* As long as no start slips past quiesce_api, none comes in between.
Shut ==
  ~gave_up /\ pc[Redetector] # "idle" =>
    /\ \A c \in Clients : pc[c] # "start"
    /\ pc[Redetector] \in {"discard", "detect"} => watch_thread = NoPair

\* As long as both hold: what the threads can reach is of this generation.
Fresh ==
  ~hurried /\ ~gave_up => \A p \in Pairs :
    /\ wpc[p] = "pass" => wgen[p] = live
    /\ rpc[p] = "checking" => hand[p] = live
    /\ rpc[p] = "waiting" => hand[p] \in {NoRef, live}
    /\ rpc[p] \in {"waiting", "checking"} =>
         \A i \in 1..Len(queues[p]) : queues[p][i] = live

IInv ==
  /\ TypeOK
  /\ OwnSteps
  /\ StopHoldsMutex
  /\ InOrder
  /\ QueueMade
  /\ Gate
  /\ OnePair
  /\ OneQueue
  /\ Shut
  /\ Fresh
Rest ==
  /\ OwnSteps
  /\ StopHoldsMutex
  /\ InOrder
  /\ QueueMade
  /\ Gate
  /\ OnePair
  /\ OneQueue
  /\ Shut
----------------------------------------------------------------------------
(* dw_put_recheck_queue adds to the queue the variable names, and to no    *)
(* other.                                                                  *)
LEMMA PutAdds ==
  ASSUME IInv, NEW gen \in Gens
  PROVE  /\ PutRecheckQueue(gen) \in [Pairs -> Seq(Gens)]
         /\ \A q \in Pairs :
              \/ PutRecheckQueue(gen)[q] = queues[q]
              \/ q = recheck_queue /\ PutRecheckQueue(gen)[q] = Append(queues[q], gen)
<1>1. queues \in [Pairs -> Seq(Gens)] /\ recheck_queue \in Pairs \cup {NoPair}
  BY DEF IInv, TypeOK
<1>2. CASE recheck_queue = NoPair
  BY <1>1, <1>2 DEF PutRecheckQueue
<1>3. CASE recheck_queue # NoPair
  <2>1. Append(queues[recheck_queue], gen) \in Seq(Gens)
    BY <1>1, <1>3
  <2> QED
    BY <1>1, <1>3, <2>1 DEF PutRecheckQueue
<1> QED
  BY <1>2, <1>3

(* So does the end of a pass, if at all, with the generation it worked on. *)
LEMMA EndPassPuts ==
  ASSUME IInv, NEW p \in Pairs, EndPass(p)
  PROVE  /\ wgen[p] \in Gens
         /\ queues' \in [Pairs -> Seq(Gens)]
         /\ \A q \in Pairs :
              \/ queues'[q] = queues[q]
              \/ q = recheck_queue /\ queues'[q] = Append(queues[q], wgen[p])
<1>1. wgen[p] \in Gens
  BY DEF IInv, InOrder, EndPass
<1>2. queues' = queues \/ queues' = PutRecheckQueue(wgen[p])
  BY DEF EndPass
<1>3. queues \in [Pairs -> Seq(Gens)]
  BY DEF IInv, TypeOK
<1> QED
  BY <1>1, <1>2, <1>3, PutAdds

(* The steps of a watch thread.  A pass works on the generation it began   *)
(* with, and puts entries of that generation on the queue.                 *)
LEMMA WatchKeepsTypes ==
  ASSUME IInv, NEW p \in Pairs, WatchStep(p)
  PROVE  TypeOK'
<1> USE WatchThreadsAssumption
    DEF IInv, TypeOK, WatchSteps, Pairs, Gens, NoRef, NoPair, InOrder, WatchStep, callers,
        threads, refs, past
<1>1. CASE WatchReady(p)
  BY <1>1 DEF WatchReady
<1>2. CASE BeginPass(p)
  BY <1>2 DEF BeginPass
<1>3. CASE EndPass(p)
  <2>1. queues' \in [Pairs -> Seq(Gens)]
    BY <1>3, EndPassPuts
  <2> QED
    BY <1>3, <2>1, SMTT(30) DEF EndPass
<1>4. CASE WatchEnds(p)
  BY <1>4 DEF WatchEnds
<1> QED
  BY <1>1, <1>2, <1>3, <1>4 DEF WatchNext

(* They neither move the callers nor name another queue, and only          *)
(* WatchEnds and WatchReady change which pairs are alive.                  *)
LEMMA WatchKeepsRest ==
  ASSUME IInv, NEW p \in Pairs, WatchStep(p)
  PROVE  Rest'
<1> USE WatchThreadsAssumption
    DEF IInv, TypeOK, Pairs, Gens, NoRef, NoPair, WatchStep, callers, threads, refs, past,
        Joins, Alive, OwnSteps, StopHoldsMutex, InOrder, QueueMade, Gate, OnePair, OneQueue,
        Shut, Rest, WatchSteps
<1>1. CASE WatchReady(p)
  BY <1>1, SMTT(30) DEF WatchReady
<1>2. CASE BeginPass(p)
  <2>1. /\ wpc[p] = "sleeping" /\ wpc' = [wpc EXCEPT ![p] = "pass"]
        /\ wgen' = [wgen EXCEPT ![p] = live]
        /\ UNCHANGED <<rpc, recheck_queue, queues, hand, found>>
    BY <1>2 DEF BeginPass
  <2>2. InOrder'
    BY <2>1
  <2>3. StopHoldsMutex' /\ OnePair'
    BY <2>1
  <2> QED
    BY <2>1, <2>2, <2>3
<1>3. CASE EndPass(p)
  <2>1. /\ wpc[p] = "pass" /\ wpc' = [wpc EXCEPT ![p] = "sleeping"]
        /\ wgen' = [wgen EXCEPT ![p] = NoRef]
        /\ UNCHANGED <<rpc, recheck_queue, hand>>
    BY <1>3 DEF EndPass
  <2>2. \A q \in Pairs : queues'[q] = queues[q] \/ q = recheck_queue
    BY <1>3, EndPassPuts
  <2>3. QueueMade'
    BY <2>1, <2>2, ZenonT(60)
  <2>4. InOrder' /\ StopHoldsMutex' /\ OnePair'
    BY <2>1
  <2> QED
    BY <2>1, <2>3, <2>4
<1>4. CASE WatchEnds(p)
  BY <1>4, SMTT(30) DEF WatchEnds
<1> QED
  BY <1>1, <1>2, <1>3, <1>4 DEF WatchNext

(* What a pass puts on the queue is of the generation its pair may see:    *)
(* BeginPass takes the present one, and a redetection finds no pair.       *)
LEMMA WatchKeepsFresh ==
  ASSUME IInv, NEW p \in Pairs, WatchStep(p)
  PROVE  Fresh'
<1> USE WatchThreadsAssumption
    DEF IInv, TypeOK, Pairs, Gens, NoRef, NoPair, WatchStep, callers, threads, refs, past,
        Fresh, WatchSteps
<1>1. CASE WatchReady(p)
  BY <1>1, SMTT(30) DEF WatchReady
<1>2. CASE BeginPass(p)
  BY <1>2, SMTT(30) DEF BeginPass
<1>3. CASE EndPass(p)
  <2>1. /\ wpc[p] = "pass" /\ wpc' = [wpc EXCEPT ![p] = "sleeping"]
        /\ wgen' = [wgen EXCEPT ![p] = NoRef]
        /\ UNCHANGED <<rpc, recheck_queue, hand>>
    BY <1>3 DEF EndPass
  <2>2. wgen[p] \in Gens
    BY <1>3, EndPassPuts
  <2>3. ASSUME ~hurried, ~gave_up, NEW q \in Pairs, rpc[q] \in {"waiting", "checking"}
        PROVE  \A i \in 1..Len(queues'[q]) : queues'[q][i] = live
    <3>1. wgen[p] = live /\ \A i \in 1..Len(queues[q]) : queues[q][i] = live
      BY <2>1, <2>3
    <3>2. queues'[q] = queues[q] \/ queues'[q] = Append(queues[q], live)
      BY <1>3, <3>1, EndPassPuts
    <3>3. queues[q] \in Seq(Gens)
      OBVIOUS
    <3>4. live \in Gens
      OBVIOUS
    <3> HIDE DEF Fresh, TypeOK, Gens, Pairs
    <3>5. CASE queues'[q] = queues[q]
      BY <3>1, <3>5
    <3>6. CASE queues'[q] = Append(queues[q], live)
      <4>1. /\ Len(queues'[q]) = Len(queues[q]) + 1 /\ Len(queues[q]) \in Nat
            /\ \A i \in 1..Len(queues[q]) : queues'[q][i] = queues[q][i]
            /\ queues'[q][Len(queues[q]) + 1] = live
        BY <3>3, <3>4, <3>6, AppendProperties
      <4> QED
        BY <3>1, <4>1
    <3> QED
      BY <3>2, <3>5, <3>6
  <2> QED
    BY <2>1, <2>3
<1>4. CASE WatchEnds(p)
  BY <1>4, SMTT(30) DEF WatchEnds
<1> QED
  BY <1>1, <1>2, <1>3, <1>4 DEF WatchNext
----------------------------------------------------------------------------
(* What taking an entry does: it is the entry put back, or the first of    *)
(* the queue the variable names.                                           *)
LEMMA PopTakes ==
  ASSUME IInv, NEW p \in Pairs, Pop(p)
  PROVE  /\ recheck_queue \in Pairs
         /\ queues' \in [Pairs -> Seq(Gens)] /\ hand' \in [Pairs -> Gens \cup {NoRef}]
         /\ \A q \in Pairs : hand'[q] = hand[q] \/ q = p
         /\ \A q \in Pairs : queues'[q] = queues[q] \/ q = recheck_queue
         /\ \/ hand'[p] = hand[p] /\ hand[p] # NoRef /\ queues' = queues
            \/ /\ Len(queues[recheck_queue]) > 0
               /\ hand'[p] = queues[recheck_queue][1]
               /\ queues'[recheck_queue] = Tail(queues[recheck_queue])
<1> DEFINE queue == queues[recheck_queue]
<1>1. /\ queues \in [Pairs -> Seq(Gens)] /\ hand \in [Pairs -> Gens \cup {NoRef}]
      /\ recheck_queue \in Pairs
  BY DEF IInv, TypeOK, QueueMade, Pop
<1>2. CASE hand[p] # NoRef
  BY <1>1, <1>2 DEF Pop
<1>3. CASE hand[p] = NoRef
  <2>1. queue # <<>> /\ hand' = [hand EXCEPT ![p] = Head(queue)]
        /\ queues' = [queues EXCEPT ![recheck_queue] = Tail(queue)]
    BY <1>3 DEF Pop
  <2>2. queue \in Seq(Gens)
    BY <1>1
  <2>3. /\ Head(queue) \in Gens /\ Tail(queue) \in Seq(Gens)
        /\ Head(queue) = queue[1] /\ Len(queue) > 0
    BY <2>1, <2>2
  <2> QED
    BY <1>1, <2>1, <2>3
<1> QED
  BY <1>2, <1>3

(* The steps of a recheck thread.                                          *)
LEMMA RecheckKeepsTypes ==
  ASSUME IInv, NEW p \in Pairs, RecheckStep(p)
  PROVE  TypeOK'
<1> USE WatchThreadsAssumption
    DEF IInv, TypeOK, RecheckSteps, Pairs, Gens, NoRef, NoPair, QueueMade, RecheckStep,
        callers, threads, refs, past
<1>1. CASE InitQueue(p)
  BY <1>1 DEF InitQueue
<1>2. CASE Pop(p)
  <2>1. queues' \in [Pairs -> Seq(Gens)] /\ hand' \in [Pairs -> Gens \cup {NoRef}]
    BY <1>2, PopTakes
  <2> QED
    BY <1>2, <2>1 DEF Pop
<1>3. CASE Checked(p)
  BY <1>3 DEF Checked
<1>4. CASE RecheckSeesFlag(p)
  BY <1>4 DEF RecheckSeesFlag
<1>5. CASE RecheckEnds(p)
  BY <1>5 DEF RecheckEnds
<1> QED
  BY <1>1, <1>2, <1>3, <1>4, <1>5 DEF RecheckNext

(* InitQueue renames the queue variable; with one pair alive that is the   *)
(* pair which then takes from it.                                          *)
LEMMA RecheckKeepsRest ==
  ASSUME IInv, NEW p \in Pairs, RecheckStep(p)
  PROVE  Rest'
<1>1. /\ rpc[p] \notin {"none", "done"}
      /\ \A q \in Pairs : rpc'[q] = rpc[q] \/ q = p
      /\ UNCHANGED <<wpc, wgen, callers>>
  BY DEF RecheckStep, RecheckNext, InitQueue, Pop, Checked, RecheckSeesFlag, MayLeave,
         RecheckEnds, IInv, TypeOK
<1>2. OwnSteps' /\ StopHoldsMutex' /\ Gate' /\ Shut'
  BY <1>1 DEF IInv, OwnSteps, StopHoldsMutex, Gate, Shut, callers, threads, refs, past
<1>3. OnePair'
  BY <1>1 DEF IInv, OnePair, Alive, callers, threads, past
<1>4. InOrder'
  <2>1. p <= started
    BY <1>1 DEF IInv, InOrder, TypeOK, Pairs
  <2>2. recheck_queue' = recheck_queue \/ recheck_queue' = p
    BY DEF RecheckStep, RecheckNext, InitQueue, Pop, Checked, RecheckSeesFlag, RecheckEnds
  <2> QED
    BY <1>1, <2>1 DEF IInv, InOrder, TypeOK, Pairs, callers, threads
<1>5. QueueMade' /\ OneQueue'
  <2> USE DEF IInv, TypeOK, QueueMade, OneQueue, callers, threads, past, NoPair, Pairs,
              RecheckSteps
  <2>1. CASE InitQueue(p)
    <3>1. /\ rpc[p] = "startup" /\ rpc' = [rpc EXCEPT ![p] = "waiting"]
          /\ recheck_queue' = p /\ UNCHANGED <<queues, hand>>
      BY <2>1 DEF InitQueue
    <3>2. p <= started /\ p # NoPair
      BY <3>1, WatchThreadsAssumption DEF InOrder
    <3>3. QueueMade'
      BY <1>1, <3>1, <3>2
    <3>4. ASSUME ~hurried, NEW q \in Pairs \ {p}
          PROVE  rpc[q] \notin {"waiting", "checking", "leaving"}
      BY <3>1, <3>4 DEF OnePair, Alive
    <3>5. OneQueue'
      BY <1>1, <3>1, <3>4
    <3> QED
      BY <3>3, <3>5
  <2>2. CASE Pop(p)
    <3>1. rpc[p] = "waiting" /\ rpc' = [rpc EXCEPT ![p] = "checking"]
          /\ recheck_queue' = recheck_queue
      BY <2>2 DEF Pop
    <3> QED
      BY <1>1, <2>2, <3>1, PopTakes
  <2>3. CASE Checked(p) \/ RecheckSeesFlag(p)
    <3>1. /\ rpc[p] \in {"waiting", "checking"}
          /\ rpc' = [rpc EXCEPT ![p] = "waiting"] \/ rpc' = [rpc EXCEPT ![p] = "leaving"]
          /\ UNCHANGED <<recheck_queue, queues>>
          /\ \A q \in Pairs \ {p} : hand'[q] = hand[q]
      BY <2>3 DEF Checked, RecheckSeesFlag, MayLeave
    <3> QED
      BY <1>1, <3>1
  <2>4. CASE RecheckEnds(p)
    <3>1. /\ rpc[p] = "leaving" /\ rpc' = [rpc EXCEPT ![p] = "done"]
          /\ UNCHANGED recheck_queue /\ \A q \in Pairs \ {p} : hand'[q] = hand[q]
          /\ \A q \in Pairs : queues'[q] = queues[q] \/ queues'[q] = <<>>
      BY <2>4 DEF RecheckEnds
    <3> QED
      BY <1>1, <3>1
  <2> QED
    BY <2>1, <2>2, <2>3, <2>4 DEF RecheckStep, RecheckNext
<1> QED
  BY <1>2, <1>3, <1>4, <1>5 DEF Rest

(* What a recheck thread takes is of the generation of its queue.          *)
LEMMA RecheckKeepsFresh ==
  ASSUME IInv, NEW p \in Pairs, RecheckStep(p)
  PROVE  Fresh'
<1> USE WatchThreadsAssumption
    DEF IInv, TypeOK, Pairs, Gens, NoRef, NoPair, RecheckStep, callers, threads, refs,
        past, OneQueue, QueueMade, Fresh, RecheckSteps
<1>1. CASE InitQueue(p)
  <2>1. /\ rpc[p] = "startup" /\ rpc' = [rpc EXCEPT ![p] = "waiting"]
        /\ UNCHANGED <<wpc, wgen, queues, hand>>
        /\ queues[p] = <<>> /\ hand[p] = NoRef
    BY <1>1 DEF InitQueue
  <2>2. \A i \in 1..Len(queues[p]) : queues[p][i] = live
    BY <2>1
  <2>3. \A q \in Pairs \ {p} : rpc'[q] = rpc[q]
    BY <2>1
  <2>4. rpc'[p] = "waiting" /\ ~hurried' = ~hurried /\ ~gave_up' = ~gave_up /\ live' = live
    BY <2>1
  <2> QED
    BY <2>1, <2>2, <2>3, <2>4, ZenonT(60) DEF Fresh
<1>2. CASE Pop(p)
  <2>1. /\ rpc[p] = "waiting" /\ rpc' = [rpc EXCEPT ![p] = "checking"]
        /\ UNCHANGED <<wpc, wgen>>
    BY <1>2 DEF Pop
  <2>2. ASSUME ~hurried, ~gave_up PROVE recheck_queue = p
    BY <2>1, <2>2
  <2>3. ASSUME ~hurried, ~gave_up PROVE hand'[p] = live
    <3>1. /\ hand[p] \in {NoRef, live} /\ queues[p] \in Seq(Gens)
          /\ \A i \in 1..Len(queues[p]) : queues[p][i] = live
      BY <2>1, <2>3
    <3>2. \/ hand'[p] = hand[p] /\ hand[p] # NoRef
          \/ Len(queues[p]) > 0 /\ hand'[p] = queues[p][1]
      BY <1>2, <2>2, <2>3, PopTakes
    <3>3. Len(queues[p]) > 0 => 1 \in 1..Len(queues[p])
      BY <3>1
    <3> QED
      BY <3>1, <3>2, <3>3
  <2>4. ASSUME ~hurried, ~gave_up, NEW i \in 1..Len(queues'[p]) PROVE queues'[p][i] = live
    <3>1. queues[p] \in Seq(Gens) /\ \A j \in 1..Len(queues[p]) : queues[p][j] = live
      BY <2>1, <2>4
    <3>2. queues'[p] = queues[p] \/ (queues'[p] = Tail(queues[p]) /\ Len(queues[p]) > 0)
      BY <1>2, <2>2, <2>4, PopTakes
    <3>3. CASE queues'[p] = queues[p]
      BY <2>4, <3>1, <3>3
    <3>4. CASE queues'[p] = Tail(queues[p]) /\ Len(queues[p]) > 0
      <4>1. queues[p] # <<>>
        BY <3>4
      <4>2. /\ Len(Tail(queues[p])) = Len(queues[p]) - 1
            /\ \A j \in 1..Len(Tail(queues[p])) : Tail(queues[p])[j] = queues[p][j + 1]
        BY <3>1, <4>1, HeadTailProperties
      <4>3. i \in 1..Len(Tail(queues[p])) /\ i + 1 \in 1..Len(queues[p])
        BY <2>4, <3>1, <3>4, <4>2
      <4> QED
        BY <3>1, <3>4, <4>2, <4>3
    <3> QED
      BY <3>2, <3>3, <3>4
  <2>5. \A q \in Pairs \ {p} : hand'[q] = hand[q]
    BY <1>2, PopTakes
  <2>6. ASSUME ~hurried, ~gave_up, NEW q \in Pairs \ {p} PROVE queues'[q] = queues[q]
    BY <1>2, <2>2, <2>6, PopTakes
  <2> QED
    BY <2>1, <2>3, <2>4, <2>5, <2>6
<1>3. CASE Checked(p)
  BY <1>3, SMTT(30) DEF Checked
<1>4. CASE RecheckSeesFlag(p)
  BY <1>4, SMTT(30) DEF RecheckSeesFlag, MayLeave
<1>5. CASE RecheckEnds(p)
  BY <1>5, SMTT(30) DEF RecheckEnds
<1> QED
  BY <1>1, <1>2, <1>3, <1>4, <1>5 DEF RecheckNext
----------------------------------------------------------------------------
\* What the starting and stopping threads leave alone.
Untouched == UNCHANGED <<wgen, recheck_queue, queues, hand, found>>

(* The body of a start: the next pair begins, with no queue yet.           *)
LEMMA StartThreadsEffect ==
  ASSUME IInv, MayStart, StartThreads
  PROVE  /\ started + 1 \in Pairs /\ started' = started + 1 /\ watch_thread' = started + 1
         /\ wpc' = [wpc EXCEPT ![started + 1] = "startup"]
         /\ rpc' = [rpc EXCEPT ![started + 1] = "startup"]
         /\ wpc[started + 1] = "none" /\ rpc[started + 1] = "none"
         /\ terminate_watch_thread' = FALSE
         /\ Untouched
BY WatchThreadsAssumption DEF IInv, TypeOK, InOrder, MayStart, StartThreads, Untouched, Pairs

(* Starting, stopping, redetecting and ending keep the types.              *)
LEMMA CallersKeepTypes ==
  ASSUME IInv, CallerStep
  PROVE  TypeOK'
<1> USE WatchThreadsAssumption
    DEF IInv, TypeOK, Callers, CallSteps, WatchSteps, RecheckSteps, Goto, threads, pair,
        refs, past
<1>1. ASSUME MayStart, StartThreads,
             UNCHANGED <<watch_thread_mutex, refs, resume, api_quiesced, past>>,
             pc' \in [Callers -> CallSteps], aborted' \in BOOLEAN
      PROVE  TypeOK'
  <2>1. /\ started' \in 0..MaxPairs /\ watch_thread' \in Pairs
        /\ terminate_watch_thread' \in BOOLEAN /\ Untouched
    <3>1. /\ started + 1 \in Pairs /\ started' = started + 1 /\ watch_thread' = started + 1
          /\ terminate_watch_thread' = FALSE /\ Untouched
      BY <1>1, StartThreadsEffect
    <3>2. started + 1 \in 0..MaxPairs
      BY <3>1 DEF Pairs
    <3> QED
      BY <3>1, <3>2
  <2>2. wpc' \in [Pairs -> WatchSteps] /\ rpc' \in [Pairs -> RecheckSteps]
    BY <1>1, StartThreadsEffect
  <2> QED
    BY <1>1, <2>1, <2>2 DEF Untouched
<1>2. ASSUME NEW c \in Clients, ClientNext(c) PROVE TypeOK'
  <2>1. CASE CallStart(c) \/ CallStop(c)
    BY <2>1, ZenonT(60) DEF CallStart, CallStop
  <2>2. CASE Start(c)
    BY <1>1, <2>2, ZenonT(60) DEF Start
  <2>3. CASE StopOnly(c)
    BY <2>3 DEF StopOnly
  <2> QED
    BY <1>2, <2>1, <2>2, <2>3 DEF ClientNext
<1>3. ASSUME NEW c \in Callers, StopSteps(c) PROVE TypeOK'
  <2>1. AfterStop(c) \in CallSteps
    BY DEF AfterStop
  <2>2. CASE StopNothing(c)
    BY <2>1, <2>2 DEF StopNothing
  <2>3. CASE StopAndWait(c) \/ JoinWatch(c)
    <3>1. pc' \in [Callers -> CallSteps]
      BY <2>3 DEF StopAndWait, JoinWatch
    <3>2. watch_thread_mutex' \in Callers \cup {NoThread} /\ terminate_watch_thread' \in BOOLEAN
      BY <2>3 DEF StopAndWait, JoinWatch
    <3>3. UNCHANGED <<watch_thread, started, pair, refs, resume, api_quiesced, aborted, past>>
      BY <2>3 DEF StopAndWait, JoinWatch
    <3> QED
      BY <3>1, <3>2, <3>3
  <2>4. CASE JoinRecheck(c)
    BY <2>1, <2>4 DEF JoinRecheck
  <2> QED
    BY <1>3, <2>2, <2>3, <2>4 DEF StopSteps
<1>4. ASSUME RedetectNext PROVE TypeOK'
  <2>1. CASE Quiesce
    BY <2>1 DEF Quiesce
  <2>2. CASE GetActive
    <3>1. resume' \in BOOLEAN
      BY <2>2, Zenon DEF GetActive
    <3>2. pc' \in [Callers -> CallSteps]
      BY <2>2 DEF GetActive
    <3> QED
      BY <2>2, <3>1, <3>2 DEF GetActive
  <2>5. CASE Discard \/ Unquiesce
    <3>1. pc' \in [Callers -> CallSteps]
      BY <2>5 DEF Discard, Unquiesce
    <3>2. refs_up' \in BOOLEAN /\ api_quiesced' \in BOOLEAN
      BY <2>5 DEF Discard, Unquiesce
    <3>3. UNCHANGED <<watch_thread_mutex, threads, pair, live, resume, aborted, past>>
      BY <2>5 DEF Discard, Unquiesce
    <3> QED
      BY <3>1, <3>2, <3>3
  <2>3. CASE Detect
    <3>1. live + 1 \in Gens
      BY <2>3 DEF Detect, Gate, Gens
    <3> QED
      BY <2>3, <3>1 DEF Detect
  <2>4. CASE Restart
    BY <1>1, <2>4, ZenonT(60) DEF Restart
  <2> QED
    BY <1>4, <2>1, <2>2, <2>3, <2>4, <2>5 DEF RedetectNext
<1>5. CASE Exit
  BY <1>5, ZenonT(60) DEF Exit
<1> QED
  BY <1>2, <1>3, <1>4, <1>5 DEF CallerStep

(* What a start keeps: the pair before has ended, so the one that begins   *)
(* is alone, and its queue is not made yet.                                *)
LEMMA StartKeeps ==
  ASSUME IInv, MayStart, StartThreads, watch_thread_mutex = NoThread,
         UNCHANGED <<watch_thread_mutex, refs, past>>
  PROVE  InOrder' /\ QueueMade' /\ OnePair' /\ OneQueue' /\ Fresh'
<1>1. /\ started + 1 \in Pairs /\ started' = started + 1 /\ watch_thread' = started + 1
      /\ wpc' = [wpc EXCEPT ![started + 1] = "startup"]
      /\ rpc' = [rpc EXCEPT ![started + 1] = "startup"]
      /\ wpc[started + 1] = "none" /\ rpc[started + 1] = "none"
      /\ Untouched
  BY StartThreadsEffect
<1> USE DEF IInv, TypeOK, Untouched, Pairs, NoPair, refs, past
<1>2. InOrder'
  BY <1>1 DEF InOrder
<1>3. QueueMade'
  BY <1>1 DEF QueueMade
<1>4. OnePair'
  BY <1>1 DEF OnePair, Alive, MayStart
<1>5. OneQueue'
  BY <1>1 DEF OneQueue
<1>6. Fresh'
  BY <1>1 DEF Fresh
<1> QED
  BY <1>2, <1>3, <1>4, <1>5, <1>6

\* A step of a caller that neither starts threads nor detects displays.
Inert ==
  /\ UNCHANGED <<started, pair, live>>
  /\ watch_thread' = watch_thread \/ watch_thread' = NoPair
  /\ hurried => hurried'
  /\ gave_up => gave_up'

(* Such a step leaves the threads and their queues as they were.           *)
LEMMA InertKeeps ==
  ASSUME IInv, Inert
  PROVE  InOrder' /\ QueueMade' /\ OneQueue' /\ Fresh'
<1> USE DEF Inert, pair, IInv
<1>1. InOrder'
  BY WatchThreadsAssumption DEF InOrder, TypeOK, NoPair
<1>2. QueueMade'
  BY DEF QueueMade
<1>3. OneQueue' /\ Fresh'
  BY DEF OneQueue, Fresh
<1> QED
  BY <1>1, <1>2, <1>3

(* Where the callers are, who has the mutex, and what the gate shows.      *)
LEMMA CallersKeepPlaces ==
  ASSUME IInv, CallerStep
  PROVE  OwnSteps' /\ StopHoldsMutex' /\ Gate' /\ Shut'
<1> USE WatchThreadsAssumption
    DEF IInv, TypeOK, OwnSteps, StopHoldsMutex, Gate, Shut, Joins, Callers, CallSteps,
        Goto, threads, pair, refs, past, NoPair
<1>1. ASSUME MayStart, StartThreads, watch_thread_mutex = NoThread,
             UNCHANGED watch_thread_mutex, \A c \in Callers : pc'[c] \notin Joins
      PROVE  StopHoldsMutex'
  BY <1>1
<1>2. ASSUME NEW c \in Clients, ClientNext(c)
      PROVE OwnSteps' /\ StopHoldsMutex' /\ Gate' /\ Shut'
  <2>1. CASE CallStart(c)
    BY <2>1, SMTT(30) DEF CallStart
  <2>2. CASE CallStop(c)
    BY <2>2, SMTT(30) DEF CallStop
  <2>3. CASE Start(c)
    <3>1. /\ pc[c] = "start" /\ pc' = [pc EXCEPT ![c] = "idle"]
          /\ watch_thread_mutex = NoThread
          /\ UNCHANGED <<watch_thread_mutex, refs, api_quiesced, past>>
      BY <2>3 DEF Start
    <3>2. OwnSteps' /\ Gate' /\ Shut'
      BY <3>1
    <3>3. \A d \in Callers : pc'[d] \notin Joins
      BY <3>1
    <3>4. (MayStart /\ StartThreads) \/ UNCHANGED <<threads, pair>>
      BY <2>3 DEF Start
    <3> QED
      BY <1>1, <3>1, <3>2, <3>3, <3>4
  <2>4. CASE StopOnly(c)
    BY <2>4, SMTT(30) DEF StopOnly
  <2> QED
    BY <1>2, <2>1, <2>2, <2>3, <2>4 DEF ClientNext
<1>3. ASSUME NEW c \in Callers, StopSteps(c)
      PROVE OwnSteps' /\ StopHoldsMutex' /\ Gate' /\ Shut'
  <2>1. CASE StopNothing(c)
    BY <2>1, SMTT(30) DEF StopNothing, AfterStop
  <2>2. CASE StopAndWait(c)
    BY <2>2, SMTT(30) DEF StopAndWait
  <2>3. CASE JoinWatch(c)
    BY <2>3, SMTT(30) DEF JoinWatch
  <2>4. CASE JoinRecheck(c)
    BY <2>4, SMTT(30) DEF JoinRecheck, AfterStop
  <2> QED
    BY <1>3, <2>1, <2>2, <2>3, <2>4 DEF StopSteps
<1>4. ASSUME RedetectNext PROVE OwnSteps' /\ StopHoldsMutex' /\ Gate' /\ Shut'
  <2>1. CASE Quiesce
    <3>1. ~gave_up' => ~gave_up /\ \A c \in Clients : pc[c] # "start"
      BY <2>1, Zenon DEF Quiesce
    <3>2. /\ pc[Redetector] = "idle" /\ pc' = [pc EXCEPT ![Redetector] = "active"]
          /\ live < MaxRedetects /\ api_quiesced' = TRUE
          /\ UNCHANGED <<watch_thread_mutex, threads, pair, refs, resume, aborted, hurried,
                         exiting>>
      BY <2>1 DEF Quiesce
    <3>3. OwnSteps' /\ StopHoldsMutex' /\ Gate'
      BY <3>2
    <3>4. Shut'
      BY <3>1, <3>2
    <3> QED
      BY <3>3, <3>4
  <2>2. CASE GetActive
    BY <2>2, SMTT(30) DEF GetActive
  <2>3. CASE Discard
    BY <2>3, SMTT(30) DEF Discard
  <2>4. CASE Detect
    BY <2>4, SMTT(30) DEF Detect
  <2>5. CASE Restart
    <3>1. /\ pc[Redetector] = "restart" /\ pc' = [pc EXCEPT ![Redetector] = "unquiesce"]
          /\ watch_thread_mutex = NoThread
          /\ UNCHANGED <<watch_thread_mutex, refs, api_quiesced, past>>
      BY <2>5 DEF Restart
    <3>2. OwnSteps' /\ Gate' /\ Shut'
      BY <3>1
    <3>3. \A d \in Callers : pc'[d] \notin Joins
      BY <3>1
    <3>4. (MayStart /\ StartThreads) \/ UNCHANGED <<threads, pair>>
      BY <2>5 DEF Restart
    <3> QED
      BY <1>1, <3>1, <3>2, <3>3, <3>4
  <2>6. CASE Unquiesce
    BY <2>6, SMTT(30) DEF Unquiesce
  <2> QED
    BY <1>4, <2>1, <2>2, <2>3, <2>4, <2>5, <2>6 DEF RedetectNext
<1>5. CASE Exit
  BY <1>5, SMTT(30) DEF Exit
<1> QED
  BY <1>2, <1>3, <1>4, <1>5 DEF CallerStep

(* Callers and the threads: a stop that waits forgets a pair only when     *)
(* both its threads have ended, and displays are detected anew only when   *)
(* nothing runs.                                                           *)
LEMMA CallersKeepPairs ==
  ASSUME IInv, CallerStep
  PROVE  InOrder' /\ QueueMade' /\ OnePair' /\ OneQueue' /\ Fresh'
<1> USE DEF threads, refs, past
<1>1. ASSUME Inert, UNCHANGED watch_thread PROVE OnePair'
  BY <1>1 DEF Inert, IInv, OnePair, Alive, pair
<1>2. ASSUME NEW c \in Clients, ClientNext(c)
      PROVE InOrder' /\ QueueMade' /\ OnePair' /\ OneQueue' /\ Fresh'
  <2>1. CASE CallStart(c) \/ CallStop(c)
    BY <1>1, <2>1, InertKeeps DEF CallStart, CallStop, Inert
  <2>2. CASE Start(c)
    <3>1. CASE MayStart
      BY <2>2, <3>1, StartKeeps DEF Start
    <3>2. CASE ~MayStart
      BY <1>1, <2>2, <3>2, InertKeeps DEF Start, Inert
    <3> QED
      BY <3>1, <3>2
  <2>3. CASE StopOnly(c)
    <3>1. Inert /\ hurried'
      BY <2>3 DEF StopOnly, Inert
    <3> QED
      BY <3>1, InertKeeps DEF OnePair
  <2> QED
    BY <1>2, <2>1, <2>2, <2>3 DEF ClientNext
<1>3. ASSUME NEW c \in Callers, StopSteps(c)
      PROVE InOrder' /\ QueueMade' /\ OnePair' /\ OneQueue' /\ Fresh'
  <2>1. CASE StopNothing(c) \/ StopAndWait(c) \/ JoinWatch(c)
    BY <1>1, <2>1, InertKeeps DEF StopNothing, StopAndWait, JoinWatch, Inert
  <2>2. CASE JoinRecheck(c)
    <3>1. Inert /\ UNCHANGED <<pair, past>>
      BY <2>2 DEF JoinRecheck, Inert
    <3>2. wpc[watch_thread] = "done" /\ rpc[watch_thread] = "done"
      BY <2>2 DEF JoinRecheck, IInv, StopHoldsMutex
    <3>3. OnePair'
      BY <3>1, <3>2 DEF IInv, OnePair, Alive, pair
    <3> QED
      BY <3>1, <3>3, InertKeeps
  <2> QED
    BY <1>3, <2>1, <2>2 DEF StopSteps
<1>4. ASSUME RedetectNext PROVE InOrder' /\ QueueMade' /\ OnePair' /\ OneQueue' /\ Fresh'
  <2>1. CASE Quiesce
    BY <1>1, <2>1, InertKeeps DEF Quiesce, Inert
  <2>2. CASE GetActive \/ Discard \/ Unquiesce
    BY <1>1, <2>2, InertKeeps DEF GetActive, Discard, Unquiesce, Inert
  <2>3. CASE Detect
    <3>1. UNCHANGED <<watch_thread, started, pair, past>> /\ pc[Redetector] = "detect"
      BY <2>3 DEF Detect
    <3>2. InOrder' /\ QueueMade' /\ OneQueue' /\ OnePair'
      BY <3>1 DEF IInv, InOrder, QueueMade, OneQueue, OnePair, Alive, pair
    <3>3. ASSUME ~hurried, ~gave_up, NEW p \in Pairs PROVE ~Alive(p)
      <4>1. watch_thread = NoPair
        BY <3>1, <3>3 DEF IInv, Shut
      <4> QED
        BY <3>3, <4>1 DEF IInv, OnePair, Pairs, NoPair
    <3>4. Fresh'
      BY <3>1, <3>3 DEF Fresh, Alive, pair
    <3> QED
      BY <3>2, <3>4
  <2>4. CASE Restart
    <3>1. CASE MayStart
      BY <2>4, <3>1, StartKeeps DEF Restart
    <3>2. CASE ~MayStart
      BY <1>1, <2>4, <3>2, InertKeeps DEF Restart, Inert
    <3> QED
      BY <3>1, <3>2
  <2> QED
    BY <1>4, <2>1, <2>2, <2>3, <2>4 DEF RedetectNext
<1>5. CASE Exit
  BY <1>1, <1>5, InertKeeps DEF Exit, Inert
<1> QED
  BY <1>2, <1>3, <1>4, <1>5 DEF CallerStep
----------------------------------------------------------------------------
(* IInv holds in every reachable state.                                    *)
THEOREM InvariantHolds == Spec => []IInv
<1>1. Init => IInv
  <2> SUFFICES ASSUME Init PROVE IInv
    OBVIOUS
  <2> USE WatchThreadsAssumption DEF Init, Callers, Pairs, Gens, NoPair, NoRef, Joins
  <2>1. TypeOK
    <3>1. queues \in [Pairs -> Seq(Gens)] /\ wgen \in [Pairs -> Gens \cup {NoRef}]
          /\ hand \in [Pairs -> Gens \cup {NoRef}]
      OBVIOUS
    <3>2. /\ wpc \in [Pairs -> WatchSteps] /\ rpc \in [Pairs -> RecheckSteps]
          /\ pc \in [Callers -> CallSteps]
      BY DEF CallSteps, WatchSteps, RecheckSteps
    <3>3. live \in Gens /\ started \in 0..MaxPairs /\ found \in 0..MaxFound
      OBVIOUS
    <3> QED
      BY <3>1, <3>2, <3>3 DEF TypeOK
  <2>2. OwnSteps /\ StopHoldsMutex /\ InOrder /\ Gate /\ Shut
    BY DEF OwnSteps, StopHoldsMutex, InOrder, Gate, Shut, CallSteps
  <2>3. QueueMade /\ OnePair /\ OneQueue /\ Fresh
    BY DEF QueueMade, OnePair, OneQueue, Fresh, Alive
  <2> QED
    BY <2>1, <2>2, <2>3 DEF IInv
<1>2. IInv /\ [Next]_vars => IInv'
  <2>1. ASSUME IInv, CallerStep PROVE IInv'
    BY <2>1, CallersKeepTypes, CallersKeepPlaces, CallersKeepPairs DEF IInv
  <2>2. ASSUME IInv, NEW p \in Pairs, WatchStep(p) PROVE IInv'
    BY <2>2, WatchKeepsTypes, WatchKeepsRest, WatchKeepsFresh DEF IInv, Rest
  <2>3. ASSUME IInv, NEW p \in Pairs, RecheckStep(p) PROVE IInv'
    BY <2>3, RecheckKeepsTypes, RecheckKeepsRest, RecheckKeepsFresh DEF IInv, Rest
  <2>4. ASSUME IInv, UNCHANGED vars PROVE IInv'
    BY <2>4 DEF vars, threads, pair, refs, past, IInv, TypeOK, OwnSteps, StopHoldsMutex,
                InOrder, QueueMade, Gate, OnePair, Alive, OneQueue, Shut, Fresh
  <2> QED
    BY <2>1, <2>2, <2>3, <2>4 DEF Next
<1> QED
  BY <1>1, <1>2, PTL DEF Spec

(* OnePair: while every stop waits, no threads run but the recorded pair,  *)
(* whatever starts, stops and redetections overlap.                        *)
THEOREM OnePairRuns == Spec => []OnePair
BY InvariantHolds, PTL DEF IInv

(* NoStaleUse: neither thread works on display references that             *)
(* ddc_discard_detected_displays freed, if no stop and no call to start    *)
(* got round the waiting.                                                  *)
THEOREM ReferencesAreLive == Spec => []NoStaleUse
<1>1. IInv => NoStaleUse
  <2> SUFFICES ASSUME IInv, ~hurried, ~gave_up, ~exiting, NEW p \in Pairs
               PROVE  /\ wpc[p] = "pass" => refs_up /\ wgen[p] = live
                      /\ rpc[p] = "checking" => refs_up /\ hand[p] = live
    BY DEF NoStaleUse
  <2>1. CASE ~Alive(p)
    BY <2>1 DEF Alive
  <2>2. CASE Alive(p)
    <3>1. watch_thread = p /\ p # NoPair
      BY <2>2 DEF IInv, OnePair, Pairs, NoPair
    <3>2. refs_up
      BY <3>1 DEF IInv, Shut, Gate
    <3> QED
      BY <3>2 DEF IInv, Fresh
  <2> QED
    BY <2>1, <2>2
<1> QED
  BY <1>1, InvariantHolds, PTL

(* QueueIsLive: an entry of dw_put_recheck_queue that a recheck thread can *)
(* still take names a display reference of the present generation.         *)
THEOREM QueuedReferencesAreLive == Spec => []QueueIsLive
<1>1. IInv => QueueIsLive
  <2> SUFFICES ASSUME IInv, ~hurried, ~gave_up, NEW p \in Pairs,
                      rpc[p] \in {"waiting", "checking"}
               PROVE  /\ hand[p] \in {NoRef, live}
                      /\ \A i \in DOMAIN queues[recheck_queue] : queues[recheck_queue][i] = live
    BY DEF QueueIsLive
  <2>1. recheck_queue = p /\ queues[p] \in Seq(Gens)
    BY DEF IInv, OneQueue, TypeOK
  <2>2. DOMAIN queues[p] = 1..Len(queues[p])
    BY <2>1
  <2> QED
    BY <2>1, <2>2 DEF IInv, Fresh
<1> QED
  BY <1>1, InvariantHolds, PTL
=============================================================================
