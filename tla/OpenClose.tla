----------------------------- MODULE OpenClose -----------------------------
(***************************************************************************)
(* Opening and closing a display: ddc_open_display and ddc_close_display   *)
(* (ddc/ddc_packet_io.c) with i2c_open_bus and i2c_close_bus               *)
(* (i2c/i2c_bus_core.c).  A bus is taken in three stages: the display lock *)
(* between the threads of one instance of the library (DisplayLock shows   *)
(* what it promises), the descriptor of /dev/i2c-n, and flock() on it      *)
(* between instances.  A failure at any stage backs out of the earlier     *)
(* ones and tries again.                                                   *)
(*                                                                         *)
(* A handle is the pair of the thread that opened it and the bus, which is *)
(* also the identity of its descriptor; a thread closes the handles it     *)
(* opened.  The polling loops of lock_display and flock_lock_by_fd are one *)
(* step that succeeds or times out, and the clock limit of i2c_open_bus is *)
(* MaxTries, its quotient by the interval.  The tests of ddc_open_display  *)
(* that precede i2c_open_bus (reference removed, connector disconnected,   *)
(* no EDID) return with the state below as it was, so they are no action.  *)
(* Cross instance locks are enabled, the default.                          *)
(***************************************************************************)
EXTENDS Integers, FiniteSets, Sequences, SequencesExt

CONSTANTS Threads,
          Instances,    \* processes that use the library or the program
          InstanceOf,   \* the instance of each thread
          Buses,
          MaxTries,     \* open_max_wait_millisec / open_wait_interval_millisec
          MaxOpens,     \* bound: displays each thread opens
          NoThread, NoBus

ASSUME OpenCloseAssumption ==
          /\ InstanceOf \in [Threads -> Instances]
          /\ MaxTries \in Nat
          /\ MaxOpens \in [Threads -> Nat]
          /\ NoThread \notin Threads
          /\ NoBus \notin Buses

VARIABLES
  holder,        \* holder[i][b]: thread of i that has the display lock of b
  fds,           \* open descriptors
  flock,         \* flock[b]: thread whose descriptor has the file lock of b
  open_displays, \* the handles in the open_displays table of any instance
  open_displays_for_thread, \* buses of the handles in the thread's own list
  pc,
  bus,           \* the bus being opened or closed
  tries,         \* failed tries of this i2c_open_bus
  ndx,           \* index of ddc_close_all_displays_for_current_thread, or -1
  opens          \* displays opened so far

vars == <<holder, fds, flock, open_displays, open_displays_for_thread, pc, bus,
          tries, ndx, opens>>

OpenSteps  == {"lock", "open", "flock", "back_close", "back_unlock", "register"}
CloseSteps == {"unflock", "close", "unlock", "unregister"}
EndSteps   == {"next", "unlock_all"}
Steps == {"idle", "ended", "dead"} \cup OpenSteps \cup CloseSteps \cup EndSteps

\* Types of the state above.
TypeOK ==
  /\ holder \in [Instances -> [Buses -> Threads \cup {NoThread}]]
  /\ fds \subseteq Threads \X Buses
  /\ flock \in [Buses -> Threads \cup {NoThread}]
  /\ open_displays \subseteq Threads \X Buses
  /\ open_displays_for_thread \in [Threads -> Seq(Buses)]
  /\ pc \in [Threads -> Steps]
  /\ bus \in [Threads -> Buses \cup {NoBus}]
  /\ tries \in [Threads -> 0..MaxTries]
  /\ ndx \in [Threads -> Int]
  /\ opens \in [Threads -> Nat]
  /\ \A t \in Threads : opens[t] <= MaxOpens[t] /\ ndx[t] \in -1..MaxOpens[t]

Init ==
  /\ holder = [i \in Instances |-> [b \in Buses |-> NoThread]]
  /\ fds = {}
  /\ flock = [b \in Buses |-> NoThread]
  /\ open_displays = {}
  /\ open_displays_for_thread = [t \in Threads |-> <<>>]
  /\ pc = [t \in Threads |-> "idle"]
  /\ bus = [t \in Threads |-> NoBus]
  /\ tries = [t \in Threads |-> 0]
  /\ ndx = [t \in Threads |-> -1]
  /\ opens = [t \in Threads |-> 0]

-----------------------------------------------------------------------------
Goto(t, step) == pc' = [pc EXCEPT ![t] = step]
LockOf(t) == holder[InstanceOf[t]][bus[t]]
SetLock(t, h) == holder' = [holder EXCEPT ![InstanceOf[t]][bus[t]] = h]
Handle(t) == <<t, bus[t]>>
Return(t) ==
  /\ bus' = [bus EXCEPT ![t] = NoBus]
  /\ tries' = [tries EXCEPT ![t] = 0]
  /\ Goto(t, "idle")

(***************************************************************************)
(* i2c_open_bus                                                            *)
(***************************************************************************)
Open(t, b) ==
  /\ pc[t] = "idle"
  /\ opens[t] < MaxOpens[t]
  /\ opens' = [opens EXCEPT ![t] = @ + 1]
  /\ bus' = [bus EXCEPT ![t] = b]
  /\ tries' = [tries EXCEPT ![t] = 0]
  /\ Goto(t, "lock")
  /\ UNCHANGED <<holder, fds, flock, open_displays, open_displays_for_thread, ndx>>

\* Fault: the time waited is not added up.
TryFailed_uncounted(t) ==
  /\ UNCHANGED <<tries, bus>>
  /\ Goto(t, "lock")

\* A try failed with nothing held: sleep and try again, or return the error.
TryFailed(t) ==
  IF tries[t] < MaxTries
  THEN /\ tries' = [tries EXCEPT ![t] = @ + 1]
       /\ UNCHANGED bus
       /\ Goto(t, "lock")
  ELSE Return(t)

LockDisplay(t) ==
  /\ pc[t] = "lock"
  /\ LockOf(t) = NoThread
  /\ SetLock(t, t)
  /\ Goto(t, "open")
  /\ UNCHANGED <<fds, flock, open_displays, open_displays_for_thread, bus,
                 tries, ndx, opens>>

\* DDCRC_LOCKED, or DDCRC_ALREADY_OPEN if the thread has the lock itself.
LockDisplayFails(t) ==
  /\ pc[t] = "lock"
  /\ LockOf(t) # NoThread
  /\ TryFailed(t)
  /\ UNCHANGED <<holder, fds, flock, open_displays, open_displays_for_thread,
                 ndx, opens>>

OpenDevice(t) ==
  /\ pc[t] = "open"
  /\ fds' = fds \cup {Handle(t)}
  /\ Goto(t, "flock")
  /\ UNCHANGED <<holder, flock, open_displays, open_displays_for_thread, bus,
                 tries, ndx, opens>>

\* EACCES and ENOENT end the loop; after any other error it goes on.
OpenDeviceFails(t) ==
  /\ pc[t] = "open"
  /\ \E final \in BOOLEAN :
       tries' = [tries EXCEPT ![t] = IF final THEN MaxTries ELSE @]
  /\ Goto(t, "back_unlock")
  /\ UNCHANGED <<holder, fds, flock, open_displays, open_displays_for_thread,
                 bus, ndx, opens>>

\* Fault: a file lock held elsewhere does not stop the opening.
FlockTimeout_ignored(t) == Goto(t, "register")

FlockTimeout(t) == Goto(t, "back_close")

\* flock() is refused for a file lock held elsewhere, and may fail otherwise.
FlockDevice(t) ==
  /\ pc[t] = "flock"
  /\ \/ /\ flock[bus[t]] = NoThread
        /\ flock' = [flock EXCEPT ![bus[t]] = t]
        /\ Goto(t, "register")
     \/ /\ FlockTimeout(t)
        /\ UNCHANGED flock
  /\ UNCHANGED <<holder, fds, open_displays, open_displays_for_thread, bus,
                 tries, ndx, opens>>

BackOutClose(t) ==
  /\ pc[t] = "back_close"
  /\ fds' = fds \ {Handle(t)}
  /\ Goto(t, "back_unlock")
  /\ UNCHANGED <<holder, flock, open_displays, open_displays_for_thread, bus,
                 tries, ndx, opens>>

\* Fault: the display lock is kept.
BackedOutLock_kept(t) == UNCHANGED holder

BackedOutLock(t) == SetLock(t, NoThread)

BackOutUnlock(t) ==
  /\ pc[t] = "back_unlock"
  /\ BackedOutLock(t)
  /\ TryFailed(t)
  /\ UNCHANGED <<fds, flock, open_displays, open_displays_for_thread, ndx, opens>>

\* The end of ddc_open_display.
Register(t) ==
  /\ pc[t] = "register"
  /\ open_displays' = open_displays \cup {Handle(t)}
  /\ open_displays_for_thread' =
       [open_displays_for_thread EXCEPT ![t] = Append(@, bus[t])]
  /\ Return(t)
  /\ UNCHANGED <<holder, fds, flock, ndx, opens>>

(***************************************************************************)
(* ddc_close_display                                                       *)
(***************************************************************************)
Close(t, b) ==
  /\ pc[t] = "idle"
  /\ <<t, b>> \in open_displays
  /\ bus' = [bus EXCEPT ![t] = b]
  /\ Goto(t, "unflock")
  /\ UNCHANGED <<holder, fds, flock, open_displays, open_displays_for_thread,
                 tries, ndx, opens>>

Unflocked(t) == [flock EXCEPT ![bus[t]] = NoThread]

\* An error of flock() goes unnoticed: it is returned positive, tested negative.
Unflock(t) ==
  /\ pc[t] = "unflock"
  /\ flock' \in {Unflocked(t), flock}
  /\ Goto(t, "close")
  /\ UNCHANGED <<holder, fds, open_displays, open_displays_for_thread, bus,
                 tries, ndx, opens>>

\* Fault: the descriptor is not closed.
CloseDevice_leaked(t) == UNCHANGED <<fds, flock>>

\* With the last descriptor the kernel drops the file lock, if it is still held.
CloseDevice(t) ==
  /\ fds' = fds \ {Handle(t)}
  /\ flock' = IF flock[bus[t]] = t THEN Unflocked(t) ELSE flock

CloseBus(t) ==
  /\ pc[t] = "close"
  /\ CloseDevice(t)
  /\ Goto(t, "unlock")
  /\ UNCHANGED <<holder, open_displays, open_displays_for_thread, bus, tries,
                 ndx, opens>>

\* An unlock by a thread that is not the holder only logs an error.
UnlockDisplay(t) ==
  /\ pc[t] = "unlock"
  /\ IF LockOf(t) = t THEN SetLock(t, NoThread) ELSE UNCHANGED holder
  /\ Goto(t, "unregister")
  /\ UNCHANGED <<fds, flock, open_displays, open_displays_for_thread, bus,
                 tries, ndx, opens>>

\* g_ptr_array_remove; a handle is in the list once.
Without(list, b) ==
  IF b \in Range(list) THEN RemoveAt(list, CHOOSE n \in DOMAIN list : list[n] = b)
                       ELSE list

Unregister(t) ==
  /\ pc[t] = "unregister"
  /\ open_displays' = open_displays \ {Handle(t)}
  /\ open_displays_for_thread' =
       [open_displays_for_thread EXCEPT ![t] = Without(@, bus[t])]
  /\ bus' = [bus EXCEPT ![t] = NoBus]
  /\ Goto(t, IF ndx[t] = -1 THEN "idle" ELSE "next")
  /\ UNCHANGED <<holder, fds, flock, tries, ndx, opens>>

(***************************************************************************)
(* The end of an event callback thread: dw_execute_callback_func closes    *)
(* what the client's function left open and unlocks what is still locked.  *)
(***************************************************************************)
Die(i) ==
  /\ pc' = [t \in Threads |-> IF InstanceOf[t] = i THEN "dead" ELSE pc[t]]
  /\ holder' = [holder EXCEPT ![i] = [b \in Buses |-> NoThread]]
  /\ fds' = {h \in fds : InstanceOf[h[1]] # i}
  /\ flock' = [b \in Buses |-> IF <<flock[b], b>> \in fds' THEN flock[b]
                                                          ELSE NoThread]
  /\ open_displays' = {h \in open_displays : InstanceOf[h[1]] # i}
  /\ open_displays_for_thread' =
       [t \in Threads |-> IF InstanceOf[t] = i THEN <<>>
                                               ELSE open_displays_for_thread[t]]
  /\ bus' = [t \in Threads |-> IF InstanceOf[t] = i THEN NoBus ELSE bus[t]]
  /\ tries' = [t \in Threads |-> IF InstanceOf[t] = i THEN 0 ELSE tries[t]]
  /\ UNCHANGED <<ndx, opens>>

EndCallback(t) ==
  /\ pc[t] = "idle"
  /\ ndx' = [ndx EXCEPT ![t] = 0]
  /\ Goto(t, IF open_displays_for_thread[t] = <<>> THEN "unlock_all" ELSE "next")
  /\ UNCHANGED <<holder, fds, flock, open_displays, open_displays_for_thread,
                 bus, tries, opens>>

\* The loop counts up while each close shortens the list, and the close of the
\* last handle frees the list: the test of the loop then dereferences NULL.
CloseNext(t) ==
  /\ pc[t] = "next"
  /\ LET list == open_displays_for_thread[t] IN
     \/ /\ ndx[t] < Len(list)
        /\ bus' = [bus EXCEPT ![t] = list[ndx[t] + 1]]
        /\ ndx' = [ndx EXCEPT ![t] = @ + 1]
        /\ Goto(t, "unflock")
        /\ UNCHANGED <<holder, fds, flock, open_displays,
                       open_displays_for_thread, tries, opens>>
     \/ /\ ndx[t] >= Len(list)
        /\ list # <<>>
        /\ Goto(t, "unlock_all")
        /\ UNCHANGED <<holder, fds, flock, open_displays,
                       open_displays_for_thread, bus, tries, ndx, opens>>
     \/ /\ list = <<>>
        /\ Die(InstanceOf[t])

UnlockAll(t) ==
  /\ pc[t] = "unlock_all"
  /\ holder' = [holder EXCEPT ![InstanceOf[t]] =
                  [b \in Buses |-> IF @[b] = t THEN NoThread ELSE @[b]]]
  /\ Goto(t, "ended")
  /\ UNCHANGED <<fds, flock, open_displays, open_displays_for_thread, bus,
                 tries, ndx, opens>>

\* The process ends, or is ended by the assertion that close() succeeded: the
\* kernel closes its descriptors, which releases their file locks.
Crash(i) ==
  /\ \E t \in Threads : InstanceOf[t] = i /\ pc[t] # "dead"
  /\ Die(i)

-----------------------------------------------------------------------------
Step(t) ==
  \/ LockDisplay(t) \/ LockDisplayFails(t)
  \/ OpenDevice(t) \/ OpenDeviceFails(t) \/ FlockDevice(t)
  \/ BackOutClose(t) \/ BackOutUnlock(t) \/ Register(t)
  \/ Unflock(t) \/ CloseBus(t) \/ UnlockDisplay(t) \/ Unregister(t)
  \/ CloseNext(t) \/ UnlockAll(t)

Next ==
  \/ \E t \in Threads : Step(t) \/ EndCallback(t)
  \/ \E t \in Threads, b \in Buses : Open(t, b) \/ Close(t, b)
  \/ \E i \in Instances : Crash(i)

\* A call under way is executed; nobody has to make one, and no process to die.
Spec == Init /\ [][Next]_vars /\ \A t \in Threads : WF_vars(Step(t))

-----------------------------------------------------------------------------
\* Between its calls a thread has the display lock, the descriptor and the file
\* lock of exactly the displays it has open: a failed open, at whichever stage
\* it failed, backs out of everything, a close gives everything back.
NothingLeftBehind ==
  \A t \in {u \in Threads : pc[u] = "idle"}, b \in Buses :
    LET open == <<t, b>> \in open_displays IN
      /\ holder[InstanceOf[t]][b] = t <=> open
      /\ <<t, b>> \in fds <=> open
      /\ flock[b] = t <=> open

BeingClosed(t, b) == pc[t] \in CloseSteps /\ bus[t] = b

\* At most one thread of all instances can use a display: two never have it open
\* at once, whatever fails or dies in between.
OneOpenHandle ==
  \A b \in Buses : \A t, u \in {v \in Threads : <<v, b>> \in open_displays} :
    t = u \/ BeingClosed(t, b) \/ BeingClosed(u, b)

\* A descriptor is open only while its thread has the display lock: it is opened
\* after the lock is taken and closed before it is released.  A thread that has
\* ended is the exception: its displays are unlocked, closed or not.
LockCoversDescriptor ==
  \A h \in fds : pc[h[1]] = "ended" \/ holder[InstanceOf[h[1]]][h[2]] = h[1]

\* Opening a display ends, with the display or with an error, however long another
\* thread or process keeps it.
OpenReturns ==
  \A t \in Threads : pc[t] \in OpenSteps ~> pc[t] \in {"idle", "dead"}
=============================================================================
