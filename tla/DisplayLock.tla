---------------------------- MODULE DisplayLock ----------------------------
(***************************************************************************)
(* The display locks of libddcutil (base/display_lock.c): every display    *)
(* has one Display_Lock_Record, found or created under descriptors_mutex,  *)
(* whose display_mutex gives one thread the use of the display.  The owner *)
(* field lets a thread recognise a lock it already holds; it is compared   *)
(* under master_display_lock_mutex but written by lock_display after that  *)
(* mutex has been left, so there is a window in which the display mutex is *)
(* held and the record still shows no owner.                               *)
(*                                                                         *)
(* One step is one critical section or one unguarded write.  A record is   *)
(* an element of Dlrs, the heap it is calloc'ed from.  The sleep after     *)
(* every failed g_mutex_trylock, the last one included, is abstracted to   *)
(* an interleaving point, and the two clock limits of the polling loop to  *)
(* MaxTries = their quotient.                                              *)
(* linux_thread_id, which only messages read, is left out.                 *)
(***************************************************************************)
EXTENDS Naturals

CONSTANTS Threads,   \* threads that call the library
          Displays,  \* io paths
          Dlrs,      \* memory for lock records
          Flags,     \* the Display_Lock_Flags in use
          MaxTries,  \* DEFAULT_OPEN_MAX_WAIT_MILLISEC / ..._INTERVAL_MILLISEC
          NoThread,  \* NULL thread pointer
          NoDisplay, \* io path of memory that is not a record yet
          NoDlr      \* no record looked up yet

ASSUME DisplayLockAssumption ==
          /\ NoThread \notin Threads
          /\ NoDisplay \notin Displays
          /\ NoDlr \notin Dlrs
          /\ Flags \subseteq {"NONE", "WAIT"}
          /\ MaxTries \in Nat \ {0}

VARIABLES
  lock_records,  \* the records in the global array
  io_path,       \* io_path[r]: the display record r stands for
  mutex,         \* mutex[r]: the thread that has r's display_mutex locked
  owner,         \* owner[r]: r's display_mutex_thread
  descriptors,   \* holder of descriptors_mutex across steps
  master,        \* holder of master_display_lock_mutex across steps
  pc,            \* the step each thread is about to take
  path,          \* argument: the display of the call in progress
  flags,         \* argument: the flags of the lock call in progress
  dlr,           \* the record the call in progress works on
  tries,         \* tryctr of the polling loop
  todo,          \* records unlock_all_displays_for_current_thread has yet to visit
  answer,        \* answer[t]: what t's last call returned
  held           \* held[t]: displays t may use by the answers it was given

records == <<lock_records, io_path, mutex, owner>>
call    == <<path, flags, dlr, tries, todo>>
vars    == <<records, descriptors, master, pc, call, answer, held>>

Owner == Threads \cup {NoThread}

LockSteps   == {"find_lock", "create_lock", "self", "wait", "try", "refused", "own"}
UnlockSteps == {"find_unlock", "create_unlock", "check", "clear", "release", "leave"}
AllSteps    == {"all", "scan", "scan_release"}
Steps       == {"idle"} \cup LockSteps \cup UnlockSteps \cup AllSteps

Answers == {"NONE", "OK", "ALREADY_OPEN", "LOCKED"}

\* Types of the state above.
TypeOK ==
  /\ lock_records \subseteq Dlrs
  /\ io_path \in [Dlrs -> Displays \cup {NoDisplay}]
  /\ mutex \in [Dlrs -> Owner]
  /\ owner \in [Dlrs -> Owner]
  /\ descriptors \in Owner
  /\ master \in Owner
  /\ pc \in [Threads -> Steps]
  /\ path \in [Threads -> Displays \cup {NoDisplay}]
  /\ flags \in [Threads -> {"NONE", "WAIT"}]
  /\ dlr \in [Threads -> Dlrs \cup {NoDlr}]
  /\ tries \in [Threads -> 0..MaxTries]
  /\ todo \in [Threads -> SUBSET Dlrs]
  /\ answer \in [Threads -> Answers]
  /\ held \in [Threads -> SUBSET Displays]

Init ==
  /\ lock_records = {}
  /\ io_path = [r \in Dlrs |-> NoDisplay]
  /\ mutex = [r \in Dlrs |-> NoThread]
  /\ owner = [r \in Dlrs |-> NoThread]
  /\ descriptors = NoThread
  /\ master = NoThread
  /\ pc = [t \in Threads |-> "idle"]
  /\ path = [t \in Threads |-> NoDisplay]
  /\ flags = [t \in Threads |-> "NONE"]
  /\ dlr = [t \in Threads |-> NoDlr]
  /\ tries = [t \in Threads |-> 0]
  /\ todo = [t \in Threads |-> {}]
  /\ answer = [t \in Threads |-> "NONE"]
  /\ held = [t \in Threads |-> {}]

----------------------------------------------------------------------------
Goto(t, step) == pc' = [pc EXCEPT ![t] = step]

\* The call's answer; its arguments and locals are gone.
Return(t, a) ==
  /\ Goto(t, "idle")
  /\ answer' = [answer EXCEPT ![t] = a]
  /\ path' = [path EXCEPT ![t] = NoDisplay]
  /\ flags' = [flags EXCEPT ![t] = "NONE"]
  /\ dlr' = [dlr EXCEPT ![t] = NoDlr]
  /\ tries' = [tries EXCEPT ![t] = 0]
  /\ UNCHANGED todo

(***************************************************************************)
(* The calls.  A thread gives the display up when it calls an unlock       *)
(* function, before the function has done anything.                        *)
(***************************************************************************)
LockDisplay(t) ==
  /\ pc[t] = "idle"
  /\ \E d \in Displays, f \in Flags :
       /\ path' = [path EXCEPT ![t] = d]
       /\ flags' = [flags EXCEPT ![t] = f]
  /\ Goto(t, "find_lock")
  /\ UNCHANGED <<records, descriptors, master, dlr, tries, todo, answer, held>>

UnlockDisplay(t) ==
  /\ pc[t] = "idle"
  /\ \E d \in Displays :
       /\ path' = [path EXCEPT ![t] = d]
       /\ held' = [held EXCEPT ![t] = @ \ {d}]
  /\ Goto(t, "find_unlock")
  /\ UNCHANGED <<records, descriptors, master, flags, dlr, tries, todo, answer>>

UnlockAllDisplays(t) ==
  /\ pc[t] = "idle"
  /\ held' = [held EXCEPT ![t] = {}]
  /\ Goto(t, "all")
  /\ UNCHANGED <<records, descriptors, master, call, answer>>

(***************************************************************************)
(* get_display_lock_record_by_dpath, the first step of lock and unlock     *)
(***************************************************************************)
AfterFind(t) == IF pc[t] \in LockSteps THEN "self" ELSE "check"

FindRecord(t) ==
  /\ pc[t] \in {"find_lock", "find_unlock"}
  /\ descriptors = NoThread
  /\ \E r \in lock_records :
       /\ io_path[r] = path[t]
       /\ dlr' = [dlr EXCEPT ![t] = r]
  /\ Goto(t, AfterFind(t))
  /\ UNCHANGED <<records, descriptors, master, path, flags, tries, todo, answer, held>>

NoRecordFound(t) ==
  /\ pc[t] \in {"find_lock", "find_unlock"}
  /\ descriptors = NoThread
  /\ \A r \in lock_records : io_path[r] # path[t]
  /\ descriptors' = t
  /\ Goto(t, IF pc[t] = "find_lock" THEN "create_lock" ELSE "create_unlock")
  /\ UNCHANGED <<records, master, call, answer, held>>

CreateRecord(t) ==
  /\ pc[t] \in {"create_lock", "create_unlock"}
  /\ \E r \in Dlrs \ lock_records :
       /\ lock_records' = lock_records \cup {r}
       /\ io_path' = [io_path EXCEPT ![r] = path[t]]
       /\ mutex' = [mutex EXCEPT ![r] = NoThread]
       /\ owner' = [owner EXCEPT ![r] = NoThread]
       /\ dlr' = [dlr EXCEPT ![t] = r]
  /\ descriptors' = NoThread
  /\ Goto(t, AfterFind(t))
  /\ UNCHANGED <<master, path, flags, tries, todo, answer, held>>

(***************************************************************************)
(* lock_display                                                            *)
(***************************************************************************)
\* Fault: any owner is taken for the calling thread.
AlreadyOpen_anyOwner(t) ==
  /\ pc[t] = "self"
  /\ master = NoThread
  /\ owner[dlr[t]] # NoThread
  /\ Return(t, "ALREADY_OPEN")
  /\ UNCHANGED <<records, descriptors, master, held>>

AlreadyOpen(t) ==
  /\ pc[t] = "self"
  /\ master = NoThread
  /\ owner[dlr[t]] = t
  /\ Return(t, "ALREADY_OPEN")
  /\ UNCHANGED <<records, descriptors, master, held>>

NotSelf(t) ==
  /\ pc[t] = "self"
  /\ master = NoThread
  /\ owner[dlr[t]] # t
  /\ Goto(t, IF flags[t] = "WAIT" THEN "wait" ELSE "try")
  /\ UNCHANGED <<records, descriptors, master, call, answer, held>>

Acquire(t) ==
  /\ pc[t] \in {"wait", "try"}
  /\ mutex[dlr[t]] = NoThread
  /\ mutex' = [mutex EXCEPT ![dlr[t]] = t]
  /\ Goto(t, "own")
  /\ UNCHANGED <<lock_records, io_path, owner, descriptors, master, call, answer, held>>

\* Fault: the tries are not counted.
TrylockFails_uncounted(t) ==
  /\ pc[t] = "try"
  /\ mutex[dlr[t]] # NoThread
  /\ tries[t] + 1 < MaxTries
  /\ UNCHANGED vars

TrylockFails(t) ==
  /\ pc[t] = "try"
  /\ mutex[dlr[t]] # NoThread
  /\ tries[t] + 1 < MaxTries
  /\ tries' = [tries EXCEPT ![t] = @ + 1]
  /\ UNCHANGED <<records, descriptors, master, pc, path, flags, dlr, todo, answer, held>>

\* The last try too is followed by a sleep, and no other try comes after it.
LastTrylockFails(t) ==
  /\ pc[t] = "try"
  /\ mutex[dlr[t]] # NoThread
  /\ tries[t] + 1 = MaxTries
  /\ tries' = [tries EXCEPT ![t] = @ + 1]
  /\ Goto(t, "refused")
  /\ UNCHANGED <<records, descriptors, master, path, flags, dlr, todo, answer, held>>

LockFails(t) ==
  /\ pc[t] = "refused"
  /\ Return(t, "LOCKED")
  /\ UNCHANGED <<records, descriptors, master, held>>

\* Fault: the lock is taken and the owner not noted.
SetOwner_forgotten(t) ==
  /\ pc[t] = "own"
  /\ held' = [held EXCEPT ![t] = @ \cup {path[t]}]
  /\ Return(t, "OK")
  /\ UNCHANGED <<records, descriptors, master>>

SetOwner(t) ==
  /\ pc[t] = "own"
  /\ owner' = [owner EXCEPT ![dlr[t]] = t]
  /\ held' = [held EXCEPT ![t] = @ \cup {path[t]}]
  /\ Return(t, "OK")
  /\ UNCHANGED <<lock_records, io_path, mutex, descriptors, master>>

(***************************************************************************)
(* unlock_display                                                          *)
(***************************************************************************)
NotOwner(t) ==
  /\ pc[t] = "check"
  /\ master = NoThread
  /\ owner[dlr[t]] # t
  /\ Return(t, "LOCKED")
  /\ UNCHANGED <<records, descriptors, master, held>>

\* Fault: the owner is not compared with the calling thread.
IsOwner_unchecked(t) ==
  /\ pc[t] = "check"
  /\ master = NoThread
  /\ owner[dlr[t]] # NoThread
  /\ master' = t
  /\ Goto(t, "clear")
  /\ UNCHANGED <<records, descriptors, call, answer, held>>

IsOwner(t) ==
  /\ pc[t] = "check"
  /\ master = NoThread
  /\ owner[dlr[t]] = t
  /\ master' = t
  /\ Goto(t, "clear")
  /\ UNCHANGED <<records, descriptors, call, answer, held>>

ClearOwner(t) ==
  /\ pc[t] = "clear"
  /\ owner' = [owner EXCEPT ![dlr[t]] = NoThread]
  /\ Goto(t, "release")
  /\ UNCHANGED <<lock_records, io_path, mutex, descriptors, master, call, answer, held>>

Release(t) ==
  /\ pc[t] = "release"
  /\ mutex' = [mutex EXCEPT ![dlr[t]] = NoThread]
  /\ Goto(t, "leave")
  /\ UNCHANGED <<lock_records, io_path, owner, descriptors, master, call, answer, held>>

LeaveMaster(t) ==
  /\ pc[t] = "leave"
  /\ master' = NoThread
  /\ Return(t, "OK")
  /\ UNCHANGED <<records, descriptors, held>>

(***************************************************************************)
(* unlock_all_displays_for_current_thread: under descriptors_mutex, and    *)
(* not under master_display_lock_mutex.  The array is visited in any order.*)
(***************************************************************************)
BeginScan(t) ==
  /\ pc[t] = "all"
  /\ descriptors = NoThread
  /\ descriptors' = t
  /\ todo' = [todo EXCEPT ![t] = lock_records]
  /\ Goto(t, "scan")
  /\ UNCHANGED <<records, master, path, flags, dlr, tries, answer, held>>

SkipRecord(t) ==
  /\ pc[t] = "scan"
  /\ \E r \in todo[t] :
       /\ owner[r] # t
       /\ todo' = [todo EXCEPT ![t] = @ \ {r}]
  /\ UNCHANGED <<records, descriptors, master, pc, path, flags, dlr, tries, answer, held>>

\* Fault: every lock is unlocked, the calling thread's or not.
ScanOwned_all(t) ==
  /\ pc[t] = "scan"
  /\ \E r \in todo[t] :
       /\ owner' = [owner EXCEPT ![r] = NoThread]
       /\ todo' = [todo EXCEPT ![t] = @ \ {r}]
       /\ dlr' = [dlr EXCEPT ![t] = r]
  /\ Goto(t, "scan_release")
  /\ UNCHANGED <<lock_records, io_path, mutex, descriptors, master,
                 path, flags, tries, answer, held>>

ScanOwned(t) ==
  /\ pc[t] = "scan"
  /\ \E r \in todo[t] :
       /\ owner[r] = t
       /\ owner' = [owner EXCEPT ![r] = NoThread]
       /\ todo' = [todo EXCEPT ![t] = @ \ {r}]
       /\ dlr' = [dlr EXCEPT ![t] = r]
  /\ Goto(t, "scan_release")
  /\ UNCHANGED <<lock_records, io_path, mutex, descriptors, master,
                 path, flags, tries, answer, held>>

\* Fault: the owner is cleared and the mutex kept.
ScanRelease_forgotten(t) ==
  /\ pc[t] = "scan_release"
  /\ Goto(t, "scan")
  /\ UNCHANGED <<records, descriptors, master, call, answer, held>>

ScanRelease(t) ==
  /\ pc[t] = "scan_release"
  /\ mutex' = [mutex EXCEPT ![dlr[t]] = NoThread]
  /\ Goto(t, "scan")
  /\ UNCHANGED <<lock_records, io_path, owner, descriptors, master, call, answer, held>>

EndScan(t) ==
  /\ pc[t] = "scan"
  /\ todo[t] = {}
  /\ descriptors' = NoThread
  /\ Return(t, "OK")
  /\ UNCHANGED <<records, master, held>>

----------------------------------------------------------------------------
Call(t) == LockDisplay(t) \/ UnlockDisplay(t) \/ UnlockAllDisplays(t)

Run(t) ==
  \/ FindRecord(t) \/ NoRecordFound(t) \/ CreateRecord(t)
  \/ AlreadyOpen(t) \/ NotSelf(t) \/ Acquire(t)
  \/ TrylockFails(t) \/ LastTrylockFails(t) \/ LockFails(t) \/ SetOwner(t)
  \/ NotOwner(t) \/ IsOwner(t) \/ ClearOwner(t) \/ Release(t) \/ LeaveMaster(t)
  \/ BeginScan(t) \/ SkipRecord(t) \/ ScanOwned(t) \/ ScanRelease(t) \/ EndScan(t)

Next == \E t \in Threads : Call(t) \/ Run(t)

Spec == Init /\ [][Next]_vars

(***************************************************************************)
(* A thread inside the library keeps running.  Strong fairness: the three  *)
(* critical sections are short and none of the mutexes may pass over one   *)
(* waiting thread for ever.                                                *)
(***************************************************************************)
FairSpec == Spec /\ \A t \in Threads : SF_vars(Run(t))

----------------------------------------------------------------------------
(* One thread at a time may use a display: the answers of lock_display     *)
(* never make two threads believe they have the same display.              *)
Exclusion ==
  \A t, u \in Threads : t # u => held[t] \cap held[u] = {}

(* Between calls a thread has locked exactly the display mutexes of the    *)
(* displays it was granted and has not given up: a failed lock_display, an *)
(* unlock_display and an unlock_all leave no mutex behind.                 *)
LocksMatchAnswers ==
  \A t \in Threads : pc[t] = "idle" =>
    {io_path[r] : r \in {q \in lock_records : mutex[q] = t}} = held[t]

(* g_mutex_unlock on a mutex that the calling thread has not locked is     *)
(* undefined (display_lock.c:523): no unlock function reaches it.          *)
UnlockIsDefined ==
  \A t \in Threads : pc[t] \in {"release", "scan_release"} => mutex[dlr[t]] = t

(* The owner field is good enough for its purpose: a thread that tries for *)
(* a display mutex never has it already, which would block it for ever     *)
(* (GMutex is not recursive), although the field is written late.          *)
NoSelfDeadlock ==
  \A t \in Threads : pc[t] \in {"wait", "try"} => mutex[dlr[t]] # t

(* A display never gets two lock records, which would be two mutexes: the  *)
(* search and the creation in get_display_lock_record_by_dpath are one     *)
(* critical section.                                                       *)
OneRecordPerDisplay ==
  \A r, s \in lock_records : io_path[r] = io_path[s] => r = s

(* Polling is bounded: every lock_display without DDISP_WAIT, every unlock *)
(* and every unlock_all returns.                                           *)
CallsReturn ==
  \A t \in Threads : pc[t] # "idle" ~> pc[t] = "idle"

----------------------------------------------------------------------------
(***************************************************************************)
(* The abstract view: who has a display is whose thread has locked the     *)
(* mutex of its record.                                                    *)
(***************************************************************************)
Holder ==
  [d \in Displays |->
     IF \E r \in lock_records : io_path[r] = d
       THEN mutex[CHOOSE r \in lock_records : io_path[r] = d]
       ELSE NoThread]

CallOf(step) ==
  CASE step = "idle" -> "none"
    [] step \in LockSteps \ {"own", "refused"} -> "lock"
    [] step = "refused" -> "refused"
    [] step = "own" -> "locked"
    [] step \in UnlockSteps \ {"leave"} -> "unlock"
    [] step = "leave" -> "unlocked"
    [] step \in AllSteps -> "unlock_all"

AbstractCall == [t \in Threads |-> CallOf(pc[t])]

Use == INSTANCE ExclusiveUse WITH holder <- Holder, call <- AbstractCall, target <- path

(* The library implements exclusive use: a lock is granted and given up in *)
(* one step of the call that asks for it.  ALREADY_OPEN is only answered   *)
(* when the caller has the display, and LOCKED by lock_display only when   *)
(* another thread had it at some moment of the call: that thread may have  *)
(* given it up in the sleep after the last try.                            *)
ImplementsExclusiveUse == Use!Spec

=============================================================================
