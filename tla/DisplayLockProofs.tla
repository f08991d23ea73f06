------------------------- MODULE DisplayLockProofs -------------------------
(***************************************************************************)
(* Proofs about DisplayLock, for any set of threads and displays and any   *)
(* Flags, DDISP_WAIT included.                                             *)
(***************************************************************************)
EXTENDS DisplayLock, TLAPS

InDescriptors == {"create_lock", "create_unlock", "scan", "scan_release"}
InMaster      == {"clear", "release", "leave"}
HasRecord     == {"self", "wait", "try", "refused", "own", "check", "clear", "release", "leave"}

\* The two mutexes are held by the threads inside their critical sections.
CriticalSections ==
  \A t \in Threads :
    /\ pc[t] \in InDescriptors <=> descriptors = t
    /\ pc[t] \in InMaster <=> master = t

\* What a thread knows of the record it works on.
RecordFound ==
  \A t \in Threads :
    /\ pc[t] \in HasRecord => dlr[t] \in lock_records /\ io_path[dlr[t]] = path[t]
    /\ pc[t] \in LockSteps \cup UnlockSteps => path[t] \in Displays
    /\ pc[t] = "scan_release" => dlr[t] \in lock_records
    /\ pc[t] \in {"create_lock", "create_unlock"} =>
         \A r \in lock_records : io_path[r] # path[t]
    /\ todo[t] \subseteq lock_records

\* A record exists before its mutex is locked, and has a display.
OnlyRecordsLocked ==
  \A r \in Dlrs :
    /\ mutex[r] # NoThread => r \in lock_records
    /\ r \in lock_records => io_path[r] \in Displays

\* The owner field is never wrong, only late.
OwnerHasMutex ==
  \A r \in Dlrs : owner[r] # NoThread => mutex[r] = owner[r]

MutexHasOwner ==
  \A r \in Dlrs, t \in Threads : mutex[r] = t =>
    \/ owner[r] = t
    \/ pc[t] \in {"own", "release", "scan_release"} /\ dlr[t] = r

AtStep ==
  \A t \in Threads :
    /\ pc[t] \in {"wait", "try", "own"} => owner[dlr[t]] # t
    /\ pc[t] \in {"own", "clear", "release", "scan_release"} => mutex[dlr[t]] = t
    /\ pc[t] = "clear" => owner[dlr[t]] = t
    /\ pc[t] \in {"release", "scan_release"} => owner[dlr[t]] # t

\* The displays a thread may use are those whose mutex it has.
HeldIsLocked ==
  \A t \in Threads : \A d \in held[t] :
    \E r \in lock_records : io_path[r] = d /\ mutex[r] = t

GivenUp ==
  \A t \in Threads :
    /\ pc[t] \in UnlockSteps => path[t] \notin held[t]
    /\ pc[t] \in AllSteps => held[t] = {}

\* Any other mutex a thread has is that of the call it is in.
LockedIsHeld ==
  \A r \in Dlrs, t \in Threads : mutex[r] = t =>
    \/ io_path[r] \in held[t]
    \/ pc[t] \in {"own"} \cup (UnlockSteps \ {"leave"}) /\ io_path[r] = path[t]
    \/ pc[t] = "all"
    \/ pc[t] = "scan" /\ r \in todo[t]
    \/ pc[t] = "scan_release" /\ (r \in todo[t] \/ r = dlr[t])

IInv ==
  /\ TypeOK
  /\ CriticalSections
  /\ RecordFound
  /\ OneRecordPerDisplay
  /\ OnlyRecordsLocked
  /\ OwnerHasMutex
  /\ MutexHasOwner
  /\ AtStep
  /\ HeldIsLocked
  /\ GivenUp
  /\ LockedIsHeld
----------------------------------------------------------------------------
(* Every step of a thread keeps the invariant.  The work is in the steps   *)
(* that change a record: CreateRecord takes memory no other thread knows,  *)
(* Acquire finds the owner field clear because the mutex is free, and the  *)
(* two unlock paths have compared the owner with the calling thread, which *)
(* OwnerHasMutex turns into having locked the mutex.                       *)
LEMMA StepKeepsInvariant ==
  ASSUME IInv, NEW t \in Threads, Call(t) \/ Run(t)
  PROVE  IInv'
<1> USE DisplayLockAssumption
    DEF IInv, TypeOK, Owner, Answers, Steps, LockSteps, UnlockSteps, AllSteps,
        CriticalSections, RecordFound, OneRecordPerDisplay, OnlyRecordsLocked,
        OwnerHasMutex, MutexHasOwner, AtStep, HeldIsLocked, GivenUp, LockedIsHeld,
        InDescriptors, InMaster, HasRecord, records, call, Goto, Return, AfterFind
<1>1. CASE LockDisplay(t)
  BY <1>1, SMTT(30) DEF LockDisplay
<1>2. CASE UnlockDisplay(t)
  BY <1>2, SMTT(30) DEF UnlockDisplay
<1>3. CASE UnlockAllDisplays(t)
  BY <1>3, SMTT(30) DEF UnlockAllDisplays
<1>4. CASE FindRecord(t)
  BY <1>4, SMTT(30) DEF FindRecord
<1>5. CASE NoRecordFound(t)
  BY <1>5, SMTT(30) DEF NoRecordFound
<1>6. CASE CreateRecord(t)
  BY <1>6, SMTT(30) DEF CreateRecord
<1>7. CASE AlreadyOpen(t)
  BY <1>7, SMTT(30) DEF AlreadyOpen
<1>8. CASE NotSelf(t)
  BY <1>8, SMTT(30) DEF NotSelf
<1>9. CASE Acquire(t)
  BY <1>9, SMTT(30) DEF Acquire
<1>10. CASE TrylockFails(t)
  BY <1>10, SMTT(30) DEF TrylockFails
<1>11. CASE LastTrylockFails(t)
  BY <1>11, SMTT(30) DEF LastTrylockFails
<1>12. CASE LockFails(t)
  BY <1>12, SMTT(30) DEF LockFails
<1>13. CASE SetOwner(t)
  BY <1>13, SMTT(30) DEF SetOwner
<1>14. CASE NotOwner(t)
  BY <1>14, SMTT(30) DEF NotOwner
<1>15. CASE IsOwner(t)
  BY <1>15, SMTT(30) DEF IsOwner
<1>16. CASE ClearOwner(t)
  BY <1>16, SMTT(30) DEF ClearOwner
<1>17. CASE Release(t)
  BY <1>17, SMTT(30) DEF Release
<1>18. CASE LeaveMaster(t)
  BY <1>18, SMTT(30) DEF LeaveMaster
<1>19. CASE BeginScan(t)
  BY <1>19, SMTT(30) DEF BeginScan
<1>20. CASE SkipRecord(t)
  BY <1>20, SMTT(30) DEF SkipRecord
<1>21. CASE ScanOwned(t)
  BY <1>21, SMTT(30) DEF ScanOwned
<1>22. CASE ScanRelease(t)
  BY <1>22, SMTT(30) DEF ScanRelease
<1>23. CASE EndScan(t)
  BY <1>23, SMTT(30) DEF EndScan
<1> QED
  BY <1>1, <1>2, <1>3, <1>4, <1>5, <1>6, <1>7, <1>8, <1>9, <1>10, <1>11,
     <1>12, <1>13, <1>14, <1>15, <1>16, <1>17, <1>18, <1>19, <1>20, <1>21, <1>22,
     <1>23
  DEF Call, Run

(* The inductive invariant holds in every state the library reaches.       *)
THEOREM InvariantHolds == Spec => []IInv
<1>1. Init => IInv
  BY DisplayLockAssumption, SMTT(30)
     DEF Init, IInv, TypeOK, Owner, Answers, Steps, LockSteps, UnlockSteps, AllSteps,
         CriticalSections, RecordFound, OneRecordPerDisplay, OnlyRecordsLocked,
         OwnerHasMutex, MutexHasOwner, AtStep, HeldIsLocked, GivenUp, LockedIsHeld,
         InDescriptors, InMaster, HasRecord
<1>2. IInv /\ [Next]_vars => IInv'
  <2>1. ASSUME IInv, Next PROVE IInv'
    BY <2>1, StepKeepsInvariant DEF Next
  <2>2. ASSUME IInv, UNCHANGED vars PROVE IInv'
    BY <2>2
       DEF vars, records, call, IInv, TypeOK,
           CriticalSections, RecordFound, OneRecordPerDisplay, OnlyRecordsLocked,
           OwnerHasMutex, MutexHasOwner, AtStep, HeldIsLocked, GivenUp, LockedIsHeld
  <2> QED
    BY <2>1, <2>2
<1> QED
  BY <1>1, <1>2, PTL DEF Spec

(* The state has its types throughout, whatever the threads call.          *)
THEOREM TypeCorrect == Spec => []TypeOK
<1>1. IInv => TypeOK
  BY DEF IInv
<1> QED
  BY <1>1, InvariantHolds, PTL

(* Mutual exclusion: a display both threads held would have one record,    *)
(* whose mutex both had locked.                                            *)
THEOREM ExclusionHolds == Spec => []Exclusion
<1>1. IInv => Exclusion
  BY DEF IInv, HeldIsLocked, OneRecordPerDisplay, Exclusion
<1> QED
  BY <1>1, InvariantHolds, PTL

(* No call leaves a display mutex locked that its caller was not granted,  *)
(* and none that was granted is lost.                                      *)
THEOREM LocksMatchAnswersHolds == Spec => []LocksMatchAnswers
<1>1. ASSUME IInv, NEW t \in Threads, pc[t] = "idle"
      PROVE  {io_path[r] : r \in {q \in lock_records : mutex[q] = t}} = held[t]
  <2>1. ASSUME NEW r \in lock_records, mutex[r] = t PROVE io_path[r] \in held[t]
    BY <1>1, <2>1 DEF IInv, TypeOK, LockedIsHeld, UnlockSteps
  <2>2. ASSUME NEW d \in held[t]
        PROVE  \E r \in lock_records : mutex[r] = t /\ io_path[r] = d
    BY <1>1 DEF IInv, HeldIsLocked
  <2> QED
    BY <2>1, <2>2
<1>2. IInv => LocksMatchAnswers
  BY <1>1 DEF LocksMatchAnswers
<1> QED
  BY <1>2, InvariantHolds, PTL

(* g_mutex_unlock is only called by the thread that locked the mutex.      *)
THEOREM UnlockIsDefinedHolds == Spec => []UnlockIsDefined
<1>1. IInv => UnlockIsDefined
  BY DEF IInv, AtStep, UnlockIsDefined
<1> QED
  BY <1>1, InvariantHolds, PTL

(* A thread that goes on to lock a display mutex has not locked it before, *)
(* DDISP_WAIT or not: if it had, the owner field would have said so.       *)
THEOREM NoSelfDeadlockHolds == Spec => []NoSelfDeadlock
<1>1. ASSUME IInv, NEW t \in Threads, pc[t] \in {"wait", "try"}
      PROVE  mutex[dlr[t]] # t
  <2>1. dlr[t] \in Dlrs /\ owner[dlr[t]] # t
    BY <1>1 DEF IInv, TypeOK, RecordFound, AtStep, HasRecord
  <2> QED
    BY <1>1, <2>1 DEF IInv, MutexHasOwner
<1>2. IInv => NoSelfDeadlock
  BY <1>1 DEF NoSelfDeadlock
<1> QED
  BY <1>2, InvariantHolds, PTL

(* A display never gets a second record and so never a second mutex.       *)
THEOREM OneRecordPerDisplayHolds == Spec => []OneRecordPerDisplay
<1>1. IInv => OneRecordPerDisplay
  BY DEF IInv
<1> QED
  BY <1>1, InvariantHolds, PTL

----------------------------------------------------------------------------
\* The holder of a display is whoever has locked the mutex of its record.
HolderIsLocker ==
  /\ Holder = [d \in Displays |-> Holder[d]]
  /\ \A r \in lock_records : io_path[r] \in Displays /\ Holder[io_path[r]] = mutex[r]
  /\ \A d \in Displays : (\A r \in lock_records : io_path[r] # d) => Holder[d] = NoThread

(* The abstract holder is well defined: records and displays are one to  *)
(* one, so CHOOSE has no choice.                                           *)
LEMMA HolderDefined == IInv => HolderIsLocker
<1> SUFFICES ASSUME IInv PROVE HolderIsLocker
  OBVIOUS
<1>1. Holder = [d \in Displays |-> Holder[d]]
  BY DEF Holder
<1>2. ASSUME NEW r \in lock_records
      PROVE  io_path[r] \in Displays /\ Holder[io_path[r]] = mutex[r]
  <2>1. io_path[r] \in Displays
    BY DEF IInv, TypeOK, OnlyRecordsLocked
  <2>2. (CHOOSE q \in lock_records : io_path[q] = io_path[r]) = r
    BY DEF IInv, OneRecordPerDisplay
  <2> QED
    BY <2>1, <2>2 DEF Holder
<1>3. \A d \in Displays : (\A r \in lock_records : io_path[r] # d) => Holder[d] = NoThread
  BY DEF Holder
<1> QED
  BY <1>1, <1>2, <1>3 DEF HolderIsLocker

(* A step of the program counter is a step of the abstract call.           *)
LEMMA CallMoves ==
  ASSUME TypeOK, NEW t \in Threads, NEW s \in Steps, Goto(t, s)
  PROVE  AbstractCall' = [AbstractCall EXCEPT ![t] = CallOf(s)]
BY DEF TypeOK, Goto, AbstractCall

(* The abstract call at each step of the program.                          *)
LEMMA Calls ==
  /\ CallOf("idle") = "none"
  /\ \A s \in {"find_lock", "create_lock", "self", "wait", "try"} : CallOf(s) = "lock"
  /\ CallOf("own") = "locked"
  /\ CallOf("refused") = "refused"
  /\ \A s \in {"find_unlock", "create_unlock", "check", "clear", "release"} : CallOf(s) = "unlock"
  /\ CallOf("leave") = "unlocked"
  /\ \A s \in AllSteps : CallOf(s) = "unlock_all"
BY DEF CallOf, LockSteps, UnlockSteps, AllSteps

(* Each step of the library is a step of exclusive use, or changes nothing *)
(* it knows of.                                                            *)
LEMMA StepRefines ==
  ASSUME IInv, IInv', HolderIsLocker, HolderIsLocker', NEW t \in Threads, Call(t) \/ Run(t)
  PROVE  Use!Next \/ UNCHANGED Use!vars
<1> USE DisplayLockAssumption
    DEF IInv, TypeOK, Owner, Steps, LockSteps, UnlockSteps, AllSteps,
        records, call, Goto, Return, AfterFind
<1>1. ASSUME LockDisplay(t) PROVE Use!Lock(t)
  <2>1. AbstractCall[t] = "none"
    BY <1>1, Calls DEF LockDisplay, AbstractCall
  <2>2. AbstractCall' = [AbstractCall EXCEPT ![t] = "lock"]
    <3>1. AbstractCall' = [AbstractCall EXCEPT ![t] = CallOf("find_lock")]
      BY <1>1, CallMoves DEF LockDisplay
    <3> QED
      BY <3>1, Calls
  <2>3. Holder' = Holder
    BY <1>1 DEF LockDisplay, HolderIsLocker
  <2> QED
    BY <1>1, <2>1, <2>2, <2>3 DEF LockDisplay, Use!Lock, Use!Begin
<1>2. ASSUME UnlockDisplay(t) PROVE Use!Unlock(t)
  <2>1. AbstractCall[t] = "none"
    BY <1>2, Calls DEF UnlockDisplay, AbstractCall
  <2>2. AbstractCall' = [AbstractCall EXCEPT ![t] = "unlock"]
    <3>1. AbstractCall' = [AbstractCall EXCEPT ![t] = CallOf("find_unlock")]
      BY <1>2, CallMoves DEF UnlockDisplay
    <3> QED
      BY <3>1, Calls
  <2>3. Holder' = Holder
    BY <1>2 DEF UnlockDisplay, HolderIsLocker
  <2> QED
    BY <1>2, <2>1, <2>2, <2>3 DEF UnlockDisplay, Use!Unlock, Use!Begin
<1>3. ASSUME UnlockAllDisplays(t) PROVE Use!UnlockAll(t)
  <2>1. AbstractCall[t] = "none"
    BY <1>3, Calls DEF UnlockAllDisplays, AbstractCall
  <2>2. AbstractCall' = [AbstractCall EXCEPT ![t] = "unlock_all"]
    <3>1. AbstractCall' = [AbstractCall EXCEPT ![t] = CallOf("all")]
      BY <1>3, CallMoves DEF UnlockAllDisplays
    <3> QED
      BY <3>1, Calls
  <2>3. Holder' = Holder
    BY <1>3 DEF UnlockAllDisplays, HolderIsLocker
  <2> QED
    BY <1>3, <2>1, <2>2, <2>3 DEF UnlockAllDisplays, Use!UnlockAll, Use!Begin
<1>4. ASSUME FindRecord(t) PROVE UNCHANGED Use!vars
  BY <1>4, SMTT(30) DEF FindRecord, AbstractCall, CallOf, Use!vars, HolderIsLocker
<1>5. ASSUME NoRecordFound(t) PROVE UNCHANGED Use!vars
  BY <1>5, SMTT(30) DEF NoRecordFound, AbstractCall, CallOf, Use!vars, HolderIsLocker
<1>6. ASSUME CreateRecord(t) PROVE UNCHANGED Use!vars
  BY <1>6, SMTT(30)
     DEF CreateRecord, AbstractCall, CallOf, Use!vars, HolderIsLocker, RecordFound
<1>7. ASSUME AlreadyOpen(t) PROVE Use!AlreadyOpen(t)
  <2>1. AbstractCall[t] = "lock"
    BY <1>7, Calls DEF AlreadyOpen, AbstractCall
  <2>2. AbstractCall' = [AbstractCall EXCEPT ![t] = "none"]
    <3>1. AbstractCall' = [AbstractCall EXCEPT ![t] = CallOf("idle")]
      BY <1>7, CallMoves DEF AlreadyOpen
    <3> QED
      BY <3>1, Calls
  <2>3. Holder' = Holder
    BY <1>7 DEF AlreadyOpen, HolderIsLocker
  <2>4. Holder[path[t]] = t
    BY <1>7 DEF AlreadyOpen, HolderIsLocker, OwnerHasMutex, RecordFound, HasRecord
  <2> QED
    BY <1>7, <2>1, <2>2, <2>3, <2>4 DEF AlreadyOpen, Use!AlreadyOpen, Use!Answer
<1>8. ASSUME NotSelf(t) PROVE UNCHANGED Use!vars
  BY <1>8, SMTT(30) DEF NotSelf, AbstractCall, CallOf, Use!vars, HolderIsLocker
<1>9. ASSUME Acquire(t) PROVE Use!Grant(t)
  <2>1. AbstractCall[t] = "lock"
    BY <1>9, Calls DEF Acquire, AbstractCall
  <2>2. AbstractCall' = [AbstractCall EXCEPT ![t] = "locked"]
    <3>1. AbstractCall' = [AbstractCall EXCEPT ![t] = CallOf("own")]
      BY <1>9, CallMoves DEF Acquire
    <3> QED
      BY <3>1, Calls
  <2>3. Holder' = [Holder EXCEPT ![path[t]] = t]
    BY <1>9 DEF Acquire, HolderIsLocker, RecordFound, HasRecord, OneRecordPerDisplay
  <2>4. Holder[path[t]] = NoThread
    BY <1>9 DEF Acquire, HolderIsLocker, RecordFound, HasRecord, OneRecordPerDisplay
  <2> QED
    BY <1>9, <2>1, <2>2, <2>3, <2>4 DEF Acquire, Use!Grant
<1>10. ASSUME TrylockFails(t) PROVE UNCHANGED Use!vars
  BY <1>10, SMTT(30) DEF TrylockFails, AbstractCall, CallOf, Use!vars, HolderIsLocker
<1>11. ASSUME LastTrylockFails(t) PROVE Use!Refuse(t)
  <2>1. AbstractCall[t] = "lock"
    BY <1>11, Calls DEF LastTrylockFails, AbstractCall
  <2>2. AbstractCall' = [AbstractCall EXCEPT ![t] = "refused"]
    <3>1. AbstractCall' = [AbstractCall EXCEPT ![t] = CallOf("refused")]
      BY <1>11, CallMoves DEF LastTrylockFails
    <3> QED
      BY <3>1, Calls
  <2>3. Holder' = Holder
    BY <1>11 DEF LastTrylockFails, HolderIsLocker
  <2>4. Holder[path[t]] \notin {t, NoThread}
    BY <1>11
       DEF LastTrylockFails, HolderIsLocker, RecordFound, HasRecord, MutexHasOwner, AtStep
  <2> QED
    BY <1>11, <2>1, <2>2, <2>3, <2>4 DEF LastTrylockFails, Use!Refuse
<1>12. ASSUME LockFails(t) PROVE Use!Locked(t)
  <2>1. AbstractCall[t] = "refused"
    BY <1>12, Calls DEF LockFails, AbstractCall
  <2>2. AbstractCall' = [AbstractCall EXCEPT ![t] = "none"]
    <3>1. AbstractCall' = [AbstractCall EXCEPT ![t] = CallOf("idle")]
      BY <1>12, CallMoves DEF LockFails
    <3> QED
      BY <3>1, Calls
  <2>3. Holder' = Holder
    BY <1>12 DEF LockFails, HolderIsLocker
  <2> QED
    BY <1>12, <2>1, <2>2, <2>3 DEF LockFails, Use!Locked, Use!Answer
<1>13. ASSUME SetOwner(t) PROVE Use!Done(t)
  <2>1. AbstractCall[t] = "locked"
    BY <1>13, Calls DEF SetOwner, AbstractCall
  <2>2. AbstractCall' = [AbstractCall EXCEPT ![t] = "none"]
    <3>1. AbstractCall' = [AbstractCall EXCEPT ![t] = CallOf("idle")]
      BY <1>13, CallMoves DEF SetOwner
    <3> QED
      BY <3>1, Calls
  <2>3. Holder' = Holder
    BY <1>13 DEF SetOwner, HolderIsLocker
  <2> QED
    BY <1>13, <2>1, <2>2, <2>3 DEF SetOwner, Use!Done, Use!Answer
<1>14. ASSUME NotOwner(t) PROVE Use!NotYours(t)
  <2>1. AbstractCall[t] = "unlock"
    BY <1>14, Calls DEF NotOwner, AbstractCall
  <2>2. AbstractCall' = [AbstractCall EXCEPT ![t] = "none"]
    <3>1. AbstractCall' = [AbstractCall EXCEPT ![t] = CallOf("idle")]
      BY <1>14, CallMoves DEF NotOwner
    <3> QED
      BY <3>1, Calls
  <2>3. Holder' = Holder
    BY <1>14 DEF NotOwner, HolderIsLocker
  <2>4. Holder[path[t]] # t
    BY <1>14 DEF NotOwner, HolderIsLocker, RecordFound, HasRecord, MutexHasOwner
  <2> QED
    BY <1>14, <2>1, <2>2, <2>3, <2>4 DEF NotOwner, Use!NotYours, Use!Answer
<1>15. ASSUME IsOwner(t) PROVE UNCHANGED Use!vars
  BY <1>15, SMTT(30) DEF IsOwner, AbstractCall, CallOf, Use!vars, HolderIsLocker
<1>16. ASSUME ClearOwner(t) PROVE UNCHANGED Use!vars
  BY <1>16, SMTT(30) DEF ClearOwner, AbstractCall, CallOf, Use!vars, HolderIsLocker
<1>17. ASSUME Release(t) PROVE Use!GiveUp(t)
  <2>1. AbstractCall[t] = "unlock"
    BY <1>17, Calls DEF Release, AbstractCall
  <2>2. AbstractCall' = [AbstractCall EXCEPT ![t] = "unlocked"]
    <3>1. AbstractCall' = [AbstractCall EXCEPT ![t] = CallOf("leave")]
      BY <1>17, CallMoves DEF Release
    <3> QED
      BY <3>1, Calls
  <2>3. Holder' = [Holder EXCEPT ![path[t]] = NoThread]
    BY <1>17
       DEF Release, HolderIsLocker, RecordFound, HasRecord, AtStep, OneRecordPerDisplay
  <2>4. Holder[path[t]] = t
    BY <1>17
       DEF Release, HolderIsLocker, RecordFound, HasRecord, AtStep, OneRecordPerDisplay
  <2> QED
    BY <1>17, <2>1, <2>2, <2>3, <2>4 DEF Release, Use!GiveUp
<1>18. ASSUME LeaveMaster(t) PROVE Use!Done(t)
  <2>1. AbstractCall[t] = "unlocked"
    BY <1>18, Calls DEF LeaveMaster, AbstractCall
  <2>2. AbstractCall' = [AbstractCall EXCEPT ![t] = "none"]
    <3>1. AbstractCall' = [AbstractCall EXCEPT ![t] = CallOf("idle")]
      BY <1>18, CallMoves DEF LeaveMaster
    <3> QED
      BY <3>1, Calls
  <2>3. Holder' = Holder
    BY <1>18 DEF LeaveMaster, HolderIsLocker
  <2> QED
    BY <1>18, <2>1, <2>2, <2>3 DEF LeaveMaster, Use!Done, Use!Answer
<1>19. ASSUME BeginScan(t) PROVE UNCHANGED Use!vars
  BY <1>19, SMTT(30) DEF BeginScan, AbstractCall, CallOf, Use!vars, HolderIsLocker
<1>20. ASSUME SkipRecord(t) PROVE UNCHANGED Use!vars
  BY <1>20, SMTT(30) DEF SkipRecord, AbstractCall, CallOf, Use!vars, HolderIsLocker
<1>21. ASSUME ScanOwned(t) PROVE UNCHANGED Use!vars
  BY <1>21, SMTT(30) DEF ScanOwned, AbstractCall, CallOf, Use!vars, HolderIsLocker
<1>22. ASSUME ScanRelease(t) PROVE Use!GiveUpOne(t)
  BY <1>22, SMTT(30)
     DEF ScanRelease, AbstractCall, CallOf, Use!GiveUpOne, HolderIsLocker, RecordFound, AtStep, OneRecordPerDisplay
<1>23. ASSUME EndScan(t) PROVE Use!AllGivenUp(t)
  <2>1. AbstractCall[t] = "unlock_all"
    BY <1>23, Calls DEF EndScan, AbstractCall
  <2>2. AbstractCall' = [AbstractCall EXCEPT ![t] = "none"]
    <3>1. AbstractCall' = [AbstractCall EXCEPT ![t] = CallOf("idle")]
      BY <1>23, CallMoves DEF EndScan
    <3> QED
      BY <3>1, Calls
  <2>3. Holder' = Holder
    BY <1>23 DEF EndScan, HolderIsLocker
  <2>4. \A d \in Displays : Holder[d] # t
    BY <1>23 DEF EndScan, HolderIsLocker, LockedIsHeld, GivenUp, OnlyRecordsLocked
  <2> QED
    BY <1>23, <2>1, <2>2, <2>3, <2>4 DEF EndScan, Use!AllGivenUp, Use!Answer
<1> QED
  BY <1>1, <1>2, <1>3, <1>4, <1>5, <1>6, <1>7, <1>8, <1>9, <1>10, <1>11,
     <1>12, <1>13, <1>14, <1>15, <1>16, <1>17, <1>18, <1>19, <1>20, <1>21, <1>22,
     <1>23
  DEF Call, Run, Use!Next

(* The locks of display_lock.c implement exclusive use: a display changes  *)
(* hands in one step, and every answer was true at some moment of the call *)
(* it ends, at the return itself except for lock_display's DDCRC_LOCKED.   *)
THEOREM Refinement == Spec => ImplementsExclusiveUse
<1>1. ASSUME Init PROVE Use!Init
  <2>1. Holder = [d \in Displays |-> NoThread]
    BY <1>1 DEF Init, Holder
  <2>2. AbstractCall = [t \in Threads |-> "none"]
    BY <1>1, Calls DEF Init, AbstractCall
  <2> QED
    BY <1>1, <2>1, <2>2 DEF Init, Use!Init
<1>2. IInv' => HolderIsLocker'
  BY HolderDefined, PTL
<1>3. IInv /\ IInv' /\ [Next]_vars => [Use!Next]_(Use!vars)
  <2>1. ASSUME IInv, IInv', Next PROVE Use!Next \/ UNCHANGED Use!vars
    BY <1>2, <2>1, HolderDefined, StepRefines DEF Next
  <2>2. ASSUME UNCHANGED vars PROVE UNCHANGED Use!vars
    BY <2>2 DEF vars, records, call, Use!vars, Holder, AbstractCall
  <2> QED
    BY <2>1, <2>2
<1> QED
  BY <1>1, <1>3, InvariantHolds, PTL DEF Spec, Use!Spec, ImplementsExclusiveUse
=============================================================================
