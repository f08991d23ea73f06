-------------------------- MODULE OpenCloseProofs --------------------------
(***************************************************************************)
(* Proofs about OpenClose, for any threads, processes, displays and        *)
(* limits.                                                                 *)
(*                                                                         *)
(* The argument is a table: for each step of opening and closing, which of *)
(* the display lock, the descriptor and the file lock the thread has then. *)
(* A process that dies loses all three at once and leaves the table right. *)
(***************************************************************************)
EXTENDS OpenClose, SequenceTheorems, TLAPS

IsOpen(t, b)  == <<t, b>> \in open_displays
HasLock(t, b) == holder[InstanceOf[t]][b] = t
At(t, b, steps) == pc[t] \in steps /\ bus[t] = b

\* The table.  Unflock may fail unnoticed, hence the two halves for flock.
LockRow(t, b) ==
  HasLock(t, b) <=>
    \/ IsOpen(t, b) /\ ~At(t, b, {"unregister"}) /\ pc[t] # "ended"
    \/ At(t, b, {"open", "flock", "back_close", "back_unlock", "register"})

DescriptorRow(t, b) ==
  <<t, b>> \in fds <=>
    \/ IsOpen(t, b) /\ ~At(t, b, {"unlock", "unregister"})
    \/ At(t, b, {"flock", "back_close", "register"})

FileLockRow(t, b) ==
  /\ flock[b] = t =>
       \/ IsOpen(t, b) /\ ~At(t, b, {"unlock", "unregister"})
       \/ At(t, b, {"register"})
  /\ \/ IsOpen(t, b) /\ ~At(t, b, {"close", "unlock", "unregister"})
     \/ At(t, b, {"register"})
     => flock[b] = t

LockByStep(t)       == \A b \in Buses : LockRow(t, b)
DescriptorByStep(t) == \A b \in Buses : DescriptorRow(t, b)
FileLockByStep(t)   == \A b \in Buses : FileLockRow(t, b)

\* What a call works on.
InHand(t) ==
  /\ pc[t] \in OpenSteps \cup CloseSteps => bus[t] \in Buses
  /\ pc[t] \in CloseSteps => IsOpen(t, bus[t])
  /\ pc[t] \in OpenSteps \ {"lock"} => ~IsOpen(t, bus[t])
  /\ pc[t] = "next" => ndx[t] # -1
  /\ pc[t] = "dead" => \A b \in Buses : ~IsOpen(t, b)

\* Each entry of a list is there once.
Distinct(list) == \A k, l \in 1..Len(list) : list[k] = list[l] => k = l

\* A thread's own list names handles it has open, each once.
OwnList(t) ==
  LET list == open_displays_for_thread[t] IN
    /\ \A k \in 1..Len(list) : IsOpen(t, list[k])
    /\ Distinct(list)
    /\ Len(list) <= opens[t]
    /\ pc[t] \in OpenSteps => Len(list) < opens[t]

ThreadInv(t) ==
  /\ LockByStep(t)
  /\ DescriptorByStep(t)
  /\ FileLockByStep(t)
  /\ InHand(t)
  /\ OwnList(t)

IInv == TypeOK /\ \A t \in Threads : ThreadInv(t)
----------------------------------------------------------------------------
(* g_ptr_array_remove takes the one entry of a handle out of the list and  *)
(* keeps the others, each once.                                            *)
LEMMA WithoutRemoves ==
  ASSUME NEW S, NEW list \in Seq(S), NEW b, Distinct(list)
  PROVE  /\ Without(list, b) \in Seq(S)
         /\ Len(Without(list, b)) <= Len(list)
         /\ Distinct(Without(list, b))
         /\ \A k \in 1..Len(Without(list, b)) :
              \E j \in 1..Len(list) : Without(list, b)[k] = list[j] /\ list[j] # b
         /\ \A j \in 1..Len(list) :
              list[j] # b => \E k \in 1..Len(Without(list, b)) : Without(list, b)[k] = list[j]
<1>1. CASE b \notin Range(list)
  BY <1>1 DEF Without, Range, Distinct
<1>2. CASE b \in Range(list)
  <2> DEFINE n == CHOOSE m \in DOMAIN list : list[m] = b
             w == SubSeq(list, 1, n - 1) \o SubSeq(list, n + 1, Len(list))
  <2>1. n \in 1..Len(list) /\ list[n] = b
    BY <1>2 DEF Range
  <2>2. Without(list, b) = w
    BY <1>2 DEF Without, RemoveAt
  <2> HIDE DEF n
  <2> DEFINE u == SubSeq(list, 1, n - 1)
             v == SubSeq(list, n + 1, Len(list))
  <2>a. /\ u \in Seq(S) /\ Len(u) = n - 1
        /\ \A k \in 1..(n - 1) : u[k] = list[k]
    BY <2>1, SubSeqProperties
  <2>b. /\ v \in Seq(S) /\ Len(v) = Len(list) - n
        /\ \A k \in 1..(Len(list) - n) : v[k] = list[n + k]
    <3>1. /\ n + 1 \in Int /\ Len(list) \in Int
          /\ \A k \in (n + 1)..Len(list) : list[k] \in S
      BY <2>1
    <3>2. /\ v \in Seq(S)
          /\ Len(v) = IF n + 1 <= Len(list) THEN Len(list) - (n + 1) + 1 ELSE 0
          /\ \A k \in 1..(Len(list) - (n + 1) + 1) : v[k] = list[n + 1 + k - 1]
      BY <3>1, SubSeqProperties
    <3> HIDE DEF v
    <3> QED
      BY <2>1, <3>2
  <2> HIDE DEF u, v
  <2>c. w = u \o v
    BY DEF u, v
  <2> HIDE DEF w
  <2>3. w \in Seq(S) /\ Len(w) = Len(list) - 1
    <3>1. u \o v \in Seq(S) /\ Len(u \o v) = Len(u) + Len(v)
      BY <2>a, <2>b, ConcatProperties
    <3> QED
      BY <2>1, <2>a, <2>b, <2>c, <3>1
  <2>4. \A k \in 1..Len(w) : w[k] = IF k < n THEN list[k] ELSE list[k + 1]
    <3>1. \A k \in 1..(Len(u) + Len(v)) :
            (u \o v)[k] = IF k <= Len(u) THEN u[k] ELSE v[k - Len(u)]
      BY <2>a, <2>b, ConcatProperties
    <3> QED
      BY <2>1, <2>3, <2>a, <2>b, <2>c, <3>1
  <2>5. Distinct(w)
    BY <2>1, <2>3, <2>4 DEF Distinct
  <2>6. ASSUME NEW k \in 1..Len(w)
        PROVE  \E j \in 1..Len(list) : w[k] = list[j] /\ list[j] # b
    <3> DEFINE j == IF k < n THEN k ELSE k + 1
    <3>1. j \in 1..Len(list) /\ j # n /\ w[k] = list[j]
      BY <2>1, <2>3, <2>4
    <3> QED
      BY <2>1, <3>1 DEF Distinct
  <2>7. ASSUME NEW j \in 1..Len(list), list[j] # b
        PROVE  \E k \in 1..Len(w) : w[k] = list[j]
    <3> DEFINE k == IF j < n THEN j ELSE j - 1
    <3>1. k \in 1..Len(w) /\ w[k] = list[j]
      BY <2>1, <2>3, <2>4, <2>7
    <3> QED
      BY <3>1
  <2> QED
    BY <2>2, <2>3, <2>5, <2>6, <2>7
<1> QED
  BY <1>1, <1>2

\* A step of t changes nothing that another thread has or does.
OthersKept(t) ==
  \A u \in Threads \ {t} :
    /\ pc'[u] = pc[u] /\ bus'[u] = bus[u] /\ ndx'[u] = ndx[u] /\ opens'[u] = opens[u]
    /\ open_displays_for_thread'[u] = open_displays_for_thread[u]
    /\ \A b \in Buses :
         /\ HasLock(u, b)' <=> HasLock(u, b)
         /\ <<u, b>> \in fds' <=> <<u, b>> \in fds
         /\ IsOpen(u, b)' <=> IsOpen(u, b)
         /\ flock'[b] = u <=> flock[b] = u

(* A thread that keeps what it has and what it does keeps its invariant.   *)
LEMMA KeptInvariant ==
  ASSUME IInv, NEW u \in Threads,
         /\ pc'[u] = pc[u] /\ bus'[u] = bus[u] /\ ndx'[u] = ndx[u] /\ opens'[u] = opens[u]
         /\ open_displays_for_thread'[u] = open_displays_for_thread[u],
         \A b \in Buses :
           /\ HasLock(u, b)' <=> HasLock(u, b)
           /\ <<u, b>> \in fds' <=> <<u, b>> \in fds
           /\ IsOpen(u, b)' <=> IsOpen(u, b)
           /\ flock'[b] = u <=> flock[b] = u
  PROVE  ThreadInv(u)'
<1>1. LockByStep(u)'
  BY DEF IInv, ThreadInv, LockByStep, LockRow, HasLock, IsOpen, At
<1>2. DescriptorByStep(u)'
  BY DEF IInv, ThreadInv, DescriptorByStep, DescriptorRow, IsOpen, At
<1>3. FileLockByStep(u)'
  BY DEF IInv, ThreadInv, FileLockByStep, FileLockRow, IsOpen, At
<1>4. InHand(u)'
  BY DEF IInv, ThreadInv, InHand, IsOpen, OpenSteps, CloseSteps
<1>5. OwnList(u)'
  <2>1. open_displays_for_thread[u] \in Seq(Buses)
    BY DEF IInv, TypeOK
  <2>2. \A k \in 1..Len(open_displays_for_thread[u]) :
          IsOpen(u, open_displays_for_thread[u][k])'
    BY <2>1 DEF IInv, ThreadInv, OwnList, IsOpen
  <2> QED
    BY <2>1, <2>2 DEF IInv, ThreadInv, OwnList, Distinct, OpenSteps, IsOpen
<1> QED
  BY <1>1, <1>2, <1>3, <1>4, <1>5 DEF ThreadInv

(* So the other threads keep theirs.                                       *)
LEMMA OthersKeepInvariant ==
  ASSUME IInv, NEW t \in Threads, OthersKept(t), NEW u \in Threads \ {t}
  PROVE  ThreadInv(u)'
<1> SUFFICES
      /\ /\ pc'[u] = pc[u] /\ bus'[u] = bus[u] /\ ndx'[u] = ndx[u] /\ opens'[u] = opens[u]
         /\ open_displays_for_thread'[u] = open_displays_for_thread[u]
      /\ \A b \in Buses :
           /\ HasLock(u, b)' <=> HasLock(u, b)
           /\ <<u, b>> \in fds' <=> <<u, b>> \in fds
           /\ IsOpen(u, b)' <=> IsOpen(u, b)
           /\ flock'[b] = u <=> flock[b] = u
  BY KeptInvariant
<1> QED
  BY DEF OthersKept

(* A step of a thread leaves the state of the others alone: the display    *)
(* lock it takes is free or its own, the file lock too.                    *)
LEMMA StepKeepsOthers ==
  ASSUME IInv, NEW t \in Threads, Step(t) \/ EndCallback(t),
         pc[t] = "next" => open_displays_for_thread[t] # <<>>
  PROVE  OthersKept(t)
<1> USE OpenCloseAssumption
    DEF IInv, ThreadInv, TypeOK, Steps, OpenSteps, CloseSteps, EndSteps,
        InHand, IsOpen, HasLock, At, Goto, LockOf, SetLock, Handle, Return, OthersKept
<1>1. CASE LockDisplay(t)
  BY <1>1, SMTT(30) DEF LockDisplay
<1>2. CASE LockDisplayFails(t)
  BY <1>2, SMTT(30) DEF LockDisplayFails, TryFailed
<1>3. CASE OpenDevice(t)
  BY <1>3, SMTT(30) DEF OpenDevice
<1>4. CASE OpenDeviceFails(t)
  BY <1>4, SMTT(30) DEF OpenDeviceFails
<1>5. CASE FlockDevice(t)
  BY <1>5, SMTT(30) DEF FlockDevice, FlockTimeout
<1>6. CASE BackOutClose(t)
  BY <1>6, SMTT(30) DEF BackOutClose
<1>7. CASE BackOutUnlock(t)
  <2>1. LockOf(t) = t
    BY <1>7, ZenonT(60) DEF BackOutUnlock, LockByStep, LockRow
  <2>2. \A u \in Threads \ {t}, b \in Buses : HasLock(u, b)' <=> HasLock(u, b)
    BY <1>7, <2>1, SMTT(30) DEF BackOutUnlock, BackedOutLock
  <2> QED
    BY <1>7, <2>2, SMTT(30) DEF BackOutUnlock, TryFailed
<1>8. CASE Register(t)
  BY <1>8, SMTT(30) DEF Register
<1>9. CASE Unflock(t)
  <2>1. flock[bus[t]] = t
    BY <1>9 DEF Unflock, FileLockByStep, FileLockRow
  <2>2. \A u \in Threads \ {t}, b \in Buses : flock'[b] = u <=> flock[b] = u
    BY <1>9, <2>1, SMTT(30) DEF Unflock, Unflocked
  <2> QED
    BY <1>9, <2>2, SMTT(30) DEF Unflock
<1>10. CASE CloseBus(t)
  BY <1>10, SMTT(30) DEF CloseBus, CloseDevice, Unflocked
<1>11. CASE UnlockDisplay(t)
  <2>1. \A u \in Threads \ {t}, b \in Buses : HasLock(u, b)' <=> HasLock(u, b)
    <3>1. CASE LockOf(t) = t
      <4>1. holder' = [holder EXCEPT ![InstanceOf[t]][bus[t]] = NoThread]
        BY <1>11, <3>1 DEF UnlockDisplay
      <4> QED
        BY <3>1, <4>1, SMTT(30)
    <3>2. CASE LockOf(t) # t
      BY <1>11, <3>2 DEF UnlockDisplay
    <3> QED
      BY <3>1, <3>2
  <2> QED
    BY <1>11, <2>1, SMTT(30) DEF UnlockDisplay
<1>12. CASE Unregister(t)
  BY <1>12, SMTT(30) DEF Unregister
<1>13. CASE CloseNext(t)
  BY <1>13, SMTT(30) DEF CloseNext
<1>14. CASE UnlockAll(t)
  BY <1>14, SMTT(30) DEF UnlockAll
<1>15. CASE EndCallback(t)
  BY <1>15, SMTT(30) DEF EndCallback
<1> QED
  BY <1>1, <1>2, <1>3, <1>4, <1>5, <1>6, <1>7, <1>8, <1>9, <1>10, <1>11, <1>12, <1>13,
     <1>14, <1>15 DEF Step

(* The table, for the thread that steps: whatever fails, what its next     *)
(* step has to give back is what it has.  Each case first says what the    *)
(* action takes or gives back.                                             *)
LEMMA StepKeepsTable ==
  ASSUME IInv, NEW t \in Threads, Step(t) \/ EndCallback(t),
         pc[t] = "next" => open_displays_for_thread[t] # <<>>
  PROVE  LockByStep(t)' /\ DescriptorByStep(t)' /\ FileLockByStep(t)'
<1> SUFFICES ASSUME NEW b \in Buses
             PROVE  /\ LockRow(t, b)'
                    /\ DescriptorRow(t, b)'
                    /\ FileLockRow(t, b)'
  BY DEF LockByStep, DescriptorByStep, FileLockByStep
<1> DEFINE mine == b = bus[t]
<1>a. LockRow(t, b) /\ DescriptorRow(t, b) /\ FileLockRow(t, b) /\ InHand(t) /\ TypeOK
  BY DEF IInv, ThreadInv, LockByStep, DescriptorByStep, FileLockByStep
<1>b. /\ b # NoBus /\ t # NoThread /\ InstanceOf[t] \in Instances
      /\ pc \in [Threads -> Steps] /\ bus \in [Threads -> Buses \cup {NoBus}]
      /\ flock \in [Buses -> Threads \cup {NoThread}]
      /\ holder \in [Instances -> [Buses -> Threads \cup {NoThread}]]
      /\ pc[t] \in OpenSteps \cup CloseSteps => bus[t] \in Buses
      /\ pc[t] \in CloseSteps => IsOpen(t, bus[t])
      /\ pc[t] \in OpenSteps \ {"lock"} => ~IsOpen(t, bus[t])
  BY <1>a, OpenCloseAssumption DEF TypeOK, InHand
<1>1. CASE LockDisplay(t)
  <2>1. /\ pc[t] = "lock" /\ pc'[t] = "open"
        /\ bus'[t] = bus[t]
        /\ mine => ~HasLock(t, b)
        /\ HasLock(t, b)' <=> HasLock(t, b) \/ mine
        /\ <<t, b>> \in fds' <=> <<t, b>> \in fds
        /\ IsOpen(t, b)' <=> IsOpen(t, b)
        /\ flock'[b] = t <=> flock[b] = t
    BY <1>1, <1>b, SMTT(30)
    DEF LockDisplay, Goto, Return, LockOf, SetLock, Handle,
        HasLock, IsOpen, OpenSteps, CloseSteps
  <2> QED
    BY <1>a, <1>b, <2>1 DEF LockRow, DescriptorRow, FileLockRow, At, OpenSteps, CloseSteps
<1>2. CASE LockDisplayFails(t)
  <2>1. /\ pc[t] = "lock" /\ pc'[t] \in {"lock", "idle"}
        /\ HasLock(t, b)' <=> HasLock(t, b)
        /\ <<t, b>> \in fds' <=> <<t, b>> \in fds
        /\ IsOpen(t, b)' <=> IsOpen(t, b)
        /\ flock'[b] = t <=> flock[b] = t
    BY <1>2, <1>b, SMTT(30)
    DEF LockDisplayFails, TryFailed, Goto, Return, LockOf, SetLock, Handle,
        HasLock, IsOpen, OpenSteps, CloseSteps
  <2> QED
    BY <1>a, <1>b, <2>1 DEF LockRow, DescriptorRow, FileLockRow, At, OpenSteps, CloseSteps
<1>3. CASE OpenDevice(t)
  <2>1. /\ pc[t] = "open" /\ pc'[t] = "flock"
        /\ bus'[t] = bus[t]
        /\ HasLock(t, b)' <=> HasLock(t, b)
        /\ <<t, b>> \in fds' <=> <<t, b>> \in fds \/ mine
        /\ IsOpen(t, b)' <=> IsOpen(t, b)
        /\ flock'[b] = t <=> flock[b] = t
    BY <1>3, <1>b, SMTT(30)
    DEF OpenDevice, Goto, Return, LockOf, SetLock, Handle,
        HasLock, IsOpen, OpenSteps, CloseSteps
  <2> QED
    BY <1>a, <1>b, <2>1 DEF LockRow, DescriptorRow, FileLockRow, At, OpenSteps, CloseSteps
<1>4. CASE OpenDeviceFails(t)
  <2>1. /\ pc[t] = "open" /\ pc'[t] = "back_unlock"
        /\ bus'[t] = bus[t]
        /\ HasLock(t, b)' <=> HasLock(t, b)
        /\ <<t, b>> \in fds' <=> <<t, b>> \in fds
        /\ IsOpen(t, b)' <=> IsOpen(t, b)
        /\ flock'[b] = t <=> flock[b] = t
    BY <1>4, <1>b, SMTT(30)
    DEF OpenDeviceFails, Goto, Return, LockOf, SetLock, Handle,
        HasLock, IsOpen, OpenSteps, CloseSteps
  <2> QED
    BY <1>a, <1>b, <2>1 DEF LockRow, DescriptorRow, FileLockRow, At, OpenSteps, CloseSteps
<1>5. CASE FlockDevice(t)
  <2>1. /\ pc[t] = "flock"
        /\ bus'[t] = bus[t]
        /\ \/ pc'[t] = "register" /\ (flock'[b] = t <=> flock[b] = t \/ mine)
           \/ pc'[t] = "back_close" /\ (flock'[b] = t <=> flock[b] = t)
        /\ HasLock(t, b)' <=> HasLock(t, b)
        /\ <<t, b>> \in fds' <=> <<t, b>> \in fds
        /\ IsOpen(t, b)' <=> IsOpen(t, b)
    BY <1>5, <1>b, SMTT(30)
    DEF FlockDevice, FlockTimeout, Goto, Return, LockOf, SetLock, Handle,
        HasLock, IsOpen, OpenSteps, CloseSteps
  <2> QED
    BY <1>a, <1>b, <2>1 DEF LockRow, DescriptorRow, FileLockRow, At, OpenSteps, CloseSteps
<1>6. CASE BackOutClose(t)
  <2>1. /\ pc[t] = "back_close" /\ pc'[t] = "back_unlock"
        /\ bus'[t] = bus[t]
        /\ HasLock(t, b)' <=> HasLock(t, b)
        /\ <<t, b>> \in fds' <=> <<t, b>> \in fds /\ ~mine
        /\ IsOpen(t, b)' <=> IsOpen(t, b)
        /\ flock'[b] = t <=> flock[b] = t
    BY <1>6, <1>b, SMTT(30)
    DEF BackOutClose, Goto, Return, LockOf, SetLock, Handle,
        HasLock, IsOpen, OpenSteps, CloseSteps
  <2> QED
    BY <1>a, <1>b, <2>1 DEF LockRow, DescriptorRow, FileLockRow, At, OpenSteps, CloseSteps
<1>7. CASE BackOutUnlock(t)
  <2>1. /\ pc[t] = "back_unlock" /\ pc'[t] \in {"lock", "idle"}
        /\ HasLock(t, b)' <=> HasLock(t, b) /\ ~mine
        /\ <<t, b>> \in fds' <=> <<t, b>> \in fds
        /\ IsOpen(t, b)' <=> IsOpen(t, b)
        /\ flock'[b] = t <=> flock[b] = t
    BY <1>7, <1>b, SMTT(30)
    DEF BackOutUnlock, BackedOutLock, TryFailed, Goto, Return, LockOf, SetLock, Handle,
        HasLock, IsOpen, OpenSteps, CloseSteps
  <2> QED
    BY <1>a, <1>b, <2>1 DEF LockRow, DescriptorRow, FileLockRow, At, OpenSteps, CloseSteps
<1>8. CASE Register(t)
  <2>1. /\ pc[t] = "register" /\ pc'[t] = "idle"
        /\ HasLock(t, b)' <=> HasLock(t, b)
        /\ <<t, b>> \in fds' <=> <<t, b>> \in fds
        /\ IsOpen(t, b)' <=> IsOpen(t, b) \/ mine
        /\ flock'[b] = t <=> flock[b] = t
    BY <1>8, <1>b, SMTT(30)
    DEF Register, Goto, Return, LockOf, SetLock, Handle,
        HasLock, IsOpen, OpenSteps, CloseSteps
  <2> QED
    BY <1>a, <1>b, <2>1 DEF LockRow, DescriptorRow, FileLockRow, At, OpenSteps, CloseSteps
<1>9. CASE Unflock(t)
  <2>1. /\ pc[t] = "unflock" /\ pc'[t] = "close"
        /\ bus'[t] = bus[t]
        /\ flock'[b] = t => flock[b] = t
        /\ ~mine => (flock'[b] = t <=> flock[b] = t)
        /\ HasLock(t, b)' <=> HasLock(t, b)
        /\ <<t, b>> \in fds' <=> <<t, b>> \in fds
        /\ IsOpen(t, b)' <=> IsOpen(t, b)
    BY <1>9, <1>b, SMTT(30)
    DEF Unflock, Unflocked, Goto, Return, LockOf, SetLock, Handle,
        HasLock, IsOpen, OpenSteps, CloseSteps
  <2> QED
    BY <1>a, <1>b, <2>1 DEF LockRow, DescriptorRow, FileLockRow, At, OpenSteps, CloseSteps
<1>10. CASE CloseBus(t)
  <2>1. /\ pc[t] = "close" /\ pc'[t] = "unlock"
        /\ bus'[t] = bus[t]
        /\ HasLock(t, b)' <=> HasLock(t, b)
        /\ <<t, b>> \in fds' <=> <<t, b>> \in fds /\ ~mine
        /\ IsOpen(t, b)' <=> IsOpen(t, b)
        /\ flock'[b] = t <=> flock[b] = t /\ ~mine
    BY <1>10, <1>b, SMTT(30)
    DEF CloseBus, CloseDevice, Unflocked, Goto, Return, LockOf, SetLock, Handle,
        HasLock, IsOpen, OpenSteps, CloseSteps
  <2> QED
    BY <1>a, <1>b, <2>1 DEF LockRow, DescriptorRow, FileLockRow, At, OpenSteps, CloseSteps
<1>11. CASE UnlockDisplay(t)
  <2>1. /\ pc[t] = "unlock" /\ pc'[t] = "unregister"
        /\ bus'[t] = bus[t]
        /\ HasLock(t, b)' <=> HasLock(t, b) /\ ~mine
        /\ <<t, b>> \in fds' <=> <<t, b>> \in fds
        /\ IsOpen(t, b)' <=> IsOpen(t, b)
        /\ flock'[b] = t <=> flock[b] = t
    BY <1>11, <1>b, SMTT(30)
    DEF UnlockDisplay, Goto, Return, LockOf, SetLock, Handle,
        HasLock, IsOpen, OpenSteps, CloseSteps
  <2> QED
    BY <1>a, <1>b, <2>1 DEF LockRow, DescriptorRow, FileLockRow, At, OpenSteps, CloseSteps
<1>12. CASE Unregister(t)
  <2>1. /\ pc[t] = "unregister" /\ pc'[t] \in {"idle", "next"}
        /\ HasLock(t, b)' <=> HasLock(t, b)
        /\ <<t, b>> \in fds' <=> <<t, b>> \in fds
        /\ IsOpen(t, b)' <=> IsOpen(t, b) /\ ~mine
        /\ flock'[b] = t <=> flock[b] = t
    BY <1>12, <1>b, SMTT(30)
    DEF Unregister, Goto, Return, LockOf, SetLock, Handle,
        HasLock, IsOpen, OpenSteps, CloseSteps
  <2> QED
    BY <1>a, <1>b, <2>1 DEF LockRow, DescriptorRow, FileLockRow, At, OpenSteps, CloseSteps
<1>13. CASE CloseNext(t)
  <2>1. /\ pc[t] = "next" /\ pc'[t] \in {"unflock", "unlock_all"}
        /\ HasLock(t, b)' <=> HasLock(t, b)
        /\ <<t, b>> \in fds' <=> <<t, b>> \in fds
        /\ IsOpen(t, b)' <=> IsOpen(t, b)
        /\ flock'[b] = t <=> flock[b] = t
    BY <1>13, <1>b, SMTT(30)
    DEF CloseNext, Goto, Return, LockOf, SetLock, Handle,
        HasLock, IsOpen, OpenSteps, CloseSteps
  <2> QED
    BY <1>a, <1>b, <2>1 DEF LockRow, DescriptorRow, FileLockRow, At, OpenSteps, CloseSteps
<1>14. CASE UnlockAll(t)
  <2>1. /\ pc[t] = "unlock_all" /\ pc'[t] = "ended"
        /\ ~HasLock(t, b)'
        /\ <<t, b>> \in fds' <=> <<t, b>> \in fds
        /\ IsOpen(t, b)' <=> IsOpen(t, b)
        /\ flock'[b] = t <=> flock[b] = t
    BY <1>14, <1>b, SMTT(30)
    DEF UnlockAll, Goto, Return, LockOf, SetLock, Handle,
        HasLock, IsOpen, OpenSteps, CloseSteps
  <2> QED
    BY <1>a, <1>b, <2>1 DEF LockRow, DescriptorRow, FileLockRow, At, OpenSteps, CloseSteps
<1>15. CASE EndCallback(t)
  <2>1. /\ pc[t] = "idle" /\ pc'[t] \in {"unlock_all", "next"}
        /\ HasLock(t, b)' <=> HasLock(t, b)
        /\ <<t, b>> \in fds' <=> <<t, b>> \in fds
        /\ IsOpen(t, b)' <=> IsOpen(t, b)
        /\ flock'[b] = t <=> flock[b] = t
    BY <1>15, <1>b, SMTT(30)
    DEF EndCallback, Goto, Return, LockOf, SetLock, Handle,
        HasLock, IsOpen, OpenSteps, CloseSteps
  <2> QED
    BY <1>a, <1>b, <2>1 DEF LockRow, DescriptorRow, FileLockRow, At, OpenSteps, CloseSteps
<1> QED
  BY <1>1, <1>2, <1>3, <1>4, <1>5, <1>6, <1>7, <1>8, <1>9, <1>10, <1>11, <1>12,
     <1>13, <1>14, <1>15
  DEF Step

(* What the call works on: a handle in the thread's own list is open.      *)
LEMMA StepKeepsInHand ==
  ASSUME IInv, NEW t \in Threads, Step(t) \/ EndCallback(t),
         pc[t] = "next" => open_displays_for_thread[t] # <<>>
  PROVE  InHand(t)'
<1> USE OpenCloseAssumption
    DEF IInv, ThreadInv, TypeOK, Steps, OpenSteps, CloseSteps, EndSteps, LockByStep,
        LockRow, InHand, OwnList, IsOpen, HasLock, At, Goto, LockOf, Handle, Return
<1>1. CASE LockDisplay(t)
  <2>1. bus[t] \in Buses /\ ~IsOpen(t, bus[t])
    <3>1. bus[t] \in Buses /\ pc[t] = "lock" /\ holder[InstanceOf[t]][bus[t]] = NoThread
      BY <1>1 DEF LockDisplay
    <3>2. LockRow(t, bus[t])
      BY <3>1 DEF LockByStep
    <3> QED
      BY <3>1, <3>2
  <2> QED
    BY <1>1, <2>1, SMTT(30) DEF LockDisplay
<1>2. CASE LockDisplayFails(t)
  BY <1>2, SMTT(30) DEF LockDisplayFails, TryFailed
<1>3. CASE OpenDevice(t)
  BY <1>3, SMTT(30) DEF OpenDevice
<1>4. CASE OpenDeviceFails(t)
  BY <1>4, SMTT(30) DEF OpenDeviceFails
<1>5. CASE FlockDevice(t)
  BY <1>5, SMTT(30) DEF FlockDevice, FlockTimeout
<1>6. CASE BackOutClose(t)
  BY <1>6, SMTT(30) DEF BackOutClose
<1>7. CASE BackOutUnlock(t)
  BY <1>7, SMTT(30) DEF BackOutUnlock, BackedOutLock, TryFailed
<1>8. CASE Register(t)
  BY <1>8, SMTT(30) DEF Register
<1>9. CASE Unflock(t)
  BY <1>9, SMTT(30) DEF Unflock, Unflocked
<1>10. CASE CloseBus(t)
  BY <1>10, SMTT(30) DEF CloseBus, CloseDevice, Unflocked
<1>11. CASE UnlockDisplay(t)
  BY <1>11, SMTT(30) DEF UnlockDisplay
<1>12. CASE Unregister(t)
  BY <1>12, SMTT(30) DEF Unregister
<1>13. CASE CloseNext(t)
  <2> DEFINE list == open_displays_for_thread[t]
  <2>1. list \in Seq(Buses) /\ ndx[t] \in Nat
    <3>1. pc[t] = "next"
      BY <1>13 DEF CloseNext
    <3>2. ndx[t] \in -1..MaxOpens[t] /\ ndx[t] # -1 /\ MaxOpens[t] \in Nat
      BY <3>1, ZenonT(60)
    <3> QED
      BY <3>2
  <2>2. CASE ndx[t] < Len(list) /\ bus' = [bus EXCEPT ![t] = list[ndx[t] + 1]]
             /\ pc' = [pc EXCEPT ![t] = "unflock"] /\ open_displays' = open_displays
    <3>1. ndx[t] + 1 \in 1..Len(list)
      BY <2>1, <2>2
    <3>2. bus'[t] \in Buses /\ <<t, bus'[t]>> \in open_displays
      <4>1. list[ndx[t] + 1] \in Buses
        BY <2>1, <3>1, ElementOfSeq
      <4>2. <<t, list[ndx[t] + 1]>> \in open_displays
        <5>1. OwnList(t)
          OBVIOUS
        <5> HIDE DEF IInv
        <5> QED
          BY <3>1, <5>1
      <4> HIDE DEF list
      <4> QED
        BY <2>2, <4>1, <4>2
    <3> QED
      BY <2>2, <3>2
  <2>3. CASE pc' = [pc EXCEPT ![t] = "unlock_all"]
    BY <2>3
  <2> QED
    BY <1>13, <2>2, <2>3 DEF CloseNext
<1>14. CASE UnlockAll(t)
  BY <1>14, SMTT(30) DEF UnlockAll
<1>15. CASE EndCallback(t)
  BY <1>15, SMTT(30) DEF EndCallback
<1> QED
  BY <1>1, <1>2, <1>3, <1>4, <1>5, <1>6, <1>7, <1>8, <1>9, <1>10, <1>11, <1>12,
     <1>13, <1>14, <1>15
  DEF Step

(* The thread's own list of handles.                                       *)
LEMMA StepKeepsOwnList ==
  ASSUME IInv, NEW t \in Threads, Step(t) \/ EndCallback(t),
         pc[t] = "next" => open_displays_for_thread[t] # <<>>
  PROVE  OwnList(t)' /\ open_displays_for_thread' \in [Threads -> Seq(Buses)]
<1> DEFINE list == open_displays_for_thread[t]
<1>1. /\ list \in Seq(Buses) /\ Distinct(list) /\ opens[t] \in Nat
      /\ Len(list) <= opens[t]
      /\ pc[t] \in OpenSteps => Len(list) < opens[t]
      /\ \A k \in 1..Len(list) : IsOpen(t, list[k])
      /\ open_displays_for_thread \in [Threads -> Seq(Buses)]
      /\ pc \in [Threads -> Steps]
      /\ pc[t] \in OpenSteps \cup CloseSteps => bus[t] \in Buses
      /\ pc[t] \in OpenSteps \ {"lock"} => ~IsOpen(t, bus[t])
  BY DEF IInv, TypeOK, ThreadInv, OwnList, InHand
<1>2. CASE Register(t)
  <2>1. /\ open_displays_for_thread' =
             [open_displays_for_thread EXCEPT ![t] = Append(list, bus[t])]
        /\ pc[t] = "register" /\ pc'[t] = "idle" /\ opens' = opens
        /\ open_displays' = open_displays \cup {<<t, bus[t]>>}
    BY <1>1, <1>2 DEF Register, Return, Goto, Handle
  <2>2. bus[t] \in Buses /\ ~IsOpen(t, bus[t]) /\ Len(list) < opens[t]
    BY <1>1, <2>1 DEF OpenSteps
  <2> DEFINE new == Append(list, bus[t])
  <2>3. /\ new \in Seq(Buses) /\ Len(new) = Len(list) + 1
        /\ \A k \in 1..Len(list) : new[k] = list[k]
        /\ new[Len(list) + 1] = bus[t]
    BY <1>1, <2>2
  <2> HIDE DEF new
  <2>4. \A k \in 1..Len(new) : <<t, new[k]>> \in open_displays'
    <3>1. ASSUME NEW k \in 1..Len(list) PROVE <<t, new[k]>> \in open_displays'
      BY <1>1, <2>1, <2>3, <3>1 DEF IsOpen
    <3>2. <<t, new[Len(list) + 1]>> \in open_displays'
      BY <2>1, <2>3
    <3>3. \A k \in 1..Len(new) : k \in 1..Len(list) \/ k = Len(list) + 1
      BY <1>1, <2>3
    <3> QED
      BY <3>1, <3>2, <3>3
  <2>5. Distinct(new)
    BY <1>1, <2>2, <2>3 DEF Distinct
  <2>6. open_displays_for_thread'[t] = new
    BY <1>1, <2>1 DEF new
  <2>7. open_displays_for_thread' \in [Threads -> Seq(Buses)]
    BY <1>1, <2>1, <2>3 DEF new
  <2> QED
    BY <1>1, <2>1, <2>2, <2>3, <2>4, <2>5, <2>6, <2>7
    DEF OwnList, IsOpen, Distinct, OpenSteps
<1>3. CASE Unregister(t)
  <2> DEFINE new == Without(list, bus[t])
  <2>1. /\ open_displays_for_thread' = [open_displays_for_thread EXCEPT ![t] = new]
        /\ pc'[t] \in {"idle", "next"} /\ opens' = opens
        /\ open_displays' = open_displays \ {<<t, bus[t]>>}
    BY <1>1, <1>3 DEF Unregister, Goto, Handle
  <2>2. /\ new \in Seq(Buses) /\ Len(new) <= Len(list) /\ Distinct(new)
        /\ \A k \in 1..Len(new) :
             \E j \in 1..Len(list) : new[k] = list[j] /\ list[j] # bus[t]
    BY <1>1, WithoutRemoves
  <2> HIDE DEF new
  <2>3. \A k \in 1..Len(new) : <<t, new[k]>> \in open_displays'
    BY <1>1, <2>1, <2>2 DEF IsOpen
  <2>4. open_displays_for_thread'[t] = new
        /\ open_displays_for_thread' \in [Threads -> Seq(Buses)]
    BY <1>1, <2>1, <2>2
  <2> QED
    BY <1>1, <2>1, <2>2, <2>3, <2>4
    DEF OwnList, IsOpen, Distinct, OpenSteps
<1>4. CASE ~Register(t) /\ ~Unregister(t)
  <2>1. /\ open_displays_for_thread' = open_displays_for_thread
        /\ open_displays' = open_displays /\ opens' = opens
        /\ pc'[t] \in OpenSteps => pc[t] \in OpenSteps
    BY <1>1, <1>4
    DEF Step, LockDisplay, LockDisplayFails, OpenDevice, OpenDeviceFails, FlockDevice,
        FlockTimeout, BackOutClose, BackOutUnlock, TryFailed, Unflock, CloseBus,
        UnlockDisplay, CloseNext, UnlockAll, EndCallback, Goto, Return, OpenSteps
  <2> QED
    BY <1>1, <2>1 DEF OwnList, IsOpen
<1> QED
  BY <1>2, <1>3, <1>4

\* TypeOK but for the lists, which StepKeepsOwnList has.
OtherTypes ==
  /\ holder \in [Instances -> [Buses -> Threads \cup {NoThread}]]
  /\ fds \subseteq Threads \X Buses
  /\ flock \in [Buses -> Threads \cup {NoThread}]
  /\ open_displays \subseteq Threads \X Buses
  /\ pc \in [Threads -> Steps]
  /\ bus \in [Threads -> Buses \cup {NoBus}]
  /\ tries \in [Threads -> 0..MaxTries]
  /\ ndx \in [Threads -> Int]
  /\ opens \in [Threads -> Nat]
  /\ \A t \in Threads : opens[t] <= MaxOpens[t] /\ ndx[t] \in -1..MaxOpens[t]

(* The index of ddc_close_all_displays_for_current_thread stays within the *)
(* number of displays the thread ever opened.                              *)
LEMMA StepKeepsTypes ==
  ASSUME IInv, NEW t \in Threads, Step(t) \/ EndCallback(t),
         pc[t] = "next" => open_displays_for_thread[t] # <<>>
  PROVE  OtherTypes'
<1>a. /\ OtherTypes /\ MaxOpens \in [Threads -> Nat]
      /\ InstanceOf[t] \in Instances /\ MaxTries \in Nat
      /\ open_displays_for_thread \in [Threads -> Seq(Buses)]
  BY OpenCloseAssumption DEF IInv, TypeOK, OtherTypes
<1>b. /\ pc[t] \in OpenSteps \cup CloseSteps => bus[t] \in Buses
      /\ Len(open_displays_for_thread[t]) <= opens[t]
  BY DEF IInv, ThreadInv, InHand, OwnList
<1>c. TryFailed(t) => /\ pc' \in [Threads -> Steps]
                       /\ bus' \in [Threads -> Buses \cup {NoBus}]
                       /\ tries' \in [Threads -> 0..MaxTries]
  <2> USE DEF OtherTypes, Steps, OpenSteps
  <2>1. CASE tries[t] < MaxTries
    <3>1. tries[t] + 1 \in 0..MaxTries
      BY <1>a, <2>1
    <3> QED
      BY <1>a, <2>1, <3>1 DEF TryFailed, Goto
  <2>2. CASE ~(tries[t] < MaxTries)
    <3>1. 0 \in 0..MaxTries
      BY <1>a
    <3>2. TryFailed(t) => /\ bus' = [bus EXCEPT ![t] = NoBus]
                          /\ tries' = [tries EXCEPT ![t] = 0]
                          /\ pc' = [pc EXCEPT ![t] = "idle"]
      BY <2>2 DEF TryFailed, Return, Goto
    <3> QED
      BY <1>a, <3>1, <3>2
  <2> QED
    BY <2>1, <2>2
<1>d. \A h \in Threads \cup {NoThread} : bus[t] \in Buses /\ SetLock(t, h) =>
        holder' \in [Instances -> [Buses -> Threads \cup {NoThread}]]
  BY <1>a DEF OtherTypes, SetLock
<1> USE DEF OtherTypes, Steps, OpenSteps, CloseSteps, EndSteps, Goto, LockOf, SetLock,
        Handle, Return
<1>1. CASE LockDisplay(t)
  BY <1>a, <1>b, <1>1, SMTT(30) DEF LockDisplay
<1>2. CASE LockDisplayFails(t)
  BY <1>a, <1>c, <1>2 DEF LockDisplayFails
<1>3. CASE OpenDevice(t)
  BY <1>a, <1>b, <1>3, SMTT(30) DEF OpenDevice
<1>4. CASE OpenDeviceFails(t)
  BY <1>a, <1>b, <1>4, SMTT(30) DEF OpenDeviceFails
<1>5. CASE FlockDevice(t)
  <2>1. bus[t] \in Buses /\ pc' \in [Threads -> Steps]
    BY <1>a, <1>b, <1>5 DEF FlockDevice, FlockTimeout
  <2>2. flock' \in [Buses -> Threads \cup {NoThread}]
    BY <1>a, <1>5, <2>1 DEF FlockDevice
  <2> QED
    BY <1>a, <1>5, <2>1, <2>2 DEF FlockDevice
<1>6. CASE BackOutClose(t)
  BY <1>a, <1>b, <1>6, SMTT(30) DEF BackOutClose
<1>7. CASE BackOutUnlock(t)
  BY <1>a, <1>b, <1>c, <1>d, <1>7 DEF BackOutUnlock, BackedOutLock
<1>8. CASE Register(t)
  BY <1>a, <1>b, <1>8, SMTT(30) DEF Register
<1>9. CASE Unflock(t)
  BY <1>a, <1>b, <1>9, SMTT(30) DEF Unflock, Unflocked
<1>10. CASE CloseBus(t)
  BY <1>a, <1>b, <1>10, SMTT(30) DEF CloseBus, CloseDevice, Unflocked
<1>11. CASE UnlockDisplay(t)
  BY <1>a, <1>b, <1>d, <1>11 DEF UnlockDisplay
<1>12. CASE Unregister(t)
  BY <1>a, <1>b, <1>12, SMTT(30) DEF Unregister
<1>14. CASE UnlockAll(t)
  BY <1>a, <1>b, <1>14, SMTT(30) DEF UnlockAll
<1>15. CASE EndCallback(t)
  BY <1>a, <1>b, <1>15, SMTT(30) DEF EndCallback
<1>13. CASE CloseNext(t)
  <2> DEFINE list == open_displays_for_thread[t]
  <2>1. CASE /\ ndx[t] < Len(list)
             /\ bus' = [bus EXCEPT ![t] = list[ndx[t] + 1]]
             /\ ndx' = [ndx EXCEPT ![t] = @ + 1]
             /\ pc' = [pc EXCEPT ![t] = "unflock"]
             /\ UNCHANGED <<holder, fds, flock, open_displays, tries, opens>>
    <3>1. bus'[t] \in Buses
      BY <1>13, <2>1, StepKeepsInHand DEF InHand, IInv, TypeOK
    <3>2. Len(list) \in Nat /\ ndx[t] \in Int /\ opens[t] \in Nat /\ MaxOpens[t] \in Nat
          /\ opens[t] <= MaxOpens[t] /\ ndx[t] >= -1
      BY <1>a
    <3>3. ndx[t] + 1 \in -1..MaxOpens[t]
      BY <1>b, <2>1, <3>2
    <3> HIDE DEF list
    <3>4. ndx' \in [Threads -> Int] /\ \A u \in Threads : ndx'[u] \in -1..MaxOpens[u]
      BY <1>a, <2>1, <3>3
    <3>5. bus' \in [Threads -> Buses \cup {NoBus}]
      BY <1>a, <2>1, <3>1
    <3> QED
      BY <1>a, <2>1, <3>4, <3>5
  <2>2. CASE /\ pc' = [pc EXCEPT ![t] = "unlock_all"]
             /\ UNCHANGED <<holder, fds, flock, open_displays, bus, tries, ndx, opens>>
    BY <1>a, <2>2
  <2> QED
    BY <1>13, <2>1, <2>2 DEF CloseNext
<1> QED
  BY <1>1, <1>2, <1>3, <1>4, <1>5, <1>6, <1>7, <1>8, <1>9, <1>10, <1>11, <1>12,
     <1>13, <1>14, <1>15
  DEF Step

(* A step of a thread that does not end its process.                       *)
LEMMA StepKeepsInvariant ==
  ASSUME IInv, NEW t \in Threads, Step(t) \/ EndCallback(t),
         pc[t] = "next" => open_displays_for_thread[t] # <<>>
  PROVE  IInv'
<1>1. TypeOK'
  BY StepKeepsTypes, StepKeepsOwnList DEF OtherTypes, TypeOK
<1>2. ThreadInv(t)'
  BY StepKeepsTable, StepKeepsInHand, StepKeepsOwnList DEF ThreadInv
<1>3. \A u \in Threads \ {t} : ThreadInv(u)'
  BY <1>1, StepKeepsOthers, OthersKeepInvariant
<1> QED
  BY <1>1, <1>2, <1>3 DEF IInv

(* A call begins: nothing is taken yet.                                    *)
LEMMA CallKeepsInvariant ==
  ASSUME IInv, NEW t \in Threads, NEW b \in Buses, Open(t, b) \/ Close(t, b)
  PROVE  IInv'
<1>1. TypeOK'
  <2> USE OpenCloseAssumption DEF IInv, TypeOK, Goto, Steps, OpenSteps, CloseSteps
  <2>1. CASE Open(t, b)
    <3>1. opens[t] + 1 \in Nat /\ opens[t] + 1 <= MaxOpens[t]
      BY <2>1 DEF Open
    <3>2. opens' \in [Threads -> Nat] /\ \A u \in Threads : opens'[u] <= MaxOpens[u]
      BY <2>1, <3>1 DEF Open
    <3> QED
      BY <2>1, <3>2, SMTT(30) DEF Open
  <2>2. CASE Close(t, b)
    BY <2>2 DEF Close
  <2> QED
    BY <2>1, <2>2
<1>2. OthersKept(t)
  BY SMTT(30) DEF IInv, TypeOK, Open, Close, Goto, OthersKept, HasLock, IsOpen
<1>3. /\ pc[t] = "idle" /\ pc'[t] \in {"lock", "unflock"} /\ bus'[t] = b
      /\ pc'[t] = "unflock" => IsOpen(t, b) /\ opens' = opens
      /\ pc'[t] = "lock" => opens'[t] = opens[t] + 1
      /\ UNCHANGED <<holder, fds, flock, open_displays, open_displays_for_thread, ndx>>
  BY DEF IInv, TypeOK, Open, Close, Goto, IsOpen
<1>4. LockByStep(t)' /\ DescriptorByStep(t)' /\ FileLockByStep(t)'
  BY <1>3 DEF IInv, ThreadInv, LockByStep, DescriptorByStep, FileLockByStep, LockRow,
              DescriptorRow, FileLockRow, At, HasLock, IsOpen
<1>5. InHand(t)'
  BY <1>3 DEF InHand, OpenSteps, CloseSteps, IsOpen
<1>6. OwnList(t)'
  BY <1>3 DEF IInv, TypeOK, ThreadInv, OwnList, OpenSteps, IsOpen, Distinct
<1> QED
  BY <1>1, <1>2, <1>4, <1>5, <1>6, OthersKeepInvariant DEF IInv, ThreadInv

(* The end of a process, at any of its steps or by the assertion that      *)
(* close() succeeded: the other processes keep what they have.             *)
LEMMA DeathKeepsInvariant ==
  ASSUME IInv, NEW i \in Instances, Die(i)
  PROVE  IInv'
<1> USE OpenCloseAssumption
<1>1. TypeOK'
  BY SMTT(30) DEF IInv, TypeOK, Die, Steps
<1>2. ASSUME NEW t \in Threads, InstanceOf[t] = i PROVE ThreadInv(t)'
  <2>1. /\ pc'[t] = "dead" /\ open_displays_for_thread'[t] = <<>> /\ opens'[t] \in Nat
        /\ \A b \in Buses : /\ ~HasLock(t, b)' /\ <<t, b>> \notin fds'
                            /\ ~IsOpen(t, b)' /\ flock'[b] # t
    BY <1>2 DEF Die, HasLock, IsOpen, IInv, TypeOK
  <2>2. LockByStep(t)' /\ DescriptorByStep(t)' /\ FileLockByStep(t)'
    BY <2>1 DEF LockByStep, DescriptorByStep, FileLockByStep, LockRow, DescriptorRow,
                FileLockRow, At, HasLock, IsOpen
  <2>3. InHand(t)'
    BY <2>1 DEF InHand, OpenSteps, CloseSteps, IsOpen
  <2>4. OwnList(t)'
    BY <2>1 DEF OwnList, Distinct, OpenSteps
  <2> QED
    BY <2>2, <2>3, <2>4 DEF ThreadInv
<1>3. ASSUME NEW t \in Threads, InstanceOf[t] # i PROVE ThreadInv(t)'
  <2>1. /\ pc'[t] = pc[t] /\ bus'[t] = bus[t] /\ ndx'[t] = ndx[t] /\ opens'[t] = opens[t]
        /\ open_displays_for_thread'[t] = open_displays_for_thread[t]
    BY <1>3 DEF Die, IInv, TypeOK
  <2>2. ASSUME NEW b \in Buses
        PROVE  /\ HasLock(t, b)' <=> HasLock(t, b)
               /\ <<t, b>> \in fds' <=> <<t, b>> \in fds
               /\ IsOpen(t, b)' <=> IsOpen(t, b)
               /\ flock'[b] = t <=> flock[b] = t
    <3>1. flock[b] = t => <<t, b>> \in fds
      BY DEF IInv, ThreadInv, FileLockByStep, FileLockRow, DescriptorByStep,
             DescriptorRow, At
    <3> QED
      BY <1>3, <3>1 DEF Die, HasLock, IsOpen, IInv, TypeOK
  <2> QED
    BY <1>1, <2>1, <2>2, KeptInvariant
<1> QED
  BY <1>1, <1>2, <1>3 DEF IInv

(* IInv holds in every reachable state.                                    *)
THEOREM InvariantHolds == Spec => []IInv
<1> USE OpenCloseAssumption
<1>1. Init => IInv
  <2> SUFFICES ASSUME Init PROVE IInv
    OBVIOUS
  <2>1. TypeOK
    BY SMTT(30) DEF Init, TypeOK, Steps
  <2>2. ASSUME NEW t \in Threads PROVE ThreadInv(t)
    BY DEF Init, ThreadInv, LockByStep, DescriptorByStep, FileLockByStep, InHand, OwnList,
           LockRow, DescriptorRow, FileLockRow, At, HasLock, IsOpen, Distinct,
           OpenSteps, CloseSteps
  <2> QED
    BY <2>1, <2>2 DEF IInv
<1>2. IInv /\ [Next]_vars => IInv'
  <2>1. ASSUME IInv, NEW t \in Threads, Step(t) \/ EndCallback(t) PROVE IInv'
    <3>1. CASE pc[t] = "next" /\ open_displays_for_thread[t] = <<>>
      <4>1. CloseNext(t)
        BY <2>1, <3>1
        DEF Step, LockDisplay, LockDisplayFails, OpenDevice, OpenDeviceFails,
            FlockDevice, BackOutClose, BackOutUnlock, Register, Unflock, CloseBus,
            UnlockDisplay, Unregister, UnlockAll, EndCallback
      <4>2. Die(InstanceOf[t])
        BY <2>1, <3>1, <4>1 DEF CloseNext, IInv, TypeOK, ThreadInv, InHand
      <4> QED
        BY <2>1, <4>2, DeathKeepsInvariant
    <3> QED
      BY <2>1, <3>1, StepKeepsInvariant
  <2>2. IInv /\ Next => IInv'
    BY <2>1, CallKeepsInvariant, DeathKeepsInvariant DEF Next, Crash
  <2>3. IInv /\ UNCHANGED vars => IInv'
    BY DEF vars, IInv, TypeOK, ThreadInv, LockByStep, DescriptorByStep, FileLockByStep,
           InHand, OwnList, LockRow, DescriptorRow, FileLockRow, At, HasLock, IsOpen,
           Distinct
  <2> QED
    BY <2>2, <2>3
<1> QED
  BY <1>1, <1>2, PTL DEF Spec

(* NothingLeftBehind: between its calls a thread has the display lock, the *)
(* descriptor and the file lock of exactly the displays it has open,       *)
(* whatever stage of i2c_open_bus failed before.                           *)
THEOREM FailedOpensBackOut == Spec => []NothingLeftBehind
<1>1. IInv => NothingLeftBehind
  BY DEF IInv, ThreadInv, NothingLeftBehind, LockByStep, DescriptorByStep,
         FileLockByStep, LockRow, DescriptorRow, FileLockRow, At, HasLock, IsOpen
<1> QED
  BY <1>1, InvariantHolds, PTL

(* OneOpenHandle: flock() allows one descriptor the file lock, and a       *)
(* handle that is not being closed has it.                                 *)
THEOREM DisplaysAreExclusive == Spec => []OneOpenHandle
<1>1. IInv => OneOpenHandle
  <2> SUFFICES ASSUME IInv, NEW b \in Buses, NEW t \in Threads, IsOpen(t, b),
                      ~BeingClosed(t, b)
               PROVE  flock[b] = t
    BY DEF OneOpenHandle, IsOpen
  <2> QED
    BY DEF IInv, ThreadInv, FileLockByStep, FileLockRow, At, BeingClosed, CloseSteps
<1> QED
  BY <1>1, InvariantHolds, PTL

(* LockCoversDescriptor: i2c_open_bus opens the device after it took the   *)
(* display lock, i2c_close_bus closes it before it gives the lock back.    *)
THEOREM DescriptorsAreCovered == Spec => []LockCoversDescriptor
<1>1. IInv => LockCoversDescriptor
  <2> SUFFICES ASSUME IInv, NEW t \in Threads, NEW b \in Buses, <<t, b>> \in fds,
                      pc[t] # "ended"
               PROVE  HasLock(t, b)
    BY DEF LockCoversDescriptor, HasLock, IInv, TypeOK
  <2> QED
    BY DEF IInv, ThreadInv, LockByStep, DescriptorByStep, LockRow, DescriptorRow, At
<1> QED
  BY <1>1, InvariantHolds, PTL

----------------------------------------------------------------------------
(***************************************************************************)
(* The end of a callback thread.                                           *)
(***************************************************************************)

\* A thread's own list has all handles it has open.
Listed(t) ==
  \A b \in Buses : IsOpen(t, b) =>
    \E k \in 1..Len(open_displays_for_thread[t]) : open_displays_for_thread[t][k] = b

\* The loop over the list was left with no handle in it only if it never began.
LoopLeft(t) ==
  pc[t] \in {"unlock_all", "ended"} => (ndx[t] = 0 <=> open_displays_for_thread[t] = <<>>)

EndInv == \A t \in Threads : Listed(t) /\ LoopLeft(t)

(* The steps of the thread itself.                                         *)
LEMMA StepKeepsEnd ==
  ASSUME IInv, NEW t \in Threads, Step(t) \/ EndCallback(t), Listed(t), LoopLeft(t),
         pc[t] = "next" => open_displays_for_thread[t] # <<>>
  PROVE  Listed(t)' /\ LoopLeft(t)'
<1> DEFINE list == open_displays_for_thread[t]
<1>1. /\ list \in Seq(Buses) /\ Distinct(list)
      /\ open_displays_for_thread \in [Threads -> Seq(Buses)]
      /\ pc \in [Threads -> Steps] /\ ndx \in [Threads -> Int]
      /\ pc[t] \in OpenSteps \cup CloseSteps => bus[t] \in Buses
  BY DEF IInv, TypeOK, ThreadInv, OwnList, InHand
<1>2. CASE Register(t)
  <2>1. /\ open_displays_for_thread' =
             [open_displays_for_thread EXCEPT ![t] = Append(list, bus[t])]
        /\ pc[t] = "register" /\ pc'[t] = "idle"
        /\ open_displays' = open_displays \cup {<<t, bus[t]>>}
    BY <1>1, <1>2 DEF Register, Return, Goto, Handle
  <2>2. bus[t] \in Buses
    BY <1>1, <2>1 DEF OpenSteps
  <2> DEFINE new == Append(list, bus[t])
  <2>3. /\ Len(new) = Len(list) + 1 /\ Len(list) \in Nat
        /\ \A k \in 1..Len(list) : new[k] = list[k]
        /\ new[Len(list) + 1] = bus[t]
    BY <1>1, <2>2
  <2>4. open_displays_for_thread'[t] = new
    BY <1>1, <2>1
  <2> HIDE DEF new
  <2>5. ASSUME NEW b \in Buses, IsOpen(t, b)' PROVE \E k \in 1..Len(new) : new[k] = b
    <3>1. CASE b = bus[t]
      BY <2>3, <3>1
    <3>2. CASE b # bus[t]
      <4>1. PICK k \in 1..Len(list) : list[k] = b
        BY <2>1, <2>5, <3>2 DEF IsOpen, Listed
      <4> QED
        BY <2>3, <4>1
    <3> QED
      BY <3>1, <3>2
  <2> QED
    BY <2>1, <2>4, <2>5 DEF Listed, LoopLeft
<1>3. CASE Unregister(t)
  <2> DEFINE new == Without(list, bus[t])
  <2>1. /\ open_displays_for_thread' = [open_displays_for_thread EXCEPT ![t] = new]
        /\ pc'[t] \in {"idle", "next"}
        /\ open_displays' = open_displays \ {<<t, bus[t]>>}
    BY <1>1, <1>3 DEF Unregister, Goto, Handle
  <2>2. \A j \in 1..Len(list) :
          list[j] # bus[t] => \E k \in 1..Len(new) : new[k] = list[j]
    <3>1. list \in Seq(Buses) /\ Distinct(list)
      BY <1>1
    <3> HIDE DEF list
    <3> QED
      BY <3>1, WithoutRemoves
  <2>3. open_displays_for_thread'[t] = new
    BY <1>1, <2>1
  <2> HIDE DEF new
  <2>4. ASSUME NEW b \in Buses, IsOpen(t, b)' PROVE \E k \in 1..Len(new) : new[k] = b
    <3>1. PICK j \in 1..Len(list) : list[j] = b
      BY <2>1, <2>4 DEF IsOpen, Listed
    <3>2. b # bus[t]
      BY <2>1, <2>4 DEF IsOpen
    <3> QED
      BY <2>2, <3>1, <3>2
  <2> QED
    BY <2>1, <2>3, <2>4 DEF Listed, LoopLeft
<1>4. CASE ~Register(t) /\ ~Unregister(t)
  <2>1. /\ open_displays_for_thread' = open_displays_for_thread
        /\ open_displays' = open_displays
    BY <1>4
    DEF Step, LockDisplay, LockDisplayFails, OpenDevice, OpenDeviceFails, FlockDevice,
        FlockTimeout, BackOutClose, BackOutUnlock, TryFailed, Unflock, CloseBus,
        UnlockDisplay, CloseNext, UnlockAll, EndCallback, Goto, Return
  <2>2. LoopLeft(t)'
    <3>1. CASE EndCallback(t)
      BY <1>1, <2>1, <3>1 DEF EndCallback, Goto, LoopLeft
    <3>2. CASE CloseNext(t)
      <4>1. CASE pc'[t] = "unflock"
        BY <4>1 DEF LoopLeft
      <4>2. CASE pc'[t] # "unflock"
        <5>1. ndx' = ndx /\ ndx[t] >= Len(list) /\ list # <<>>
          BY <1>1, <3>2, <4>2 DEF CloseNext, Goto
        <5>2. Len(list) \in Nat /\ Len(list) # 0
          BY <1>1, <5>1
        <5> QED
          BY <1>1, <2>1, <5>1, <5>2 DEF LoopLeft
      <4> QED
        BY <4>1, <4>2
    <3>3. CASE UnlockAll(t)
      BY <2>1, <3>3 DEF UnlockAll, Goto, LoopLeft
    <3>4. CASE ~EndCallback(t) /\ ~CloseNext(t) /\ ~UnlockAll(t)
      <4>1. pc'[t] \notin {"unlock_all", "ended"}
        BY <1>1, <1>4, <3>4
        DEF Step, LockDisplay, LockDisplayFails, OpenDevice, OpenDeviceFails, FlockDevice,
            FlockTimeout, BackOutClose, BackOutUnlock, TryFailed, Unflock, CloseBus,
            UnlockDisplay, Goto, Return
      <4> QED
        BY <4>1 DEF LoopLeft
    <3> QED
      BY <3>1, <3>2, <3>3, <3>4
  <2> QED
    BY <2>1, <2>2 DEF Listed, IsOpen
<1> QED
  BY <1>2, <1>3, <1>4

(* All steps.                                                              *)
LEMMA NextKeepsEnd == IInv /\ EndInv /\ [Next]_vars => EndInv'
<1> SUFFICES ASSUME IInv, EndInv, [Next]_vars PROVE EndInv'
  OBVIOUS
<1> USE OpenCloseAssumption
<1>1. ASSUME NEW t \in Threads, OthersKept(t), NEW u \in Threads \ {t}
      PROVE  Listed(u)' /\ LoopLeft(u)'
  <2>1. /\ pc'[u] = pc[u] /\ ndx'[u] = ndx[u]
        /\ open_displays_for_thread'[u] = open_displays_for_thread[u]
        /\ \A b \in Buses : IsOpen(u, b)' <=> IsOpen(u, b)
    BY <1>1 DEF OthersKept
  <2> QED
    BY <2>1 DEF EndInv, Listed, LoopLeft
<1>2. ASSUME NEW i \in Instances, Die(i) PROVE EndInv'
  <2> SUFFICES ASSUME NEW t \in Threads PROVE Listed(t)' /\ LoopLeft(t)'
    BY DEF EndInv
  <2>1. CASE InstanceOf[t] = i
    <3>1. pc'[t] = "dead" /\ \A b \in Buses : ~IsOpen(t, b)'
      BY <1>2, <2>1 DEF Die, IsOpen
    <3> QED
      BY <3>1 DEF Listed, LoopLeft
  <2>2. CASE InstanceOf[t] # i
    <3>1. /\ pc'[t] = pc[t] /\ ndx'[t] = ndx[t]
          /\ open_displays_for_thread'[t] = open_displays_for_thread[t]
          /\ \A b \in Buses : IsOpen(t, b)' => IsOpen(t, b)
      BY <1>2, <2>2 DEF Die, IsOpen, IInv, TypeOK
    <3> QED
      BY <3>1 DEF EndInv, Listed, LoopLeft
  <2> QED
    BY <2>1, <2>2
<1>3. ASSUME NEW t \in Threads, Step(t) \/ EndCallback(t) PROVE EndInv'
  <2>1. CASE pc[t] = "next" /\ open_displays_for_thread[t] = <<>>
    <3>1. CloseNext(t)
      BY <1>3, <2>1
      DEF Step, LockDisplay, LockDisplayFails, OpenDevice, OpenDeviceFails,
          FlockDevice, BackOutClose, BackOutUnlock, Register, Unflock, CloseBus,
          UnlockDisplay, Unregister, UnlockAll, EndCallback
    <3>2. Die(InstanceOf[t])
      BY <2>1, <3>1 DEF CloseNext, IInv, TypeOK, ThreadInv, InHand, OwnList
    <3> QED
      BY <1>2, <3>2
  <2>2. CASE ~(pc[t] = "next" /\ open_displays_for_thread[t] = <<>>)
    <3>1. Listed(t)' /\ LoopLeft(t)'
      BY <1>3, <2>2, StepKeepsEnd DEF EndInv
    <3>2. OthersKept(t)
      BY <1>3, <2>2, StepKeepsOthers
    <3> QED
      BY <1>1, <3>1, <3>2 DEF EndInv
  <2> QED
    BY <2>1, <2>2
<1>4. ASSUME NEW t \in Threads, NEW b \in Buses, Open(t, b) \/ Close(t, b) PROVE EndInv'
  <2>1. /\ UNCHANGED <<open_displays, open_displays_for_thread, ndx>>
        /\ \A u \in Threads : pc'[u] = pc[u] \/ pc'[u] \in {"lock", "unflock"}
    BY <1>4 DEF Open, Close, Goto, IInv, TypeOK
  <2> QED
    BY <2>1 DEF EndInv, Listed, LoopLeft, IsOpen
<1>5. CASE UNCHANGED vars
  BY <1>5 DEF vars, EndInv, Listed, LoopLeft, IsOpen
<1> QED
  BY <1>2, <1>3, <1>4, <1>5 DEF Next, Crash

\* A callback thread that has ended has given everything back if it had closed
\* its displays itself.  If not, it keeps the descriptor and the file lock of
\* a display, and not its display lock.
EndedThreads ==
  \A t \in Threads : pc[t] = "ended" =>
    /\ ndx[t] = 0 => \A b \in Buses : <<t, b>> \notin fds /\ flock[b] # t
    /\ ndx[t] # 0 => \E b \in Buses : /\ <<t, b>> \in fds /\ flock[b] = t
                                      /\ holder[InstanceOf[t]][b] # t

(* What becomes of the displays a callback left open: the loop of          *)
(* ddc_close_all_displays_for_current_thread, once it has closed one,      *)
(* always leaves another, or crashes, however many there were.             *)
THEOREM CleanupIsNeverWhole == Spec => []EndedThreads
<1>1. Init => EndInv
  BY DEF Init, EndInv, Listed, LoopLeft, IsOpen
<1>2. IInv /\ EndInv => EndedThreads
  <2> SUFFICES ASSUME IInv, EndInv, NEW t \in Threads, pc[t] = "ended"
               PROVE  /\ ndx[t] = 0 => \A b \in Buses : <<t, b>> \notin fds /\ flock[b] # t
                      /\ ndx[t] # 0 => \E b \in Buses : /\ <<t, b>> \in fds /\ flock[b] = t
                                                        /\ holder[InstanceOf[t]][b] # t
    BY DEF EndedThreads
  <2> DEFINE list == open_displays_for_thread[t]
  <2>1. list \in Seq(Buses) /\ (ndx[t] = 0 <=> list = <<>>)
    BY DEF IInv, TypeOK, EndInv, LoopLeft
  <2>2. ASSUME NEW b \in Buses
        PROVE  /\ <<t, b>> \in fds <=> IsOpen(t, b)
               /\ flock[b] = t <=> IsOpen(t, b)
               /\ ~HasLock(t, b)
    BY DEF IInv, ThreadInv, LockByStep, DescriptorByStep, FileLockByStep, LockRow,
           DescriptorRow, FileLockRow, At
  <2>3. ASSUME ndx[t] = 0, NEW b \in Buses PROVE ~IsOpen(t, b)
    BY <2>1, <2>3 DEF EndInv, Listed
  <2>4. ASSUME ndx[t] # 0 PROVE \E b \in Buses : IsOpen(t, b)
    <3>1. 1 \in 1..Len(list) /\ list[1] \in Buses
      BY <2>1, <2>4
    <3> QED
      BY <3>1 DEF IInv, ThreadInv, OwnList
  <2> QED
    BY <2>2, <2>3, <2>4 DEF HasLock
<1> QED
  BY <1>1, <1>2, NextKeepsEnd, InvariantHolds, PTL DEF Spec
=============================================================================
