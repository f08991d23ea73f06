---------------------------- MODULE ExclusiveUse ----------------------------
(***************************************************************************)
(* What base/display_lock.c promises its callers, without records, mutexes *)
(* or owner fields: a display has at most one holder, it changes hands in  *)
(* one atomic step between the call and the return, and every answer is    *)
(* true at a moment between the call and the return.  For all answers but  *)
(* the DDCRC_LOCKED of a lock call that moment is the return itself.       *)
(***************************************************************************)
CONSTANTS Threads, Displays, NoThread, NoDisplay

VARIABLES
  holder,  \* holder[d]: the thread that has display d
  call,    \* call[t]: the call t is in
  target,  \* target[t]: the display that call is about
  answer   \* answer[t]: what t's last call returned

vars == <<holder, call, target, answer>>

Calls == {"none", "lock", "locked", "refused", "unlock", "unlocked", "unlock_all"}

Init ==
  /\ holder = [d \in Displays |-> NoThread]
  /\ call = [t \in Threads |-> "none"]
  /\ target = [t \in Threads |-> NoDisplay]
  /\ answer = [t \in Threads |-> "NONE"]

Begin(t, c) ==
  /\ call[t] = "none"
  /\ call' = [call EXCEPT ![t] = c]
  /\ UNCHANGED <<holder, answer>>

Lock(t)      == Begin(t, "lock") /\ \E d \in Displays : target' = [target EXCEPT ![t] = d]
Unlock(t)    == Begin(t, "unlock") /\ \E d \in Displays : target' = [target EXCEPT ![t] = d]
UnlockAll(t) == Begin(t, "unlock_all") /\ UNCHANGED target

\* A free display becomes the caller's.
Grant(t) ==
  /\ call[t] = "lock"
  /\ holder[target[t]] = NoThread
  /\ holder' = [holder EXCEPT ![target[t]] = t]
  /\ call' = [call EXCEPT ![t] = "locked"]
  /\ UNCHANGED <<target, answer>>

\* A display another thread has is refused; that thread may give it up
\* before the refused one hears of it.
Refuse(t) ==
  /\ call[t] = "lock"
  /\ holder[target[t]] \notin {t, NoThread}
  /\ call' = [call EXCEPT ![t] = "refused"]
  /\ UNCHANGED <<holder, target, answer>>

\* Only the holder gives a display up.
GiveUp(t) ==
  /\ call[t] = "unlock"
  /\ holder[target[t]] = t
  /\ holder' = [holder EXCEPT ![target[t]] = NoThread]
  /\ call' = [call EXCEPT ![t] = "unlocked"]
  /\ UNCHANGED <<target, answer>>

GiveUpOne(t) ==
  /\ call[t] = "unlock_all"
  /\ \E d \in Displays :
       /\ holder[d] = t
       /\ holder' = [holder EXCEPT ![d] = NoThread]
  /\ UNCHANGED <<call, target, answer>>

Answer(t, a) ==
  /\ call' = [call EXCEPT ![t] = "none"]
  /\ target' = [target EXCEPT ![t] = NoDisplay]
  /\ answer' = [answer EXCEPT ![t] = a]
  /\ UNCHANGED holder

\* ALREADY_OPEN, and LOCKED from an unlock, are true when they are given.
Done(t)        == call[t] \in {"locked", "unlocked"} /\ Answer(t, "OK")
AlreadyOpen(t) == call[t] = "lock" /\ holder[target[t]] = t /\ Answer(t, "ALREADY_OPEN")
Locked(t)      == call[t] = "refused" /\ Answer(t, "LOCKED")
NotYours(t)    == call[t] = "unlock" /\ holder[target[t]] # t /\ Answer(t, "LOCKED")
AllGivenUp(t)  == call[t] = "unlock_all" /\ (\A d \in Displays : holder[d] # t) /\ Answer(t, "OK")

Next ==
  \E t \in Threads :
    \/ Lock(t) \/ Unlock(t) \/ UnlockAll(t)
    \/ Grant(t) \/ Refuse(t) \/ GiveUp(t) \/ GiveUpOne(t)
    \/ Done(t) \/ AlreadyOpen(t) \/ Locked(t) \/ NotYours(t) \/ AllGivenUp(t)

Spec == Init /\ [][Next]_vars
=============================================================================
