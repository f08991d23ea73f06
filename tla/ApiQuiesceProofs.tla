-------------------------- MODULE ApiQuiesceProofs --------------------------
(***************************************************************************)
(* Proofs about ApiQuiesce, for any number of clients and redetecting      *)
(* threads and any limits.                                                 *)
(*                                                                         *)
(* What is counted is counted exactly whatever else goes wrong.  What the  *)
(* gate promises rests on one thing that the code does not see to, that    *)
(* redetections do not overlap: ddca_redetect_active is tested and set     *)
(* without a mutex.  Those theorems have AtMostOneRedetection as their     *)
(* hypothesis; it holds of every program in which one thread redetects.    *)
(***************************************************************************)
EXTENDS ApiQuiesce, FiniteSetTheorems, TLAPS

HoldsGate == {"test", "poll", "close_gate"}

\* Clients and redetecting threads stay in their own code.
OwnCode ==
  /\ \A t \in Clients     : pc[t] \in ClientSteps \cup {"idle"}
  /\ \A r \in Redetectors : pc[r] \in RedetectSteps \cup {"idle"}

\* The two mutexes are held by the threads inside their critical sections.
CriticalSections ==
  /\ \A t \in Clients     : pc[t] = "count" <=> api_quiesced_mutex = t
  /\ \A r \in Redetectors : pc[r] \in HoldsGate <=> api_quiesced_mutex = r
  /\ \A r \in Redetectors : pc[r] = "poll" <=> active_calls_mutex = r
  /\ \A t \in Clients     : active_calls_mutex # t

CountInv == TypeOK /\ OwnCode /\ CriticalSections /\ CountIsCalls

\* A redetecting thread that is about to close the gate and did not give up
\* has seen the last call leave, and keeps others out by the mutex it holds.
DrainedBefore ==
  \A r \in Redetectors : pc[r] = "close_gate" /\ ~oops[r] => Inside = {}

GateInv == GateMatchesRedetection /\ DrainedBefore /\ DrainedUnlessGaveUp
----------------------------------------------------------------------------
(* Sets of clients are finite and no larger than Clients: the calls in     *)
(* progress are such a set, before and after a step.                       *)
LEMMA InsideIsFinite ==
  ASSUME NEW S \in SUBSET Clients
  PROVE  IsFiniteSet(S) /\ Cardinality(S) \in 0..Cardinality(Clients)
<1>1. IsFiniteSet(S) /\ Cardinality(S) <= Cardinality(Clients)
  BY FS_Subset, ApiQuiesceAssumption DEF ApiQuiesceAssumption
<1> QED
  BY <1>1, FS_CardinalityType, ApiQuiesceAssumption

(* A step moves one thread, and Inside gains or loses no more than that.   *)
LEMMA InsideMoves ==
  ASSUME TypeOK, NEW t \in Threads, NEW s \in Steps, Goto(t, s)
  PROVE  Inside' = IF t \in Clients /\ s \in {"in_call", "leave"}
                   THEN Inside \cup {t} ELSE Inside \ {t}
BY DEF TypeOK, Goto, Inside, Threads

(* The counter follows, in each step: the test in                          *)
(* decrement_active_api_calls that it is positive never fails.             *)
LEMMA StepCounts ==
  ASSUME CountInv, Next
  PROVE  CountIsCalls'
<1>0. /\ Inside \in SUBSET Clients
      /\ IsFiniteSet(Inside)
      /\ Cardinality(Inside) \in Nat
      /\ leaked \in Nat /\ active_calls \in Nat
  <2>1. Inside \in SUBSET Clients
    BY DEF Inside
  <2> QED
    BY <2>1, InsideIsFinite, FS_CardinalityType, ApiQuiesceAssumption
    DEF CountInv, TypeOK
<1> USE ApiQuiesceAssumption
<1> USE DEF CountInv, CountIsCalls, Threads, Steps, ClientSteps, RedetectSteps
<1>1. ASSUME NEW t \in Clients, CountIn(t) PROVE CountIsCalls'
  <2>1. t \notin Inside
    BY <1>1 DEF CountIn, Inside
  <2>2. CASE Admitted
    <3>1. Inside' = Inside \cup {t}
      BY <1>1, <2>2, InsideMoves DEF CountIn
    <3>2. Cardinality(Inside') = Cardinality(Inside) + 1
      BY <1>0, <2>1, <3>1, FS_AddElement
    <3>3. active_calls' = active_calls + 1 /\ leaked' = leaked
      BY <1>1, <2>2 DEF CountIn
    <3> QED
      BY <1>0, <3>2, <3>3
  <2>3. CASE ~Admitted
    <3>1. Inside' = Inside
      BY <1>1, <2>1, <2>3, InsideMoves DEF CountIn
    <3> QED
      BY <1>1, <2>3, <3>1 DEF CountIn
  <2> QED
    BY <2>2, <2>3
<1>2. ASSUME NEW t \in Clients, FailPrecondition(t) \/ CountOut(t) PROVE CountIsCalls'
  <2>1. t \in Inside
    BY <1>2 DEF FailPrecondition, CountOut, Inside
  <2>2. Inside' = Inside \ {t}
    BY <1>2, InsideMoves DEF FailPrecondition, CountOut
  <2>3. Cardinality(Inside') = Cardinality(Inside) - 1 /\ Cardinality(Inside) > 0
    BY <1>0, <2>1, <2>2, FS_RemoveElement, FS_EmptySet
  <2> QED
    BY <1>0, <1>2, <2>3 DEF FailPrecondition, CountOut
<1>3. ASSUME NEW t \in Clients, Call(t) \/ LockQuiesced(t) \/ Finish(t) PROVE CountIsCalls'
  <2>1. Inside' = Inside
    BY <1>3, InsideMoves DEF Call, LockQuiesced, Finish, Inside
  <2> QED
    BY <1>3, <2>1 DEF Call, LockQuiesced, Finish
<1>4. ASSUME NEW r \in Redetectors, RedetectNext(r) PROVE CountIsCalls'
  <2>1. r \notin Inside /\ r \notin Clients
    BY DEF Inside
  <2>2. Inside' = Inside
    BY <1>4, <2>1, InsideMoves
       DEF RedetectNext, Redetect, Claim, QuiesceLock, TestCalls, Poll, CloseGate,
           Redetected, Unquiesce, Clear, Inside
  <2>3. UNCHANGED <<active_calls, leaked>>
    BY <1>4 DEF RedetectNext, Redetect, Claim, QuiesceLock, TestCalls, Poll, CloseGate,
                Redetected, Unquiesce, Clear
  <2> QED
    BY <2>2, <2>3
<1> QED
  BY <1>1, <1>2, <1>3, <1>4 DEF Next, ClientNext

(* The mutexes and the places of the threads stay in step, whatever two    *)
(* redetecting threads do to each other.                                   *)
LEMMA StepKeepsPlaces ==
  ASSUME CountInv, Next
  PROVE  OwnCode' /\ CriticalSections'
<1> USE ApiQuiesceAssumption
    DEF CountInv, OwnCode, CriticalSections, HoldsGate, TypeOK, Threads, Steps,
        ClientSteps, RedetectSteps, Goto, locals
<1>1. ASSUME NEW t \in Clients, ClientNext(t) PROVE OwnCode' /\ CriticalSections'
  BY <1>1, SMTT(30)
     DEF ClientNext, Call, LockQuiesced, CountIn, Finish, FailPrecondition, CountOut
<1>2. ASSUME NEW r \in Redetectors, RedetectNext(r) PROVE OwnCode' /\ CriticalSections'
  <2>1. CASE Redetect(r) \/ Claim(r) \/ QuiesceLock(r)
    BY <2>1, SMTT(30) DEF Redetect, Claim, QuiesceLock
  <2>2. CASE TestCalls(r)
    BY <2>2, SMTT(30) DEF TestCalls
  <2>3. CASE Poll(r)
    BY <2>3, SMTT(30) DEF Poll, WaitOver
  <2>4. CASE CloseGate(r)
    BY <2>4, SMTT(30) DEF CloseGate
  <2>5. CASE Redetected(r) \/ Unquiesce(r) \/ Clear(r)
    BY <2>5, SMTT(30) DEF Redetected, Unquiesce, Clear
  <2> QED
    BY <1>2, <2>1, <2>2, <2>3, <2>4, <2>5 DEF RedetectNext
<1> QED
  BY <1>1, <1>2 DEF Next

(* The bound of active_calls comes from what it counts.                    *)
LEMMA StepKeepsTypes ==
  ASSUME CountInv, Next
  PROVE  TypeOK'
<1> USE ApiQuiesceAssumption
    DEF CountInv, OwnCode, Threads, Steps, ClientSteps, RedetectSteps, Goto, locals,
        TypeOK
<1>1. leaked' \in 0..MaxLeaks
  <2>1. ASSUME NEW r \in Redetectors, RedetectNext(r) PROVE leaked' = leaked
    BY <2>1 DEF RedetectNext, Redetect, Claim, QuiesceLock, TestCalls, Poll,
                CloseGate, Redetected, Unquiesce, Clear
  <2>2. ASSUME NEW t \in Clients, ClientNext(t) PROVE leaked' \in 0..MaxLeaks
    BY <2>2 DEF ClientNext, Call, LockQuiesced, CountIn, Finish, FailPrecondition,
                CountOut
  <2> QED
    BY <2>1, <2>2 DEF Next
<1>2. active_calls' \in 0..(Cardinality(Clients) + MaxLeaks)
  <2>1. active_calls' = Cardinality(Inside') + leaked'
    BY StepCounts DEF CountIsCalls
  <2>2. Inside' \in SUBSET Clients
    BY DEF Inside
  <2>3. Cardinality(Inside') \in 0..Cardinality(Clients) /\ Cardinality(Clients) \in Nat
    BY <2>2, InsideIsFinite, FS_CardinalityType
  <2> HIDE DEF TypeOK
  <2> QED
    BY <1>1, <2>1, <2>3
<1>3. /\ api_quiesced_mutex' \in Threads \cup {NoThread}
      /\ active_calls_mutex' \in Threads \cup {NoThread}
      /\ api_quiesced' \in BOOLEAN /\ ddca_redetect_active' \in BOOLEAN
      /\ pc' \in [Threads -> Steps]
      /\ polls' \in [Redetectors -> 0..MaxPolls]
      /\ oops' \in [Redetectors -> BOOLEAN]
  <2>1. CASE \E t \in Clients : Call(t) \/ LockQuiesced(t) \/ Finish(t)
    BY <2>1, SMTT(30) DEF Call, LockQuiesced, Finish
  <2>2. CASE \E t \in Clients : CountIn(t) \/ FailPrecondition(t) \/ CountOut(t)
    BY <2>2, SMTT(30) DEF CountIn, FailPrecondition, CountOut
  <2>3. ASSUME NEW r \in Redetectors, RedetectNext(r)
        PROVE  /\ api_quiesced_mutex' \in Threads \cup {NoThread}
               /\ active_calls_mutex' \in Threads \cup {NoThread}
               /\ api_quiesced' \in BOOLEAN /\ ddca_redetect_active' \in BOOLEAN
               /\ pc' \in [Threads -> Steps]
               /\ polls' \in [Redetectors -> 0..MaxPolls]
               /\ oops' \in [Redetectors -> BOOLEAN]
    <3>1. CASE TestCalls(r)
      BY <3>1, SMTT(30) DEF TestCalls
    <3>2. CASE Poll(r)
      <4>1. polls'[r] \in 0..MaxPolls
        BY <3>2, SMTT(30) DEF Poll
      <4> QED
        BY <3>2, <4>1, SMTT(30) DEF Poll
    <3>3. CASE Redetect(r) \/ Claim(r) \/ QuiesceLock(r)
      <4>1. UNCHANGED <<active_calls_mutex, api_quiesced, polls, oops>>
        BY <3>3 DEF Redetect, Claim, QuiesceLock
      <4>2. pc' \in [Threads -> Steps]
        BY <3>3 DEF Redetect, Claim, QuiesceLock
      <4>3. api_quiesced_mutex' \in Threads \cup {NoThread}
            /\ ddca_redetect_active' \in BOOLEAN
        BY <3>3 DEF Redetect, Claim, QuiesceLock
      <4> QED
        BY <4>1, <4>2, <4>3
    <3>4. CASE CloseGate(r) \/ Redetected(r) \/ Unquiesce(r) \/ Clear(r)
      <4>1. UNCHANGED <<active_calls_mutex, polls, oops>>
        BY <3>4 DEF CloseGate, Redetected, Unquiesce, Clear
      <4>2. pc' \in [Threads -> Steps]
        BY <3>4 DEF CloseGate, Redetected, Unquiesce, Clear
      <4>3. api_quiesced_mutex' \in Threads \cup {NoThread}
            /\ ddca_redetect_active' \in BOOLEAN /\ api_quiesced' \in BOOLEAN
        BY <3>4 DEF CloseGate, Redetected, Unquiesce, Clear
      <4> QED
        BY <4>1, <4>2, <4>3
    <3> QED
      BY <2>3, <3>1, <3>2, <3>3, <3>4 DEF RedetectNext
  <2> QED
    BY <2>1, <2>2, <2>3 DEF Next, ClientNext
<1> QED
  BY <1>1, <1>2, <1>3

(* The counting invariant holds in every reachable state, with any number  *)
(* of redetecting threads.                                                 *)
THEOREM CountInvHolds == Spec => []CountInv
<1>1. Init => CountInv
  <2> SUFFICES ASSUME Init PROVE CountInv
    OBVIOUS
  <2> USE ApiQuiesceAssumption
      DEF Init, Threads, Steps, ClientSteps, RedetectSteps, HoldsGate
  <2>1. Inside = {}
    BY DEF Inside
  <2>2. CountIsCalls
    BY <2>1, FS_EmptySet DEF CountIsCalls
  <2>3. TypeOK
    <3>1. Cardinality(Clients) \in Nat
      BY FS_CardinalityType
    <3>2. active_calls \in 0..(Cardinality(Clients) + MaxLeaks)
      BY <3>1
    <3>3. pc \in [Threads -> Steps] /\ polls \in [Redetectors -> 0..MaxPolls]
      OBVIOUS
    <3>4. oops \in [Redetectors -> BOOLEAN] /\ api_quiesced \in BOOLEAN
          /\ ddca_redetect_active \in BOOLEAN
      BY Zenon
    <3>5. leaked \in 0..MaxLeaks
      OBVIOUS
    <3> HIDE DEF Init
    <3>6. api_quiesced_mutex \in Threads \cup {NoThread}
          /\ active_calls_mutex \in Threads \cup {NoThread}
      BY DEF Init
    <3> QED
      BY <3>2, <3>3, <3>4, <3>5, <3>6, Zenon DEF TypeOK
  <2>4. OwnCode /\ CriticalSections
    BY DEF OwnCode, CriticalSections
  <2> QED
    BY <2>2, <2>3, <2>4 DEF CountInv
<1>2. CountInv /\ [Next]_vars => CountInv'
  <2>1. CountInv /\ Next => CountInv'
    BY StepCounts, StepKeepsPlaces, StepKeepsTypes DEF CountInv
  <2>2. CountInv /\ UNCHANGED vars => CountInv'
    BY DEF vars, CountInv, TypeOK, OwnCode, CriticalSections, CountIsCalls, Inside
  <2> QED
    BY <2>1, <2>2
<1> QED
  BY <1>1, <1>2, PTL DEF Spec

----------------------------------------------------------------------------
(* CountIsCalls is proved of every program: active_calls is the number of  *)
(* calls between increment_active_api_calls and the epilog, plus those a   *)
(* failed precondition lost.                                               *)
THEOREM CallsAreCounted == Spec => []CountIsCalls
BY CountInvHolds, PTL DEF CountInv

(* TypeOK is proved with it: active_calls never goes below zero.           *)
THEOREM TypesAreKept == Spec => []TypeOK
BY CountInvHolds, PTL DEF CountInv

(* While redetections do not overlap, each step keeps what the gate        *)
(* promises.  The mutex api_quiesced_mutex, kept from the test of          *)
(* active_calls to the closing of the gate, is what bars CountIn there;    *)
(* afterwards api_quiesced does.                                           *)
LEMMA StepKeepsGate ==
  ASSUME CountInv, GateInv, AtMostOneRedetection, Next
  PROVE  GateInv'
<1> USE ApiQuiesceAssumption
    DEF CountInv, OwnCode, Threads, Steps, ClientSteps, RedetectSteps, Goto, locals,
        GateInv, GateMatchesRedetection, DrainedBefore, DrainedUnlessGaveUp, Redetecting
<1>1. ASSUME NEW t \in Clients, ClientNext(t) PROVE GateInv'
  <2>1. \A r \in Redetectors : r # t /\ pc'[r] = pc[r] /\ oops'[r] = oops[r]
    BY <1>1 DEF TypeOK, ClientNext, Call, LockQuiesced, CountIn, Finish,
                FailPrecondition, CountOut
  <2>2. api_quiesced' = api_quiesced
    BY <1>1 DEF ClientNext, Call, LockQuiesced, CountIn, Finish, FailPrecondition,
                CountOut
  <2>3. CASE Inside' \subseteq Inside
    BY <2>1, <2>2, <2>3
  <2>4. CASE CountIn(t) /\ Admitted
    <3>1. \A r \in Redetectors : pc[r] # "close_gate"
      BY <2>1, <2>4 DEF CountIn, CriticalSections, HoldsGate
    <3>2. \A r \in Redetectors : ~Redetecting(r)
      BY <2>4 DEF Admitted
    <3> QED
      BY <2>1, <2>2, <3>1, <3>2
  <2>5. Inside' \subseteq Inside \/ (CountIn(t) /\ Admitted)
    BY <1>1, InsideMoves
       DEF ClientNext, Call, LockQuiesced, CountIn, Finish, FailPrecondition, CountOut,
           Inside
  <2> QED
    BY <2>3, <2>4, <2>5
<1>2. ASSUME NEW r \in Redetectors, RedetectNext(r) PROVE GateInv'
  <2>1. Inside' = Inside
    BY <1>2, InsideMoves
       DEF RedetectNext, Redetect, Claim, QuiesceLock, TestCalls, Poll, CloseGate,
           Redetected, Unquiesce, Clear, Inside
  <2>2. active_calls = 0 => Inside = {}
    <3>1. Inside \in SUBSET Clients
      BY DEF Inside
    <3>2. IsFiniteSet(Inside) /\ Cardinality(Inside) \in Nat
      BY <3>1, InsideIsFinite, FS_CardinalityType
    <3>3. active_calls = 0 => Cardinality(Inside) = 0
      BY <3>2 DEF CountIsCalls, TypeOK
    <3> QED
      BY <3>2, <3>3, FS_EmptySet
  <2>3. CASE Redetect(r) \/ Claim(r) \/ QuiesceLock(r) \/ Clear(r)
    BY <2>1, <2>3 DEF Redetect, Claim, QuiesceLock, Clear, TypeOK
  <2>4. CASE TestCalls(r)
    BY <2>1, <2>2, <2>4, SMTT(30) DEF TestCalls, TypeOK
  <2>5. CASE Poll(r)
    <3>1. /\ api_quiesced' = api_quiesced
          /\ pc' = [pc EXCEPT ![r] = "close_gate"] \/ pc' = pc
          /\ oops' = [oops EXCEPT ![r] = active_calls > 0]
          /\ pc[r] = "poll"
      BY <2>5 DEF Poll
    <3>2. \A q \in Redetectors : Redetecting(q)' <=> Redetecting(q)
      BY <3>1 DEF TypeOK
    <3>3. \A q \in Redetectors \ {r} : pc'[q] = pc[q] /\ oops'[q] = oops[q]
      BY <3>1 DEF TypeOK
    <3>4. ~oops'[r] => Inside = {}
      <4>1. oops'[r] = (active_calls > 0)
        BY <3>1, Zenon DEF TypeOK
      <4>2. ~(active_calls > 0) => Inside = {}
        BY <2>2 DEF TypeOK
      <4> QED
        BY <4>1, <4>2, Zenon
    <3>5. ~Redetecting(r)
      BY <3>1
    <3> QED
      BY <2>1, <3>1, <3>2, <3>3, <3>4, <3>5
  <2>6. CASE CloseGate(r)
    BY <2>1, <2>6, SMTT(30) DEF CloseGate, TypeOK
  <2>7. CASE Redetected(r)
    BY <2>1, <2>7, SMTT(30) DEF Redetected, TypeOK
  <2>8. CASE Unquiesce(r)
    BY <2>1, <2>8, SMTT(30) DEF Unquiesce, TypeOK, AtMostOneRedetection
  <2> QED
    BY <1>2, <2>3, <2>4, <2>5, <2>6, <2>7, <2>8 DEF RedetectNext
<1> QED
  BY <1>1, <1>2 DEF Next

(* The gate keeps its promises as long as redetections do not overlap.     *)
THEOREM GateInvHolds == Spec /\ []AtMostOneRedetection => []GateInv
<1>1. Init => GateInv
  BY ApiQuiesceAssumption
  DEF Init, GateInv, GateMatchesRedetection, DrainedBefore, DrainedUnlessGaveUp,
      Redetecting, Threads
<1>2. CountInv /\ GateInv /\ AtMostOneRedetection /\ [Next]_vars => GateInv'
  <2>1. CountInv /\ GateInv /\ AtMostOneRedetection /\ Next => GateInv'
    BY StepKeepsGate
  <2>2. GateInv /\ UNCHANGED vars => GateInv'
    BY DEF vars, locals, GateInv, GateMatchesRedetection, DrainedBefore,
           DrainedUnlessGaveUp, Redetecting, Inside
  <2> QED
    BY <2>1, <2>2
<1> QED
  BY <1>1, <1>2, CountInvHolds, PTL DEF Spec

(* api_quiesced is TRUE exactly from the end of quiesce_api to             *)
(* unquiesce_api.                                                          *)
THEOREM GateIsClosedDuringRedetection ==
  Spec /\ []AtMostOneRedetection => []GateMatchesRedetection
BY GateInvHolds, PTL DEF GateInv

(* No call is in progress during dw_redetect_displays, unless quiesce_api  *)
(* gave up.                                                                *)
THEOREM DrainedBeforeRedetection ==
  Spec /\ []AtMostOneRedetection => []DrainedUnlessGaveUp
BY GateInvHolds, PTL DEF GateInv

(* NoCallStartsDuringRedetection: even after quiesce_api gave up, the      *)
(* prolog lets no further call in until unquiesce_api.                     *)
THEOREM NoCallStarts ==
  Spec /\ []AtMostOneRedetection => NoCallStartsDuringRedetection
<1>1. CountInv /\ GateInv /\ [Next]_vars =>
        [\A r \in Redetectors :
           Redetecting(r) /\ Redetecting(r)' => Inside' \subseteq Inside]_vars
  <2> SUFFICES ASSUME CountInv, GateInv, Next, NEW r \in Redetectors, Redetecting(r)
               PROVE  Inside' \subseteq Inside
    BY DEF vars, locals
  <2>1. api_quiesced
    BY DEF GateInv, GateMatchesRedetection
  <2> USE ApiQuiesceAssumption
      DEF CountInv, Threads, Steps, ClientSteps, RedetectSteps
  <2>2. ASSUME NEW t \in Clients, ClientNext(t) PROVE Inside' \subseteq Inside
    <3>1. ~Admitted
      BY <2>1 DEF Admitted
    <3>2. CASE CountIn(t)
      BY <3>1, <3>2, InsideMoves DEF CountIn
    <3>3. CASE Finish(t)
      BY <3>3, InsideMoves DEF Finish, Inside
    <3>4. CASE Call(t) \/ LockQuiesced(t) \/ FailPrecondition(t) \/ CountOut(t)
      BY <3>4, InsideMoves DEF Call, LockQuiesced, FailPrecondition, CountOut
    <3> QED
      BY <2>2, <3>2, <3>3, <3>4 DEF ClientNext
  <2>3. ASSUME NEW q \in Redetectors, RedetectNext(q) PROVE Inside' \subseteq Inside
    BY <2>3, InsideMoves
       DEF RedetectNext, Redetect, Claim, QuiesceLock, TestCalls, Poll, CloseGate,
           Redetected, Unquiesce, Clear, Inside
  <2> QED
    BY <2>2, <2>3 DEF Next
<1> QED
  BY <1>1, CountInvHolds, GateInvHolds, PTL DEF Spec, NoCallStartsDuringRedetection

(* The hypothesis is met by every program in which one thread alone calls  *)
(* ddca_redetect_displays: there the gate keeps its promises with no more  *)
(* said.                                                                   *)
THEOREM OneRedetectorSuffices ==
  ASSUME \A r, s \in Redetectors : r = s
  PROVE  Spec => /\ []AtMostOneRedetection
                 /\ []DrainedUnlessGaveUp
                 /\ NoCallStartsDuringRedetection
<1>1. AtMostOneRedetection
  BY DEF AtMostOneRedetection
<1> QED
  BY <1>1, DrainedBeforeRedetection, NoCallStarts, PTL
=============================================================================
