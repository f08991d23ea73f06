------------------------- MODULE DisplayWatchProofs -------------------------
(***************************************************************************)
(* Proofs about DisplayWatch, for any buses, any number of changes and any *)
(* times.                                                                  *)
(*                                                                         *)
(* The two threads share the references, mostly without a lock.  What      *)
(* keeps them apart is that the watch thread looks only for references     *)
(* with a display number, and a reference that waits for the recheck       *)
(* thread has none.  So the invariant says, for each place a reference can *)
(* be at on its way to the recheck thread and through it, which flags and  *)
(* events it has there; and that it is at one place only.                  *)
(***************************************************************************)
EXTENDS DisplayWatch, SequenceTheorems, FiniteSetTheorems, WellFoundedInduction, TLAPS

\* The places.
ToRecheck(i) == \E k \in DOMAIN drefs_to_recheck : drefs_to_recheck[k] = i
Waiting(i)   == ToRecheck(i) \/ Queued(i) \/ (Rechecked(i) /\ rpc = "check")

\* A reference is at one place, and once.
AtOnePlace ==
  /\ \A k, l \in DOMAIN recheck_queue :
       recheck_queue[k].dref = recheck_queue[l].dref => k = l
  /\ \A k, l \in DOMAIN drefs_to_recheck :
       drefs_to_recheck[k] = drefs_to_recheck[l] => k = l
  /\ \A i \in DrefIds : ~(ToRecheck(i) /\ Queued(i))
  /\ \A i \in DrefIds : Rechecked(i) => ~ToRecheck(i) /\ ~Queued(i)

RecheckAt == rcur # NoEntry <=> rpc \in {"check", "resolve", "enable"}

\* What clients can be told of a display, in order.
Histories ==
  {<<"CONNECTED">>, <<"CONNECTED", "DISCONNECTED">>, <<"CONNECTED", "DDC_ENABLED">>,
   <<"CONNECTED", "DISCONNECTED", "DDC_ENABLED">>,
   <<"CONNECTED", "DDC_ENABLED", "DISCONNECTED">>}

Silenced == {<<"CONNECTED", "DISCONNECTED">>,
             <<"CONNECTED", "DISCONNECTED", "DDC_ENABLED">>,
             <<"CONNECTED", "DDC_ENABLED", "DISCONNECTED">>}

\* What is known of a reference wherever it is.
AnyRef(d) ==
  /\ d.events \in Histories
  /\ d.dispno = "valid" /\ ~d.removed
       => d.events \in {<<"CONNECTED">>, <<"CONNECTED", "DDC_ENABLED">>}
  /\ d.worked => d.dispno = "valid" /\ d.events \in {<<"CONNECTED">>,
                                                    <<"CONNECTED", "DISCONNECTED">>}

\* While it waits, while it is resolved, and before DDC_ENABLED is emitted.
WaitingRef(d) ==
  ~d.worked /\ d.dispno = "invalid" /\ ~d.removed /\ d.events = <<"CONNECTED">>

ResolvedRef(d) ==
  /\ ~d.worked /\ d.dispno = "invalid" /\ d.events = <<"CONNECTED">>
  /\ d.removed <=> routcome = "dead"

EnabledRef(d) ==
  /\ ~d.worked /\ d.dispno = "valid"
  /\ d.events \in {<<"CONNECTED">>, <<"CONNECTED", "DISCONNECTED">>}

RefByPlace(i) ==
  /\ AnyRef(drefs[i])
  /\ Waiting(i) => WaitingRef(drefs[i])
  /\ Rechecked(i) /\ rpc = "resolve" => ResolvedRef(drefs[i])
  /\ Rechecked(i) /\ rpc = "enable" => EnabledRef(drefs[i])

RefsByPlace == \A i \in DrefIds : RefByPlace(i)

\* A reference of a display that worked is removed only together with an event
\* for it or for a later one of the same bus.
Succeeded(i) ==
  \E j \in DrefIds : j >= i /\ drefs[j].bus = drefs[i].bus /\ drefs[j].events \in Silenced

RemovedWithEvent == \A i \in DrefIds : drefs[i].worked /\ drefs[i].removed => Succeeded(i)

\* A pass of the watch thread: what it adds was not known, what it removes was,
\* and what it has removed has no reference left of a display that worked.
PassAt ==
  /\ wpc \in {"stabilize", "remove", "add", "check"} => wadded \cap known = {}
  /\ wpc = "remove" => wremoved \subseteq known \ wnew
  /\ wpc \in {"add", "check"} => wremoved = {}
  /\ wpc = "check" => wcur \in Buses \ known

RemovedSoFar ==
  wpc \in {"remove", "add", "check"} =>
    \A bus \in (known \ wnew) \ wremoved : \A i \in DrefIds :
      drefs[i].bus = bus /\ drefs[i].worked => drefs[i].removed

IInv ==
  /\ TypeOK
  /\ AtOnePlace
  /\ RecheckAt
  /\ RefsByPlace
  /\ RemovedWithEvent
  /\ PassAt
  /\ RemovedSoFar

-----------------------------------------------------------------------------
(***************************************************************************)
(* Sets of numbers, sequences and references.                              *)
(***************************************************************************)

(* A set of numbers that is not empty has a least one.                      *)
LEMMA MinInSet ==
  ASSUME NEW set \in SUBSET Nat, set # {}
  PROVE  Min(set) \in set /\ \A y \in set : Min(set) <= y
<1>1. PICK x \in set : \A y \in set : ~(<<y, x>> \in OpToRel(<, Nat))
  BY NatLessThanWellFounded, WFMin
<1>2. ASSUME NEW y \in set PROVE x <= y
  <2>1. x \in Nat /\ y \in Nat
    OBVIOUS
  <2>2. y < x => <<y, x>> \in OpToRel(<, Nat)
    BY <2>1 DEF OpToRel
  <2>3. ~(y < x)
    BY <1>1, <2>2
  <2> QED
    BY <2>1, <2>3
<1> QED
  BY <1>2 DEF Min

(* A set of numbers up to n that is not empty has a greatest one.           *)
LEMMA MaxInSet ==
  ASSUME NEW n \in Nat, NEW set \in SUBSET (1..n), set # {}
  PROVE  Max(set) \in set /\ \A y \in set : Max(set) >= y
<1> DEFINE mirror == {n - x : x \in set}
<1>1. mirror \in SUBSET Nat /\ mirror # {}
  <2>1. \A x \in set : n - x \in Nat
    OBVIOUS
  <2> QED
    BY <2>1
<1>2. PICK m \in mirror : \A y \in mirror : m <= y
  BY <1>1, MinInSet
<1>3. PICK x \in set : m = n - x
  OBVIOUS
<1>4. \A y \in set : x >= y
  <2> SUFFICES ASSUME NEW y \in set PROVE x >= y
    OBVIOUS
  <2>1. n - x <= n - y
    BY <1>2, <1>3
  <2> QED
    BY <2>1
<1> QED
  BY <1>4 DEF Max

(* The smaller of two numbers is one of them, and no greater than either.   *)
LEMMA MinOfTwo ==
  ASSUME NEW a \in Nat, NEW b \in Nat
  PROVE  Min({a, b}) \in Nat /\ Min({a, b}) <= a /\ Min({a, b}) <= b
<1>1. {a, b} \in SUBSET Nat /\ {a, b} # {}
  OBVIOUS
<1>2. Min({a, b}) \in {a, b} /\ \A y \in {a, b} : Min({a, b}) <= y
  BY <1>1, MinInSet
<1> QED
  BY <1>2

(* References are numbered from 1.                                          *)
LEMMA DrefIdsAre ==
  ASSUME TypeOK
  PROVE  /\ Len(drefs) \in Nat /\ DrefIds = 1..Len(drefs)
         /\ \A i \in DrefIds : drefs[i] \in DisplayRefs
BY LenProperties, ElementOfSeq DEF TypeOK, DrefIds

(* The same for the new list when only one reference changes.               *)
LEMMA OneRefChanges ==
  ASSUME TypeOK, NEW k \in DrefIds, NEW r \in DisplayRefs, drefs' = [drefs EXCEPT ![k] = r]
  PROVE  /\ drefs' \in Seq(DisplayRefs)
         /\ DrefIds' = DrefIds
         /\ drefs'[k] = r
         /\ \A i \in DrefIds : i # k => drefs'[i] = drefs[i]
<1>1. drefs \in Seq(DisplayRefs) /\ k \in 1..Len(drefs) /\ DrefIds = 1..Len(drefs)
  BY DrefIdsAre DEF TypeOK
<1>2. /\ drefs' \in Seq(DisplayRefs) /\ Len(drefs') = Len(drefs)
      /\ \A i \in 1..Len(drefs) : drefs'[i] = IF i = k THEN r ELSE drefs[i]
  BY <1>1, ExceptSeq
<1>3. DOMAIN drefs' = 1..Len(drefs')
  BY <1>2, LenProperties
<1> QED
  BY <1>1, <1>2, <1>3 DEF DrefIds

(* What another event makes of a history.                                   *)
LEMMA HistoriesGrow ==
  /\ Append(<<"CONNECTED">>, "DISCONNECTED") = <<"CONNECTED", "DISCONNECTED">>
  /\ Append(<<"CONNECTED">>, "DDC_ENABLED") = <<"CONNECTED", "DDC_ENABLED">>
  /\ Append(<<"CONNECTED", "DISCONNECTED">>, "DDC_ENABLED")
       = <<"CONNECTED", "DISCONNECTED", "DDC_ENABLED">>
  /\ Append(<<"CONNECTED", "DDC_ENABLED">>, "DISCONNECTED")
       = <<"CONNECTED", "DDC_ENABLED", "DISCONNECTED">>
<1>1. ASSUME NEW a, NEW b PROVE Append(<<a>>, b) = <<a, b>>
  <2> DEFINE S == {a, b}
  <2>1. <<a>> \in Seq(S) /\ Len(<<a>>) = 1 /\ <<a, b>> \in Seq(S) /\ Len(<<a, b>>) = 2
    OBVIOUS
  <2>2. /\ Append(<<a>>, b) \in Seq(S) /\ Len(Append(<<a>>, b)) = 2
        /\ Append(<<a>>, b)[1] = a /\ Append(<<a>>, b)[2] = b
    BY <2>1, AppendProperties
  <2>3. \A i \in 1..2 : Append(<<a>>, b)[i] = <<a, b>>[i]
    BY <2>2
  <2> HIDE DEF S
  <2> QED
    BY <2>1, <2>2, <2>3, SeqEqual
<1>2. ASSUME NEW a, NEW b, NEW c PROVE Append(<<a, b>>, c) = <<a, b, c>>
  <2> DEFINE S == {a, b, c}
  <2>1. /\ <<a, b>> \in Seq(S) /\ Len(<<a, b>>) = 2
        /\ <<a, b, c>> \in Seq(S) /\ Len(<<a, b, c>>) = 3
    OBVIOUS
  <2>2. /\ Append(<<a, b>>, c) \in Seq(S) /\ Len(Append(<<a, b>>, c)) = 3
        /\ Append(<<a, b>>, c)[1] = a /\ Append(<<a, b>>, c)[2] = b
        /\ Append(<<a, b>>, c)[3] = c
    BY <2>1, AppendProperties
  <2>3. \A i \in 1..3 : Append(<<a, b>>, c)[i] = <<a, b, c>>[i]
    BY <2>2
  <2> HIDE DEF S
  <2> QED
    BY <2>1, <2>2, <2>3, SeqEqual
<1> QED
  BY <1>1, <1>2

(* A history in which the display was reported gone is longer than one in   *)
(* which it was not.                                                        *)
LEMMA HistoriesDiffer ==
  /\ <<"CONNECTED">> \notin Silenced
  /\ <<"CONNECTED", "DDC_ENABLED">> \notin Silenced
  /\ <<"CONNECTED", "DISCONNECTED">> # <<"CONNECTED">>
  /\ Silenced \subseteq Histories
BY DEF Silenced, Histories

(* In a history no event is there twice, the first is that the display is   *)
(* there, and DDC_ENABLED is in three of them.                              *)
LEMMA HistoriesAreSane ==
  ASSUME NEW h \in Histories
  PROVE  /\ IsInjective(h)
         /\ Head(h) = "CONNECTED"
         /\ h \in {<<"CONNECTED">>, <<"CONNECTED", "DISCONNECTED">>}
              => \A k \in DOMAIN h : h[k] # "DDC_ENABLED"
         /\ h \in Silenced => \E k \in DOMAIN h : h[k] = "DISCONNECTED"
<1>1. CASE h = <<"CONNECTED">>
  BY <1>1 DEF IsInjective, Silenced
<1>2. CASE h = <<"CONNECTED", "DISCONNECTED">>
  BY <1>2 DEF IsInjective
<1>3. CASE h = <<"CONNECTED", "DDC_ENABLED">>
  BY <1>3 DEF IsInjective, Silenced
<1>4. CASE h = <<"CONNECTED", "DISCONNECTED", "DDC_ENABLED">>
  BY <1>4 DEF IsInjective
<1>5. CASE h = <<"CONNECTED", "DDC_ENABLED", "DISCONNECTED">>
  BY <1>5 DEF IsInjective
<1> QED
  BY <1>1, <1>2, <1>3, <1>4, <1>5 DEF Histories

-----------------------------------------------------------------------------
(***************************************************************************)
(* Steps that leave the references and the places they are at alone.       *)
(***************************************************************************)

RefsUnchanged ==
  UNCHANGED <<drefs, drefs_to_recheck, recheck_queue, rpc, rcur, routcome>>

(* Such a step keeps what is said of references.                            *)
LEMMA RefsStay ==
  ASSUME IInv, RefsUnchanged
  PROVE  AtOnePlace' /\ RecheckAt' /\ RefsByPlace' /\ RemovedWithEvent'
<1>1. DrefIds' = DrefIds
  BY DEF RefsUnchanged, DrefIds
<1>2. AtOnePlace'
  BY <1>1 DEF IInv, AtOnePlace, RefsUnchanged, ToRecheck, Queued, Rechecked
<1>3. RecheckAt'
  BY DEF IInv, RecheckAt, RefsUnchanged
<1>4. RefsByPlace'
  BY <1>1 DEF IInv, RefsByPlace, RefByPlace, RefsUnchanged, Waiting, ToRecheck, Queued,
              Rechecked, ResolvedRef
<1>5. RemovedWithEvent'
  BY <1>1 DEF IInv, RemovedWithEvent, Succeeded, RefsUnchanged
<1> QED
  BY <1>2, <1>3, <1>4, <1>5

(* The steps of the monitors, of the client, and of the watch thread while  *)
(* it finds out which buses changed.                                        *)
LEMMA ControlKeeps ==
  ASSUME IInv,
         \/ StartPass \/ StillChanging \/ Stable \/ RemovesDone \/ CheckBus \/ EndWatch
         \/ Monitors \/ StopWatch
  PROVE  IInv' /\ RefsUnchanged
<1>1. RefsUnchanged
  BY DEF StartPass, StillChanging, Stable, RemovesDone, CheckBus, EndWatch, Monitors, Plug,
         Unplug, StopWatch, RefsUnchanged, recheckVars, watchVars
<1>2. CASE StartPass
  <2>1. TypeOK'
    BY <1>2 DEF StartPass, IInv, TypeOK, envVars, recheckVars, DrefIds, Entries
  <2>2. PassAt'
    BY <1>2 DEF StartPass, IInv, TypeOK, PassAt
  <2>3. RemovedSoFar'
    BY <1>2 DEF StartPass, RemovedSoFar
  <2> QED
    BY <1>1, <2>1, <2>2, <2>3, RefsStay DEF IInv
<1>3. CASE StillChanging
  <2>1. TypeOK'
    BY <1>3 DEF StillChanging, IInv, TypeOK, envVars, recheckVars, DrefIds, Entries
  <2>2. PassAt'
    BY <1>3 DEF StillChanging, IInv, PassAt
  <2>3. RemovedSoFar'
    BY <1>3 DEF StillChanging, RemovedSoFar
  <2> QED
    BY <1>1, <2>1, <2>2, <2>3, RefsStay DEF IInv
<1>4. CASE Stable
  <2>1. wremoved' = known \ plugged /\ wadded' = wadded
    BY <1>4 DEF Stable, Recomputed
  <2>2. TypeOK'
    BY <1>4, <2>1 DEF Stable, IInv, TypeOK, envVars, recheckVars, DrefIds, Entries
  <2>3. PassAt'
    BY <1>4, <2>1 DEF Stable, IInv, PassAt
  <2>4. RemovedSoFar'
    BY <1>4, <2>1 DEF Stable, RemovedSoFar
  <2> QED
    BY <1>1, <2>2, <2>3, <2>4, RefsStay DEF IInv
<1>5. CASE RemovesDone
  <2>1. TypeOK'
    BY <1>5 DEF RemovesDone, IInv, TypeOK, envVars, recheckVars, DrefIds, Entries
  <2>2. PassAt'
    BY <1>5 DEF RemovesDone, IInv, PassAt
  <2>3. RemovedSoFar'
    BY <1>5 DEF RemovesDone, IInv, RemovedSoFar, DrefIds
  <2> QED
    BY <1>1, <2>1, <2>2, <2>3, RefsStay DEF IInv
<1>6. CASE CheckBus
  <2> DEFINE bus == Min(wadded)
  <2>1. bus \in wadded
    BY <1>6, MinInSet, DisplayWatchAssumption DEF CheckBus, IInv, TypeOK
  <2>2. /\ wadded' = wadded \ {bus}
        /\ wcur' \in {wcur, bus}
        /\ disappeared' \in {disappeared, disappeared \cup {bus}}
        /\ \E info \in {"none", "edid", "edid_x37"} :
             businfo' = [businfo EXCEPT ![bus] = info]
        /\ wpc = "add" /\ wpc' \in {"add", "check"}
        /\ wpc' = "check" => wcur' = bus
        /\ UNCHANGED <<plugged, changes, known, wnew, wremoved, terminate_watch_thread>>
    BY <1>6 DEF CheckBus, envVars
  <2> HIDE DEF bus
  <2>3. TypeOK'
    <3>1. PICK info \in {"none", "edid", "edid_x37"} :
             businfo' = [businfo EXCEPT ![bus] = info]
      BY <2>2
    <3>2. businfo' \in [Buses -> {"none", "edid", "edid_x37"}]
      BY <3>1 DEF IInv, TypeOK
    <3> QED
      BY <1>1, <2>1, <2>2, <3>2 DEF IInv, TypeOK, RefsUnchanged, DrefIds, Entries
  <2>4. PassAt'
    BY <2>1, <2>2 DEF IInv, TypeOK, PassAt
  <2>5. RemovedSoFar'
    BY <1>1, <2>2 DEF IInv, RemovedSoFar, RefsUnchanged, DrefIds
  <2> QED
    BY <1>1, <2>3, <2>4, <2>5, RefsStay DEF IInv
<1>7. CASE EndWatch
  <2>1. TypeOK'
    BY <1>7 DEF EndWatch, IInv, TypeOK, envVars, recheckVars, DrefIds, Entries
  <2>2. PassAt' /\ RemovedSoFar'
    BY <1>7 DEF EndWatch, PassAt, RemovedSoFar
  <2> QED
    BY <1>1, <2>1, <2>2, RefsStay DEF IInv
<1>8. CASE Monitors
  <2>1. plugged' \in SUBSET Buses
    BY <1>8 DEF Monitors, Plug, Unplug, IInv, TypeOK
  <2>2. changes' \in 0..MaxChanges
    <3>1. changes < MaxChanges /\ changes' = changes + 1
      BY <1>8 DEF Monitors, Plug, Unplug
    <3> QED
      BY <3>1, DisplayWatchAssumption DEF IInv, TypeOK
  <2>3. UNCHANGED <<watchVars, recheckVars, businfo, drefs, recheck_queue,
                    terminate_watch_thread>>
    BY <1>8 DEF Monitors, Plug, Unplug
  <2>4. TypeOK'
    BY <2>1, <2>2, <2>3 DEF IInv, TypeOK, watchVars, recheckVars, DrefIds, Entries
  <2>5. PassAt' /\ RemovedSoFar'
    BY <2>3 DEF IInv, PassAt, RemovedSoFar, watchVars, DrefIds
  <2> QED
    BY <1>1, <2>4, <2>5, RefsStay DEF IInv
<1>9. CASE StopWatch
  <2>1. TypeOK'
    BY <1>9
    DEF StopWatch, IInv, TypeOK, envVars, watchVars, recheckVars, DrefIds, Entries
  <2>2. PassAt' /\ RemovedSoFar'
    BY <1>9 DEF StopWatch, IInv, PassAt, RemovedSoFar, watchVars, DrefIds
  <2> QED
    BY <1>1, <2>1, <2>2, RefsStay DEF IInv
<1> QED
  BY <1>2, <1>3, <1>4, <1>5, <1>6, <1>7, <1>8, <1>9

-----------------------------------------------------------------------------
(***************************************************************************)
(* Steps of the recheck thread.                                            *)
(***************************************************************************)

(* The first entry of a queue, and the others.                              *)
LEMMA FirstAndRest ==
  ASSUME NEW S, NEW s \in Seq(S), s # <<>>
  PROVE  /\ 1 \in DOMAIN s /\ Head(s) = s[1] /\ Head(s) \in S
         /\ Tail(s) \in Seq(S)
         /\ \A k \in DOMAIN Tail(s) :
              k \in Nat \ {0} /\ k + 1 \in DOMAIN s /\ Tail(s)[k] = s[k + 1]
<1>1. Len(s) \in Nat \ {0} /\ DOMAIN s = 1..Len(s)
  BY EmptySeq, LenProperties
<1>2. Tail(s) \in Seq(S) /\ Len(Tail(s)) = Len(s) - 1 /\ DOMAIN Tail(s) = 1..Len(Tail(s))
  BY HeadTailProperties, LenProperties
<1>3. \A k \in 1..(Len(s) - 1) : Tail(s)[k] = s[k + 1]
  BY <1>1, HeadTailProperties
<1>4. Head(s) = s[1] /\ Head(s) \in S
  BY HeadTailProperties
<1> QED
  BY <1>1, <1>2, <1>3, <1>4

(* An entry put in front of a queue.                                        *)
LEMMA PutInFront ==
  ASSUME NEW S, NEW s \in Seq(S), NEW e \in S
  PROVE  /\ <<e>> \o s \in Seq(S)
         /\ \A k \in DOMAIN (<<e>> \o s) :
              \/ k = 1 /\ (<<e>> \o s)[k] = e
              \/ k - 1 \in DOMAIN s /\ (<<e>> \o s)[k] = s[k - 1]
<1>1. <<e>> \in Seq(S) /\ Len(<<e>>) = 1 /\ <<e>>[1] = e
  OBVIOUS
<1>2. /\ <<e>> \o s \in Seq(S)
      /\ Len(<<e>> \o s) = 1 + Len(s)
      /\ \A k \in 1..(1 + Len(s)) :
           (<<e>> \o s)[k] = IF k <= 1 THEN <<e>>[k] ELSE s[k - 1]
  BY <1>1, ConcatProperties
<1>3. Len(s) \in Nat /\ DOMAIN s = 1..Len(s) /\ DOMAIN (<<e>> \o s) = 1..(1 + Len(s))
  BY <1>2, LenProperties
<1> QED
  BY <1>1, <1>2, <1>3

(* An entry of the queue names a reference.                                 *)
LEMMA EntriesAre ==
  ASSUME TypeOK
  PROVE  /\ \A e \in Entries : e.dref \in DrefIds /\ e.age \in 0..(MaxAge + 1) /\ e # NoEntry
         /\ rcur # NoEntry => rcur \in Entries
<1>1. DrefIds \subseteq Nat
  BY DrefIdsAre
<1>2. 0..(MaxAge + 1) \subseteq Nat
  BY DisplayWatchAssumption
<1>3. ASSUME NEW e \in Entries PROVE e \in [dref : Nat, age : Nat]
  BY <1>1, <1>2 DEF Entries
<1>4. NoEntry \notin [dref : Nat, age : Nat]
  BY DisplayWatchAssumption
<1>5. ASSUME NEW e \in Entries PROVE e.dref \in DrefIds /\ e.age \in 0..(MaxAge + 1)
  BY DEF Entries
<1>6. rcur # NoEntry => rcur \in Entries
  BY DEF TypeOK
<1> QED
  BY <1>3, <1>4, <1>5, <1>6

\* What a step does to the references: none is lost, and no bus, no mark and no
\* report that a display is gone is taken back.
RefsGrow ==
  \A i \in DrefIds :
    /\ i \in DrefIds'
    /\ drefs'[i].bus = drefs[i].bus
    /\ drefs'[i].worked = drefs[i].worked
    /\ drefs[i].removed => drefs'[i].removed
    /\ drefs[i].events \in Silenced => drefs'[i].events \in Silenced

NoneDiscarded ==
  \A i \in DrefIds' :
    drefs'[i].worked /\ drefs'[i].removed => i \in DrefIds /\ drefs[i].removed

(* A step after which no reference of a display that worked is newly        *)
(* discarded.                                                               *)
LEMMA NoneDiscardedKeeps ==
  ASSUME IInv, RefsGrow, NoneDiscarded
  PROVE  RemovedWithEvent'
<1> SUFFICES ASSUME NEW i \in DrefIds', drefs'[i].worked, drefs'[i].removed
             PROVE  Succeeded(i)'
  BY DEF RemovedWithEvent
<1>1. i \in DrefIds /\ drefs[i].removed
  BY DEF NoneDiscarded
<1>2. drefs[i].worked
  BY <1>1 DEF RefsGrow
<1>3. PICK j \in DrefIds :
         j >= i /\ drefs[j].bus = drefs[i].bus /\ drefs[j].events \in Silenced
  BY <1>1, <1>2 DEF IInv, RemovedWithEvent, Succeeded
<1> QED
  BY <1>1, <1>3 DEF RefsGrow, Succeeded

(* A step of the recheck thread that changes the reference it rechecks.     *)
LEMMA RecheckChangesRef ==
  ASSUME IInv, UNCHANGED <<envVars, watchVars, businfo, terminate_watch_thread>>,
         NEW k \in DrefIds, NEW r \in DisplayRefs, drefs' = [drefs EXCEPT ![k] = r],
         ~drefs[k].worked, ~r.worked, r.bus = drefs[k].bus,
         drefs[k].removed => r.removed,
         drefs[k].events \in Silenced => r.events \in Silenced
  PROVE  /\ drefs' \in Seq(DisplayRefs) /\ DrefIds' = DrefIds /\ Entries' = Entries
         /\ drefs'[k] = r /\ \A i \in DrefIds : i # k => drefs'[i] = drefs[i]
         /\ RefsGrow /\ RemovedWithEvent' /\ RemovedSoFar' /\ PassAt'
<1>1. /\ drefs' \in Seq(DisplayRefs) /\ DrefIds' = DrefIds
      /\ drefs'[k] = r /\ \A i \in DrefIds : i # k => drefs'[i] = drefs[i]
  BY OneRefChanges DEF IInv
<1>2. Entries' = Entries
  BY <1>1 DEF Entries
<1>3. RefsGrow
  <2>1. drefs[k].worked \in BOOLEAN /\ r.worked \in BOOLEAN
    BY DrefIdsAre DEF IInv, DisplayRefs
  <2>2. drefs'[k].worked = drefs[k].worked
    BY <1>1, <2>1
  <2>3. \A i \in DrefIds : i # k => drefs'[i] = drefs[i]
    BY <1>1
  <2>4. ASSUME NEW i \in DrefIds, i # k
        PROVE  /\ drefs'[i].bus = drefs[i].bus
               /\ drefs'[i].worked = drefs[i].worked
               /\ drefs[i].removed => drefs'[i].removed
               /\ drefs[i].events \in Silenced => drefs'[i].events \in Silenced
    BY <2>3, <2>4
  <2> QED
    BY <1>1, <2>2, <2>4 DEF RefsGrow
<1>4. NoneDiscarded
  BY <1>1 DEF NoneDiscarded
<1>5. RemovedWithEvent'
  BY <1>3, <1>4, NoneDiscardedKeeps
<1>6. PassAt'
  BY DEF IInv, PassAt, watchVars
<1>7. RemovedSoFar'
  BY <1>1, <1>3 DEF IInv, RemovedSoFar, RefsGrow, watchVars
<1> QED
  BY <1>1, <1>2, <1>3, <1>5, <1>6, <1>7

(* A step of the recheck thread that changes no reference.                  *)
LEMMA RecheckChangesNone ==
  ASSUME IInv, UNCHANGED <<envVars, watchVars, businfo, drefs, terminate_watch_thread>>
  PROVE  /\ DrefIds' = DrefIds /\ Entries' = Entries
         /\ RefsGrow /\ RemovedWithEvent' /\ RemovedSoFar' /\ PassAt'
<1>1. DrefIds' = DrefIds /\ Entries' = Entries
  BY DEF DrefIds, Entries
<1>2. RemovedWithEvent'
  BY <1>1 DEF IInv, RemovedWithEvent, Succeeded
<1>3. RemovedSoFar' /\ PassAt'
  BY <1>1 DEF IInv, RemovedSoFar, PassAt, watchVars
<1>4. RefsGrow
  <2>1. drefs' = drefs
    OBVIOUS
  <2> QED
    BY <1>1, <2>1, Zenon DEF RefsGrow
<1> QED
  BY <1>1, <1>2, <1>3, <1>4

\* Only the reference being rechecked gets an event.
OthersHearNothing ==
  \A i \in DrefIds : ~Rechecked(i) => drefs'[i].events = drefs[i].events

(* The entries of the queue grow older.                                     *)
LEMMA RecheckIntervalKeeps ==
  ASSUME IInv, RecheckInterval
  PROVE  IInv' /\ RefsGrow /\ OthersHearNothing
<1>1. PICK d \in Durations :
         recheck_queue' = [i \in DOMAIN recheck_queue |-> Older(recheck_queue[i], d)]
  BY DEF RecheckInterval
<1>2. /\ UNCHANGED <<envVars, watchVars, businfo, drefs, terminate_watch_thread>>
      /\ UNCHANGED <<rcur, routcome>> /\ rpc = "interval" /\ rpc' = "pop"
  BY DEF RecheckInterval
<1>3. /\ DrefIds' = DrefIds /\ Entries' = Entries
      /\ RefsGrow /\ RemovedWithEvent' /\ RemovedSoFar' /\ PassAt'
  BY <1>2, RecheckChangesNone
<1>4. ASSUME NEW e \in Entries PROVE Older(e, d) \in Entries /\ Older(e, d).dref = e.dref
  <2>1. e.age + d \in Nat /\ MaxAge + 1 \in Nat
    <3>1. e.age \in 0..(MaxAge + 1) /\ d \in Nat /\ MaxAge \in Nat
      BY EntriesAre, DisplayWatchAssumption DEF IInv
    <3> QED
      BY <3>1
  <2>2. Min({e.age + d, MaxAge + 1}) \in 0..(MaxAge + 1)
    <3>1. /\ Min({e.age + d, MaxAge + 1}) \in Nat
          /\ Min({e.age + d, MaxAge + 1}) <= MaxAge + 1
      BY <2>1, MinOfTwo
    <3> QED
      BY <2>1, <3>1
  <2>3. Older(e, d) = [e EXCEPT !.age = Min({e.age + d, MaxAge + 1})]
    BY DEF Older
  <2> HIDE DEF Older
  <2> QED
    BY <2>2, <2>3 DEF Entries
<1>5. /\ recheck_queue' \in Seq(Entries)
      /\ DOMAIN recheck_queue' = DOMAIN recheck_queue
      /\ \A k \in DOMAIN recheck_queue : recheck_queue'[k].dref = recheck_queue[k].dref
  <2>1. /\ recheck_queue \in Seq(Entries) /\ DOMAIN recheck_queue = 1..Len(recheck_queue)
        /\ Len(recheck_queue) \in Nat
    BY LenProperties DEF IInv, TypeOK
  <2>2. \A k \in 1..Len(recheck_queue) : recheck_queue[k] \in Entries
    BY <2>1, ElementOfSeq
  <2>3. recheck_queue' \in [1..Len(recheck_queue) -> Entries]
    BY <1>1, <1>4, <2>1, <2>2
  <2>4. recheck_queue' \in Seq(Entries)
    BY <2>1, <2>3, SeqDef
  <2> QED
    BY <1>1, <1>4, <2>1, <2>2, <2>4
<1>6. TypeOK'
  BY <1>2, <1>3, <1>5 DEF IInv, TypeOK, envVars, watchVars
<1>7. \A i : Queued(i)' <=> Queued(i)
  BY <1>5 DEF Queued
<1>8. AtOnePlace'
  BY <1>2, <1>3, <1>5, <1>7 DEF IInv, AtOnePlace, ToRecheck, Rechecked, watchVars
<1>9. RecheckAt'
  BY <1>2 DEF IInv, RecheckAt
<1>10. RefsByPlace'
  BY <1>2, <1>3, <1>7
  DEF IInv, RefsByPlace, RefByPlace, Waiting, ToRecheck, Rechecked, watchVars
<1>11. OthersHearNothing
  BY <1>2 DEF OthersHearNothing
<1> QED
  BY <1>3, <1>6, <1>8, <1>9, <1>10, <1>11 DEF IInv

(* An entry that has waited too long, and all when watching stops.          *)
LEMMA EntriesDropped ==
  ASSUME IInv, DropExpired \/ EndRecheck
  PROVE  IInv' /\ RefsGrow /\ OthersHearNothing
<1>1. /\ UNCHANGED <<envVars, watchVars, businfo, drefs, terminate_watch_thread>>
      /\ UNCHANGED <<rcur, routcome>>
      /\ rpc \in {"interval", "pop"} /\ rpc' \in {"interval", "ended"}
  BY DEF DropExpired, EndRecheck
<1>2. /\ DrefIds' = DrefIds /\ Entries' = Entries
      /\ RefsGrow /\ RemovedWithEvent' /\ RemovedSoFar' /\ PassAt'
  BY <1>1, RecheckChangesNone
<1>3. /\ recheck_queue' \in Seq(Entries)
      /\ \A k \in DOMAIN recheck_queue' : \E n \in Nat :
           k \in Nat /\ k + n \in DOMAIN recheck_queue
           /\ recheck_queue'[k] = recheck_queue[k + n]
      /\ \A k, l \in DOMAIN recheck_queue' :
           recheck_queue'[k].dref = recheck_queue'[l].dref => k = l
  <2>1. CASE DropExpired
    <3>1. recheck_queue \in Seq(Entries) /\ recheck_queue # <<>>
          /\ recheck_queue' = Tail(recheck_queue)
      BY <2>1 DEF DropExpired, IInv, TypeOK
    <3>2. /\ recheck_queue' \in Seq(Entries)
          /\ \A k \in DOMAIN recheck_queue' :
               k \in Nat \ {0} /\ k + 1 \in DOMAIN recheck_queue
               /\ recheck_queue'[k] = recheck_queue[k + 1]
      BY <3>1, FirstAndRest
    <3>3. ASSUME NEW k \in DOMAIN recheck_queue', NEW l \in DOMAIN recheck_queue',
                 recheck_queue'[k].dref = recheck_queue'[l].dref
          PROVE  k = l
      <4>1. k + 1 = l + 1
        BY <3>2, <3>3 DEF IInv, AtOnePlace
      <4> QED
        BY <3>2, <4>1
    <3> QED
      BY <3>2, <3>3
  <2>2. CASE EndRecheck
    <3>1. recheck_queue' = <<>>
      BY <2>2 DEF EndRecheck
    <3>2. recheck_queue' \in Seq(Entries) /\ DOMAIN recheck_queue' = {}
      BY <3>1
    <3> QED
      BY <3>2
  <2> QED
    BY <2>1, <2>2
<1>4. TypeOK'
  BY <1>1, <1>2, <1>3 DEF IInv, TypeOK, envVars, watchVars
<1>5. \A i : Queued(i)' => Queued(i)
  BY <1>3 DEF Queued
<1>6. AtOnePlace'
  BY <1>1, <1>2, <1>3, <1>5 DEF IInv, AtOnePlace, ToRecheck, Rechecked, watchVars
<1>7. RecheckAt'
  BY <1>1 DEF IInv, RecheckAt
<1>8. RefsByPlace'
  BY <1>1, <1>2, <1>5
  DEF IInv, RefsByPlace, RefByPlace, Waiting, ToRecheck, Rechecked, watchVars
<1>9. OthersHearNothing
  BY <1>1 DEF OthersHearNothing
<1> QED
  BY <1>2, <1>4, <1>6, <1>7, <1>8, <1>9 DEF IInv

(* dw_recheck_dref takes the first entry and clears the flags of its        *)
(* reference, which was waiting and had none to clear but its own.          *)
LEMMA PopEntryKeeps ==
  ASSUME IInv, PopEntry
  PROVE  IInv' /\ RefsGrow /\ OthersHearNothing
<1> DEFINE e == Head(recheck_queue)
           k == e.dref
           r == [drefs[k] EXCEPT !.removed = FALSE, !.working = FALSE]
<1>1. /\ recheck_queue \in Seq(Entries) /\ recheck_queue # <<>>
      /\ recheck_queue' = Tail(recheck_queue)
      /\ rcur' = e /\ drefs' = [drefs EXCEPT ![k] = r]
      /\ rpc = "pop" /\ rpc' = "check"
      /\ UNCHANGED <<envVars, watchVars, routcome, businfo, terminate_watch_thread>>
  BY DEF PopEntry, IInv, TypeOK
<1>2. /\ 1 \in DOMAIN recheck_queue /\ e = recheck_queue[1] /\ e \in Entries
      /\ recheck_queue' \in Seq(Entries)
      /\ \A n \in DOMAIN recheck_queue' :
           n \in Nat \ {0} /\ n + 1 \in DOMAIN recheck_queue
           /\ recheck_queue'[n] = recheck_queue[n + 1]
  BY <1>1, FirstAndRest
<1>3. k \in DrefIds /\ e # NoEntry
  BY <1>2, EntriesAre DEF IInv
<1>4. Queued(k) /\ Waiting(k) /\ ~ToRecheck(k)
  BY <1>2, <1>3 DEF Queued, Waiting, IInv, AtOnePlace
<1>5. AnyRef(drefs[k]) /\ WaitingRef(drefs[k])
  BY <1>3, <1>4 DEF IInv, RefsByPlace, RefByPlace
<1>6. /\ drefs[k] \in DisplayRefs
      /\ r \in DisplayRefs /\ ~r.worked /\ r.bus = drefs[k].bus
      /\ r.dispno = drefs[k].dispno /\ r.events = drefs[k].events /\ ~r.removed
  <2>1. drefs[k] \in DisplayRefs /\ ~drefs[k].worked
    BY <1>3, <1>5, DrefIdsAre DEF IInv, WaitingRef
  <2> QED
    BY <2>1 DEF DisplayRefs
<1>7. ~drefs[k].worked /\ ~drefs[k].removed
  BY <1>5 DEF WaitingRef
<1> HIDE DEF r
<1>8. /\ drefs' \in Seq(DisplayRefs) /\ DrefIds' = DrefIds /\ Entries' = Entries
      /\ drefs'[k] = r /\ \A i \in DrefIds : i # k => drefs'[i] = drefs[i]
      /\ RefsGrow /\ RemovedWithEvent' /\ RemovedSoFar' /\ PassAt'
  BY <1>1, <1>3, <1>6, <1>7, RecheckChangesRef
<1>9. \A i : ToRecheck(i)' <=> ToRecheck(i)
  BY <1>1 DEF ToRecheck, watchVars
<1>10. \A i : Queued(i)' => Queued(i) /\ i # k
  <2> SUFFICES ASSUME NEW i, NEW n \in DOMAIN recheck_queue', recheck_queue'[n].dref = i
               PROVE  Queued(i) /\ i # k
    BY DEF Queued
  <2>1. n \in Nat \ {0} /\ n + 1 \in DOMAIN recheck_queue /\ recheck_queue[n + 1].dref = i
    BY <1>2
  <2>2. i = k => n + 1 = 1
    BY <1>2, <2>1 DEF IInv, AtOnePlace
  <2> QED
    BY <2>1, <2>2 DEF Queued
<1>11. \A i : Rechecked(i)' <=> i = k
  BY <1>1, <1>3 DEF Rechecked
<1>12. AtOnePlace'
  <2>1. ASSUME NEW n \in DOMAIN recheck_queue', NEW l \in DOMAIN recheck_queue',
               recheck_queue'[n].dref = recheck_queue'[l].dref
        PROVE  n = l
    <3>1. n + 1 = l + 1
      BY <1>2, <2>1 DEF IInv, AtOnePlace
    <3> QED
      BY <1>2, <3>1
  <2>2. UNCHANGED drefs_to_recheck
    BY <1>1 DEF watchVars
  <2> QED
    BY <1>4, <1>8, <1>9, <1>10, <1>11, <2>1, <2>2 DEF IInv, AtOnePlace
<1>13. TypeOK'
  BY <1>1, <1>2, <1>8 DEF IInv, TypeOK, envVars, watchVars
<1>14. RecheckAt'
  BY <1>1, <1>3 DEF RecheckAt
<1>15. RefsByPlace'
  <2> SUFFICES ASSUME NEW i \in DrefIds PROVE RefByPlace(i)'
    BY <1>8 DEF RefsByPlace
  <2>1. CASE i = k
    <3>1. AnyRef(r) /\ WaitingRef(r)
      BY <1>5, <1>6 DEF AnyRef, WaitingRef
    <3> QED
      BY <2>1, <1>1, <1>8, <3>1 DEF RefByPlace
  <2>2. CASE i # k
    <3>1. drefs'[i] = drefs[i] /\ RefByPlace(i)
      BY <1>8, <2>2 DEF IInv, RefsByPlace
    <3> QED
      BY <1>1, <1>9, <1>10, <1>11, <2>2, <3>1 DEF RefByPlace, Waiting
  <2> QED
    BY <2>1, <2>2
<1>16. OthersHearNothing
  BY <1>6, <1>8 DEF OthersHearNothing
<1> QED
  BY <1>8, <1>12, <1>13, <1>14, <1>15, <1>16 DEF IInv

(* The steps in which the reference being rechecked changes, and the queue  *)
(* does not.                                                                *)
LEMMA RecheckedRefKeeps ==
  ASSUME IInv, rcur # NoEntry, NEW r, drefs' = [drefs EXCEPT ![rcur.dref] = r],
         UNCHANGED <<envVars, watchVars, businfo, recheck_queue, terminate_watch_thread>>,
         r \in DisplayRefs, r.bus = drefs[rcur.dref].bus, ~r.worked,
         ~drefs[rcur.dref].worked,
         drefs[rcur.dref].removed => r.removed,
         drefs[rcur.dref].events \in Silenced => r.events \in Silenced,
         AnyRef(r),
         \/ rcur' = NoEntry /\ rpc' = "interval"
         \/ rcur' = rcur /\ rpc' = "resolve" /\ r.dispno = "invalid"
              /\ r.events = <<"CONNECTED">> /\ (r.removed <=> routcome' = "dead")
         \/ rcur' = rcur /\ rpc' = "enable" /\ EnabledRef(r),
         routcome' \in Outcomes \cup {"none"}
  PROVE  IInv' /\ RefsGrow /\ OthersHearNothing
<1> DEFINE k == rcur.dref
<1>1. k \in DrefIds /\ rcur \in Entries
  BY EntriesAre DEF IInv
<1>2. /\ drefs' \in Seq(DisplayRefs) /\ DrefIds' = DrefIds /\ Entries' = Entries
      /\ drefs'[k] = r /\ \A i \in DrefIds : i # k => drefs'[i] = drefs[i]
      /\ RefsGrow /\ RemovedWithEvent' /\ RemovedSoFar' /\ PassAt'
  BY <1>1, RecheckChangesRef
<1>3. \A i : (ToRecheck(i)' <=> ToRecheck(i)) /\ (Queued(i)' <=> Queued(i))
  BY DEF ToRecheck, Queued, watchVars
<1>4. \A i : (Rechecked(i)' => Rechecked(i)) /\ (Rechecked(i) <=> i = k)
  BY DEF Rechecked
<1>5. UNCHANGED <<recheck_queue, drefs_to_recheck>>
  BY DEF watchVars
<1>6. AtOnePlace'
  BY <1>2, <1>3, <1>4, <1>5 DEF IInv, AtOnePlace
<1>7. TypeOK'
  BY <1>1, <1>2 DEF IInv, TypeOK, envVars, watchVars
<1>8. RecheckAt'
  BY DEF RecheckAt
<1>9. RefsByPlace'
  <2> SUFFICES ASSUME NEW i \in DrefIds PROVE RefByPlace(i)'
    BY <1>2 DEF RefsByPlace
  <2>1. CASE i = k
    <3>1. ~ToRecheck(i) /\ ~Queued(i)
      BY <1>1, <1>4, <2>1 DEF IInv, AtOnePlace
    <3>2. ~Waiting(i)'
      BY <1>3, <3>1 DEF Waiting
    <3>3. drefs'[i] = r
      BY <1>2, <2>1
    <3>4. rpc' = "resolve" => ResolvedRef(drefs[i])'
      BY <3>3 DEF ResolvedRef
    <3>5. rpc' = "enable" => EnabledRef(drefs[i])'
      BY <3>3
    <3>6. AnyRef(drefs[i])'
      BY <3>3
    <3>7. Rechecked(i)' => rcur' # NoEntry
      BY DEF Rechecked
    <3> QED
      BY <3>2, <3>4, <3>5, <3>6, <3>7 DEF RefByPlace
  <2>2. CASE i # k
    <3>1. drefs'[i] = drefs[i] /\ RefByPlace(i) /\ ~Rechecked(i) /\ ~Rechecked(i)'
      BY <1>2, <1>4, <2>2 DEF IInv, RefsByPlace
    <3> QED
      BY <1>3, <3>1 DEF RefByPlace, Waiting
  <2> QED
    BY <2>1, <2>2
<1>10. OthersHearNothing
  BY <1>2, <1>4 DEF OthersHearNothing
<1> QED
  BY <1>2, <1>6, <1>7, <1>8, <1>9, <1>10 DEF IInv

(* ddc_initial_checks_by_dref sets the working flag and, when the bus is    *)
(* dead, DREF_REMOVED.                                                      *)
LEMMA RecheckDrefKeeps ==
  ASSUME IInv, RecheckDref
  PROVE  IInv' /\ RefsGrow /\ OthersHearNothing
<1> DEFINE d == drefs[rcur.dref]
<1>1. rcur # NoEntry /\ rcur.dref \in DrefIds /\ d \in DisplayRefs
  BY EntriesAre, DrefIdsAre DEF RecheckDref, IInv, RecheckAt
<1>2. AnyRef(d) /\ WaitingRef(d)
  BY <1>1 DEF RecheckDref, IInv, RefsByPlace, RefByPlace, Waiting, Rechecked
<1>3. PICK o \in Outcomes :
         /\ routcome' = o
         /\ drefs' = [drefs EXCEPT ![rcur.dref] =
                        [d EXCEPT !.working = o \in {"works", "unsupported"},
                                  !.removed = o = "dead"]]
  BY DEF RecheckDref, CheckOutcomes
<1> DEFINE working == o \in {"works", "unsupported"}
           removed == o = "dead"
           r == [d EXCEPT !.working = working, !.removed = removed]
<1>b. working \in BOOLEAN /\ removed \in BOOLEAN /\ (removed <=> o = "dead")
  OBVIOUS
<1>r. drefs' = [drefs EXCEPT ![rcur.dref] = r]
  BY <1>3
<1> HIDE DEF working, removed
<1>4. /\ r \in DisplayRefs
      /\ r.bus = d.bus /\ r.dispno = d.dispno /\ r.events = d.events /\ r.worked = d.worked
      /\ r.removed = removed
  BY <1>1, <1>b DEF DisplayRefs
<1>5. drefs' = [drefs EXCEPT ![rcur.dref] = r] /\ (r.removed <=> routcome' = "dead")
  BY <1>3, <1>b, <1>r, <1>4
<1>6. /\ UNCHANGED <<envVars, watchVars, businfo, recheck_queue, terminate_watch_thread>>
      /\ rcur' = rcur /\ rpc' = "resolve"
  BY DEF RecheckDref
<1> HIDE DEF d, r
<1>7. ~d.worked /\ ~d.removed /\ d.dispno = "invalid" /\ d.events = <<"CONNECTED">>
  BY <1>2 DEF WaitingRef
<1>8. AnyRef(r)
  BY <1>2, <1>4, <1>7 DEF AnyRef
<1> QED
  BY <1>1, <1>3, <1>4, <1>5, <1>6, <1>7, <1>8, RecheckedRefKeeps DEF d

(* A display number is assigned.                                            *)
LEMMA RecheckSucceededKeeps ==
  ASSUME IInv, RecheckSucceeded
  PROVE  IInv' /\ RefsGrow /\ OthersHearNothing
<1> DEFINE d == drefs[rcur.dref]
           r == [d EXCEPT !.dispno = "valid"]
<1>1. rcur # NoEntry /\ rcur.dref \in DrefIds /\ d \in DisplayRefs
  BY EntriesAre, DrefIdsAre DEF RecheckSucceeded, IInv, RecheckAt
<1>2. AnyRef(d) /\ ResolvedRef(d)
  BY <1>1 DEF RecheckSucceeded, IInv, RefsByPlace, RefByPlace, Rechecked
<1>3. drefs' = [drefs EXCEPT ![rcur.dref] = r]
  BY DEF RecheckSucceeded
<1>4. /\ r \in DisplayRefs
      /\ r.bus = d.bus /\ r.dispno = "valid" /\ r.events = d.events /\ r.worked = d.worked
      /\ r.removed = d.removed
  BY <1>1 DEF DisplayRefs
<1>5. /\ UNCHANGED <<envVars, watchVars, businfo, recheck_queue, terminate_watch_thread>>
      /\ rcur' = rcur /\ rpc' = "enable" /\ routcome' = routcome
  BY DEF RecheckSucceeded
<1> HIDE DEF d, r
<1>6. ~d.worked /\ d.events = <<"CONNECTED">>
  BY <1>2 DEF ResolvedRef
<1>7. AnyRef(r) /\ EnabledRef(r)
  BY <1>2, <1>4, <1>6 DEF AnyRef, EnabledRef
<1>8. routcome' \in Outcomes \cup {"none"}
  BY <1>5 DEF IInv, TypeOK
<1> QED
  BY <1>1, <1>3, <1>4, <1>5, <1>6, <1>7, <1>8, RecheckedRefKeeps DEF d

(* DDC_ENABLED is emitted, of a display that was announced without DDC.     *)
LEMMA EmitEnabledKeeps ==
  ASSUME IInv, EmitEnabled
  PROVE  IInv' /\ RefsGrow /\ OthersHearNothing
<1> DEFINE d == drefs[rcur.dref]
           r == [d EXCEPT !.events = Append(d.events, "DDC_ENABLED")]
<1>1. rcur # NoEntry /\ rcur.dref \in DrefIds /\ d \in DisplayRefs
  BY EntriesAre, DrefIdsAre DEF EmitEnabled, IInv, RecheckAt
<1>2. AnyRef(d) /\ EnabledRef(d)
  BY <1>1 DEF EmitEnabled, IInv, RefsByPlace, RefByPlace, Rechecked
<1>3. drefs' = [drefs EXCEPT ![rcur.dref] = r]
  BY DEF EmitEnabled, Told
<1>4. Append(d.events, "DDC_ENABLED") \in Seq(Events)
  BY <1>1, AppendProperties DEF DisplayRefs, Events
<1>5. /\ r \in DisplayRefs
      /\ r.bus = d.bus /\ r.dispno = d.dispno /\ r.worked = d.worked /\ r.removed = d.removed
      /\ r.events = Append(d.events, "DDC_ENABLED")
  BY <1>1, <1>4 DEF DisplayRefs
<1>6. /\ UNCHANGED <<envVars, watchVars, businfo, recheck_queue, terminate_watch_thread>>
      /\ rcur' = NoEntry /\ rpc' = "interval" /\ routcome' = "none"
  BY DEF EmitEnabled
<1> HIDE DEF d, r
<1>7. /\ ~d.worked /\ d.dispno = "valid"
      /\ d.events \in {<<"CONNECTED">>, <<"CONNECTED", "DISCONNECTED">>}
  BY <1>2 DEF EnabledRef
<1>8. CASE d.events = <<"CONNECTED">>
  <2>1. r.events = <<"CONNECTED", "DDC_ENABLED">>
    BY <1>5, <1>8, HistoriesGrow
  <2>2. AnyRef(r)
    BY <1>5, <1>7, <2>1 DEF AnyRef, Histories
  <2>3. d.events \notin Silenced
    BY <1>8, HistoriesDiffer
  <2> QED
    BY <1>1, <1>3, <1>5, <1>6, <1>7, <2>2, <2>3, RecheckedRefKeeps DEF d
<1>9. CASE d.events = <<"CONNECTED", "DISCONNECTED">>
  <2>1. r.events = <<"CONNECTED", "DISCONNECTED", "DDC_ENABLED">>
    BY <1>5, <1>9, HistoriesGrow
  <2>2. d.removed
    BY <1>2, <1>7, <1>9, HistoriesDiffer DEF AnyRef, Silenced
  <2>3. AnyRef(r)
    BY <1>5, <1>7, <2>1, <2>2 DEF AnyRef, Histories
  <2>4. r.events \in Silenced
    BY <2>1 DEF Silenced
  <2> QED
    BY <1>1, <1>3, <1>5, <1>6, <1>7, <2>3, <2>4, RecheckedRefKeeps DEF d
<1> QED
  BY <1>7, <1>8, <1>9

(* DDCRC_DISCONNECTED: the display is reported gone, once.                  *)
LEMMA RecheckDisconnectedKeeps ==
  ASSUME IInv, RecheckDisconnected
  PROVE  IInv' /\ RefsGrow /\ OthersHearNothing
<1> DEFINE d == drefs[rcur.dref]
           r == [d EXCEPT !.dispno = "removed", !.events = Append(d.events, "DISCONNECTED")]
<1>1. rcur # NoEntry /\ rcur.dref \in DrefIds /\ d \in DisplayRefs
  BY EntriesAre, DrefIdsAre DEF RecheckDisconnected, IInv, RecheckAt
<1>2. AnyRef(d) /\ ResolvedRef(d)
  BY <1>1 DEF RecheckDisconnected, IInv, RefsByPlace, RefByPlace, Rechecked
<1>3. drefs' = [drefs EXCEPT ![rcur.dref] = r]
  <2>1. [d EXCEPT !.dispno = "removed"].events = d.events
    BY <1>1 DEF DisplayRefs
  <2>2. r = Told([d EXCEPT !.dispno = "removed"], "DISCONNECTED")
    BY <1>1, <2>1 DEF Told, DisplayRefs
  <2>3. drefs' = [drefs EXCEPT ![rcur.dref] = Told([d EXCEPT !.dispno = "removed"],
                                                   "DISCONNECTED")]
    BY DEF RecheckDisconnected
  <2> QED
    BY <2>2, <2>3
<1>4. Append(d.events, "DISCONNECTED") \in Seq(Events)
  BY <1>1, AppendProperties DEF DisplayRefs, Events
<1>5. /\ r \in DisplayRefs
      /\ r.bus = d.bus /\ r.dispno = "removed" /\ r.worked = d.worked /\ r.removed = d.removed
      /\ r.events = Append(d.events, "DISCONNECTED")
  BY <1>1, <1>4 DEF DisplayRefs
<1>6. /\ UNCHANGED <<envVars, watchVars, businfo, recheck_queue, terminate_watch_thread>>
      /\ rcur' = NoEntry /\ rpc' = "interval" /\ routcome' = "none"
  BY DEF RecheckDisconnected
<1> HIDE DEF d, r
<1>7. ~d.worked /\ d.events = <<"CONNECTED">>
  BY <1>2 DEF ResolvedRef
<1>8. r.events = <<"CONNECTED", "DISCONNECTED">>
  BY <1>5, <1>7, HistoriesGrow
<1>9. AnyRef(r) /\ r.events \in Silenced
  BY <1>5, <1>7, <1>8 DEF AnyRef, Histories, Silenced
<1> QED
  BY <1>1, <1>3, <1>5, <1>6, <1>7, <1>9, RecheckedRefKeeps DEF d

(* Any other error: the reference, which is not removed, waits again.       *)
LEMMA RecheckFailedKeeps ==
  ASSUME IInv, RecheckFailed
  PROVE  IInv' /\ RefsGrow /\ OthersHearNothing
<1> DEFINE k == rcur.dref
<1>1. rcur # NoEntry /\ k \in DrefIds /\ rcur \in Entries
  BY EntriesAre DEF RecheckFailed, IInv, RecheckAt
<1>2. AnyRef(drefs[k]) /\ ResolvedRef(drefs[k]) /\ routcome # "dead"
  BY <1>1 DEF RecheckFailed, IInv, RefsByPlace, RefByPlace, Rechecked
<1>3. WaitingRef(drefs[k])
  BY <1>2 DEF ResolvedRef, WaitingRef
<1>4. /\ recheck_queue' = <<rcur>> \o recheck_queue
      /\ rcur' = NoEntry /\ rpc' = "interval" /\ routcome' = "none"
      /\ UNCHANGED <<envVars, watchVars, businfo, drefs, terminate_watch_thread>>
  BY DEF RecheckFailed, Requeued
<1>5. /\ DrefIds' = DrefIds /\ Entries' = Entries
      /\ RefsGrow /\ RemovedWithEvent' /\ RemovedSoFar' /\ PassAt'
  BY <1>4, RecheckChangesNone
<1>6. /\ recheck_queue' \in Seq(Entries)
      /\ \A n \in DOMAIN recheck_queue' :
           \/ n = 1 /\ recheck_queue'[n] = rcur
           \/ n - 1 \in DOMAIN recheck_queue /\ recheck_queue'[n] = recheck_queue[n - 1]
  BY <1>1, <1>4, PutInFront DEF IInv, TypeOK
<1>7. DOMAIN recheck_queue \subseteq Nat /\ DOMAIN recheck_queue' \subseteq Nat
  BY <1>6, LenProperties DEF IInv, TypeOK
<1>8. \A i : ToRecheck(i)' <=> ToRecheck(i)
  BY <1>4 DEF ToRecheck, watchVars
<1>9. \A i : Queued(i)' => Queued(i) \/ i = k
  BY <1>6 DEF Queued
<1>10. ~ToRecheck(k) /\ ~Queued(k)
  BY <1>1 DEF IInv, AtOnePlace, Rechecked
<1>11. \A i : ~Rechecked(i)'
  BY <1>4 DEF Rechecked
<1>12. ASSUME NEW n \in DOMAIN recheck_queue', NEW l \in DOMAIN recheck_queue',
              recheck_queue'[n].dref = recheck_queue'[l].dref
       PROVE  n = l
  <2>1. CASE n = 1 /\ recheck_queue'[n] = rcur
    <3>1. ~(l - 1 \in DOMAIN recheck_queue /\ recheck_queue'[l] = recheck_queue[l - 1])
      BY <1>10, <1>12, <2>1 DEF Queued
    <3> QED
      BY <1>6, <2>1, <3>1
  <2>2. CASE n - 1 \in DOMAIN recheck_queue /\ recheck_queue'[n] = recheck_queue[n - 1]
    <3>1. ~(l = 1 /\ recheck_queue'[l] = rcur)
      BY <1>10, <1>12, <2>2 DEF Queued
    <3>2. l - 1 \in DOMAIN recheck_queue /\ recheck_queue'[l] = recheck_queue[l - 1]
      BY <1>6, <3>1
    <3>3. n - 1 = l - 1
      BY <1>12, <2>2, <3>2 DEF IInv, AtOnePlace
    <3> QED
      BY <1>7, <3>3
  <2> QED
    BY <1>6, <2>1, <2>2
<1>13. AtOnePlace'
  <2>1. UNCHANGED drefs_to_recheck
    BY <1>4 DEF watchVars
  <2> QED
    BY <1>5, <1>8, <1>9, <1>10, <1>11, <1>12, <2>1 DEF IInv, AtOnePlace
<1>14. TypeOK'
  BY <1>4, <1>5, <1>6 DEF IInv, TypeOK, envVars, watchVars
<1>15. RecheckAt'
  BY <1>4 DEF RecheckAt
<1>16. RefsByPlace'
  <2> SUFFICES ASSUME NEW i \in DrefIds PROVE RefByPlace(i)'
    BY <1>5 DEF RefsByPlace
  <2>1. drefs'[i] = drefs[i] /\ RefByPlace(i)
    BY <1>4 DEF IInv, RefsByPlace
  <2>2. Waiting(i)' => Waiting(i) \/ i = k
    BY <1>8, <1>9, <1>11 DEF Waiting
  <2> QED
    BY <1>3, <1>11, <2>1, <2>2 DEF RefByPlace
<1>17. OthersHearNothing
  BY <1>4 DEF OthersHearNothing
<1> QED
  BY <1>5, <1>13, <1>14, <1>15, <1>16, <1>17 DEF IInv

(* Every step of the recheck thread.                                        *)
LEMMA RecheckThreadKeeps ==
  ASSUME IInv, RecheckThread
  PROVE  IInv' /\ RefsGrow /\ OthersHearNothing
BY RecheckIntervalKeeps, EntriesDropped, PopEntryKeeps, RecheckDrefKeeps,
   RecheckSucceededKeeps, EmitEnabledKeeps, RecheckDisconnectedKeeps, RecheckFailedKeeps
DEF RecheckThread

-----------------------------------------------------------------------------
(***************************************************************************)
(* The watch thread removes a bus.                                         *)
(***************************************************************************)

(* The references found on a bus: the newest is discarded and reported, the *)
(* older ones are marked.                                                   *)
LEMMA RemoveDisplayIs ==
  ASSUME TypeOK, NEW bus \in Buses, drefs' = RemoveDisplay(bus)
  PROVE  /\ drefs' \in Seq(DisplayRefs) /\ DrefIds' = DrefIds
         /\ \A i \in DrefIds \ Candidates(bus) : drefs'[i] = drefs[i]
         /\ \A i \in Candidates(bus) :
              /\ drefs'[i].bus = drefs[i].bus /\ drefs'[i].worked = drefs[i].worked
              /\ drefs'[i].dispno = drefs[i].dispno /\ drefs'[i].removed
              /\ \/ drefs'[i].events = drefs[i].events
                 \/ drefs'[i].events = Append(drefs[i].events, "DISCONNECTED")
         /\ Candidates(bus) # {} =>
              \E m \in Candidates(bus) :
                /\ \A i \in Candidates(bus) : m >= i
                /\ drefs'[m].events = Append(drefs[m].events, "DISCONNECTED")
<1> DEFINE C == Candidates(bus)
           n == Len(drefs)
<1>1. /\ n \in Nat /\ DrefIds = 1..n /\ drefs \in Seq(DisplayRefs)
      /\ \A i \in 1..n : drefs[i] \in DisplayRefs
  BY DrefIdsAre DEF TypeOK
<1>2. C \in SUBSET (1..n) /\ \A i \in 1..n : i \in C => drefs[i].bus = bus
  BY <1>1 DEF Candidates
<1>3. CASE C = {}
  <2>1. drefs' = drefs
    BY <1>3 DEF RemoveDisplay
  <2> QED
    BY <1>1, <1>3, <2>1 DEF DrefIds
<1>4. CASE C # {}
  <2> DEFINE m == Max(C)
             older == DiscardOlder(drefs, bus)
             r == Told([older[m] EXCEPT !.removed = TRUE, !.detail = FALSE], "DISCONNECTED")
  <2>1. m \in C /\ \A i \in C : m >= i
    BY <1>1, <1>2, <1>4, MaxInSet
  <2>2. /\ DOMAIN older = 1..n
        /\ \A i \in 1..n : older[i] = [drefs[i] EXCEPT !.removed = @ \/ (i \in C /\ i # m)]
    BY <1>1 DEF DiscardOlder, DrefIds
  <2>3. drefs' = [older EXCEPT ![m] = r]
    BY <1>4 DEF RemoveDisplay, DiscardNewest
  <2> HIDE DEF m, older, C
  <2>4. ASSUME NEW i \in 1..n
        PROVE  /\ older[i] \in DisplayRefs
               /\ older[i].bus = drefs[i].bus /\ older[i].worked = drefs[i].worked
               /\ older[i].dispno = drefs[i].dispno /\ older[i].events = drefs[i].events
               /\ i \in C /\ i # m => older[i].removed
               /\ ~(i \in C /\ i # m) => older[i] = drefs[i]
    <3> DEFINE marked == drefs[i].removed \/ (i \in C /\ i # m)
    <3>1. drefs[i] \in DisplayRefs
      BY <1>1
    <3>2. marked \in BOOLEAN /\ (i \in C /\ i # m => marked)
      OBVIOUS
    <3>3. ~(i \in C /\ i # m) => marked = drefs[i].removed
      BY <3>1 DEF DisplayRefs
    <3>4. older[i] = [drefs[i] EXCEPT !.removed = marked]
      BY <2>2
    <3> HIDE DEF marked
    <3> QED
      BY <3>1, <3>2, <3>3, <3>4 DEF DisplayRefs
  <2>5. m \in 1..n
    BY <1>2, <2>1
  <2>6. Append(older[m].events, "DISCONNECTED") \in Seq(Events)
    BY <2>4, <2>5, AppendProperties DEF DisplayRefs, Events
  <2>7. /\ r \in DisplayRefs
        /\ r.bus = drefs[m].bus /\ r.worked = drefs[m].worked /\ r.dispno = drefs[m].dispno
        /\ r.removed /\ r.events = Append(drefs[m].events, "DISCONNECTED")
    <3> DEFINE a == [older[m] EXCEPT !.removed = TRUE, !.detail = FALSE]
    <3>1. /\ a \in DisplayRefs /\ a.bus = older[m].bus /\ a.worked = older[m].worked
          /\ a.dispno = older[m].dispno /\ a.removed /\ a.events = older[m].events
      BY <2>4, <2>5 DEF DisplayRefs
    <3>2. r = [a EXCEPT !.events = Append(a.events, "DISCONNECTED")]
      BY DEF Told
    <3> HIDE DEF a, r
    <3>3. /\ r \in DisplayRefs /\ r.bus = a.bus /\ r.worked = a.worked
          /\ r.dispno = a.dispno /\ r.removed = a.removed
          /\ r.events = Append(a.events, "DISCONNECTED")
      BY <2>6, <3>1, <3>2 DEF DisplayRefs
    <3> QED
      BY <2>4, <2>5, <3>1, <3>3
  <2> HIDE DEF r
  <2>8. /\ DOMAIN drefs' = 1..n
        /\ drefs'[m] = r
        /\ \A i \in 1..n : i # m => drefs'[i] = older[i]
    BY <2>2, <2>3, <2>5
  <2>9. drefs' \in [1..n -> DisplayRefs]
    <3>1. \A i \in 1..n : drefs'[i] \in DisplayRefs
      BY <2>4, <2>7, <2>8
    <3>2. drefs' = [i \in 1..n |-> drefs'[i]]
      BY <2>2, <2>3
    <3> QED
      BY <3>1, <3>2
  <2>10. drefs' \in Seq(DisplayRefs) /\ DrefIds' = DrefIds
    BY <1>1, <2>8, <2>9, SeqDef DEF DrefIds
  <2>11. \A i \in DrefIds \ C : drefs'[i] = drefs[i]
    BY <1>1, <2>1, <2>4, <2>8
  <2>12. ASSUME NEW i \in C
         PROVE  /\ drefs'[i].bus = drefs[i].bus /\ drefs'[i].worked = drefs[i].worked
                /\ drefs'[i].dispno = drefs[i].dispno /\ drefs'[i].removed
                /\ \/ drefs'[i].events = drefs[i].events
                   \/ drefs'[i].events = Append(drefs[i].events, "DISCONNECTED")
    <3>1. i \in 1..n
      BY <1>2
    <3>2. CASE i = m
      BY <2>7, <2>8, <3>2
    <3>3. CASE i # m
      BY <2>4, <2>8, <3>1, <3>3
    <3> QED
      BY <3>2, <3>3
  <2>13. drefs'[m].events = Append(drefs[m].events, "DISCONNECTED")
    BY <2>7, <2>8
  <2> QED
    BY <2>1, <2>10, <2>11, <2>12, <2>13 DEF C
<1> HIDE DEF C
<1> QED
  BY <1>3, <1>4

(* dw_remove_display_by_businfo looks only for references with a display    *)
(* number that are not removed: none of those that wait is among them.      *)
LEMMA RemoveBusKeeps ==
  ASSUME IInv, RemoveBus
  PROVE  /\ IInv' /\ RefsGrow
         /\ \A i \in DrefIds : drefs[i].bus \in wnew => drefs'[i].events = drefs[i].events
<1> DEFINE bus == Min(wremoved)
           C == Candidates(bus)
<1>1. bus \in wremoved /\ bus \in Buses
  <2>1. wremoved \in SUBSET Nat /\ wremoved # {} /\ wremoved \subseteq Buses
    BY DisplayWatchAssumption DEF RemoveBus, IInv, TypeOK
  <2> QED
    BY <2>1, MinInSet
<1>2. /\ wpc = "remove" /\ wpc' = "remove" /\ wremoved' = wremoved \ {bus}
      /\ businfo' = [businfo EXCEPT ![bus] = "none"]
      /\ drefs' = RemoveDisplay(bus)
      /\ disappeared' = disappeared \ {bus}
      /\ UNCHANGED <<plugged, changes, rpc, rcur, routcome, known, wnew, wadded, wcur,
                     drefs_to_recheck, recheck_queue, terminate_watch_thread>>
  BY DEF RemoveBus, envVars, recheckVars
<1> HIDE DEF bus
<1>3. /\ drefs' \in Seq(DisplayRefs) /\ DrefIds' = DrefIds
      /\ \A i \in DrefIds \ C : drefs'[i] = drefs[i]
      /\ \A i \in C :
           /\ drefs'[i].bus = drefs[i].bus /\ drefs'[i].worked = drefs[i].worked
           /\ drefs'[i].dispno = drefs[i].dispno /\ drefs'[i].removed
           /\ \/ drefs'[i].events = drefs[i].events
              \/ drefs'[i].events = Append(drefs[i].events, "DISCONNECTED")
      /\ C # {} =>
           \E m \in C :
             /\ \A i \in C : m >= i
             /\ drefs'[m].events = Append(drefs[m].events, "DISCONNECTED")
  BY <1>1, <1>2, RemoveDisplayIs DEF IInv
<1>4. /\ C \subseteq DrefIds
      /\ \A i \in C : drefs[i].bus = bus /\ drefs[i].dispno = "valid" /\ ~drefs[i].removed
      /\ \A i \in DrefIds : drefs[i].bus = bus /\ drefs[i].dispno = "valid"
           /\ ~drefs[i].removed => i \in C
  BY DEF Candidates, Ignored
<1> HIDE DEF C
<1>5. ASSUME NEW i \in C
      PROVE  /\ AnyRef(drefs[i]) /\ ~Waiting(i) /\ ~(Rechecked(i) /\ rpc = "resolve")
             /\ drefs[i].events \in {<<"CONNECTED">>, <<"CONNECTED", "DDC_ENABLED">>}
             /\ drefs[i].worked => drefs[i].events = <<"CONNECTED">>
  <2>1. RefByPlace(i) /\ drefs[i].dispno = "valid" /\ ~drefs[i].removed
    BY <1>4 DEF IInv, RefsByPlace
  <2>2. /\ AnyRef(drefs[i]) /\ ~Waiting(i) /\ ~(Rechecked(i) /\ rpc = "resolve")
    BY <2>1 DEF RefByPlace, WaitingRef, ResolvedRef
  <2>3. drefs[i].events \in {<<"CONNECTED">>, <<"CONNECTED", "DDC_ENABLED">>}
    BY <2>1, <2>2 DEF AnyRef
  <2>4. drefs[i].worked =>
          drefs[i].events \in {<<"CONNECTED">>, <<"CONNECTED", "DISCONNECTED">>}
    BY <2>2 DEF AnyRef
  <2>5. <<"CONNECTED", "DDC_ENABLED">> \notin {<<"CONNECTED">>, <<"CONNECTED", "DISCONNECTED">>}
    OBVIOUS
  <2> QED
    BY <2>2, <2>3, <2>4, <2>5
<1>6. ASSUME NEW i \in C
      PROVE  Append(drefs[i].events, "DISCONNECTED")
               \in {<<"CONNECTED", "DISCONNECTED">>,
                    <<"CONNECTED", "DDC_ENABLED", "DISCONNECTED">>}
  BY <1>5, HistoriesGrow
<1>7. RefsGrow
  <2> SUFFICES ASSUME NEW i \in DrefIds
               PROVE  /\ i \in DrefIds'
                      /\ drefs'[i].bus = drefs[i].bus
                      /\ drefs'[i].worked = drefs[i].worked
                      /\ drefs[i].removed => drefs'[i].removed
                      /\ drefs[i].events \in Silenced => drefs'[i].events \in Silenced
    BY DEF RefsGrow
  <2>1. CASE i \in C
    BY <1>3, <1>5, <2>1, HistoriesDiffer
  <2>2. CASE i \notin C
    BY <1>3, <2>2
  <2> QED
    BY <2>1, <2>2
<1>8. TypeOK'
  <2>1. businfo' \in [Buses -> {"none", "edid", "edid_x37"}]
    BY <1>2 DEF IInv, TypeOK
  <2>2. Entries' = Entries
    BY <1>3 DEF Entries
  <2> QED
    BY <1>2, <1>3, <2>1, <2>2 DEF IInv, TypeOK
<1>9. \A i : /\ ToRecheck(i)' <=> ToRecheck(i)
             /\ Queued(i)' <=> Queued(i)
             /\ Rechecked(i)' <=> Rechecked(i)
             /\ Waiting(i)' <=> Waiting(i)
  BY <1>2 DEF ToRecheck, Queued, Rechecked, Waiting
<1>10. AtOnePlace' /\ RecheckAt'
  BY <1>2, <1>3, <1>9 DEF IInv, AtOnePlace, RecheckAt
<1>11. RefsByPlace'
  <2> SUFFICES ASSUME NEW i \in DrefIds PROVE RefByPlace(i)'
    BY <1>3 DEF RefsByPlace
  <2>1. RefByPlace(i)
    BY DEF IInv, RefsByPlace
  <2>2. CASE i \notin C
    <3>1. drefs'[i] = drefs[i]
      BY <1>3, <2>2
    <3> QED
      BY <1>2, <1>9, <2>1, <3>1 DEF RefByPlace, ResolvedRef
  <2>3. CASE i \in C
    <3>1. /\ drefs'[i].worked = drefs[i].worked
          /\ drefs'[i].dispno = "valid" /\ drefs[i].dispno = "valid" /\ drefs'[i].removed
      BY <1>3, <1>4, <2>3
    <3>2. drefs'[i].events \in {<<"CONNECTED">>, <<"CONNECTED", "DDC_ENABLED">>,
                                <<"CONNECTED", "DISCONNECTED">>,
                                <<"CONNECTED", "DDC_ENABLED", "DISCONNECTED">>}
      BY <1>3, <1>5, <1>6, <2>3
    <3>3. drefs[i].events = <<"CONNECTED">> =>
            drefs'[i].events \in {<<"CONNECTED">>, <<"CONNECTED", "DISCONNECTED">>}
      BY <1>3, <2>3, HistoriesGrow
    <3>4. AnyRef(drefs'[i])
      BY <1>5, <2>3, <3>1, <3>2, <3>3 DEF AnyRef, Histories
    <3>5. Rechecked(i) /\ rpc = "enable" => EnabledRef(drefs'[i])
      <4> SUFFICES ASSUME Rechecked(i), rpc = "enable" PROVE EnabledRef(drefs'[i])
        OBVIOUS
      <4>1. EnabledRef(drefs[i])
        BY <2>1 DEF RefByPlace
      <4>2. drefs[i].events = <<"CONNECTED">>
        <5>1. <<"CONNECTED", "DDC_ENABLED">>
                \notin {<<"CONNECTED">>, <<"CONNECTED", "DISCONNECTED">>}
          OBVIOUS
        <5> QED
          BY <1>5, <2>3, <4>1, <5>1 DEF EnabledRef
      <4> QED
        BY <3>1, <3>3, <4>1, <4>2 DEF EnabledRef
    <3>6. ~Waiting(i)' /\ ~(Rechecked(i) /\ rpc = "resolve")' /\ AnyRef(drefs[i])'
      BY <1>2, <1>5, <1>9, <2>3, <3>4
    <3>7. (Rechecked(i) /\ rpc = "enable")' => EnabledRef(drefs[i])'
      BY <1>2, <1>9, <3>5
    <3> QED
      BY <3>6, <3>7 DEF RefByPlace
  <2> QED
    BY <2>2, <2>3
<1>12. RemovedWithEvent'
  <2> SUFFICES ASSUME NEW i \in DrefIds, drefs'[i].worked, drefs'[i].removed
               PROVE  Succeeded(i)'
    BY <1>3 DEF RemovedWithEvent
  <2>1. drefs[i].worked
    BY <1>7 DEF RefsGrow
  <2>2. CASE i \in C
    <3>1. PICK m \in C :
             /\ \A x \in C : m >= x
             /\ drefs'[m].events = Append(drefs[m].events, "DISCONNECTED")
      BY <1>3, <2>2
    <3>2. drefs'[m].events \in Silenced
      BY <1>6, <3>1 DEF Silenced
    <3>3. m \in DrefIds /\ m >= i /\ drefs'[m].bus = drefs'[i].bus
      BY <1>3, <1>4, <2>2, <3>1
    <3> QED
      BY <1>3, <3>2, <3>3 DEF Succeeded
  <2>3. CASE i \notin C
    <3>1. drefs[i].removed
      BY <1>3, <2>3
    <3>2. PICK j \in DrefIds :
             j >= i /\ drefs[j].bus = drefs[i].bus /\ drefs[j].events \in Silenced
      BY <2>1, <3>1 DEF IInv, RemovedWithEvent, Succeeded
    <3> QED
      BY <1>7, <3>2 DEF RefsGrow, Succeeded
  <2> QED
    BY <2>2, <2>3
<1>13. PassAt'
  BY <1>2 DEF IInv, PassAt
<1>14. RemovedSoFar'
  <2> SUFFICES ASSUME NEW b \in (known \ wnew) \ (wremoved \ {bus}), NEW i \in DrefIds,
                      drefs'[i].bus = b, drefs'[i].worked
               PROVE  drefs'[i].removed
    BY <1>2, <1>3 DEF RemovedSoFar
  <2>1. drefs[i].bus = b /\ drefs[i].worked
    BY <1>7 DEF RefsGrow
  <2>2. CASE b = bus
    <3>1. drefs[i].dispno = "valid"
      BY <2>1 DEF IInv, RefsByPlace, RefByPlace, AnyRef
    <3>2. CASE drefs[i].removed
      BY <1>7, <3>2 DEF RefsGrow
    <3>3. CASE ~drefs[i].removed
      BY <1>3, <1>4, <2>1, <2>2, <3>1, <3>3
    <3> QED
      BY <3>2, <3>3
  <2>3. CASE b # bus
    <3>1. drefs[i].removed
      BY <1>2, <2>1, <2>3 DEF IInv, RemovedSoFar
    <3> QED
      BY <1>7, <3>1 DEF RefsGrow
  <2> QED
    BY <2>2, <2>3
<1>15. ASSUME NEW i \in DrefIds, drefs[i].bus \in wnew
       PROVE  drefs'[i].events = drefs[i].events
  <2>1. bus \notin wnew
    BY <1>1, <1>2 DEF IInv, PassAt
  <2>2. i \notin C
    BY <1>4, <1>15, <2>1
  <2> QED
    BY <1>3, <2>2
<1> QED
  BY <1>7, <1>8, <1>10, <1>11, <1>12, <1>13, <1>14, <1>15 DEF IInv

-----------------------------------------------------------------------------
(***************************************************************************)
(* The watch thread adds a display and ends a pass.                        *)
(***************************************************************************)

(* A sequence of elements of a set is one of a larger set.                  *)
LEMMA SeqOfMore ==
  ASSUME NEW S, NEW T, S \subseteq T, NEW s \in Seq(S)
  PROVE  s \in Seq(T)
<1>1. Len(s) \in Nat /\ s \in [1..Len(s) -> S]
  BY LenProperties
<1>2. s \in [1..Len(s) -> T]
  BY <1>1
<1> QED
  BY <1>1, <1>2, SeqDef

(* A sequence and one more element.                                         *)
LEMMA OneMore ==
  ASSUME NEW S, NEW s \in Seq(S), NEW e \in S
  PROVE  /\ Append(s, e) \in Seq(S)
         /\ Len(s) + 1 \in DOMAIN Append(s, e) /\ Append(s, e)[Len(s) + 1] = e
         /\ \A k \in DOMAIN s : k \in DOMAIN Append(s, e) /\ Append(s, e)[k] = s[k]
         /\ \A k \in DOMAIN Append(s, e) : k = Len(s) + 1 \/ k \in DOMAIN s
<1>1. /\ Append(s, e) \in Seq(S) /\ Len(Append(s, e)) = Len(s) + 1
      /\ \A i \in 1..Len(s) : Append(s, e)[i] = s[i]
      /\ Append(s, e)[Len(s) + 1] = e
  BY AppendProperties
<1>2. /\ Len(s) \in Nat /\ DOMAIN s = 1..Len(s)
      /\ DOMAIN Append(s, e) = 1..(Len(s) + 1)
  BY <1>1, LenProperties
<1> QED
  BY <1>1, <1>2

(* A new reference is the last of all, is nowhere yet, and has not been     *)
(* discarded.                                                               *)
LEMMA AddDisplayKeeps ==
  ASSUME IInv, wpc = "check", NEW works \in BOOLEAN, AddDisplay(works), wcur' = NoBus,
         UNCHANGED <<envVars, recheckVars, known, wnew, wremoved, wadded, businfo,
                     recheck_queue, terminate_watch_thread>>
  PROVE  IInv' /\ RefsGrow
<1> DEFINE r == NewDref(wcur, works)
<1>1. Len(drefs) \in Nat /\ DrefIds = 1..Len(drefs) /\ drefs \in Seq(DisplayRefs)
  BY DrefIdsAre DEF IInv, TypeOK
<1>n. PICK n \in Nat : n = Len(drefs) + 1
  BY <1>1
<1>2. wcur \in Buses \ known
  BY DEF IInv, PassAt
<1>3. /\ r.bus = wcur /\ ~r.removed /\ r.events = <<"CONNECTED">> /\ r.worked = works
      /\ r.dispno = IF works THEN "valid" ELSE "invalid"
  BY DEF NewDref
<1>4. r \in DisplayRefs
  <2>1. <<"CONNECTED">> \in Seq(Events)
    BY DEF Events
  <2> QED
    BY <1>2, <2>1 DEF NewDref, DisplayRefs
<1>5. drefs' = Append(drefs, r)
  BY DEF AddDisplay
<1> HIDE DEF r
<1>6. /\ drefs' \in Seq(DisplayRefs) /\ drefs'[n] = r
      /\ \A i \in DrefIds : drefs'[i] = drefs[i]
      /\ DrefIds' = DrefIds \cup {n} /\ n \in Nat /\ n \notin DrefIds
  <2>1. /\ drefs' \in Seq(DisplayRefs) /\ n \in DOMAIN drefs' /\ drefs'[n] = r
        /\ \A k \in DOMAIN drefs : k \in DOMAIN drefs' /\ drefs'[k] = drefs[k]
        /\ \A k \in DOMAIN drefs' : k = n \/ k \in DOMAIN drefs
    BY <1>1, <1>n, <1>4, <1>5, OneMore
  <2>2. n \in Nat /\ n \notin 1..Len(drefs)
    BY <1>1, <1>n
  <2> QED
    BY <1>1, <2>1, <2>2 DEF DrefIds
<1>7. /\ drefs_to_recheck' \in {drefs_to_recheck, Append(drefs_to_recheck, n)}
      /\ works => drefs_to_recheck' = drefs_to_recheck
      /\ disappeared' = disappeared \ {wcur} /\ wpc' = "add"
  BY <1>n DEF AddDisplay
<1>8. /\ recheck_queue \in Seq(Entries)' /\ drefs_to_recheck \in Seq(DrefIds')
      /\ rcur \in Entries' \cup {NoEntry}
  <2>1. DrefIds \subseteq DrefIds' /\ Entries \subseteq Entries'
    BY <1>6 DEF Entries
  <2> QED
    BY <2>1, SeqOfMore DEF IInv, TypeOK
<1>9. /\ drefs_to_recheck' \in Seq(DrefIds')
      /\ \A k \in DOMAIN drefs_to_recheck' :
           \/ k \in DOMAIN drefs_to_recheck /\ drefs_to_recheck'[k] = drefs_to_recheck[k]
           \/ k = Len(drefs_to_recheck) + 1 /\ drefs_to_recheck'[k] = n /\ ~works
      /\ \A k \in DOMAIN drefs_to_recheck :
           k \in DOMAIN drefs_to_recheck' /\ drefs_to_recheck'[k] = drefs_to_recheck[k]
  <2>1. CASE drefs_to_recheck' = drefs_to_recheck
    BY <1>8, <2>1
  <2>2. CASE drefs_to_recheck' = Append(drefs_to_recheck, n) /\ ~works
    <3>1. n \in DrefIds'
      BY <1>6
    <3>2. /\ drefs_to_recheck' \in Seq(DrefIds')
          /\ drefs_to_recheck'[Len(drefs_to_recheck) + 1] = n
          /\ \A k \in DOMAIN drefs_to_recheck :
               k \in DOMAIN drefs_to_recheck' /\ drefs_to_recheck'[k] = drefs_to_recheck[k]
          /\ \A k \in DOMAIN drefs_to_recheck' :
               k = Len(drefs_to_recheck) + 1 \/ k \in DOMAIN drefs_to_recheck
      BY <1>8, <2>2, <3>1, OneMore
    <3> QED
      BY <2>2, <3>2
  <2> QED
    BY <1>7, <2>1, <2>2
<1>10. TypeOK'
  BY <1>6, <1>7, <1>8, <1>9 DEF IInv, TypeOK, envVars, recheckVars
<1>11. \A k \in DOMAIN drefs_to_recheck : drefs_to_recheck[k] \in DrefIds
  BY LenProperties, ElementOfSeq DEF IInv, TypeOK
<1>12. \A k \in DOMAIN recheck_queue : recheck_queue[k].dref \in DrefIds
  <2>1. \A k \in DOMAIN recheck_queue : recheck_queue[k] \in Entries
    BY LenProperties, ElementOfSeq DEF IInv, TypeOK
  <2> QED
    BY <2>1, EntriesAre DEF IInv
<1>13. \A i : /\ Queued(i)' <=> Queued(i)
              /\ Rechecked(i)' <=> Rechecked(i)
              /\ i # n => (ToRecheck(i)' <=> ToRecheck(i))
              /\ i # n => (Waiting(i)' <=> Waiting(i))
  <2>1. \A i : i # n => (ToRecheck(i)' <=> ToRecheck(i))
    BY <1>9 DEF ToRecheck
  <2>2. \A i : /\ Queued(i)' <=> Queued(i)
               /\ Rechecked(i)' <=> Rechecked(i)
    BY DEF Queued, Rechecked, recheckVars
  <2> QED
    BY <2>1, <2>2 DEF Waiting, recheckVars
<1>14. ~Queued(n) /\ ~Rechecked(n) /\ ~ToRecheck(n) /\ (ToRecheck(n)' => ~works)
  <2>1. ~Queued(n) /\ ~ToRecheck(n)
    BY <1>6, <1>11, <1>12 DEF Queued, ToRecheck
  <2>2. ~Rechecked(n)
    BY <1>6, EntriesAre DEF IInv, Rechecked
  <2>3. ToRecheck(n)' => ~works
    <3> SUFFICES ASSUME NEW k \in DOMAIN drefs_to_recheck', drefs_to_recheck'[k] = n
                 PROVE  ~works
      BY DEF ToRecheck
    <3>1. ~(k \in DOMAIN drefs_to_recheck /\ drefs_to_recheck'[k] = drefs_to_recheck[k])
      BY <1>6, <1>11
    <3> QED
      BY <1>9, <3>1
  <2> QED
    BY <2>1, <2>2, <2>3
<1>15. AtOnePlace'
  <2>1. ASSUME NEW k \in DOMAIN drefs_to_recheck', NEW l \in DOMAIN drefs_to_recheck',
               drefs_to_recheck'[k] = drefs_to_recheck'[l]
        PROVE  k = l
    BY <1>6, <1>9, <1>11, <2>1 DEF IInv, AtOnePlace
  <2>2. \A i \in DrefIds' : ~(ToRecheck(i)' /\ Queued(i)')
    BY <1>6, <1>13, <1>14 DEF IInv, AtOnePlace
  <2>3. \A i \in DrefIds' : Rechecked(i)' => ~ToRecheck(i)' /\ ~Queued(i)'
    BY <1>6, <1>13, <1>14 DEF IInv, AtOnePlace
  <2>4. recheck_queue' = recheck_queue
    OBVIOUS
  <2> QED
    BY <2>1, <2>2, <2>3, <2>4 DEF IInv, AtOnePlace
<1>16. RecheckAt'
  BY DEF IInv, RecheckAt, recheckVars
<1>17. RefsByPlace'
  <2> SUFFICES ASSUME NEW i \in DrefIds' PROVE RefByPlace(i)'
    BY DEF RefsByPlace
  <2>1. CASE i = n
    <3>1. ~Rechecked(i)' /\ ~Queued(i)' /\ (ToRecheck(i)' => ~works)
      <4>1. ~Rechecked(n)' /\ ~Queued(n)' /\ (ToRecheck(n)' => ~works)
        BY <1>13, <1>14
      <4> QED
        BY <2>1, <4>1
    <3>2. (Waiting(i)' => ~works) /\ drefs'[i] = r
      BY <1>6, <2>1, <3>1 DEF Waiting
    <3>3. AnyRef(r) /\ (~works => WaitingRef(r))
      BY <1>3 DEF AnyRef, WaitingRef, Histories
    <3> QED
      BY <3>1, <3>2, <3>3 DEF RefByPlace
  <2>2. CASE i # n
    <3>1. drefs'[i] = drefs[i] /\ RefByPlace(i)
      BY <1>6, <2>2 DEF IInv, RefsByPlace
    <3> QED
      BY <1>13, <2>2, <3>1 DEF RefByPlace, ResolvedRef, recheckVars
  <2> QED
    BY <2>1, <2>2
<1>18. RefsGrow
  BY <1>6, Zenon DEF RefsGrow
<1>19. RemovedWithEvent'
  <2>1. NoneDiscarded
    BY <1>3, <1>6 DEF NoneDiscarded
  <2> QED
    BY <1>18, <2>1, NoneDiscardedKeeps
<1>20. PassAt'
  BY <1>7 DEF IInv, PassAt
<1>21. RemovedSoFar'
  <2> SUFFICES ASSUME NEW b \in (known \ wnew) \ wremoved, NEW i \in DrefIds',
                      drefs'[i].bus = b, drefs'[i].worked
               PROVE  drefs'[i].removed
    BY DEF RemovedSoFar
  <2>1. i # n
    BY <1>2, <1>3, <1>6
  <2> QED
    BY <1>6, <2>1 DEF IInv, RemovedSoFar
<1> QED
  BY <1>10, <1>15, <1>16, <1>17, <1>18, <1>19, <1>20, <1>21 DEF IInv

(* The new display is added, dropped, or stops the program.                 *)
LEMMA CheckNewDisplayKeeps ==
  ASSUME IInv, CheckNewDisplay
  PROVE  IInv' /\ RefsGrow
<1>1. /\ wpc = "check" /\ wcur' = NoBus
      /\ UNCHANGED <<envVars, recheckVars, known, wnew, wremoved, wadded, businfo,
                     recheck_queue, terminate_watch_thread>>
  BY DEF CheckNewDisplay
<1>2. AssertFails \/ DropTransient \/ \E works \in BOOLEAN : AddDisplay(works)
  <2>1. PICK o \in CheckOutcomes(wcur, TRUE) :
          CASE o = "gone" -> AssertFails
            [] o = "dead" -> DropTransient
            [] OTHER      -> AddDisplay(o \in {"works", "unsupported"})
    BY DEF CheckNewDisplay
  <2>2. CASE o = "gone"
    BY <2>1, <2>2
  <2>3. CASE o = "dead"
    BY <2>1, <2>3
  <2>4. CASE o # "gone" /\ o # "dead"
    <3>1. AddDisplay(o \in {"works", "unsupported"})
      BY <2>1, <2>4
    <3>2. (o \in {"works", "unsupported"}) \in BOOLEAN
      OBVIOUS
    <3> QED
      BY <3>1, <3>2
  <2> QED
    BY <2>2, <2>3, <2>4
<1>3. CASE AssertFails \/ DropTransient
  <2>1. /\ RefsUnchanged /\ UNCHANGED <<drefs, drefs_to_recheck>>
        /\ wpc' \in {"aborted", "add"}
        /\ disappeared' \in {disappeared, disappeared \cup {wcur}}
    BY <1>1, <1>3 DEF AssertFails, DropTransient, RefsUnchanged, recheckVars
  <2>2. wcur \in Buses
    BY <1>1 DEF IInv, PassAt
  <2>3. TypeOK'
    BY <1>1, <2>1, <2>2 DEF IInv, TypeOK, envVars, recheckVars, DrefIds, Entries
  <2>4. PassAt'
    BY <1>1, <2>1 DEF IInv, PassAt
  <2>5. RemovedSoFar'
    BY <1>1, <2>1 DEF IInv, RemovedSoFar, DrefIds
  <2>6. DrefIds' = DrefIds /\ drefs' = drefs
    BY <2>1 DEF DrefIds
  <2>7. RefsGrow
    BY <2>6, Zenon DEF RefsGrow
  <2> QED
    BY <2>1, <2>3, <2>4, <2>5, <2>7, RefsStay DEF IInv
<1>4. CASE \E works \in BOOLEAN : AddDisplay(works)
  BY <1>1, <1>4, AddDisplayKeeps
<1> QED
  BY <1>2, <1>3, <1>4

(* The displays to recheck are queued, each once.                           *)
LEMMA EndPassKeeps ==
  ASSUME IInv, EndPass
  PROVE  IInv' /\ RefsGrow
<1> DEFINE m == Len(drefs_to_recheck)
           q == [i \in DOMAIN drefs_to_recheck |->
                   [dref |-> Reverse(drefs_to_recheck)[i], age |-> 0]]
           n == Len(recheck_queue)
<1>1. /\ wpc' = "sleep" /\ known' = wnew /\ wnew' = {} /\ drefs_to_recheck' = <<>>
      /\ recheck_queue' = recheck_queue \o q
      /\ UNCHANGED <<plugged, changes, rpc, rcur, routcome, wremoved, wadded, wcur,
                     disappeared, businfo, drefs, terminate_watch_thread>>
  BY DEF EndPass, envVars, recheckVars
<1>2. /\ m \in Nat /\ DOMAIN drefs_to_recheck = 1..m
      /\ \A k \in 1..m : drefs_to_recheck[k] \in DrefIds
      /\ n \in Nat /\ DOMAIN recheck_queue = 1..n /\ recheck_queue \in Seq(Entries)
  BY LenProperties, ElementOfSeq DEF IInv, TypeOK
<1>3. /\ DOMAIN q = 1..m
      /\ \A k \in 1..m : /\ q[k] = [dref |-> drefs_to_recheck[(m - k) + 1], age |-> 0]
                         /\ (m - k) + 1 \in 1..m
  BY <1>2 DEF Reverse
<1> HIDE DEF q, m, n
<1>4. q \in Seq(Entries) /\ Len(q) = m
  <2>1. 0 \in 0..(MaxAge + 1)
    BY DisplayWatchAssumption
  <2>2. \A k \in 1..m : q[k] \in Entries
    BY <1>2, <1>3, <2>1 DEF Entries
  <2>3. q = [k \in 1..m |-> q[k]]
    BY <1>3 DEF q
  <2>4. q \in [1..m -> Entries]
    BY <2>2, <2>3
  <2>5. q \in Seq(Entries)
    BY <1>2, <2>4, SeqDef
  <2>6. Len(q) \in Nat /\ DOMAIN q = 1..Len(q)
    BY <2>5, LenProperties
  <2> QED
    BY <1>2, <1>3, <2>5, <2>6
<1>5. /\ recheck_queue' \in Seq(Entries)
      /\ DOMAIN recheck_queue' = 1..(n + m)
      /\ \A k \in 1..(n + m) :
           recheck_queue'[k] = IF k <= n THEN recheck_queue[k] ELSE q[k - n]
  <2>1. /\ recheck_queue' \in Seq(Entries) /\ Len(recheck_queue') = n + m
        /\ \A k \in 1..(n + m) :
             recheck_queue'[k] = IF k <= n THEN recheck_queue[k] ELSE q[k - n]
    BY <1>1, <1>2, <1>4, ConcatProperties DEF n
  <2> QED
    BY <2>1, LenProperties
<1>6. ASSUME NEW k \in 1..(n + m)
      PROVE  \/ k \in 1..n /\ recheck_queue'[k].dref = recheck_queue[k].dref
             \/ /\ k \notin 1..n /\ (m - (k - n)) + 1 \in 1..m
                /\ recheck_queue'[k].dref = drefs_to_recheck[(m - (k - n)) + 1]
  <2>1. CASE k <= n
    BY <1>2, <1>5, <2>1
  <2>2. CASE ~(k <= n)
    <3>1. k - n \in 1..m /\ k \notin 1..n
      BY <1>2, <2>2
    <3>2. recheck_queue'[k] = q[k - n]
      BY <1>5, <2>2
    <3> QED
      BY <1>3, <3>1, <3>2
  <2> QED
    BY <2>1, <2>2
<1>7. \A i : Queued(i)' => Queued(i) \/ ToRecheck(i)
  BY <1>2, <1>5, <1>6 DEF Queued, ToRecheck
<1>8. \A i : ~ToRecheck(i)' /\ (Rechecked(i)' <=> Rechecked(i))
  BY <1>1 DEF ToRecheck, Rechecked
<1>9. DrefIds' = DrefIds /\ Entries' = Entries /\ drefs' = drefs
  BY <1>1 DEF DrefIds, Entries
<1>10. TypeOK'
  BY <1>1, <1>5, <1>9 DEF IInv, TypeOK
<1>11. ASSUME NEW k \in 1..(n + m), NEW l \in 1..(n + m),
              recheck_queue'[k].dref = recheck_queue'[l].dref
       PROVE  k = l
  <2> DEFINE Back(x) == (m - (x - n)) + 1
  <2>1. ASSUME NEW x \in 1..n, NEW y \in 1..m
        PROVE  recheck_queue[x].dref # drefs_to_recheck[y]
    BY <1>2 DEF IInv, AtOnePlace, ToRecheck, Queued
  <2>2. CASE k \in 1..n /\ l \in 1..n
    BY <1>2, <1>6, <1>11, <2>2 DEF IInv, AtOnePlace
  <2>3. CASE k \notin 1..n /\ l \notin 1..n
    <3>1. /\ Back(k) \in 1..m /\ Back(l) \in 1..m
          /\ drefs_to_recheck[Back(k)] = drefs_to_recheck[Back(l)]
      BY <1>6, <1>11, <2>3
    <3>2. Back(k) = Back(l)
      BY <1>2, <3>1 DEF IInv, AtOnePlace
    <3> QED
      BY <1>2, <3>2
  <2>4. CASE k \in 1..n /\ l \notin 1..n
    BY <1>6, <1>11, <2>1, <2>4
  <2>5. CASE k \notin 1..n /\ l \in 1..n
    BY <1>6, <1>11, <2>1, <2>5
  <2> QED
    BY <2>2, <2>3, <2>4, <2>5
<1>12. AtOnePlace'
  <2>1. \A k, l \in DOMAIN drefs_to_recheck' : FALSE
    BY <1>1
  <2>2. \A i \in DrefIds : Rechecked(i) => ~Queued(i)'
    BY <1>7 DEF IInv, AtOnePlace
  <2> QED
    BY <1>5, <1>8, <1>9, <1>11, <2>1, <2>2 DEF AtOnePlace
<1>13. RecheckAt'
  BY <1>1 DEF IInv, RecheckAt
<1>14. RefsByPlace'
  <2> SUFFICES ASSUME NEW i \in DrefIds PROVE RefByPlace(i)'
    BY <1>9 DEF RefsByPlace
  <2>1. drefs'[i] = drefs[i] /\ RefByPlace(i)
    BY <1>9 DEF IInv, RefsByPlace
  <2>2. Waiting(i)' => Waiting(i)
    BY <1>1, <1>7, <1>8 DEF Waiting
  <2> QED
    BY <1>1, <1>8, <2>1, <2>2 DEF RefByPlace, ResolvedRef
<1>15. RefsGrow
  BY <1>9, Zenon DEF RefsGrow
<1>16. RemovedWithEvent'
  BY <1>9 DEF IInv, RemovedWithEvent, Succeeded
<1>17. PassAt' /\ RemovedSoFar'
  BY <1>1 DEF PassAt, RemovedSoFar
<1> QED
  BY <1>10, <1>12, <1>13, <1>14, <1>15, <1>16, <1>17 DEF IInv

-----------------------------------------------------------------------------
(***************************************************************************)
(* The initial states, and what is proved.                                 *)
(***************************************************************************)

(* At the start no reference waits, whether its display works or not.       *)
LEMMA InitInv ==
  ASSUME Init
  PROVE  IInv
<1>1. PICK works \in [known -> BOOLEAN], order \in Orders(known) :
         /\ businfo = [b \in Buses |-> IF b \notin known THEN "none"
                                       ELSE IF works[b] THEN "edid_x37"
                                       ELSE "edid"]
         /\ drefs = [i \in DOMAIN order |-> NewDref(order[i], works[order[i]])]
  BY DEF Init
<1> DEFINE n == Cardinality(known)
<1>2. n \in Nat /\ known \subseteq Buses
  BY FS_Subset, FS_CardinalityType, DisplayWatchAssumption DEF Init
<1>3. order \in [1..n -> known]
  BY <1>1 DEF Orders
<1> HIDE DEF n
<1>4. ASSUME NEW b \in Buses, NEW w \in BOOLEAN
      PROVE  /\ NewDref(b, w) \in DisplayRefs
             /\ AnyRef(NewDref(b, w)) /\ ~NewDref(b, w).removed
  <2>1. <<"CONNECTED">> \in Seq(Events)
    BY DEF Events
  <2>2. NewDref(b, w) \in DisplayRefs
    BY <2>1 DEF NewDref, DisplayRefs
  <2>3. AnyRef(NewDref(b, w)) /\ ~NewDref(b, w).removed
    BY DEF NewDref, AnyRef, Histories
  <2> QED
    BY <2>2, <2>3
<1>5. \A i \in 1..n : /\ drefs[i] \in DisplayRefs
                      /\ AnyRef(drefs[i]) /\ ~drefs[i].removed
  <2> SUFFICES ASSUME NEW i \in 1..n
               PROVE  drefs[i] \in DisplayRefs /\ AnyRef(drefs[i]) /\ ~drefs[i].removed
    OBVIOUS
  <2>1. order[i] \in Buses /\ works[order[i]] \in BOOLEAN
    BY <1>2, <1>3
  <2>2. drefs[i] = NewDref(order[i], works[order[i]])
    BY <1>1, <1>3
  <2> QED
    BY <1>4, <2>1, <2>2
<1>6. drefs \in Seq(DisplayRefs) /\ DrefIds = 1..n
  <2>1. DOMAIN drefs = 1..n /\ drefs = [i \in 1..n |-> drefs[i]]
    BY <1>1, <1>3
  <2>2. drefs \in [1..n -> DisplayRefs]
    BY <1>5, <2>1
  <2> QED
    BY <1>2, <2>1, <2>2, SeqDef DEF DrefIds
<1>7. /\ drefs_to_recheck = <<>> /\ recheck_queue = <<>> /\ rcur = NoEntry
      /\ rpc = "interval" /\ wpc = "sleep"
  BY DEF Init
<1>8. TypeOK
  <2>1. businfo \in [Buses -> {"none", "edid", "edid_x37"}]
    BY <1>1
  <2>2. drefs_to_recheck \in Seq(DrefIds) /\ recheck_queue \in Seq(Entries)
    BY <1>7
  <2>3. changes \in 0..MaxChanges
    BY DisplayWatchAssumption DEF Init
  <2> QED
    BY <1>6, <1>7, <2>1, <2>2, <2>3 DEF Init, TypeOK
<1>9. \A i : ~ToRecheck(i) /\ ~Queued(i) /\ ~Rechecked(i)
  BY <1>7 DEF ToRecheck, Queued, Rechecked
<1>10. AtOnePlace /\ RecheckAt
  <2>1. (\A k, l \in DOMAIN recheck_queue : FALSE)
        /\ (\A k, l \in DOMAIN drefs_to_recheck : FALSE)
    BY <1>7
  <2> QED
    BY <1>7, <1>9, <2>1 DEF AtOnePlace, RecheckAt
<1>11. RefsByPlace
  BY <1>5, <1>6, <1>9 DEF RefsByPlace, RefByPlace, Waiting
<1>12. RemovedWithEvent
  BY <1>5, <1>6 DEF RemovedWithEvent
<1>13. PassAt /\ RemovedSoFar
  BY <1>7 DEF PassAt, RemovedSoFar
<1> QED
  BY <1>8, <1>10, <1>11, <1>12, <1>13 DEF IInv

(* Every step keeps the invariant, and takes nothing back from a reference. *)
LEMMA NextKeeps ==
  ASSUME IInv, [Next]_vars
  PROVE  IInv' /\ RefsGrow
<1>1. CASE RecheckThread
  BY <1>1, RecheckThreadKeeps
<1>2. CASE RemoveBus
  BY <1>2, RemoveBusKeeps
<1>3. CASE CheckNewDisplay
  BY <1>3, CheckNewDisplayKeeps
<1>4. CASE EndPass
  BY <1>4, EndPassKeeps
<1>5. ASSUME RefsUnchanged PROVE RefsGrow
  <2>1. DrefIds' = DrefIds /\ drefs' = drefs
    BY <1>5 DEF RefsUnchanged, DrefIds
  <2> QED
    BY <2>1, Zenon DEF RefsGrow
<1>6. CASE \/ StartPass \/ StillChanging \/ Stable \/ RemovesDone \/ CheckBus \/ EndWatch
           \/ Monitors \/ StopWatch
  BY <1>5, <1>6, ControlKeeps
<1>7. CASE UNCHANGED vars
  <2>1. /\ RefsUnchanged
        /\ UNCHANGED <<plugged, changes, wpc, known, wnew, wremoved, wadded, wcur,
                       businfo, terminate_watch_thread, disappeared>>
    BY <1>7 DEF vars, envVars, watchVars, recheckVars, RefsUnchanged
  <2>2. TypeOK'
    BY <2>1 DEF IInv, TypeOK, RefsUnchanged, DrefIds, Entries
  <2>3. PassAt' /\ RemovedSoFar'
    BY <2>1 DEF IInv, PassAt, RemovedSoFar, RefsUnchanged, DrefIds
  <2> QED
    BY <1>5, <2>1, <2>2, <2>3, RefsStay DEF IInv
<1> QED
  BY <1>1, <1>2, <1>3, <1>4, <1>6, <1>7 DEF Next, WatchThread

(* The invariant holds of every behaviour.                                  *)
THEOREM InvariantHolds == Spec => []IInv
<1>1. Init => IInv
  BY InitInv
<1>2. IInv /\ [Next]_vars => IInv'
  BY NextKeeps
<1> QED
  BY <1>1, <1>2, PTL DEF Spec

(* EventsAreSane: no event of a display twice, the first is that it is      *)
(* there, and DDC_ENABLED only of one announced without DDC, although both  *)
(* threads emit events and one of them does so without process_event_mutex. *)
THEOREM EventsMakeSense == Spec => []EventsAreSane
<1>1. IInv => EventsAreSane
  <2> SUFFICES ASSUME IInv, NEW i \in DrefIds
               PROVE  /\ IsInjective(drefs[i].events)
                      /\ Head(drefs[i].events) = "CONNECTED"
                      /\ HasEvent(i, "DDC_ENABLED") => ~drefs[i].worked
    BY DEF EventsAreSane
  <2>1. AnyRef(drefs[i])
    BY DEF IInv, RefsByPlace, RefByPlace
  <2>2. drefs[i].events \in Histories
    BY <2>1 DEF AnyRef
  <2>3. IsInjective(drefs[i].events) /\ Head(drefs[i].events) = "CONNECTED"
    BY <2>2, HistoriesAreSane
  <2>4. ASSUME drefs[i].worked PROVE ~HasEvent(i, "DDC_ENABLED")
    <3>1. drefs[i].events \in {<<"CONNECTED">>, <<"CONNECTED", "DISCONNECTED">>}
      BY <2>1, <2>4 DEF AnyRef
    <3>2. \A k \in DOMAIN drefs[i].events : drefs[i].events[k] # "DDC_ENABLED"
      BY <2>2, <3>1, HistoriesAreSane
    <3> QED
      BY <3>2 DEF HasEvent
  <2> QED
    BY <2>3, <2>4
<1> QED
  BY <1>1, InvariantHolds, PTL

(* DiscardedStaysDiscarded: dw_recheck_dref clears DREF_REMOVED of its      *)
(* reference, but only of one the watch thread cannot have discarded.       *)
THEOREM RemovedIsFinal == Spec => DiscardedStaysDiscarded
<1>1. IInv /\ [Next]_vars
        => [\A i \in DrefIds : drefs[i].removed => drefs'[i].removed]_vars
  BY NextKeeps DEF RefsGrow
<1> QED
  BY <1>1, InvariantHolds, PTL DEF Spec, DiscardedStaysDiscarded

(* NoFalseDisconnect: the removing part of a pass emits no event for a bus  *)
(* that is in the reading the pass ends with.                               *)
THEOREM PresentIsNotReportedGone == Spec => NoFalseDisconnect
<1>1. ASSUME IInv, [Next]_vars
      PROVE  [wpc = "remove" =>
                \A i \in DrefIds :
                  drefs[i].bus \in wnew /\ ~Rechecked(i)
                    => drefs'[i].events = drefs[i].events]_vars
  <2> SUFFICES ASSUME wpc = "remove", NEW i \in DrefIds,
                      drefs[i].bus \in wnew, ~Rechecked(i)
               PROVE  drefs'[i].events = drefs[i].events
    OBVIOUS
  <2>1. CASE RecheckThread
    BY <1>1, <2>1, RecheckThreadKeeps DEF OthersHearNothing
  <2>2. CASE RemoveBus
    BY <1>1, <2>2, RemoveBusKeeps
  <2>3. CASE \/ StartPass \/ StillChanging \/ Stable \/ RemovesDone \/ CheckBus \/ EndWatch
             \/ Monitors \/ StopWatch
    <3>1. RefsUnchanged
      BY <1>1, <2>3, ControlKeeps
    <3> QED
      BY <3>1 DEF RefsUnchanged
  <2>4. CASE CheckNewDisplay \/ EndPass
    BY <2>4 DEF CheckNewDisplay, EndPass
  <2>5. CASE UNCHANGED vars
    BY <2>5 DEF vars
  <2> QED
    BY <1>1, <2>1, <2>2, <2>3, <2>4, <2>5 DEF Next, WatchThread
<1>2. IInv /\ [Next]_vars
        => [wpc = "remove" =>
              \A i \in DrefIds :
                drefs[i].bus \in wnew /\ ~Rechecked(i)
                  => drefs'[i].events = drefs[i].events]_vars
  BY <1>1
<1> QED
  BY <1>2, InvariantHolds, PTL DEF Spec, NoFalseDisconnect

(* GoneIsReported: when a pass ends, every display that worked on a bus     *)
(* that is gone is discarded, and the client has been told, whatever the    *)
(* recheck thread did meanwhile.                                            *)
THEOREM GoneDisplaysAreReported == Spec => GoneIsReported
<1>1. ASSUME IInv, [Next]_vars, wpc = "add", wpc' = "sleep"
      PROVE  \A bus \in known \ known' : \A i \in BusRefs(bus) :
               drefs[i].worked =>
                 /\ drefs[i].removed
                 /\ \E j \in BusRefs(bus) : j >= i /\ HasEvent(j, "DISCONNECTED")
  <2>1. EndPass
    <3>1. wpc' # wpc /\ wpc' \notin {"stabilize", "remove", "add", "check", "ended", "aborted"}
      BY <1>1
    <3>2. ~UNCHANGED vars /\ ~RecheckThread /\ ~Monitors /\ ~StopWatch
      BY <3>1
      DEF vars, watchVars, RecheckThread, RecheckInterval, DropExpired, PopEntry,
          RecheckDref, RecheckSucceeded, EmitEnabled, RecheckDisconnected, RecheckFailed,
          EndRecheck, Monitors, Plug, Unplug, StopWatch
    <3>3. /\ ~StartPass /\ ~StillChanging /\ ~Stable /\ ~RemoveBus /\ ~RemovesDone
          /\ ~EndWatch
      BY <1>1 DEF StartPass, StillChanging, Stable, RemoveBus, RemovesDone, EndWatch
    <3>4. ~CheckBus /\ ~CheckNewDisplay
      BY <1>1 DEF CheckBus, CheckNewDisplay
    <3> QED
      BY <1>1, <3>2, <3>3, <3>4 DEF Next, WatchThread
  <2>2. known' = wnew /\ wremoved = {}
    BY <1>1, <2>1 DEF EndPass, IInv, PassAt
  <2> SUFFICES ASSUME NEW bus \in known \ wnew, NEW i \in BusRefs(bus), drefs[i].worked
               PROVE  /\ drefs[i].removed
                      /\ \E j \in BusRefs(bus) : j >= i /\ HasEvent(j, "DISCONNECTED")
    BY <2>2
  <2>3. i \in DrefIds /\ drefs[i].bus = bus
    BY DEF BusRefs
  <2>4. drefs[i].removed
    BY <1>1, <2>2, <2>3 DEF IInv, RemovedSoFar
  <2>5. PICK j \in DrefIds :
           j >= i /\ drefs[j].bus = drefs[i].bus /\ drefs[j].events \in Silenced
    BY <1>1, <2>3, <2>4 DEF IInv, RemovedWithEvent, Succeeded
  <2>6. \E k \in DOMAIN drefs[j].events : drefs[j].events[k] = "DISCONNECTED"
    BY <2>5, HistoriesAreSane, HistoriesDiffer
  <2> QED
    BY <2>3, <2>4, <2>5, <2>6 DEF BusRefs, HasEvent
<1>2. IInv /\ [Next]_vars
        => [wpc = "add" /\ wpc' = "sleep" =>
              \A bus \in known \ known' : \A i \in BusRefs(bus) :
                drefs[i].worked =>
                  /\ drefs[i].removed
                  /\ \E j \in BusRefs(bus) : j >= i /\ HasEvent(j, "DISCONNECTED")]_vars
  BY <1>1
<1> QED
  BY <1>2, InvariantHolds, PTL DEF Spec, GoneIsReported

=============================================================================
