-------------------------- MODULE DetectionProofs --------------------------
(***************************************************************************)
(* Proofs about Detection, for any number of buses, sockets, layouts and   *)
(* callers.                                                                *)
(*                                                                         *)
(* What is known of a display depends on where its own checks are, so the  *)
(* order in which the checks of all displays end does not matter.  Numbers *)
(* are ranks in a set of displays, which is all that is used of them.      *)
(***************************************************************************)
EXTENDS Detection, FiniteSetTheorems, WellFoundedInduction, TLAPS

(***************************************************************************)
(* Finite sets of buses.                                                   *)
(***************************************************************************)

(* Buses are finitely many.                                                 *)
LEMMA BusesFinite ==
  /\ IsFiniteSet(Buses) /\ Cardinality(Buses) = BusCount
  /\ \A set \in SUBSET Buses :
       IsFiniteSet(set) /\ Cardinality(set) \in Nat /\ Cardinality(set) <= BusCount
<1>1. BusCount \in Nat \ {0}
  BY DetectionAssumption
<1>2. IsFiniteSet(Buses) /\ Cardinality(Buses) = BusCount
  BY <1>1, FS_Interval DEF Buses
<1>3. ASSUME NEW set \in SUBSET Buses
      PROVE  IsFiniteSet(set) /\ Cardinality(set) \in Nat /\ Cardinality(set) <= BusCount
  BY <1>2, FS_Subset, FS_CardinalityType
<1> QED
  BY <1>2, <1>3

(* A set of numbers that is not empty has a least one.                      *)
LEMMA LeastExists ==
  ASSUME NEW set \in SUBSET Nat, set # {}
  PROVE  \E x \in set : \A y \in set : x <= y
<1>1. PICK x \in set : \A y \in set : ~(<<y, x>> \in OpToRel(<, Nat))
  BY NatLessThanWellFounded, WFMin
<1>2. ASSUME NEW y \in set PROVE x <= y
  <2>1. x \in Nat /\ y \in Nat
    OBVIOUS
  <2>2. y < x => <<y, x>> \in OpToRel(<, Nat)
    BY <2>1 DEF OpToRel
  <2>3. ~(y < x)
    BY <1>1, <2>2
  <2> QED
    BY <2>1, <2>3
<1> QED
  BY <1>2

(* The last of a set of buses is one of them.                               *)
LEMMA MaxInSet ==
  ASSUME NEW set \in SUBSET Buses, set # {}
  PROVE  Max(set) \in set /\ \A y \in set : Max(set) >= y
<1> DEFINE mirror == {BusCount - x : x \in set}
<1>1. BusCount \in Nat
  BY DetectionAssumption
<1>2. mirror \in SUBSET Nat /\ mirror # {}
  <2>1. ASSUME NEW x \in set PROVE BusCount - x \in Nat
    <3>1. x \in 1..BusCount
      BY DEF Buses
    <3> QED
      BY <1>1, <3>1
  <2> QED
    BY <2>1
<1>3. PICK m \in mirror : \A y \in mirror : m <= y
  BY <1>2, LeastExists
<1>4. PICK x \in set : m = BusCount - x
  OBVIOUS
<1>5. \A y \in set : x >= y
  <2> SUFFICES ASSUME NEW y \in set PROVE x >= y
    OBVIOUS
  <2>1. BusCount - x <= BusCount - y
    BY <1>3, <1>4
  <2>2. x \in Int /\ y \in Int
    BY DEF Buses
  <2> QED
    BY <2>1, <2>2, <1>1
<1> QED
  BY <1>5 DEF Max

(* Ranks in a set count from 1 and go up with the buses.                    *)
LEMMA RankProperties ==
  ASSUME NEW set \in SUBSET Buses
  PROVE  /\ \A d \in Buses : Rank(d, set) \in 0 .. Cardinality(set)
         /\ \A d \in set : Rank(d, set) >= 1
         /\ \A d, e \in set : d < e => Rank(d, set) < Rank(e, set)
<1> DEFINE upTo(d) == {e \in set : e <= d}
<1>1. IsFiniteSet(set) /\ Cardinality(set) \in Nat
  BY BusesFinite
<1>2. ASSUME NEW d \in Buses
      PROVE  /\ IsFiniteSet(upTo(d)) /\ Cardinality(upTo(d)) \in Nat
             /\ Cardinality(upTo(d)) <= Cardinality(set)
             /\ Rank(d, set) = Cardinality(upTo(d))
  <2>1. upTo(d) \in SUBSET set
    OBVIOUS
  <2>2. IsFiniteSet(upTo(d)) /\ Cardinality(upTo(d)) <= Cardinality(set)
    BY <2>1, <1>1, FS_Subset
  <2> QED
    BY <2>2, FS_CardinalityType DEF Rank
<1>3. ASSUME NEW d \in set PROVE Rank(d, set) >= 1
  <2>1. d \in upTo(d) /\ d \in Buses
    BY DEF Buses
  <2>2. Cardinality(upTo(d)) # 0
    BY <2>1, <1>2, FS_EmptySet
  <2> QED
    BY <2>1, <2>2, <1>2
<1>4. ASSUME NEW d \in set, NEW e \in set, d < e PROVE Rank(d, set) < Rank(e, set)
  <2>1. d \in Buses /\ e \in Buses /\ d \in Int /\ e \in Int
    BY DEF Buses
  <2>2. upTo(d) \in SUBSET upTo(e)
    <3> SUFFICES ASSUME NEW x \in set, x <= d PROVE x <= e
      OBVIOUS
    <3>1. x \in Int
      BY DEF Buses
    <3> QED
      BY <3>1, <2>1, <1>4
  <2>3. e \in upTo(e) /\ e \notin upTo(d)
    BY <2>1, <1>4
  <2>4. /\ Cardinality(upTo(d)) <= Cardinality(upTo(e))
        /\ Cardinality(upTo(e)) = Cardinality(upTo(d)) => upTo(e) = upTo(d)
    BY <2>1, <2>2, <1>2, FS_Subset
  <2> QED
    BY <2>1, <2>3, <2>4, <1>2
<1>5. ASSUME NEW d \in Buses PROVE Rank(d, set) \in 0 .. Cardinality(set)
  <2> DEFINE n == Cardinality(upTo(d))
  <2>1. n \in Nat /\ n <= Cardinality(set) /\ Rank(d, set) = n
    BY <1>2
  <2> HIDE DEF n
  <2> QED
    BY <2>1, <1>1
<1> QED
  BY <1>3, <1>4, <1>5

----------------------------------------------------------------------------
(***************************************************************************)
(* The checks of one display.                                              *)
(***************************************************************************)

Points == {"none", "start", "x10", "xdf", "done"} \cup Features

\* What flags say of each other at any point: one way to say that a feature is
\* unsupported, and DDC that works only with a monitor that is there.
Coherent(now) ==
  /\ "WORKING" \in now => "IS_MONITOR" \in now /\ "REMOVED" \notin now
  /\ \E m \in Methods : now \cap Methods \subseteq {m}

\* What is known of a display whose checks are at a point, with these flags
\* and its dynamic sleep on or off.
Sound(point, now, dyn) ==
  /\ Coherent(now)
  /\ point \in {"none", "start", "done"} => dyn = dynamic_sleep
  /\ point # "done" => "REMOVED" \notin now
  /\ point \notin {"xdf", "done"} => now \cap Methods = {}
  /\ point \in {"start", "x10"} => "IS_MONITOR" \in now
  /\ point \in Features \cup {"xdf"} => "WORKING" \in now
  /\ point = "xdf" => "UNSUPPORTED_CHECKED" \in now
  /\ point = "done" => "CHECKED" \in now
  /\ now \cap Methods # {} /\ "WORKING" \notin now
       => point = "done" /\ "UNSUPPORTED_CHECKED" \in now

\* The checks of a display move on.
Becomes(d, point, now, rep, dyn) ==
  /\ check' = [check EXCEPT ![d] = point]
  /\ flags' = [flags EXCEPT ![d] = now]
  /\ again' = [again EXCEPT ![d] = rep]
  /\ dynamic' = [dynamic EXCEPT ![d] = dyn]

CheckMoves(d) ==
  \E point \in Points, now \in SUBSET Flags, rep \in BOOLEAN, dyn \in BOOLEAN :
    Becomes(d, point, now, rep, dyn) /\ Sound(point, now, dyn)

ChecksSound == \A d \in Buses : Sound(check[d], flags[d], dynamic[d])

(* An exchange takes flags away and adds none: with the monitor, that DDC   *)
(* works, but never a way to say that a feature is unsupported.             *)
LEMMA LeftKeeps ==
  ASSUME NEW now \in SUBSET Flags, NEW rc, Coherent(now)
  PROVE  /\ Left(now, rc) \in SUBSET now
         /\ Left(now, rc) \cap Methods = now \cap Methods
         /\ "REMOVED" \in Left(now, rc) <=> "REMOVED" \in now
         /\ "UNSUPPORTED_CHECKED" \in Left(now, rc) <=> "UNSUPPORTED_CHECKED" \in now
         /\ Coherent(Left(now, rc))
<1>1. PICK taken \in {{"IS_MONITOR", "CHECKED", "WORKING"}, {"WORKING"}, {}} :
        Left(now, rc) = now \ taken
  <2>1. CASE rc = "DISCONNECTED"
    BY <2>1 DEF Left
  <2>2. CASE rc = "UNRESPONSIVE"
    BY <2>2 DEF Left
  <2>3. CASE rc \notin {"DISCONNECTED", "UNRESPONSIVE"}
    BY <2>3 DEF Left
  <2> QED
    BY <2>1, <2>2, <2>3
<1>2. /\ taken \cap Methods = {} /\ "REMOVED" \notin taken
      /\ "UNSUPPORTED_CHECKED" \notin taken
      /\ "IS_MONITOR" \in taken => "WORKING" \in taken
  BY DEF Methods
<1>3. (now \ taken) \cap Methods = now \cap Methods
  BY <1>2
<1>4. Coherent(now \ taken)
  BY <1>2, <1>3 DEF Coherent
<1> QED
  BY <1>1, <1>2, <1>3, <1>4

(* The checks end with dynamic sleep as it was, and the display checked.    *)
LEMMA FinishMoves ==
  ASSUME TypeOK, NEW d \in Buses, NEW now \in SUBSET Flags, NEW busy \in BOOLEAN,
         Finish(d, now, busy), Coherent(now),
         "REMOVED" \in now => "CHECKED" \in now,
         now \cap Methods # {} => "WORKING" \in now \/ "UNSUPPORTED_CHECKED" \in now
  PROVE  CheckMoves(d)
<1> DEFINE all == now \cup (IF "REMOVED" \in now THEN {} ELSE {"CHECKED"})
                      \cup (IF busy THEN {"BUSY"} ELSE {})
<1>1. Becomes(d, "done", all, FALSE, dynamic_sleep)
  BY DEF Finish, GoTo, Becomes
<1>2. all \in SUBSET Flags /\ dynamic_sleep \in BOOLEAN
  BY DEF Flags, TypeOK
<1>3. /\ all \cap Methods = now \cap Methods
      /\ "WORKING" \in all <=> "WORKING" \in now
      /\ "IS_MONITOR" \in all <=> "IS_MONITOR" \in now
      /\ "REMOVED" \in all <=> "REMOVED" \in now
      /\ "UNSUPPORTED_CHECKED" \in all <=> "UNSUPPORTED_CHECKED" \in now
      /\ "CHECKED" \in all
  BY DEF Methods
<1> HIDE DEF all
<1>4. Coherent(all)
  BY <1>3 DEF Coherent
<1>5. Sound("done", all, dynamic_sleep)
  BY <1>3, <1>4 DEF Sound, Features
<1> QED
  BY <1>1, <1>2, <1>5 DEF CheckMoves, Points

(* Moving on to a point before the end.                                     *)
LEMMA GoToMoves ==
  ASSUME TypeOK, NEW d \in Buses, NEW point \in Features \cup {"x10", "xdf"},
         NEW now \in SUBSET Flags, GoTo(d, point, now),
         NEW dyn \in BOOLEAN, dynamic' = [dynamic EXCEPT ![d] = dyn],
         Sound(point, now, dyn)
  PROVE  CheckMoves(d)
<1>1. Becomes(d, point, now, FALSE, dyn)
  BY DEF GoTo, Becomes
<1>2. point \in Points /\ FALSE \in BOOLEAN
  BY DEF Points
<1> QED
  BY <1>1, <1>2 DEF CheckMoves

(* A function that is updated with the value it has is itself.              *)
LEMMA SameValue ==
  ASSUME NEW S, NEW T, NEW f \in [S -> T], NEW x \in S
  PROVE  f = [f EXCEPT ![x] = f[x]]
OBVIOUS

(* Repeating an exchange without dynamic sleep changes nothing else.        *)
LEMMA RepeatMoves ==
  ASSUME TypeOK, ChecksSound, NEW d \in Buses, Repeat(d),
         check[d] \in Features \cup {"x10"}
  PROVE  CheckMoves(d)
<1>1. /\ check[d] \in Points /\ flags[d] \in SUBSET Flags
      /\ check = [check EXCEPT ![d] = check[d]]
      /\ flags = [flags EXCEPT ![d] = flags[d]]
  BY SameValue DEF TypeOK, Points
<1>2. Becomes(d, check[d], flags[d], TRUE, FALSE)
  BY <1>1 DEF Repeat, Becomes
<1>3. Sound(check[d], flags[d], FALSE)
  BY DEF ChecksSound, Sound, Features
<1> QED
  BY <1>1, <1>2, <1>3 DEF CheckMoves

(* The first step of the checks.                                            *)
LEMMA StartMoves ==
  ASSUME TypeOK, ChecksSound, NEW d \in Buses, StartChecks(d)
  PROVE  CheckMoves(d)
<1>1. check[d] = "start" /\ flags[d] \in SUBSET Flags /\ dynamic[d] \in BOOLEAN
  BY DEF StartChecks, TypeOK
<1>2. /\ "REMOVED" \notin flags[d] /\ flags[d] \cap Methods = {}
      /\ "IS_MONITOR" \in flags[d] /\ Coherent(flags[d])
      /\ dynamic[d] = dynamic_sleep
  BY <1>1 DEF ChecksSound, Sound
<1>3. dynamic = [dynamic EXCEPT ![d] = dynamic[d]]
  BY SameValue DEF TypeOK
<1>4. ASSUME NEW more \in {{"DISABLED", "CHECKED"},
                           {"CHECKED", "WORKING", "USES_DDC_FLAG"}},
             GoTo(d, "done", flags[d] \cup more), UNCHANGED dynamic
      PROVE  CheckMoves(d)
  <2> DEFINE now == flags[d] \cup more
  <2>1. Becomes(d, "done", now, FALSE, dynamic[d])
    BY <1>3, <1>4 DEF GoTo, Becomes
  <2>2. now \in SUBSET Flags
    BY <1>1 DEF Flags
  <2>3. /\ now \cap Methods = more \cap Methods
        /\ "REMOVED" \notin now /\ "CHECKED" \in now /\ "IS_MONITOR" \in now
        /\ more \cap Methods # {} => "WORKING" \in now
        /\ more \cap Methods \subseteq {"USES_DDC_FLAG"} /\ "USES_DDC_FLAG" \in Methods
    BY <1>2 DEF Methods
  <2> HIDE DEF now
  <2>4. Coherent(now)
    BY <2>3 DEF Coherent
  <2>5. Sound("done", now, dynamic[d])
    BY <2>3, <2>4, <1>2 DEF Sound, Features
  <2> QED
    BY <2>1, <2>2, <2>5, <1>1 DEF CheckMoves, Points
<1>5. ASSUME NEW busy \in BOOLEAN, Finish(d, flags[d], busy) PROVE CheckMoves(d)
  BY <1>1, <1>2, <1>5, FinishMoves
<1>6. ASSUME GoTo(d, "x10", flags[d]), UNCHANGED dynamic PROVE CheckMoves(d)
  <2>1. Sound("x10", flags[d], dynamic[d])
    BY <1>2 DEF Sound, Features
  <2> QED
    BY <1>1, <1>3, <1>6, <2>1, GoToMoves
<1> QED
  BY <1>4, <1>5, <1>6 DEF StartChecks

(* The check whether the display answers at all.                            *)
LEMMA SupportedMoves ==
  ASSUME TypeOK, ChecksSound, NEW d \in Buses, CheckSupported(d)
  PROVE  CheckMoves(d)
<1>1. check[d] = "x10" /\ flags[d] \in SUBSET Flags /\ dynamic[d] \in BOOLEAN
  BY DEF CheckSupported, TypeOK
<1>2. /\ "REMOVED" \notin flags[d] /\ flags[d] \cap Methods = {}
      /\ "IS_MONITOR" \in flags[d] /\ Coherent(flags[d])
  BY <1>1 DEF ChecksSound, Sound
<1>3. PICK rc : Repeat(d) \/ SupportedTested(d, rc)
  BY DEF CheckSupported
<1>4. CASE Repeat(d)
  BY <1>1, <1>4, RepeatMoves
<1>5. CASE SupportedTested(d, rc)
  <2>1. CASE rc \in {"OK", "REPORTED"}
    <3> DEFINE now == flags[d] \cup {"WORKING", "CHECKED"}
    <3>1. GoTo(d, "xdd", now) /\ UNCHANGED dynamic
      BY <1>5, <2>1 DEF SupportedTested
    <3>2. /\ now \in SUBSET Flags /\ "WORKING" \in now /\ "IS_MONITOR" \in now
          /\ now \cap Methods = {} /\ "REMOVED" \notin now
      BY <1>1, <1>2 DEF Flags, Methods
    <3>3. dynamic' = [dynamic EXCEPT ![d] = dynamic[d]]
      BY <3>1, SameValue DEF TypeOK
    <3> HIDE DEF now
    <3>4. Coherent(now)
      BY <3>2 DEF Coherent, Methods
    <3>5. Sound("xdd", now, dynamic[d])
      BY <3>2, <3>4 DEF Sound, Features
    <3>6. "xdd" \in Features \cup {"x10", "xdf"}
      BY DEF Features
    <3> QED
      BY <1>1, <3>1, <3>2, <3>3, <3>5, <3>6, GoToMoves
  <2>2. CASE rc = "DISCONNECTED"
    <3> DEFINE now == {"REMOVED", "CHECKED"}
    <3>1. Finish(d, now, FALSE)
      BY <1>5, <2>2 DEF SupportedTested
    <3>2. now \in SUBSET Flags /\ "CHECKED" \in now /\ "WORKING" \notin now /\ now \cap Methods = {}
      BY DEF Flags, Methods
    <3> HIDE DEF now
    <3>3. Coherent(now)
      BY <3>2 DEF Coherent, Methods
    <3> QED
      BY <3>1, <3>2, <3>3, FinishMoves
  <2>3. CASE rc = "BUSY"
    <3>1. Finish(d, flags[d], TRUE)
      BY <1>5, <2>3 DEF SupportedTested
    <3> QED
      BY <3>1, <1>1, <1>2, FinishMoves
  <2>4. CASE rc \notin {"OK", "REPORTED", "DISCONNECTED", "BUSY"}
    <3> DEFINE now == Left(flags[d], rc)
    <3>1. Finish(d, now, FALSE)
      BY <1>5, <2>4 DEF SupportedTested
    <3>2. now \in SUBSET Flags /\ now \cap Methods = {} /\ "REMOVED" \notin now /\ Coherent(now)
      BY <1>1, <1>2, LeftKeeps
    <3> HIDE DEF now
    <3> QED
      BY <3>1, <3>2, FinishMoves
  <2> QED
    BY <2>1, <2>2, <2>3, <2>4
<1> QED
  BY <1>3, <1>4, <1>5

(* The check how the display says that a feature is unsupported.            *)
LEMMA UnsupportedMoves ==
  ASSUME TypeOK, ChecksSound, NEW d \in Buses, CheckUnsupported(d)
  PROVE  CheckMoves(d)
<1>1. check[d] \in Features /\ flags[d] \in SUBSET Flags
      /\ dynamic[d] \in BOOLEAN /\ again[d] \in BOOLEAN
  BY DEF CheckUnsupported, TypeOK
<1>2. /\ "REMOVED" \notin flags[d] /\ flags[d] \cap Methods = {}
      /\ "WORKING" \in flags[d] /\ Coherent(flags[d])
  BY <1>1 DEF ChecksSound, Sound, Features
<1>3. PICK rc : Repeat(d) \/ UnsupportedTested(d, rc)
  BY DEF CheckUnsupported
<1>4. CASE Repeat(d)
  BY <1>1, <1>4, RepeatMoves
<1> DEFINE dyn == dynamic[d] \/ again[d]
<1>5. dyn \in BOOLEAN
  BY <1>1
<1> HIDE DEF dyn
<1>6. CASE UnsupportedTested(d, rc) /\ rc \in {"OK", "RETRIES"} /\ NextFeature(d) # None
  <2>1. /\ GoTo(d, NextFeature(d), flags[d])
        /\ dynamic' = [dynamic EXCEPT ![d] = dyn]
    BY <1>6 DEF UnsupportedTested, dyn
  <2>2. NextFeature(d) \in Features
    BY <1>1, <1>6 DEF NextFeature, Features
  <2>3. Sound(NextFeature(d), flags[d], dyn)
    BY <1>2, <2>2 DEF Sound, Features
  <2> QED
    BY <1>1, <1>5, <2>1, <2>2, <2>3, GoToMoves
<1>7. CASE UnsupportedTested(d, rc) /\ ~(rc \in {"OK", "RETRIES"} /\ NextFeature(d) # None)
  <2> DEFINE now == Told(d, rc)
  <2>1. Conclude(d, now)
    BY <1>7 DEF UnsupportedTested
  <2>2. Method(rc) \in SUBSET Methods /\ \E m \in Methods : Method(rc) \subseteq {m}
    BY DEF Method, Methods
  <2>3. /\ Left(flags[d], rc) \in SUBSET flags[d] /\ Coherent(Left(flags[d], rc))
        /\ Left(flags[d], rc) \cap Methods = {} /\ "REMOVED" \notin Left(flags[d], rc)
    BY <1>1, <1>2, LeftKeeps
  <2>4. /\ now \cap Methods = Method(rc)
        /\ "REMOVED" \notin now /\ "UNSUPPORTED_CHECKED" \in now
        /\ "WORKING" \in now <=> "WORKING" \in Left(flags[d], rc)
        /\ "IS_MONITOR" \in now <=> "IS_MONITOR" \in Left(flags[d], rc)
    BY <2>2, <2>3 DEF Told, Methods
  <2>5. now \in SUBSET Flags
    BY <1>1, <2>2, <2>3 DEF Told, Flags, Methods
  <2> HIDE DEF now
  <2>6. Coherent(now)
    BY <2>2, <2>3, <2>4 DEF Coherent
  <2>7. CASE "WORKING" \in now
    <3>1. GoTo(d, "xdf", now) /\ dynamic' = [dynamic EXCEPT ![d] = dyn]
      BY <2>1, <2>7 DEF Conclude, dyn
    <3>2. Sound("xdf", now, dyn)
      BY <2>4, <2>6, <2>7 DEF Sound, Features
    <3> QED
      BY <1>5, <2>5, <3>1, <3>2, GoToMoves
  <2>8. CASE "WORKING" \notin now
    <3>1. Finish(d, now, FALSE)
      BY <2>1, <2>8 DEF Conclude
    <3> QED
      BY <3>1, <2>4, <2>5, <2>6, FinishMoves
  <2> QED
    BY <2>7, <2>8
<1> QED
  BY <1>3, <1>4, <1>6, <1>7

(* The version query, in which a display can be lost that told how it says  *)
(* that a feature is unsupported.                                           *)
LEMMA VersionMoves ==
  ASSUME TypeOK, ChecksSound, NEW d \in Buses, CheckVersion(d)
  PROVE  CheckMoves(d)
<1>1. check[d] = "xdf" /\ flags[d] \in SUBSET Flags
  BY DEF CheckVersion, TypeOK
<1>2. /\ "REMOVED" \notin flags[d] /\ "UNSUPPORTED_CHECKED" \in flags[d] /\ Coherent(flags[d])
  BY <1>1 DEF ChecksSound, Sound
<1>3. PICK rc : Finish(d, Left(flags[d], rc), FALSE)
  BY DEF CheckVersion
<1> DEFINE now == Left(flags[d], rc)
<1>4. /\ now \in SUBSET Flags /\ Coherent(now)
      /\ "REMOVED" \notin now /\ "UNSUPPORTED_CHECKED" \in now
  BY <1>1, <1>2, LeftKeeps
<1> HIDE DEF now
<1>5. Finish(d, now, FALSE)
  BY <1>3 DEF now
<1> QED
  BY <1>4, <1>5, FinishMoves

(* The checks of one display, wherever they are.                            *)
LEMMA DisplayMoves ==
  ASSUME TypeOK, ChecksSound, NEW d \in Buses, CheckDisplay(d)
  PROVE  CheckMoves(d) /\ check[d] # "done"
<1>1. check[d] # "done"
  BY DEF CheckDisplay, StartChecks, CheckSupported, CheckUnsupported, CheckVersion, Features
<1> QED
  BY <1>1, StartMoves, SupportedMoves, UnsupportedMoves, VersionMoves DEF CheckDisplay

----------------------------------------------------------------------------
(***************************************************************************)
(* The numbers of a finished list.                                         *)
(***************************************************************************)

\* The displays with which DDC works and that are neither busy nor disabled.
Usable == {e \in display_list : Working(e) /\ flags[e] \cap {"BUSY", "DISABLED"} = {}}

(* The first numbers count the usable displays from 1; the others get none. *)
LEMMA FirstNumbers ==
  ASSUME display_list \in SUBSET Buses, dispno_max = 0
  PROVE  /\ \A d \in Usable : FirstNumber(d) = Rank(d, Usable)
         /\ \A d \in display_list \ Usable : FirstNumber(d) \in {INVALID, BUSY, DISABLED}
         /\ Valid = Usable
<1>1. ASSUME NEW d \in Usable PROVE FirstNumber(d) = Rank(d, Usable) /\ FirstNumber(d) > 0
  <2>1. /\ "DISABLED" \notin flags[d] /\ "BUSY" \notin flags[d]
        /\ Working(d) /\ flags[d] \cap {"BUSY", "DISABLED"} = {}
    BY DEF Usable
  <2>2. FirstNumber(d) = 0 + Rank(d, Usable)
    BY <2>1 DEF FirstNumber, Usable
  <2>3. Usable \in SUBSET Buses /\ d \in Buses
    BY DEF Usable
  <2>4. Rank(d, Usable) \in Nat /\ Rank(d, Usable) >= 1
    BY <2>3, RankProperties, BusesFinite
  <2> QED
    BY <2>2, <2>4
<1>2. ASSUME NEW d \in display_list \ Usable
      PROVE  FirstNumber(d) \in {INVALID, BUSY, DISABLED}
  <2>1. ~(Working(d) /\ flags[d] \cap {"BUSY", "DISABLED"} = {})
    BY DEF Usable
  <2>2. CASE "DISABLED" \in flags[d]
    BY <2>2 DEF FirstNumber
  <2>3. CASE "BUSY" \in flags[d] /\ "DISABLED" \notin flags[d]
    BY <2>3 DEF FirstNumber
  <2>4. CASE "BUSY" \notin flags[d] /\ "DISABLED" \notin flags[d]
    BY <2>1, <2>4 DEF FirstNumber
  <2> QED
    BY <2>2, <2>3, <2>4
<1>3. \A n \in {INVALID, BUSY, DISABLED} : ~(n > 0)
  BY DEF INVALID, BUSY, DISABLED
<1>4. Usable \subseteq display_list
  BY DEF Usable
<1>5. Valid = Usable
  BY <1>1, <1>2, <1>3, <1>4 DEF Valid
<1> QED
  BY <1>1, <1>2, <1>5

(* The final numbers are ranks in one set of displays, the same for all, or *)
(* none at all.                                                             *)
LEMMA FinalNumbers ==
  ASSUME display_list \in SUBSET Buses, dispno_max = 0
  PROVE  \E set \in SUBSET Usable :
           /\ \A d \in display_list :
                d \in Usable /\ ActualDisplay(d) = None
                  => d \in set /\ FinalNumber(d) = Rank(d, set)
           /\ \A d \in display_list :
                ~(d \in Usable /\ ActualDisplay(d) = None)
                  => FinalNumber(d) \in {INVALID, BUSY, DISABLED, PHANTOM}
<1>1. /\ \A d \in Usable : FirstNumber(d) = Rank(d, Usable)
      /\ \A d \in display_list \ Usable : FirstNumber(d) \in {INVALID, BUSY, DISABLED}
      /\ Valid = Usable
  BY FirstNumbers
<1>2. Numbered = {d \in Usable : ActualDisplay(d) = None}
  BY <1>1 DEF Numbered
<1>3. ASSUME NEW d \in display_list, d \in Usable, ActualDisplay(d) = None
      PROVE  FinalNumber(d) = IF PhantomsFound THEN Rank(d, Numbered) ELSE Rank(d, Usable)
  <2>1. d \in Numbered
    BY <1>2, <1>3
  <2>2. CASE PhantomsFound
    BY <2>1, <2>2, <1>3 DEF FinalNumber
  <2>3. CASE ~PhantomsFound
    BY <2>3, <1>1, <1>3 DEF FinalNumber
  <2> QED
    BY <2>2, <2>3
<1>4. ASSUME NEW d \in display_list, ~(d \in Usable /\ ActualDisplay(d) = None)
      PROVE  FinalNumber(d) \in {INVALID, BUSY, DISABLED, PHANTOM}
  <2>1. CASE ActualDisplay(d) # None
    BY <2>1, <1>2 DEF FinalNumber
  <2>2. CASE ActualDisplay(d) = None /\ d \notin Usable
    <3>1. FinalNumber(d) = FirstNumber(d)
      BY <2>2, <1>2 DEF FinalNumber
    <3> QED
      BY <3>1, <2>2, <1>1
  <2> QED
    BY <2>1, <2>2, <1>4
<1>5. CASE PhantomsFound
  <2>1. Numbered \in SUBSET Usable
    BY <1>2
  <2> QED
    BY <2>1, <1>2, <1>3, <1>4, <1>5
<1>6. CASE ~PhantomsFound
  BY <1>3, <1>4, <1>6
<1> QED
  BY <1>5, <1>6

\* NumbersInOrder, of the numbers before they are assigned.
InOrder(list) ==
  /\ \A d, e \in list : 0 < FinalNumber(d) /\ 0 < FinalNumber(e) /\ d < e
       => FinalNumber(d) < FinalNumber(e)
  /\ \A d \in list : FinalNumber(d) <= Cardinality(list)
  /\ \A d \in list : FinalNumber(d) > 0 <=> d \in Usable /\ ActualDisplay(d) = None
  /\ \A d \in list : FinalNumber(d) \in 1..BusCount \cup {INVALID, PHANTOM, BUSY, DISABLED}

(* Final numbers are in order.                                              *)
LEMMA FinalNumbersInOrder ==
  ASSUME display_list \in SUBSET Buses, dispno_max = 0
  PROVE  InOrder(display_list)
<1>1. PICK set \in SUBSET Usable :
        /\ \A d \in display_list :
             d \in Usable /\ ActualDisplay(d) = None
               => d \in set /\ FinalNumber(d) = Rank(d, set)
        /\ \A d \in display_list :
             ~(d \in Usable /\ ActualDisplay(d) = None)
               => FinalNumber(d) \in {INVALID, BUSY, DISABLED, PHANTOM}
  BY FinalNumbers
<1>2. set \in SUBSET display_list /\ set \in SUBSET Buses
  BY DEF Usable
<1>3. /\ Cardinality(set) \in Nat /\ Cardinality(display_list) \in Nat
      /\ Cardinality(set) <= Cardinality(display_list)
      /\ Cardinality(display_list) <= BusCount /\ BusCount \in Nat
  BY <1>2, BusesFinite, FS_Subset, DetectionAssumption
<1>4. /\ \A d \in set : Rank(d, set) \in 1 .. Cardinality(set)
      /\ \A d, e \in set : d < e => Rank(d, set) < Rank(e, set)
  <2>1. /\ \A d \in Buses : Rank(d, set) \in 0 .. Cardinality(set)
        /\ \A d \in set : Rank(d, set) >= 1
        /\ \A d, e \in set : d < e => Rank(d, set) < Rank(e, set)
    BY <1>2, RankProperties
  <2> QED
    BY <2>1, <1>2, <1>3
<1>5. ASSUME NEW d \in display_list, d \in Usable /\ ActualDisplay(d) = None
      PROVE  /\ d \in set /\ FinalNumber(d) = Rank(d, set)
             /\ FinalNumber(d) \in 1 .. Cardinality(set) /\ FinalNumber(d) > 0
             /\ FinalNumber(d) <= Cardinality(display_list) /\ FinalNumber(d) \in 1..BusCount
  <2>1. d \in set /\ FinalNumber(d) = Rank(d, set)
    BY <1>1, <1>5
  <2>2. FinalNumber(d) \in 1 .. Cardinality(set)
    BY <2>1, <1>4
  <2> QED
    BY <2>1, <2>2, <1>3
<1>6. ASSUME NEW d \in display_list, ~(d \in Usable /\ ActualDisplay(d) = None)
      PROVE  /\ FinalNumber(d) \in {INVALID, BUSY, DISABLED, PHANTOM}
             /\ ~(FinalNumber(d) > 0) /\ ~(0 < FinalNumber(d))
             /\ FinalNumber(d) <= Cardinality(display_list)
  <2>1. FinalNumber(d) \in {INVALID, BUSY, DISABLED, PHANTOM}
    BY <1>1, <1>6
  <2> QED
    BY <2>1, <1>3 DEF INVALID, BUSY, DISABLED, PHANTOM
<1>7. ASSUME NEW d \in display_list, NEW e \in display_list,
             0 < FinalNumber(d), 0 < FinalNumber(e), d < e
      PROVE  FinalNumber(d) < FinalNumber(e)
  <2>1. /\ d \in Usable /\ ActualDisplay(d) = None
        /\ e \in Usable /\ ActualDisplay(e) = None
    BY <1>6, <1>7
  <2>2. /\ d \in set /\ FinalNumber(d) = Rank(d, set)
        /\ e \in set /\ FinalNumber(e) = Rank(e, set)
    BY <2>1, <1>5
  <2> QED
    BY <2>2, <1>4, <1>7
<1>8. \A d \in display_list : FinalNumber(d) <= Cardinality(display_list)
  BY <1>5, <1>6
<1>9. \A d \in display_list : FinalNumber(d) > 0 <=> d \in Usable /\ ActualDisplay(d) = None
  BY <1>5, <1>6
<1>10. \A d \in display_list :
         FinalNumber(d) \in 1..BusCount \cup {INVALID, PHANTOM, BUSY, DISABLED}
  BY <1>5, <1>6
<1> QED
  BY <1>7, <1>8, <1>9, <1>10 DEF InOrder

(* The display that a phantom stands for is one that has a number of its    *)
(* own before phantoms are looked for.                                      *)
LEMMA ActualDisplayIsUsable ==
  ASSUME display_list \in SUBSET Buses, dispno_max = 0, NEW d
  PROVE  ActualDisplay(d) \in Usable \cup {None}
<1>1. Valid = Usable /\ Valid \in SUBSET Buses
  BY FirstNumbers DEF Valid
<1>2. ASSUME NEW set \in SUBSET Valid PROVE Last(set) \in Valid \cup {None}
  BY <1>1, MaxInSet DEF Last
<1>3. Last({v \in Valid : PhantomOf(d, v)}) \in Valid \cup {None}
  BY <1>2
<1>4. Last({m \in Mst : socket[m].edid = socket[d].edid}) \in Valid \cup {None}
  BY <1>2 DEF Mst
<1>5. CASE Cardinality(display_list) <= 1
  BY <1>5 DEF ActualDisplay
<1>6. CASE ~(Cardinality(display_list) <= 1) /\ d \in Invalid
  BY <1>1, <1>3, <1>6 DEF ActualDisplay, Invalid, NonMst
<1>7. CASE ~(Cardinality(display_list) <= 1) /\ d \notin Invalid /\ d \in NonMst
  BY <1>1, <1>4, <1>7 DEF ActualDisplay
<1>8. CASE ~(Cardinality(display_list) <= 1) /\ d \notin Invalid /\ d \notin NonMst
  BY <1>8 DEF ActualDisplay
<1> QED
  BY <1>5, <1>6, <1>7, <1>8

----------------------------------------------------------------------------
(***************************************************************************)
(* The invariant.                                                          *)
(***************************************************************************)

\* Before a detection nothing is known of any display.
NothingBefore == display_list = None => check = NoChecks /\ flags = NoFlags

\* The list that is published is the one that was made, and all of it checked.
PublishedIsChecked == Detected => all_display_refs = display_list /\ AllChecked

\* Numbers count from 1 in each detection.
CountsFromZero == display_list # None /\ ~Detected => dispno_max = 0

\* The display that a phantom is said to stand for is one with which DDC works.
ActualDisplaysWork ==
  Detected => \A e \in all_display_refs : actual_display[e] # None => Working(actual_display[e])

IInv ==
  /\ TypeOK
  /\ ChecksSound
  /\ NothingBefore
  /\ PublishedIsChecked
  /\ CountsFromZero
  /\ ActualDisplaysWork
  /\ NumbersInOrder

(* A list that has been made is a set of displays.                          *)
LEMMA ListMade ==
  ASSUME TypeOK, display_list # None
  PROVE  display_list \in SUBSET Buses
BY DEF TypeOK

(* The invariant holds initially.                                           *)
LEMMA InvariantInit == Init => IInv
<1> SUFFICES ASSUME Init PROVE IInv
  OBVIOUS
<1>1. socket \in [Buses -> Sockets]
  BY DetectionAssumption DEF Init
<1>2. /\ check \in [Buses -> Points] /\ again \in [Buses -> BOOLEAN]
      /\ dynamic \in [Buses -> BOOLEAN] /\ flags \in [Buses -> SUBSET Flags]
      /\ \A d \in Buses : check[d] = "none" /\ flags[d] = {} /\ dynamic[d] = dynamic_sleep
  BY DEF Init, NoChecks, NoRepeats, NoFlags, Points
<1>3. /\ dispno \in [Buses -> 1..BusCount \cup {INVALID, PHANTOM, BUSY, DISABLED}]
      /\ actual_display \in [Buses -> Buses \cup {None}]
  BY DEF Init, NoNumbers, NoActual
<1>4. dispno_max \in 0..BusCount
  BY DetectionAssumption DEF Init
<1>5. TypeOK
  BY <1>1, <1>2, <1>3, <1>4 DEF Init, TypeOK, Points
<1>6. ChecksSound
  <2>1. \E m \in Methods : {} \subseteq {m}
    BY DEF Methods
  <2> QED
    BY <1>2, <2>1 DEF ChecksSound, Sound, Coherent, Features
<1> QED
  BY <1>5, <1>6
     DEF Init, IInv, NothingBefore, PublishedIsChecked, CountsFromZero, ActualDisplaysWork,
         NumbersInOrder, Detected

(* A step of the checks.                                                    *)
LEMMA CheckKeepsInvariant ==
  ASSUME IInv, NEW d \in Buses, CheckDisplay(d)
  PROVE  IInv'
<1>1. /\ display_list # None /\ d \in display_list
      /\ PulledOut(d)
      /\ UNCHANGED <<options, caller, all_display_refs, open_errors, display_list, numbers>>
  BY DEF CheckDisplay
<1>2. check[d] # "done"
  BY DisplayMoves DEF IInv
<1>3. CheckMoves(d)
  BY DisplayMoves DEF IInv
<1>4. PICK point \in Points, now \in SUBSET Flags, rep \in BOOLEAN, dyn \in BOOLEAN :
        Becomes(d, point, now, rep, dyn) /\ Sound(point, now, dyn)
  BY <1>3 DEF CheckMoves
<1>5. ~Detected
  BY <1>1, <1>2 DEF IInv, PublishedIsChecked, AllChecked
<1>6. TypeOK'
  <2>1. check \in [Buses -> Points] /\ again \in [Buses -> BOOLEAN]
        /\ dynamic \in [Buses -> BOOLEAN] /\ flags \in [Buses -> SUBSET Flags]
    BY DEF IInv, TypeOK, Points
  <2>2. check' \in [Buses -> Points] /\ again' \in [Buses -> BOOLEAN]
        /\ dynamic' \in [Buses -> BOOLEAN] /\ flags' \in [Buses -> SUBSET Flags]
    BY <2>1, <1>4 DEF Becomes
  <2>3. socket' \in [Buses -> Sockets]
    <3>1. socket \in [Buses -> Sockets]
      BY DEF IInv, TypeOK
    <3>2. Disconnected(socket[d]) \in Sockets
      BY <3>1, DetectionAssumption
    <3> QED
      BY <1>1, <3>1, <3>2 DEF PulledOut
  <2> QED
    BY <1>1, <2>2, <2>3 DEF IInv, TypeOK, options, numbers, Points
<1>7. ChecksSound'
  <2> SUFFICES ASSUME NEW e \in Buses PROVE Sound(check[e], flags[e], dynamic[e])'
    BY DEF ChecksSound
  <2>1. /\ check' = [check EXCEPT ![d] = point] /\ flags' = [flags EXCEPT ![d] = now]
        /\ dynamic' = [dynamic EXCEPT ![d] = dyn] /\ dynamic_sleep' = dynamic_sleep
    BY <1>1, <1>4 DEF Becomes, options
  <2>2. check \in [Buses -> Points] /\ dynamic \in [Buses -> BOOLEAN]
        /\ flags \in [Buses -> SUBSET Flags]
    BY DEF IInv, TypeOK, Points
  <2>3. CASE e = d
    <3>1. check'[e] = point /\ flags'[e] = now /\ dynamic'[e] = dyn
      BY <2>1, <2>2, <2>3
    <3> QED
      BY <3>1, <2>1, <1>4 DEF Sound
  <2>4. CASE e # d
    <3>1. check'[e] = check[e] /\ flags'[e] = flags[e] /\ dynamic'[e] = dynamic[e]
      BY <2>1, <2>2, <2>4
    <3> QED
      BY <3>1, <2>1 DEF IInv, ChecksSound, Sound
  <2> QED
    BY <2>3, <2>4
<1>8. ~Detected'
  BY <1>1, <1>5 DEF Detected
<1>9. CountsFromZero'
  BY <1>1, <1>5 DEF IInv, CountsFromZero, numbers
<1> QED
  BY <1>1, <1>6, <1>7, <1>8, <1>9
     DEF IInv, NothingBefore, PublishedIsChecked, ActualDisplaysWork, NumbersInOrder

(* The start of a detection.                                                *)
LEMMA StartKeepsInvariant ==
  ASSUME IInv, NEW c \in Callers, StartDetection(c)
  PROVE  IInv'
<1> DEFINE list == {d \in Buses : socket[d].edid # None}
<1>1. /\ display_list = None /\ ~Detected
      /\ dispno_max' = 0 /\ display_list' = list
      /\ open_errors' = {d \in Buses : ~socket[d].accessible}
      /\ check' = [d \in Buses |-> IF socket[d].edid # None THEN "start" ELSE "none"]
      /\ flags' = [d \in Buses |-> IF socket[d].edid # None THEN {"IS_MONITOR"} ELSE {}]
      /\ UNCHANGED <<socket, options, caller, all_display_refs, again, dynamic, dispno,
                     actual_display>>
  BY DEF StartDetection, Detected
<1>2. \A d \in Buses : dynamic[d] = dynamic_sleep
  BY <1>1 DEF IInv, NothingBefore, NoChecks, ChecksSound, Sound
<1>3. TypeOK'
  <2>1. list \in SUBSET Buses /\ open_errors' \in SUBSET Buses
    BY <1>1
  <2>2. check' \in [Buses -> Points]
    BY <1>1 DEF Points
  <2>3. flags' \in [Buses -> SUBSET Flags]
    BY <1>1 DEF Flags
  <2>4. dispno_max' \in 0..BusCount
    BY <1>1, DetectionAssumption
  <2> HIDE DEF list
  <2> QED
    BY <1>1, <2>1, <2>2, <2>3, <2>4 DEF IInv, TypeOK, options, Points
<1>4. ChecksSound'
  <2> SUFFICES ASSUME NEW d \in Buses PROVE Sound(check[d], flags[d], dynamic[d])'
    BY DEF ChecksSound
  <2>1. \/ check'[d] = "start" /\ flags'[d] = {"IS_MONITOR"}
        \/ check'[d] = "none" /\ flags'[d] = {}
    BY <1>1
  <2>2. dynamic'[d] = dynamic_sleep'
    BY <1>1, <1>2 DEF options
  <2>3. /\ \E m \in Methods : flags'[d] \cap Methods \subseteq {m}
        /\ "REMOVED" \notin flags'[d] /\ "WORKING" \notin flags'[d]
        /\ flags'[d] \cap Methods = {}
    BY <2>1 DEF Methods
  <2> QED
    BY <2>1, <2>2, <2>3 DEF Sound, Coherent, Features
<1>5. ~Detected'
  BY <1>1 DEF Detected
<1>6. NothingBefore'
  <2>1. list # None
    BY DetectionAssumption
  <2> QED
    BY <2>1, <1>1 DEF NothingBefore
<1> QED
  BY <1>1, <1>3, <1>4, <1>5, <1>6
     DEF IInv, PublishedIsChecked, CountsFromZero, ActualDisplaysWork, NumbersInOrder

(* The end of a detection, where the numbers are given.                     *)
LEMMA EndKeepsInvariant ==
  ASSUME IInv, NEW c \in Callers, EndDetection(c)
  PROVE  IInv'
<1>1. /\ ~Detected /\ display_list # None /\ AllChecked
      /\ all_display_refs' = display_list
      /\ dispno' = [d \in Buses |-> IF d \in display_list THEN FinalNumber(d) ELSE INVALID]
      /\ actual_display' = [d \in Buses |-> IF d \in display_list THEN ActualDisplay(d)
                                                                   ELSE None]
      /\ dispno_max' = dispno_max + Cardinality(Valid)
      /\ UNCHANGED <<socket, options, caller, open_errors, display_list, checks>>
  BY DEF EndDetection, Detected
<1>2. display_list \in SUBSET Buses /\ dispno_max = 0
  BY <1>1, ListMade DEF IInv, CountsFromZero
<1>3. InOrder(display_list)
  BY <1>2, FinalNumbersInOrder
<1>4. \A d \in Buses : ActualDisplay(d) \in Usable \cup {None}
  BY <1>2, ActualDisplayIsUsable
<1>5. TypeOK'
  <2>1. dispno' \in [Buses -> 1..BusCount \cup {INVALID, PHANTOM, BUSY, DISABLED}]
    BY <1>1, <1>3 DEF InOrder
  <2>2. actual_display' \in [Buses -> Buses \cup {None}]
    <3>1. Usable \in SUBSET Buses
      BY <1>2 DEF Usable
    <3> QED
      BY <1>1, <1>4, <3>1
  <2>3. dispno_max' \in 0..BusCount
    <3>1. Valid \in SUBSET Buses
      BY <1>2 DEF Valid
    <3>2. Cardinality(Valid) \in Nat /\ Cardinality(Valid) <= BusCount
      BY <3>1, BusesFinite
    <3> QED
      BY <3>2, <1>1, <1>2, DetectionAssumption
  <2>4. /\ socket' \in [Buses -> Sockets]
        /\ skip_ddc_checks' \in BOOLEAN /\ dynamic_sleep' \in BOOLEAN
        /\ caller' \in [Callers -> {"out", "waiting", "locked", "in"}]
        /\ all_display_refs' \subseteq Buses
        /\ open_errors' \subseteq Buses
        /\ display_list' \subseteq Buses
        /\ check' \in [Buses -> Points]
        /\ again' \in [Buses -> BOOLEAN] /\ dynamic' \in [Buses -> BOOLEAN]
        /\ flags' \in [Buses -> SUBSET Flags]
    BY <1>1, <1>2 DEF IInv, TypeOK, Points, options, checks
  <2> QED
    BY <2>1, <2>2, <2>3, <2>4 DEF TypeOK, Points
<1>6. ChecksSound'
  BY <1>1 DEF IInv, ChecksSound, Sound, checks, options
<1>7. NothingBefore'
  BY <1>1 DEF NothingBefore
<1>8. PublishedIsChecked'
  BY <1>1 DEF PublishedIsChecked, AllChecked, checks
<1>9. CountsFromZero'
  <2>1. Detected'
    BY <1>1 DEF Detected
  <2> QED
    BY <2>1 DEF CountsFromZero
<1>10. NumbersInOrder'
  <2>1. \A d \in display_list :
          dispno'[d] = FinalNumber(d) /\ actual_display'[d] = ActualDisplay(d)
    BY <1>1, <1>2
  <2>2. ASSUME NEW d \in display_list
        PROVE  dispno'[d] > 0 <=>
                 /\ Working(d)' /\ flags'[d] \cap {"BUSY", "DISABLED", "REMOVED"} = {}
                 /\ actual_display'[d] = None
    <3>1. dispno'[d] > 0 <=> d \in Usable /\ actual_display'[d] = None
      BY <2>1, <1>3 DEF InOrder
    <3>2. flags' = flags
      BY <1>1 DEF checks
    <3>3. Working(d) => "REMOVED" \notin flags[d]
      BY <1>2 DEF IInv, ChecksSound, Sound, Coherent, Working
    <3>4. d \in Usable <=> Working(d) /\ flags[d] \cap {"BUSY", "DISABLED"} = {}
      BY DEF Usable
    <3> QED
      BY <3>1, <3>2, <3>3, <3>4 DEF Working
  <2>3. \A d, e \in display_list : 0 < dispno'[d] /\ 0 < dispno'[e] /\ d < e
          => dispno'[d] < dispno'[e]
    BY <2>1, <1>3 DEF InOrder
  <2>4. \A d \in display_list : dispno'[d] <= Cardinality(display_list)
    BY <2>1, <1>3 DEF InOrder
  <2> QED
    BY <1>1, <2>2, <2>3, <2>4 DEF NumbersInOrder
<1>11. ActualDisplaysWork'
  <2>1. \A e \in display_list : actual_display'[e] = ActualDisplay(e) /\ e \in Buses
    BY <1>1, <1>2
  <2>2. \A d \in Usable : Working(d)'
    BY <1>1 DEF Usable, Working, checks
  <2> QED
    BY <1>1, <1>4, <2>1, <2>2 DEF ActualDisplaysWork, Working
<1> QED
  BY <1>5, <1>6, <1>7, <1>8, <1>9, <1>10, <1>11 DEF IInv

(* References are discarded.                                                *)
LEMMA DiscardKeepsInvariant ==
  ASSUME IInv, Discard
  PROVE  IInv'
<1>1. /\ all_display_refs' = None /\ open_errors' = {} /\ display_list' = None
      /\ check' = NoChecks /\ flags' = NoFlags
      /\ dispno' = NoNumbers /\ actual_display' = NoActual
      /\ dynamic' = [d \in Buses |-> dynamic_sleep]
      /\ UNCHANGED <<socket, options, caller, again, dispno_max>>
  BY DEF Discard
<1>2. \A d \in Buses : check'[d] = "none" /\ flags'[d] = {} /\ dynamic'[d] = dynamic_sleep'
  BY <1>1 DEF NoChecks, NoFlags, options
<1>3. TypeOK'
  <2>1. /\ check' \in [Buses -> Points] /\ dynamic' \in [Buses -> BOOLEAN]
        /\ flags' \in [Buses -> SUBSET Flags]
    BY <1>1 DEF IInv, TypeOK, Points, NoChecks, NoFlags
  <2>2. /\ dispno' \in [Buses -> 1..BusCount \cup {INVALID, PHANTOM, BUSY, DISABLED}]
        /\ actual_display' \in [Buses -> Buses \cup {None}]
    BY <1>1 DEF NoNumbers, NoActual
  <2> QED
    BY <1>1, <2>1, <2>2 DEF IInv, TypeOK, Points, options
<1>4. ChecksSound'
  <2>1. \E m \in Methods : {} \subseteq {m}
    BY DEF Methods
  <2> QED
    BY <1>2, <2>1 DEF ChecksSound, Sound, Coherent, Features
<1>5. ~Detected'
  BY <1>1 DEF Detected
<1> QED
  BY <1>1, <1>3, <1>4, <1>5
     DEF IInv, NothingBefore, PublishedIsChecked, CountsFromZero, ActualDisplaysWork,
         NumbersInOrder

(* Every step keeps the invariant.                                          *)
LEMMA StepKeepsInvariant == IInv /\ [Next]_vars => IInv'
<1> SUFFICES ASSUME IInv, [Next]_vars PROVE IInv'
  OBVIOUS
<1>1. ASSUME UNCHANGED <<options, all_display_refs, open_errors, display_list, checks,
                         numbers>>,
             socket' \in [Buses -> Sockets],
             caller' \in [Callers -> {"out", "waiting", "locked", "in"}]
      PROVE  IInv'
  <2>1. TypeOK'
    BY <1>1 DEF IInv, TypeOK, options, checks, numbers
  <2>2. ChecksSound'
    BY <1>1 DEF IInv, ChecksSound, Sound, options, checks
  <2>3. NothingBefore' /\ PublishedIsChecked' /\ CountsFromZero'
    BY <1>1 DEF IInv, NothingBefore, PublishedIsChecked, CountsFromZero, Detected, AllChecked,
       checks, numbers
  <2>4. NumbersInOrder'
    BY <1>1 DEF IInv, NumbersInOrder, Detected, Working, checks, numbers
  <2>5. ActualDisplaysWork'
    BY <1>1 DEF IInv, ActualDisplaysWork, Detected, Working, checks, numbers
  <2> QED
    BY <2>1, <2>2, <2>3, <2>4, <2>5 DEF IInv
<1>2. /\ socket \in [Buses -> Sockets]
      /\ caller \in [Callers -> {"out", "waiting", "locked", "in"}]
  BY DEF IInv, TypeOK
<1>3. ASSUME NEW c \in Callers, Call(c) \/ Lock(c) \/ Unlock(c) \/ Return(c) PROVE IInv'
  <2>1. /\ UNCHANGED <<socket, options, all_display_refs, open_errors, display_list, checks,
                       numbers>>
        /\ \E to \in {"waiting", "locked", "in", "out"} : caller' = [caller EXCEPT ![c] = to]
    BY <1>3 DEF Call, Lock, Unlock, Return, Move
  <2>2. caller' \in [Callers -> {"out", "waiting", "locked", "in"}]
    BY <2>1, <1>2
  <2> QED
    BY <2>1, <2>2, <1>1, <1>2
<1>4. ASSUME NEW c \in Callers, StartDetection(c) PROVE IInv'
  BY <1>4, StartKeepsInvariant
<1>5. ASSUME NEW c \in Callers, EndDetection(c) PROVE IInv'
  BY <1>5, EndKeepsInvariant
<1>6. ASSUME NEW d \in Buses, CheckDisplay(d) PROVE IInv'
  BY <1>6, CheckKeepsInvariant
<1>7. CASE Discard
  BY <1>7, DiscardKeepsInvariant
<1>8. CASE Replug
  BY <1>1, <1>2, <1>8, DetectionAssumption DEF Replug
<1>9. CASE UNCHANGED vars
  BY <1>1, <1>2, <1>9 DEF vars
<1> QED
  BY <1>3, <1>4, <1>5, <1>6, <1>7, <1>8, <1>9 DEF Next, Detecting

(* The invariant, and with it the types, for any buses and layouts.         *)
THEOREM InvariantHolds == Spec => []IInv
BY InvariantInit, StepKeepsInvariant, PTL DEF Spec

(* Display numbers go up with the buses whatever the order of the checks,   *)
(* are never above the number of displays and belong to the usable displays *)
(* that are no phantoms (ddc_detect_all_displays).                          *)
THEOREM NumbersGoUp == Spec => []NumbersInOrder
<1>1. IInv => NumbersInOrder
  BY DEF IInv
<1> QED
  BY <1>1, InvariantHolds, PTL

(* A list that is published is complete: all checked, and dynamic sleep put *)
(* back (ddc_async_scan, read_unsupported_feature).                         *)
THEOREM ListsAreComplete == Spec => []ListIsComplete
<1>1. IInv => ListIsComplete
  <2> SUFFICES ASSUME IInv, Detected, NEW d \in all_display_refs
               PROVE  /\ check[d] = "done" /\ "CHECKED" \in flags[d]
                      /\ dynamic[d] = dynamic_sleep
    BY DEF ListIsComplete
  <2>1. d \in Buses
    BY DEF IInv, TypeOK, Detected
  <2>2. check[d] = "done"
    BY DEF IInv, PublishedIsChecked, AllChecked
  <2> QED
    BY <2>1, <2>2 DEF IInv, ChecksSound, Sound
<1> QED
  BY <1>1, InvariantHolds, PTL

(* At most one way to say that a feature is unsupported is found; a display *)
(* that has one and does not work told it in its checks and was lost after  *)
(* that (check_how_unsupported_reported, set_vcp_version_xdf_by_dh).        *)
THEOREM OneMethodFound == Spec => []OneMethod
<1>1. IInv => OneMethod
  <2> SUFFICES ASSUME IInv, NEW d \in Buses
               PROVE  /\ Cardinality(flags[d] \cap Methods) <= 1
                      /\ flags[d] \cap Methods # {} /\ ~Working(d)
                           => check[d] = "done" /\ "UNSUPPORTED_CHECKED" \in flags[d]
    BY DEF OneMethod
  <2>1. /\ flags[d] \cap Methods # {} /\ ~Working(d)
             => check[d] = "done" /\ "UNSUPPORTED_CHECKED" \in flags[d]
        /\ \E m \in Methods : flags[d] \cap Methods \subseteq {m}
    BY DEF IInv, ChecksSound, Sound, Coherent, Working
  <2>2. PICK m \in Methods : flags[d] \cap Methods \in SUBSET {m}
    BY <2>1
  <2>3. IsFiniteSet({m}) /\ Cardinality({m}) = 1
    BY FS_Singleton
  <2>4. Cardinality(flags[d] \cap Methods) <= Cardinality({m})
    BY <2>2, <2>3, FS_Subset
  <2> QED
    BY <2>1, <2>3, <2>4
<1> QED
  BY <1>1, InvariantHolds, PTL

(* A display that was lost at whatever exchange of its checks has no number *)
(* and no phantom stands for it (ddc_get_nontable_vcp_value).               *)
THEOREM LostDisplaysAreNotNumbered == Spec => []LostIsNotNumbered
<1>1. IInv => LostIsNotNumbered
  <2> SUFFICES ASSUME IInv, Detected, NEW d \in all_display_refs, "IS_MONITOR" \notin flags[d]
               PROVE  /\ dispno[d] < 0
                      /\ \A e \in all_display_refs : actual_display[e] # d
    BY DEF LostIsNotNumbered
  <2>1. d \in Buses /\ d # None
    BY DetectionAssumption DEF IInv, TypeOK, Detected
  <2>2. ~Working(d)
    BY <2>1 DEF IInv, ChecksSound, Sound, Coherent, Working
  <2>3. \A e \in all_display_refs : actual_display[e] # d
    BY <2>1, <2>2 DEF IInv, ActualDisplaysWork
  <2>4. ~(dispno[d] > 0)
    BY <2>2 DEF IInv, NumbersInOrder
  <2>5. dispno[d] \in 1..BusCount \cup {INVALID, PHANTOM, BUSY, DISABLED}
    BY <2>1 DEF IInv, TypeOK
  <2>6. dispno[d] < 0
    BY <2>4, <2>5, DetectionAssumption DEF INVALID, PHANTOM, BUSY, DISABLED
  <2> QED
    BY <2>3, <2>6
<1> QED
  BY <1>1, InvariantHolds, PTL

(* Both together: what the checks leave of a display, at whichever exchange *)
(* it was lost (ddc_initial_checks_by_dh).                                  *)
THEOREM FlagsFit == Spec => []FlagsFitTogether
BY OneMethodFound, LostDisplaysAreNotNumbered, PTL DEF FlagsFitTogether

----------------------------------------------------------------------------
(***************************************************************************)
(* Gaps in the numbers.                                                    *)
(***************************************************************************)

\* The one case in which numbers are not given anew: all displays of the list
\* had one, and some of them turned out to be phantoms.
PhantomAmongNumbered ==
  /\ Detected
  /\ \A d \in all_display_refs : Working(d) /\ flags[d] \cap {"BUSY", "DISABLED"} = {}
  /\ \E d \in all_display_refs : dispno[d] = PHANTOM

(* Ranks in a set count from 1 without a gap.                               *)
LEMMA RanksFill ==
  ASSUME NEW set \in SUBSET Buses
  PROVE  /\ {Rank(d, set) : d \in set} = 1..Cardinality(set)
         /\ Cardinality(1..Cardinality(set)) = Cardinality(set)
<1>1. PICK n \in Nat : n = Cardinality(set)
  BY BusesFinite
<1>2. IsFiniteSet(1..n) /\ Cardinality(1..n) = n
  BY FS_Interval
<1> DEFINE f == [d \in set |-> Rank(d, set)]
<1>3. f \in [set -> 1..n]
  <2> SUFFICES ASSUME NEW d \in set PROVE Rank(d, set) \in 1..n
    OBVIOUS
  <2>1. Rank(d, set) \in 0..n /\ Rank(d, set) >= 1
    BY <1>1, RankProperties
  <2> QED
    BY <2>1
<1>4. ASSUME NEW d \in set, NEW e \in set, f[d] = f[e] PROVE d = e
  <2>1. d \in Int /\ e \in Int
    BY DEF Buses
  <2>2. Rank(d, set) = Rank(e, set) /\ Rank(d, set) \in Int /\ Rank(e, set) \in Int
    BY <1>3, <1>4
  <2>3. ~(d < e) /\ ~(e < d)
    BY <2>2, RankProperties
  <2> QED
    BY <2>1, <2>3
<1>5. f \in Injection(set, 1..n)
  BY <1>3, <1>4 DEF Injection, IsInjective
<1>6. f \in Surjection(set, 1..n)
  BY <1>1, <1>2, <1>5, FS_Injection
<1>7. \A k \in 1..n : \E d \in set : f[d] = k
  BY <1>6 DEF Surjection
<1> QED
  BY <1>1, <1>2, <1>3, <1>7

(* The final numbers fill 1 to their count, but in that one case.           *)
LEMMA FinalNumbersFill ==
  ASSUME display_list \in SUBSET Buses, dispno_max = 0,
         Usable = display_list => \A d \in display_list : FinalNumber(d) # PHANTOM
  PROVE  LET given == {FinalNumber(d) : d \in {e \in display_list : FinalNumber(e) > 0}}
         IN  given = 1..Cardinality(given)
<1>1. /\ \A d \in Usable : FirstNumber(d) = Rank(d, Usable)
      /\ Valid = Usable
  BY FirstNumbers
<1>2. Usable \in SUBSET display_list
  BY DEF Usable
<1>3. Numbered \in SUBSET Usable /\ Numbered = {d \in Usable : ActualDisplay(d) = None}
  BY <1>1 DEF Numbered
<1>4. {e \in display_list : FinalNumber(e) > 0} = Numbered
  <2>1. \A d \in display_list : FinalNumber(d) > 0 <=> d \in Usable /\ ActualDisplay(d) = None
    BY FinalNumbersInOrder DEF InOrder
  <2> QED
    BY <2>1, <1>2, <1>3
<1>5. ASSUME ~PhantomsFound PROVE Numbered = Usable
  <2>1. CASE Cardinality(display_list) <= 1
    <3>1. \A d \in Usable : ActualDisplay(d) = None
      BY <2>1 DEF ActualDisplay
    <3> QED
      BY <3>1, <1>3
  <2>2. CASE ~(Cardinality(display_list) <= 1)
    <3>1. Cardinality(display_list) \in Nat
      BY BusesFinite
    <3>2. Invalid = {}
      BY <3>1, <2>2, <1>5 DEF PhantomsFound
    <3>3. Usable = display_list
      BY <3>2, <1>1, <1>2 DEF Invalid
    <3>4. ASSUME NEW d \in display_list, ActualDisplay(d) # None PROVE FALSE
      <4>1. FinalNumber(d) = PHANTOM
        BY <3>4, <1>3 DEF FinalNumber
      <4> QED
        BY <3>3, <4>1
    <3> QED
      BY <3>3, <3>4, <1>3
  <2> QED
    BY <2>1, <2>2
<1>6. ASSUME NEW d \in Numbered PROVE FinalNumber(d) = Rank(d, Numbered)
  <2>1. d \in Usable /\ ActualDisplay(d) = None
    BY <1>3
  <2>2. CASE PhantomsFound
    BY <2>1, <2>2 DEF FinalNumber
  <2>3. CASE ~PhantomsFound
    <3>1. FinalNumber(d) = FirstNumber(d)
      BY <2>1, <2>3 DEF FinalNumber
    <3> QED
      BY <3>1, <2>1, <2>3, <1>1, <1>5
  <2> QED
    BY <2>2, <2>3
<1> DEFINE given == {FinalNumber(d) : d \in {e \in display_list : FinalNumber(e) > 0}}
<1>7. given = {Rank(d, Numbered) : d \in Numbered}
  BY <1>4, <1>6
<1>8. Numbered \in SUBSET Buses
  BY <1>2, <1>3
<1>9. given = 1..Cardinality(Numbered) /\ Cardinality(given) = Cardinality(Numbered)
  BY <1>7, <1>8, RanksFill
<1> QED
  BY <1>9

(* A step leaves no gap, but in that case.                                  *)
LEMMA StepFills ==
  IInv /\ (PhantomAmongNumbered \/ NoGap) /\ [Next]_vars
    => (PhantomAmongNumbered \/ NoGap)'
<1> SUFFICES ASSUME IInv, PhantomAmongNumbered \/ NoGap, [Next]_vars
             PROVE  (PhantomAmongNumbered \/ NoGap)'
  OBVIOUS
<1>1. ASSUME ~Detected' PROVE NoGap'
  BY <1>1 DEF NoGap
<1>2. ASSUME UNCHANGED <<all_display_refs, flags, dispno>>
      PROVE  (PhantomAmongNumbered \/ NoGap)'
  BY <1>2 DEF PhantomAmongNumbered, NoGap, Detected, Working
<1>3. ASSUME NEW c \in Callers, Call(c) \/ Lock(c) \/ Unlock(c) \/ Return(c)
      PROVE  UNCHANGED <<all_display_refs, flags, dispno>>
  BY <1>3 DEF Call, Lock, Unlock, Return, checks, numbers
<1>4. ASSUME NEW c \in Callers, StartDetection(c) PROVE ~Detected'
  BY <1>4 DEF StartDetection, Detected
<1>5. ASSUME NEW c \in Callers, EndDetection(c) PROVE (PhantomAmongNumbered \/ NoGap)'
  <2>1. /\ ~Detected /\ display_list # None /\ flags' = flags
        /\ all_display_refs' = display_list
        /\ dispno' = [d \in Buses |-> IF d \in display_list THEN FinalNumber(d) ELSE INVALID]
    BY <1>5 DEF EndDetection, Detected, checks
  <2>2. display_list \in SUBSET Buses /\ dispno_max = 0
    BY <2>1, ListMade DEF IInv, CountsFromZero
  <2>3. Detected'
    BY <2>1 DEF Detected
  <2>4. \A d \in display_list : dispno'[d] = FinalNumber(d)
    BY <2>1, <2>2
  <2>5. CASE Usable = display_list /\ \E d \in display_list : FinalNumber(d) = PHANTOM
    <3>1. \A d \in display_list : Working(d)' /\ flags'[d] \cap {"BUSY", "DISABLED"} = {}
      BY <2>1, <2>5 DEF Usable, Working
    <3> QED
      BY <3>1, <2>1, <2>3, <2>4, <2>5 DEF PhantomAmongNumbered
  <2>6. CASE ~(Usable = display_list /\ \E d \in display_list : FinalNumber(d) = PHANTOM)
    <3> DEFINE given == {FinalNumber(d) : d \in {e \in display_list : FinalNumber(e) > 0}}
    <3>1. given = 1..Cardinality(given)
      BY <2>2, <2>6, FinalNumbersFill
    <3>2. {dispno'[d] : d \in {e \in all_display_refs' : dispno'[e] > 0}} = given
      BY <2>1, <2>4
    <3> HIDE DEF given
    <3> QED
      BY <3>1, <3>2 DEF NoGap
  <2> QED
    BY <2>5, <2>6
<1>6. ASSUME NEW d \in Buses, CheckDisplay(d) PROVE ~Detected'
  <2>1. check[d] # "done" /\ display_list # None /\ d \in display_list
    BY <1>6, DisplayMoves DEF CheckDisplay, IInv
  <2>2. ~Detected
    BY <2>1 DEF IInv, PublishedIsChecked, AllChecked
  <2> QED
    BY <2>2, <1>6 DEF CheckDisplay, Detected
<1>7. CASE Discard
  BY <1>1, <1>7 DEF Discard, Detected
<1>8. CASE Replug
  BY <1>2, <1>8 DEF Replug, checks, numbers
<1>9. CASE UNCHANGED vars
  BY <1>2, <1>9 DEF vars, checks, numbers
<1> QED
  BY <1>1, <1>2, <1>3, <1>4, <1>5, <1>6, <1>7, <1>8, <1>9 DEF Next, Detecting

(* The numbers count from 1 without a gap, unless every display of the list *)
(* had a number and a phantom was found among them: the only way to the gap *)
(* of NoGap is that filter_phantom_displays answers by the displays that    *)
(* were invalid before it ran.                                              *)
THEOREM GapsAreExplained == Spec => [](PhantomAmongNumbered \/ NoGap)
<1>1. Init => NoGap
  BY DEF Init, NoGap, Detected
<1> QED
  BY <1>1, StepFills, InvariantHolds, PTL DEF Spec

=============================================================================
