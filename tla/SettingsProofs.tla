--------------------------- MODULE SettingsProofs ---------------------------
(***************************************************************************)
(* SettingsData, for any number of callers, settings and calls: what the   *)
(* object forgets, and what makes a reading of all settings fail.  Both    *)
(* follow from what a reading under way knows of its list (CallInv): the   *)
(* settings on it that the object has lost since were not there, and the   *)
(* inverter was no slave when the list was made.                           *)
(***************************************************************************)
EXTENDS SettingsData, TLAPS, WellFoundedInduction

SInv == TypeOK /\ FamilyInv /\ CallInv

-----------------------------------------------------------------------------
(* The setting under way. *)

LEMMA LeastPlace ==
    ASSUME NEW T \in SUBSET Nat, T # {}
    PROVE  \E t \in T : \A u \in T : t <= u
<1>1. \E t \in T : \A u \in T : <<u, t>> \notin OpToRel(<, Nat)
  BY NatLessThanWellFounded, WFMin
<1>2. \A t, u \in Nat : <<u, t>> \notin OpToRel(<, Nat) => t <= u
  BY DEF OpToRel
<1> QED
  BY <1>1, <1>2

\* The table has a first setting of those still to be read.
LEMMA FirstIsRead ==
    ASSUME NEW todo \in SUBSET Settings, todo # {}
    PROVE  First(todo) \in todo
<1>1. ASSUME NEW s \in Settings PROVE Place(s) \in Nat
  <2>1. \E i \in DOMAIN Order : Order[i] = s
    BY <1>1 DEF Settings, Range
  <2>2. DOMAIN Order \subseteq Nat
    BY SettingsAssumption
  <2> QED
    BY <2>1, <2>2 DEF Place
<1> DEFINE T == {Place(s) : s \in todo}
<1>2. T \in SUBSET Nat /\ T # {}
  BY <1>1
<1> HIDE DEF T
<1>3. PICK p \in T : \A q \in T : p <= q
  BY <1>2, LeastPlace
<1>4. \E s \in todo : \A t \in todo : Place(s) <= Place(t)
  BY <1>3 DEF T
<1> QED
  BY <1>4 DEF First

Calls == [all : BOOLEAN, todo : SUBSET Settings, listed : SUBSET Settings, result : Results]

\* The call goes on with a setting it still has to read, or has an end.
LEMMA ProceedFacts ==
    ASSUME NEW k \in Calls, NEW todo \in SUBSET Settings
    PROVE  /\ Proceed(k, todo) \in Calls
           /\ Proceed(k, todo).all = k.all /\ Proceed(k, todo).listed = k.listed
           /\ Proceed(k, todo).todo = todo
           /\ Proceed(k, todo).result = "running" => todo # {}
           /\ Proceed(k, todo).result = "failed" => todo # {} /\ Barred(First(todo))
<1>1. PICK r \in Results :
         /\ Proceed(k, todo) = [k EXCEPT !.todo = todo, !.result = r]
         /\ r = "running" => todo # {}
         /\ r = "failed" => todo # {} /\ Barred(First(todo))
  <2>1. CASE todo = {}
    BY <2>1 DEF Proceed, Results
  <2>2. CASE todo # {} /\ Barred(First(todo))
    BY <2>2 DEF Proceed, Results
  <2>3. CASE todo # {} /\ ~Barred(First(todo))
    BY <2>3 DEF Proceed, Results
  <2> QED
    BY <2>1, <2>2, <2>3
<1> QED
  BY <1>1 DEF Calls

-----------------------------------------------------------------------------
(* What a request does to its call. *)

GoesOn(c) == Valued(c) \/ call' = [call EXCEPT ![c].result = "failed"]

\* A call goes on, or fails over an exception that is not caught or a setting that
\* has become barred.
LEMMA GoesOnFacts ==
    ASSUME SInv, NEW c \in Callers, Running(c), GoesOn(c)
    PROVE  /\ call' \in [Callers -> Calls]
           /\ \A d \in Callers : d # c => call'[d] = call[d]
           /\ Current(c) \in call[c].listed /\ Current(c) \in Settings
           /\ call'[c].all = call[c].all /\ call'[c].listed = call[c].listed
           /\ Running(c)' => call'[c].todo # {} /\ call'[c].todo \subseteq call'[c].listed
           /\ Valued(c) /\ call'[c].result = "failed" => \E s \in call[c].listed : Barred(s)
<1>1. /\ call \in [Callers -> Calls] /\ call[c] \in Calls
      /\ call[c].todo \in SUBSET Settings /\ call[c].todo # {}
      /\ call[c].todo \subseteq call[c].listed
  BY DEF SInv, TypeOK, CallInv, Calls
<1>2. Current(c) \in call[c].todo
  BY <1>1, FirstIsRead DEF Current
<1>3. CASE Valued(c)
  <2> DEFINE rest == call[c].todo \ {Current(c)}
  <2>1. rest \in SUBSET Settings /\ rest \subseteq call[c].listed
    BY <1>1
  <2> HIDE DEF rest
  <2>2. call' = [call EXCEPT ![c] = Proceed(call[c], rest)]
    BY <1>3 DEF Valued, rest
  <2>3. rest # {} => First(rest) \in rest
    BY <2>1, FirstIsRead
  <2>4. /\ Proceed(call[c], rest) \in Calls
        /\ Proceed(call[c], rest).all = call[c].all
        /\ Proceed(call[c], rest).listed = call[c].listed
        /\ Proceed(call[c], rest).todo = rest
        /\ Proceed(call[c], rest).result = "running" => rest # {}
        /\ Proceed(call[c], rest).result = "failed" => rest # {} /\ Barred(First(rest))
    BY <1>1, <2>1, ProceedFacts
  <2>5. call'[c] = Proceed(call[c], rest)
    BY <1>1, <2>2
  <2>6. Running(c)' => call'[c].todo # {}
    BY <2>4, <2>5 DEF Running
  <2>7. call'[c].result = "failed" => \E s \in call[c].listed : Barred(s)
    BY <2>1, <2>3, <2>4, <2>5
  <2> QED
    BY <1>1, <1>2, <2>1, <2>2, <2>4, <2>5, <2>6, <2>7
<1>4. CASE call' = [call EXCEPT ![c].result = "failed"] /\ ~Valued(c)
  <2>1. call'[c] = [call[c] EXCEPT !.result = "failed"]
    BY <1>1, <1>4
  <2>2. call'[c] \in Calls /\ call' \in [Callers -> Calls]
    BY <1>1, <1>4, <2>1 DEF Calls, Results
  <2> QED
    BY <1>1, <1>2, <1>4, <2>1, <2>2 DEF Calls, Running
<1> QED
  BY <1>3, <1>4 DEF GoesOn

\* A request of a call that is under way is concluded.
Concludes(c) == Answered(c) \/ Refused(c) \/ Rejected(c) \/ GivenUp(c)

LEMMA ConcludesFacts ==
    ASSUME SInv, NEW c \in Callers, Concludes(c)
    PROVE  /\ Running(c) /\ GoesOn(c)
           /\ UNCHANGED <<family, contents, slave, begun>>
           /\ refused \subseteq refused'
           /\ \/ known' = known
              \/ /\ family = "DT" /\ known' = known \ {Current(c)}
                 /\ contents[Current(c)] = "illegal" /\ Current(c) \in refused'
           /\ refused' \subseteq refused \union {Current(c)}
           /\ \A d \in Callers : d # c => snags'[d] = snags[d]
           /\ snags[c] \subseteq snags'[c]
           /\ snags'[c] \subseteq snags[c] \union {"rejected", "failed"}
<1>1. \A x : Raises(c, x) => GoesOn(c)
  BY DEF Raises, GoesOn
<1>2. Valued(c) => GoesOn(c)
  BY DEF GoesOn
<1>3. snags \in [Callers -> SUBSET {"rejected", "failed", "turned"}]
  BY DEF SInv, TypeOK
<1>4. CASE Answered(c)
  BY <1>1, <1>2, <1>4 DEF Answered
<1>5. CASE Refused(c)
  BY <1>1, <1>5 DEF Refused, Forgotten
<1>6. CASE Rejected(c)
  BY <1>1, <1>2, <1>3, <1>6 DEF Rejected
<1>7. CASE GivenUp(c)
  BY <1>1, <1>3, <1>7 DEF GivenUp
<1> QED
  BY <1>4, <1>5, <1>6, <1>7 DEF Concludes

-----------------------------------------------------------------------------
(* The invariant. *)

LEMMA InitSInv == Init => SInv
<1> SUFFICES ASSUME Init PROVE SInv
  OBVIOUS
<1>1. NoCall \in Calls /\ ~(NoCall.result = "running")
  BY DEF NoCall, Calls, Results
<1>2. \A c \in Callers : call[c] = NoCall
  BY DEF Init
<1>3. known \subseteq Settings
  BY SettingsAssumption DEF Init, Settings
<1>4. TypeOK
  <2>1. call \in [Callers -> Calls]
    BY <1>1 DEF Init
  <2>2. begun \in 0..MaxCalls
    BY SettingsAssumption DEF Init
  <2>3. /\ family \in {"ET", "DT", "HCA"} /\ contents \in [Settings -> Contents] /\ slave \in BOOLEAN
        /\ refused \subseteq Settings /\ snags \in [Callers -> SUBSET {"rejected", "failed", "turned"}]
    BY DEF Init
  <2> QED
    BY <1>3, <2>1, <2>2, <2>3 DEF TypeOK, Calls
<1>5. FamilyInv
  BY DEF Init, FamilyInv
<1>6. CallInv
  BY <1>1, <1>2 DEF CallInv, Running
<1> QED
  BY <1>4, <1>5, <1>6 DEF SInv

LEMMA StepConcludes ==
    ASSUME SInv, NEW c \in Callers, Concludes(c)
    PROVE  SInv'
<1>1. TypeOK'
  <2>1. call' \in [Callers -> Calls] /\ Current(c) \in Settings
    BY ConcludesFacts, GoesOnFacts
  <2>2. snags' \in [Callers -> SUBSET {"rejected", "failed", "turned"}]
    BY DEF Concludes, Answered, Refused, Rejected, GivenUp, SInv, TypeOK
  <2> QED
    BY <2>1, <2>2, ConcludesFacts DEF SInv, TypeOK, Calls
<1>2. FamilyInv'
  BY ConcludesFacts DEF SInv, FamilyInv
<1>3. ASSUME NEW d \in Callers, Running(d)'
      PROVE  /\ Running(d) /\ call'[d].listed = call[d].listed /\ call'[d].all = call[d].all
             /\ call'[d].todo # {} /\ call'[d].todo \subseteq call'[d].listed
  <2>1. CASE d = c
    BY <1>3, <2>1, ConcludesFacts, GoesOnFacts
  <2>2. CASE d # c
    BY <1>3, <2>2, ConcludesFacts, GoesOnFacts DEF Running, SInv, CallInv
  <2> QED
    BY <2>1, <2>2
<1>4. ASSUME NEW d \in Callers, Running(d)', call'[d].all
      PROVE  /\ \A s \in call'[d].listed \ known' : family' = "DT" /\ contents'[s] = "illegal"
             /\ slave' /\ call'[d].listed \intersect Restricted # {} => "turned" \in snags'[d]
  BY <1>3, <1>4, ConcludesFacts DEF SInv, CallInv
<1>5. CallInv'
  BY <1>3, <1>4 DEF CallInv
<1> QED
  BY <1>1, <1>2, <1>5 DEF SInv

LEMMA StepBegins ==
    ASSUME SInv, NEW c \in Callers, ReadSetting(c) \/ ReadSettingsData(c)
    PROVE  SInv'
<1>1. PICK all \in BOOLEAN, todo \in SUBSET Settings :
         /\ Begin(c, all, todo)
         /\ all => todo = Listed
  <2>1. Listed \in SUBSET Settings
    BY DEF Listed, SInv, TypeOK
  <2>2. CASE ReadSetting(c)
    BY <2>2 DEF ReadSetting
  <2>3. CASE ReadSettingsData(c)
    BY <2>1, <2>3 DEF ReadSettingsData
  <2> QED
    BY <2>2, <2>3
<1> DEFINE k == [NoCall EXCEPT !.all = all, !.listed = todo]
<1>2. k \in Calls /\ k.all = all /\ k.listed = todo
  BY DEF NoCall, Calls, Results
<1> HIDE DEF k
<1>3. call' = [call EXCEPT ![c] = Proceed(k, todo)]
  BY <1>1 DEF Begin, k
<1>4. /\ Proceed(k, todo) \in Calls
      /\ Proceed(k, todo).all = all /\ Proceed(k, todo).listed = todo
      /\ Proceed(k, todo).todo = todo
      /\ Proceed(k, todo).result = "running" => todo # {}
  BY <1>2, ProceedFacts
<1>5. /\ call \in [Callers -> Calls] /\ call'[c] = Proceed(k, todo)
      /\ \A d \in Callers : d # c => call'[d] = call[d] /\ snags'[d] = snags[d]
      /\ UNCHANGED <<family, contents, known, slave, refused>> /\ ~Running(c)
      /\ begun' = begun + 1 /\ begun < MaxCalls /\ snags' = [snags EXCEPT ![c] = {}]
  BY <1>1, <1>3 DEF Begin, SInv, TypeOK, Calls
<1>6. TypeOK'
  <2>1. call' \in [Callers -> Calls]
    BY <1>3, <1>4, <1>5
  <2>2. begun' \in 0..MaxCalls
    BY <1>5, SettingsAssumption DEF SInv, TypeOK
  <2>3. snags' \in [Callers -> SUBSET {"rejected", "failed", "turned"}]
    BY <1>5 DEF SInv, TypeOK
  <2>4. /\ family' \in {"ET", "DT", "HCA"} /\ contents' \in [Settings -> Contents]
        /\ known' \subseteq Settings /\ slave' \in BOOLEAN /\ refused' \subseteq Settings
    BY <1>5 DEF SInv, TypeOK
  <2> QED
    BY <2>1, <2>2, <2>3, <2>4 DEF TypeOK, Calls
<1>7. FamilyInv'
  BY <1>5 DEF SInv, FamilyInv
<1>8. CallInv'
  <2>1. ASSUME NEW d \in Callers, d # c, Running(d)'
        PROVE  /\ call'[d].todo # {} /\ call'[d].todo \subseteq call'[d].listed
               /\ call'[d].all =>
                   /\ \A s \in call'[d].listed \ known' : family' = "DT" /\ contents'[s] = "illegal"
                   /\ slave' /\ call'[d].listed \intersect Restricted # {} => "turned" \in snags'[d]
    BY <1>5, <2>1 DEF SInv, CallInv, Running
  <2>2. ASSUME Running(c)'
        PROVE  /\ call'[c].todo # {} /\ call'[c].todo \subseteq call'[c].listed
               /\ call'[c].all =>
                   /\ \A s \in call'[c].listed \ known' : family' = "DT" /\ contents'[s] = "illegal"
                   /\ slave' /\ call'[c].listed \intersect Restricted # {} => "turned" \in snags'[c]
    BY <1>1, <1>4, <1>5, <2>2 DEF Running, Listed
  <2> QED
    BY <2>1, <2>2 DEF CallInv
<1> QED
  BY <1>6, <1>7, <1>8 DEF SInv

LEMMA StepDeviceInfo ==
    ASSUME SInv, DeviceInfoRead
    PROVE  SInv'
<1>1. /\ family' = family /\ contents' = contents /\ call' = call
      /\ begun' = begun /\ refused' = refused
      /\ known \subseteq known' /\ known' \subseteq Settings
  <2>1. Variant \subseteq Settings
    BY SettingsAssumption DEF Settings
  <2> QED
    BY <2>1 DEF DeviceInfoRead, SInv, TypeOK
<1>2. slave' = slave \/ (family = "ET" /\ slave' = ~slave)
  BY DEF DeviceInfoRead
<1>3. slave' \in BOOLEAN /\ (slave' => family = "ET")
  <2>1. slave \in BOOLEAN /\ (slave => family = "ET")
    BY DEF SInv, TypeOK, FamilyInv
  <2>2. CASE slave' = slave
    BY <2>1, <2>2, Zenon
  <2>3. CASE family = "ET" /\ slave' = ~slave
    <3>1. (~slave) \in BOOLEAN
      OBVIOUS
    <3> QED
      BY <2>3, <3>1, Zenon
  <2> QED
    BY <1>2, <2>2, <2>3, Zenon
<1>4. /\ snags' = [c \in Callers |-> IF Running(c) /\ slave' # slave
                                     THEN snags[c] \union {"turned"} ELSE snags[c]]
      /\ snags \in [Callers -> SUBSET {"rejected", "failed", "turned"}]
  BY DEF DeviceInfoRead, SInv, TypeOK
<1>5. /\ snags' \in [Callers -> SUBSET {"rejected", "failed", "turned"}]
      /\ \A c \in Callers : snags[c] \subseteq snags'[c]
  BY <1>4
<1>6. \A c \in Callers : Running(c) => slave' = slave \/ "turned" \in snags'[c]
  BY <1>4, Zenon
<1>7. TypeOK'
  BY <1>1, <1>3, <1>5 DEF SInv, TypeOK
<1>8. FamilyInv'
  BY <1>1, <1>3 DEF SInv, FamilyInv
<1>9. ASSUME NEW c \in Callers, Running(c)', call'[c].all,
             slave', call'[c].listed \intersect Restricted # {}
      PROVE  "turned" \in snags'[c]
  <2>1. Running(c) /\ call[c].all /\ call[c].listed \intersect Restricted # {}
    BY <1>1, <1>9 DEF Running
  <2>2. slave => "turned" \in snags[c]
    BY <2>1 DEF SInv, CallInv
  <2>3. slave' = slave => "turned" \in snags[c]
    BY <1>9, <2>2, Zenon
  <2> QED
    BY <1>5, <1>6, <2>1, <2>3
<1>10. CallInv'
  BY <1>1, <1>9 DEF SInv, CallInv, Running
<1> QED
  BY <1>7, <1>8, <1>10 DEF SInv

LEMMA SInvStep ==
    ASSUME SInv, [Next]_vars
    PROVE  SInv'
<1>1. CASE UNCHANGED vars
  BY <1>1 DEF vars, SInv, TypeOK, FamilyInv, CallInv, Running
<1> QED
  BY <1>1, StepConcludes, StepBegins, StepDeviceInfo DEF Next, Concludes

-----------------------------------------------------------------------------
(* Why a reading of all settings fails. *)

\* Only a request of its own ends a reading.
LEMMA FailsByItself ==
    ASSUME SInv, [Next]_vars, NEW c \in Callers, FailsAll(c)
    PROVE  Concludes(c)
<1>1. Running(c) /\ call'[c] # call[c] /\ call' # call
  BY DEF FailsAll, Running
<1>2. ASSUME NEW d \in Callers, ReadSetting(d) \/ ReadSettingsData(d) PROVE FALSE
  <2>1. ~Running(d) /\ \E k : call' = [call EXCEPT ![d] = k]
    BY <1>2 DEF ReadSetting, ReadSettingsData, Begin
  <2> QED
    BY <1>1, <2>1 DEF SInv, TypeOK
<1>3. ASSUME NEW d \in Callers, Concludes(d) PROVE d = c
  BY <1>1, <1>3, ConcludesFacts, GoesOnFacts
<1>4. ~DeviceInfoRead /\ ~UNCHANGED vars
  BY <1>1 DEF DeviceInfoRead, vars
<1> QED
  BY <1>2, <1>3, <1>4 DEF Next, Concludes

\* It is barred from a setting only by another caller's request, which found that
\* setting missing, or by news about the topology.
LEMMA BarredForCause ==
    ASSUME SInv, NEW c \in Callers, Running(c), call[c].all,
           NEW s \in call[c].listed, Barred(s)
    PROVE  \/ family = "DT" /\ contents[s] = "illegal" /\ s \notin known
           \/ family = "ET" /\ "turned" \in snags[c]
  BY DEF SInv, CallInv, FamilyInv, Barred

LEMMA FailsForCause ==
    ASSUME SInv, NEW c \in Callers, Concludes(c), FailsAll(c)
    PROVE  \/ \E s \in call[c].listed : Barred(s) /\ known' = known
           \/ /\ Answered(c) /\ Current(c) \in call[c].listed
              /\ contents[Current(c)] \in {"ValueError", "TypeError"} \ Caught
           \/ /\ Refused(c) /\ Current(c) \in call[c].listed
              /\ contents[Current(c)] = "illegal" /\ family # "ET"
           \/ family = "HCA" /\ "rejected" \in snags'[c]
           \/ family = "DT" /\ "failed" \in snags'[c]
<1>1. /\ call[c].all /\ call'[c].result = "failed"
      /\ Current(c) \in call[c].listed /\ Current(c) \in Settings
      /\ contents[Current(c)] \in Contents
      /\ snags \in [Callers -> SUBSET {"rejected", "failed", "turned"}]
      /\ family \in {"ET", "DT", "HCA"}
  BY ConcludesFacts, GoesOnFacts DEF FailsAll, SInv, TypeOK
<1>2. CASE Valued(c) /\ ~Refused(c)
  <2>1. known' = known
    BY <1>2 DEF Concludes, Answered, Rejected, GivenUp
  <2> QED
    BY <1>1, <1>2, <2>1, ConcludesFacts, GoesOnFacts
<1>3. CASE Answered(c) /\ ~Valued(c)
  BY <1>1, <1>3 DEF Answered, Raises, Contents
<1>4. CASE Refused(c)
  <2>1. CASE family = "ET"
    <3>1. Valued(c) /\ known' = known
      BY <1>1, <1>4, <2>1 DEF Refused, Raises, Caught, Forgotten
    <3> QED
      BY <1>1, <3>1, ConcludesFacts, GoesOnFacts
  <2>2. CASE family # "ET"
    BY <1>1, <1>4, <2>2 DEF Refused
  <2> QED
    BY <2>1, <2>2
<1>5. CASE Rejected(c) /\ ~Valued(c)
  BY <1>1, <1>5 DEF Rejected
<1>6. CASE GivenUp(c) /\ ~Valued(c)
  BY <1>1, <1>6 DEF GivenUp, Raises, Caught
<1> QED
  BY <1>2, <1>3, <1>4, <1>5, <1>6 DEF Concludes

-----------------------------------------------------------------------------
(* The theorems. *)

\* Calls keep their types and what they know of the settings on their list.
THEOREM SettingsInvariance == Spec => []SInv
<1>1. Init => SInv
  BY InitSInv
<1>2. SInv /\ [Next]_vars => SInv'
  BY SInvStep
<1> QED
  BY <1>1, <1>2, PTL DEF Spec

\* A setting is struck off only after the inverter refused it: no lost answer and no
\* other rejection, of any caller, costs one (et.py:1246, dt.py:250-254).
THEOREM SettingsAreKept == Spec => []SettingsKeptUnlessRefused
<1>1. Init => SettingsKeptUnlessRefused
  BY DEF Init, SettingsKeptUnlessRefused
<1>2. SInv /\ SettingsKeptUnlessRefused /\ [Next]_vars => SettingsKeptUnlessRefused'
  <2> SUFFICES ASSUME SInv, SettingsKeptUnlessRefused, [Next]_vars
               PROVE  SettingsKeptUnlessRefused'
    OBVIOUS
  <2>1. ASSUME NEW c \in Callers, Concludes(c) PROVE SettingsKeptUnlessRefused'
    BY <2>1, ConcludesFacts DEF SettingsKeptUnlessRefused
  <2>2. ASSUME UNCHANGED <<family, refused>>, known \subseteq known'
        PROVE  SettingsKeptUnlessRefused'
    BY <2>2 DEF SettingsKeptUnlessRefused
  <2>3. ASSUME NEW c \in Callers, ReadSetting(c) \/ ReadSettingsData(c)
        PROVE  SettingsKeptUnlessRefused'
    BY <2>2, <2>3 DEF ReadSetting, ReadSettingsData, Begin
  <2>4. CASE DeviceInfoRead
    BY <2>2, <2>4 DEF DeviceInfoRead
  <2>5. CASE UNCHANGED vars
    BY <2>2, <2>5 DEF vars
  <2> QED
    BY <2>1, <2>3, <2>4, <2>5 DEF Next, Concludes
<1> QED
  BY <1>1, <1>2, SettingsInvariance, PTL DEF Spec

\* A reading of all settings survives what befalls a single one, with the exceptions
\* of its family (et.py:1274-1283, dt.py:272-278, hca.py).
THEOREM ReadingsFailForCause == Spec => ReadingFailsForCause
<1> DEFINE Cause(c) ==
      FailsAll(c) =>
        LET held == {contents[s] : s \in call[c].listed} IN
            CASE family = "ET" -> "turned" \in snags[c] \/ "TypeError" \in held
              [] family = "HCA" -> "illegal" \in held \/ "rejected" \in snags'[c]
              [] family = "DT" -> held # {"value"} \/ "failed" \in snags'[c]
<1>1. ASSUME SInv, [Next]_vars, NEW c \in Callers, FailsAll(c) PROVE Cause(c)
  <2> DEFINE held == {contents[s] : s \in call[c].listed}
  <2>1. Running(c) /\ call[c].all /\ Concludes(c) /\ call[c].listed \subseteq Settings
    BY <1>1, FailsByItself DEF FailsAll, SInv, TypeOK
  <2>2. \A s \in call[c].listed : contents[s] \in held
    OBVIOUS
  <2>3. family \in {"ET", "DT", "HCA"}
    BY <1>1 DEF SInv, TypeOK
  <2>4. /\ family = "ET" => "turned" \in snags[c] \/ "TypeError" \in held
        /\ family = "HCA" => "illegal" \in held \/ "rejected" \in snags'[c]
        /\ family = "DT" => held # {"value"} \/ "failed" \in snags'[c]
    <3>1. CASE \E s \in call[c].listed : Barred(s)
      <4>1. PICK s \in call[c].listed : Barred(s)
        BY <3>1
      <4> QED
        BY <1>1, <2>1, <2>2, <4>1, BarredForCause
    <3>2. CASE /\ Current(c) \in call[c].listed
               /\ contents[Current(c)] \in {"ValueError", "TypeError"} \ Caught
      <4>1. contents[Current(c)] \in held /\ Current(c) \in Settings
        BY <2>1, <2>2, <3>2
      <4> QED
        BY <1>1, <3>2, <4>1 DEF Caught, SInv, FamilyInv
    <3>3. CASE /\ Current(c) \in call[c].listed
               /\ contents[Current(c)] = "illegal" /\ family # "ET"
      BY <2>2, <3>3
    <3> QED
      BY <1>1, <2>1, <3>1, <3>2, <3>3, FailsForCause
  <2> QED
    BY <2>3, <2>4
<1> HIDE DEF Cause
<1>2. SInv /\ [Next]_vars => [\A c \in Callers : Cause(c)]_vars
  BY <1>1 DEF Cause
<1> QED
  BY <1>2, SettingsInvariance, PTL DEF Spec, ReadingFailsForCause, Cause

\* A DT reading that fails over registers that are not there has cost the map one of
\* the settings it set out to read (dt.py:247-278).
THEOREM FailuresForgetASetting == Spec => FailureForgetsASetting
<1> DEFINE Forgets(c) ==
      FailsAll(c) /\ family = "DT" /\ "failed" \notin snags'[c]
        /\ (\A s \in call[c].listed : contents[s] # "ValueError") =>
            ~(call[c].listed \subseteq known')
<1>1. ASSUME SInv, [Next]_vars, NEW c \in Callers, FailsAll(c), family = "DT",
             "failed" \notin snags'[c], \A s \in call[c].listed : contents[s] # "ValueError"
      PROVE  ~(call[c].listed \subseteq known')
  <2>1. Running(c) /\ call[c].all /\ Concludes(c) /\ call[c].listed \subseteq Settings
    BY <1>1, FailsByItself DEF FailsAll, SInv, TypeOK
  <2>2. CASE \E s \in call[c].listed : Barred(s) /\ known' = known
    <3>1. PICK s \in call[c].listed : Barred(s) /\ known' = known
      BY <2>2
    <3> QED
      BY <1>1, <2>1, <3>1, BarredForCause
  <2>3. CASE Refused(c) /\ Current(c) \in call[c].listed
    BY <1>1, <2>3 DEF Refused, Forgotten
  <2>4. ~(/\ Current(c) \in call[c].listed
          /\ contents[Current(c)] \in {"ValueError", "TypeError"} \ Caught)
    BY <1>1, <2>1 DEF SInv, FamilyInv
  <2> QED
    BY <1>1, <2>1, <2>2, <2>3, <2>4, FailsForCause
<1>2. SInv /\ [Next]_vars => [\A c \in Callers : Forgets(c)]_vars
  BY <1>1
<1> HIDE DEF Forgets
<1> QED
  BY <1>2, SettingsInvariance, PTL DEF Spec, FailureForgetsASetting, Forgets
=============================================================================
