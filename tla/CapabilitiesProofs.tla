-------------------------- MODULE CapabilitiesProofs --------------------------
(***************************************************************************)
(* Capabilities, for any callers, features, inverters and number of calls: *)
(* what a reading asks for, what the object gives up, and what a reading   *)
(* that succeeds has filled.  A reading may be overtaken by others between *)
(* any two of its requests, so each proof goes through what the flags, the *)
(* refusals and the block under way have to do with each other.            *)
(***************************************************************************)
EXTENDS Capabilities, TLAPS

-----------------------------------------------------------------------------
(* The order of the blocks *)

LEMMA Places ==
    /\ Blocks = {"running", "battery", "battery2", "backup", "meter", "mppt", "parallel",
                 "meter1", "meter2"}
    /\ Place("running") = 1 /\ Place("battery") = 2 /\ Place("battery2") = 3
    /\ Place("backup") = 4 /\ Place("meter") = 5 /\ Place("meter1") = 5 /\ Place("meter2") = 5
    /\ Place("mppt") = 6 /\ Place("parallel") = 7
    /\ \A i \in 1..7 : Order[i] \in Blocks \ {"meter1", "meter2"} /\ Place(Order[i]) = i
<1>1. /\ Order[1] = "running" /\ Order[2] = "battery" /\ Order[3] = "battery2"
      /\ Order[4] = "backup" /\ Order[5] = "meter" /\ Order[6] = "mppt" /\ Order[7] = "parallel"
  BY DEF Order
<1>2. 1..7 = {1, 2, 3, 4, 5, 6, 7}
  OBVIOUS
<1>3. Blocks = {"running", "battery", "battery2", "backup", "meter", "mppt", "parallel",
                "meter1", "meter2"}
  BY <1>1, <1>2 DEF Blocks, MeterBlocks
<1>4. ASSUME NEW i \in 1..7, Order[i] # "meter" PROVE Place(Order[i]) = i
  <2>1. \A j \in 1..7 : Order[j] = Order[i] => j = i
    BY <1>1, <1>2
  <2>2. Order[i] \notin MeterBlocks
    BY <1>1, <1>2, <1>4 DEF MeterBlocks
  <2> QED
    BY <2>1, <2>2 DEF Place
<1>5. Place("meter") = 5 /\ Place("meter1") = 5 /\ Place("meter2") = 5
  BY DEF Place, MeterBlocks
<1>6. \A i \in 1..7 : Order[i] \in Blocks \ {"meter1", "meter2"}
  BY <1>1, <1>2, <1>3
<1>7. /\ Place("running") = 1 /\ Place("battery") = 2 /\ Place("battery2") = 3
      /\ Place("backup") = 4 /\ Place("mppt") = 6 /\ Place("parallel") = 7
  <2>1. /\ Place(Order[1]) = 1 /\ Place(Order[2]) = 2 /\ Place(Order[3]) = 3
        /\ Place(Order[4]) = 4 /\ Place(Order[6]) = 6 /\ Place(Order[7]) = 7
    BY <1>1, <1>4
  <2> QED
    BY <1>1, <2>1
<1>8. \A i \in 1..7 : Place(Order[i]) = i
  BY <1>1, <1>2, <1>4, <1>5
<1> QED
  BY <1>3, <1>5, <1>6, <1>7, <1>8

LEMMA LeastOfSeven ==
    ASSUME NEW T \in SUBSET (1..7), T # {}
    PROVE  Min(T) \in T /\ \A t \in T : Min(T) <= t
<1>1. \E t \in T : \A u \in T : t <= u
  <2>1. CASE 1 \in T
    BY <2>1
  <2>2. CASE 1 \notin T /\ 2 \in T
    BY <2>2
  <2>3. CASE T \subseteq 3..7 /\ 3 \in T
    BY <2>3
  <2>4. CASE T \subseteq 4..7 /\ 4 \in T
    BY <2>4
  <2>5. CASE T \subseteq 5..7 /\ 5 \in T
    BY <2>5
  <2>6. CASE T \subseteq 6..7 /\ 6 \in T
    BY <2>6
  <2>7. CASE T \subseteq {7}
    <3>1. T = {7}
      BY <2>7
    <3> QED
      BY <3>1
  <2> QED
    BY <2>1, <2>2, <2>3, <2>4, <2>5, <2>6, <2>7
<1> QED
  BY <1>1 DEF Min

\* Where a reading is: behind every block when it has none left.
NextPlace(b) == IF b = "none" THEN 8 ELSE Place(b)

\* The block that follows is one the flags know of, and no flagged block lies between;
\* the smaller blocks of the meter are taken only without the larger ones.
LEMMA FollowingFacts ==
    ASSUME NEW b \in Blocks, NEW has
    PROVE  LET n == Following(b, has) IN
           /\ n \in Blocks \union {"none"} /\ n # "running"
           /\ n # "none" => n \in has
           /\ \A o \in Blocks \ {"meter1", "meter2"} :
                Place(b) < Place(o) /\ Place(o) < NextPlace(n) => o \notin has
           /\ n = "meter1" => "meter2" \notin has
           /\ n = "meter" => "meter2" \notin has /\ "meter1" \notin has
<1> DEFINE wanted == {i \in (Place(b) + 1)..7 : Order[i] \in has}
<1> DEFINE next == Order[Min(wanted)]
<1>1. Place(b) \in 1..7
  BY Places
<1>2. wanted \in SUBSET (1..7)
  BY <1>1
<1>3. \A o \in Blocks \ {"meter1", "meter2"} : Place(o) \in 1..7 /\ Order[Place(o)] = o
  BY Places DEF Order
<1>4. "none" \notin Blocks
  BY Places
<1>5. CASE wanted = {}
  <2>1. Following(b, has) = "none"
    BY <1>5 DEF Following
  <2>2. ASSUME NEW o \in Blocks \ {"meter1", "meter2"}, Place(b) < Place(o), o \in has PROVE FALSE
    <3>1. Place(o) \in wanted
      BY <1>1, <1>3, <2>2
    <3> QED
      BY <1>5, <3>1
  <2> QED
    BY <2>1, <2>2
<1>6. CASE wanted # {}
  <2>1. Min(wanted) \in wanted /\ \A t \in wanted : Min(wanted) <= t
    BY <1>2, <1>6, LeastOfSeven
  <2>2. /\ next \in Blocks \ {"meter1", "meter2"} /\ next \in has
        /\ Place(next) = Min(wanted) /\ Place(next) \in 2..7
    BY <1>1, <1>2, <2>1, Places
  <2>3. next # "running"
    BY <2>2, Places
  <2>4. ASSUME NEW o \in Blocks \ {"meter1", "meter2"}, Place(b) < Place(o),
               Place(o) < Place(next), o \in has
        PROVE  FALSE
    <3>1. Place(o) \in wanted
      BY <1>1, <1>3, <2>4
    <3> QED
      BY <1>1, <1>3, <2>1, <2>2, <2>4, <3>1
  <2>5. Following(b, has) = IF next = "meter" THEN MeterBlock(has) ELSE next
    BY <1>6 DEF Following
  <2> HIDE DEF next, wanted
  <2>6. CASE next # "meter"
    BY <1>4, <2>2, <2>3, <2>4, <2>5, <2>6 DEF NextPlace
  <2>7. CASE next = "meter"
    <3>1. /\ Following(b, has) \in {"meter", "meter1", "meter2"} /\ Following(b, has) \in has
          /\ Following(b, has) = "meter1" => "meter2" \notin has
          /\ Following(b, has) = "meter" => "meter2" \notin has /\ "meter1" \notin has
      BY <2>2, <2>5, <2>7 DEF MeterBlock
    <3>2. NextPlace(Following(b, has)) = Place(next)
      BY <2>7, <3>1, Places DEF NextPlace
    <3>3. Following(b, has) \in Blocks /\ Following(b, has) # "running"
      BY <3>1, Places
    <3> QED
      BY <2>4, <3>1, <3>2, <3>3
  <2> QED
    BY <2>6, <2>7
<1> QED
  BY <1>5, <1>6

-----------------------------------------------------------------------------
(* The tables *)

\* Each filter of the meter's sensors leaves those that its block holds.
LEMMA MeterFits ==
    ASSUME NEW s \in EtMeter, NotReactiveEnergy(s)
    PROVE  /\ Span(s) \subseteq EtMeterExtended2Block
           /\ NotExtendedMeter2(s) \/ NotExtendedMeter(s) => Span(s) \subseteq EtMeterExtendedBlock
           /\ NotExtendedMeter(s) => Span(s) \subseteq EtMeterBlock
<1>1. /\ EtMeterExtended2Block = 36000..36124 /\ EtMeterExtendedBlock = 36000..36057
      /\ EtMeterBlock = 36000..36044
  BY DEF EtMeterExtended2Block, EtMeterExtendedBlock, EtMeterBlock, Block
<1>2. PICK at \in Int, words \in {1, 2, 4} :
        /\ s = Sensor(at, words)
        /\ words = 1 => at \in 36000..36057
        /\ words = 2 => at \in 36015..36041 \/ at \in 36045..36049
        /\ words = 4 => at \in 36092..36120 \/ at \in {33510, 33514}
  <2>1. CASE s \in Of(1, 36000..36014 \union 36043..36044 \union 36051..36057)
    <3>1. PICK r \in 36000..36014 \union 36043..36044 \union 36051..36057 : s = Sensor(r, 1)
      BY <2>1 DEF Of
    <3> QED
      BY <3>1
  <2>2. CASE s \in Of(2, Every(36015, 36041, 2) \union Every(36045, 36049, 2))
    <3>1. PICK r \in 36015..36041 \union 36045..36049 : s = Sensor(r, 2)
      BY <2>2 DEF Of, Every
    <3> QED
      BY <3>1
  <2>3. CASE s \in Of(4, Every(36092, 36120, 4) \union {33510, 33514})
    <3>1. PICK r \in 36092..36120 \union {33510, 33514} : s = Sensor(r, 4)
      BY <2>3 DEF Of, Every
    <3> QED
      BY <3>1
  <2> QED
    BY <2>1, <2>2, <2>3 DEF EtMeter
<1>3. s.at = at /\ s.words = words /\ Span(s) = at..(at + words - 1)
  BY <1>2 DEF Sensor, Span
<1>4. at \notin {33510, 33514}
  BY <1>3 DEF NotReactiveEnergy
<1>5. /\ NotExtendedMeter(s) => at < 36045
      /\ NotExtendedMeter2(s) => at < 36058
  BY <1>3 DEF NotExtendedMeter, NotExtendedMeter2
<1>6. at >= 36000 /\ at + words - 1 <= 36124
  BY <1>2, <1>4
<1>7. at < 36058 => at + words - 1 <= 36057
  BY <1>2, <1>4
<1>8. at < 36045 => at + words - 1 <= 36044
  BY <1>2, <1>4
<1> QED
  BY <1>1, <1>3, <1>5, <1>6, <1>7, <1>8

Tables == Blocks \union {"battery2_basic"}

\* The place of the block a table is filled from.
PlaceOf(t) == IF t = "battery2_basic" THEN 4 ELSE Place(t)

LEMMA TableFacts ==
    ASSUME NEW b \in Blocks, NEW has
    PROVE  Table(b, has) \subseteq Tables
  BY Places DEF Table, Tables, MeterBlocks

LEMMA ListedFacts ==
    ASSUME family \in {"ET", "DT"}, NEW t \in Listed
    PROVE  /\ t \in {"running", "battery", "battery2", "backup", "meter", "mppt", "parallel",
                     "battery2_basic"}
           /\ t \in {"battery", "battery2", "backup", "mppt", "parallel"} => t \in flags
           /\ t = "battery2_basic" => "backup" \in flags /\ "battery2" \in flags
           /\ t = "meter" => family = "ET" \/ "meter" \in flags
  BY DEF Listed

-----------------------------------------------------------------------------
(* The invariant *)

Calls == [next : Blocks \union {"none"}, got : SUBSET Tables, known : SUBSET Blocks,
          alone : BOOLEAN, result : {"idle", "running", "done", "failed"}]

TypeInv ==
    /\ family \in {"ET", "DT"} /\ phase \in Int
    /\ call \in [Callers -> Calls] /\ refused \subseteq Blocks \ {"running"}

\* What has been refused is flagged no more, nor are larger blocks of the meter than it;
\* the battery's flag comes back.
RefusedInv ==
    /\ ~Ready => refused = {}
    /\ \A b \in refused \ {"battery"} : b \notin flags
    /\ "meter1" \in refused => "meter2" \notin flags
    /\ "meter" \in refused => "meter2" \notin flags /\ "meter1" \notin flags

\* An ET inverter has its flags, and every sensor of the meter, but for what was refused;
\* and each extension of the meter that is not asked for has been filtered out.
KeptInv == family = "ET" =>
    /\ {"meter", "backup"} \subseteq flags \union refused
    /\ phase = 0 => narrowed = {}
    /\ ~Ready => topology = "standalone"
    /\ topology # "standalone" => "parallel" \in flags \union refused
    /\ phase >= 1 =>
         /\ inverter.twoBatteries => "battery2" \in flags \union refused
         /\ inverter.big => {"mppt", "meter1", "meter2"} \subseteq flags \union refused
         /\ "extended2" \in narrowed => "meter2" \in refused
         /\ "extended" \in narrowed => ~inverter.big \/ "meter1" \in refused
         /\ "reactive" \in narrowed
         /\ "meter1" \in flags \/ "extended" \in narrowed
         /\ "meter2" \in flags \/ "extended" \in narrowed \/ "extended2" \in narrowed

\* What a reading asks for was not refused before it began, and the smaller blocks
\* of the meter are asked for only when the larger ones are given up.
WantsInv(c) == Asking(c) =>
    /\ Ready /\ call[c].next \in Blocks /\ call[c].known \subseteq refused
    /\ call[c].next \notin call[c].known \ {"battery"}
    /\ call[c].next = "meter2" => "meter1" \notin call[c].known /\ "meter" \notin call[c].known
    /\ call[c].next = "meter1" => "meter2" \notin flags /\ "meter" \notin call[c].known
    /\ call[c].next = "meter" => "meter2" \notin flags /\ "meter1" \notin flags

AloneInv == \A c, d \in Callers : c # d /\ Asking(c) /\ Asking(d) => ~call[c].alone

\* Up to the block under way, every table that is listed has been filled, or is excused.
Excused(c, t) ==
    \/ t = "meter" /\ family = "ET" /\ "meter" \notin flags
    \/ t = "battery" /\ ~call[c].alone
Delivered(c) == \A t \in Listed :
    PlaceOf(t) < NextPlace(call[c].next) => t \in call[c].got \/ Excused(c, t)

CapabilitiesInv ==
    /\ TypeInv /\ RefusedInv /\ KeptInv /\ AloneInv
    /\ \A c \in Callers : WantsInv(c)
    /\ \A c \in Callers : Asking(c) => Delivered(c)

-----------------------------------------------------------------------------
(* What a step of a reading does to it, and to the others *)

LEMMA NothingAskedYet ==
    ASSUME CapabilitiesInv, ~Ready
    PROVE  refused = {} /\ \A c \in Callers : ~Asking(c)
  BY DEF CapabilitiesInv, RefusedInv, WantsInv

LEMMA ContinueFacts ==
    ASSUME TypeInv, NEW c \in Callers, NEW n \in Blocks \union {"none"},
           NEW got \in SUBSET Tables, Asking(c), Continue(c, n, got)
    PROVE  /\ call' \in [Callers -> Calls]
           /\ \A d \in Callers \ {c} : call'[d] = call[d]
           /\ call'[c].next = n /\ call'[c].got = got /\ call'[c].alone = call[c].alone
           /\ call'[c].result = IF n = "none" THEN "done" ELSE "running"
           /\ call'[c].known \subseteq call[c].known
<1>1. call \in [Callers -> Calls] /\ call[c] \in Calls /\ call[c].result = "running"
  BY DEF TypeInv, Asking
<1>2. CASE n = "none"
  <2> DEFINE k == [call[c] EXCEPT !.next = n, !.got = got, !.known = {}, !.result = "done"]
  <2>1. call' = [call EXCEPT ![c] = k]
    BY <1>1, <1>2 DEF Continue
  <2>2. k \in Calls /\ k.next = n /\ k.got = got /\ k.alone = call[c].alone
        /\ k.result = "done" /\ k.known = {}
    BY <1>1 DEF Calls
  <2> HIDE DEF k
  <2> QED
    BY <1>1, <1>2, <2>1, <2>2
<1>3. CASE n # "none"
  <2> DEFINE k == [call[c] EXCEPT !.next = n, !.got = got]
  <2>1. call' = [call EXCEPT ![c] = k]
    BY <1>1, <1>3 DEF Continue
  <2>2. k \in Calls /\ k.next = n /\ k.got = got /\ k.alone = call[c].alone
        /\ k.result = call[c].result /\ k.known = call[c].known
    BY <1>1 DEF Calls
  <2> HIDE DEF k
  <2> QED
    BY <1>1, <1>3, <2>1, <2>2
<1> QED
  BY <1>2, <1>3

\* The others' readings are where they were, whatever flag was dropped; the battery's
\* was set only if they did not run alone.
LEMMA OthersStay ==
    ASSUME TypeInv, NEW d \in Callers, WantsInv(d), Asking(d) => Delivered(d),
           UNCHANGED <<family, phase, topology>>,
           flags' \subseteq flags \union {"battery"}, refused \subseteq refused',
           /\ call'[d].next = call[d].next /\ call'[d].got = call[d].got
           /\ call'[d].known = call[d].known /\ call'[d].result = call[d].result
           /\ call'[d].alone => call[d].alone,
           Asking(d) /\ "battery" \in flags' /\ "battery" \notin flags => ~call'[d].alone
    PROVE  WantsInv(d)' /\ (Asking(d) => Delivered(d))'
<1>1. WantsInv(d)'
  BY DEF WantsInv, Asking, Ready
<1>2. ASSUME Asking(d), NEW t \in Listed', PlaceOf(t) < NextPlace(call[d].next), t \notin call[d].got
      PROVE  Excused(d, t)'
  <2>1. t \in Listed \/ (t = "battery" /\ "battery" \in flags' /\ "battery" \notin flags)
    BY DEF Listed
  <2>2. CASE t = "battery" /\ "battery" \in flags' /\ "battery" \notin flags
    BY <1>2, <2>2 DEF Excused
  <2>3. CASE t \in Listed
    <3>1. Excused(d, t)
      BY <1>2, <2>3 DEF Delivered
    <3> QED
      BY <3>1 DEF Excused
  <2> QED
    BY <2>1, <2>2, <2>3
<1>3. (Asking(d) => Delivered(d))'
  BY <1>2 DEF Delivered, Asking
<1> QED
  BY <1>1, <1>3

\* A reading asks next for what the flags know of.
LEMMA WantsFollowing ==
    ASSUME TypeInv, NEW c \in Callers, NEW b \in Blocks, RefusedInv', Ready',
           call'[c].next = Following(b, flags'), call'[c].known \subseteq refused',
           call'[c].result = IF Following(b, flags') = "none" THEN "done" ELSE "running"
    PROVE  WantsInv(c)'
<1> DEFINE n == Following(b, flags')
<1>1. /\ n \in Blocks \union {"none"}
      /\ n # "none" => n \in flags'
      /\ n = "meter1" => "meter2" \notin flags'
      /\ n = "meter" => "meter2" \notin flags' /\ "meter1" \notin flags'
  BY FollowingFacts
<1>2. /\ \A o \in refused' \ {"battery"} : o \notin flags'
      /\ "meter1" \in refused' => "meter2" \notin flags'
      /\ "meter" \in refused' => "meter2" \notin flags' /\ "meter1" \notin flags'
  BY DEF RefusedInv
<1> HIDE DEF n
<1>3. /\ call'[c].next = n /\ call'[c].result = IF n = "none" THEN "done" ELSE "running"
  BY DEF n
<1>4. CASE n = "none"
  BY <1>3, <1>4 DEF WantsInv, Asking
<1>5. CASE n # "none"
  <2>1. n \in Blocks /\ n \in flags' /\ n \notin refused' \ {"battery"}
    BY <1>1, <1>2, <1>5
  <2>2. /\ n = "meter2" => "meter1" \notin refused' /\ "meter" \notin refused'
        /\ n = "meter1" => "meter" \notin refused'
    BY <1>2, <2>1
  <2>3. call'[c].next = n /\ call'[c].known \subseteq refused'
    BY <1>3
  <2> QED
    BY <1>1, <2>1, <2>2, <2>3 DEF WantsInv
<1> QED
  BY <1>4, <1>5

\* When the block under way is through, what is listed up to the next one is there.
LEMMA DeliversOn ==
    ASSUME TypeInv, NEW c \in Callers, Delivered(c), NEW b \in Blocks, call[c].next = b,
           NEW n \in Blocks \union {"none"}, call'[c].next = n,
           call'[c].alone = call[c].alone, call[c].got \subseteq call'[c].got,
           UNCHANGED <<family, topology>>, b # "running" => flags' \subseteq flags,
           \A o \in Blocks \ {"meter1", "meter2"} :
                Place(b) < Place(o) /\ Place(o) < NextPlace(n) => o \notin flags',
           \A t \in Listed' : PlaceOf(t) = Place(b) /\ Place(b) < NextPlace(n) =>
                t \in call'[c].got \/ Excused(c, t)'
    PROVE  Delivered(c)'
<1> SUFFICES ASSUME NEW t \in Listed', PlaceOf(t) < NextPlace(n)
             PROVE  t \in call'[c].got \/ Excused(c, t)'
  BY DEF Delivered
<1>1. family \in {"ET", "DT"} /\ family' = family
  BY DEF TypeInv
<1>2. /\ t \in {"running", "battery", "battery2", "backup", "meter", "mppt", "parallel",
                "battery2_basic"}
      /\ t \in {"battery", "battery2", "backup", "mppt", "parallel"} => t \in flags'
      /\ t = "battery2_basic" => "backup" \in flags' /\ "battery2" \in flags'
      /\ t = "meter" => family = "ET" \/ "meter" \in flags'
  BY <1>1 DEF Listed
<1>3. /\ t # "battery2_basic" => t \in Blocks \ {"meter1", "meter2"} /\ PlaceOf(t) = Place(t)
      /\ t = "battery2_basic" => PlaceOf(t) = Place("backup")
      /\ PlaceOf(t) \in 1..7 /\ Place(b) \in 1..7 /\ "backup" \in Blocks
  BY <1>2, Places DEF PlaceOf
<1>4. CASE PlaceOf(t) < Place(b)
  <2>1. flags' \subseteq flags
    BY <1>3, <1>4, Places
  <2>2. t \in Listed
    BY <2>1 DEF Listed
  <2>3. NextPlace(b) = Place(b)
    BY Places DEF NextPlace
  <2>4. t \in call[c].got \/ Excused(c, t)
    BY <1>4, <2>2, <2>3 DEF Delivered
  <2>5. Excused(c, t) => Excused(c, t)'
    BY <1>1, <2>1 DEF Excused
  <2> QED
    BY <2>4, <2>5
<1>5. CASE PlaceOf(t) = Place(b)
  BY <1>5
<1>6. CASE Place(b) < PlaceOf(t)
  <2>1. CASE t = "battery2_basic"
    BY <1>2, <1>3, <1>6, <2>1
  <2>2. CASE t = "running"
    BY <1>3, <1>6, <2>2, Places
  <2>3. CASE t = "meter"
    <3>1. "meter" \notin flags'
      BY <1>3, <1>6, <2>3
    <3> QED
      BY <1>1, <1>2, <2>3, <3>1 DEF Excused
  <2>4. CASE t \in {"battery", "battery2", "backup", "mppt", "parallel"}
    BY <1>2, <1>3, <1>6, <2>4
  <2> QED
    BY <1>2, <2>1, <2>2, <2>3, <2>4
<1> QED
  BY <1>3, <1>4, <1>5, <1>6

-----------------------------------------------------------------------------
(* The steps *)

LEMMA CapabilitiesInit ==
    ASSUME Init
    PROVE  CapabilitiesInv
<1>1. Len(Features) \in Nat
  BY FeaturesAssumption
<1>2. NoCall \in Calls /\ NoCall.result = "idle"
  BY DEF NoCall, Calls
<1>3. call \in [Callers -> Calls] /\ \A c \in Callers : ~Asking(c)
  BY <1>2 DEF Init, Asking
<1>4. TypeInv /\ RefusedInv
  BY <1>3 DEF Init, TypeInv, RefusedInv
<1>5. KeptInv
  BY <1>1 DEF Init, KeptInv, Ready
<1> QED
  BY <1>3, <1>4, <1>5 DEF CapabilitiesInv, AloneInv, WantsInv

LEMMA DeviceInfoStep ==
    ASSUME CapabilitiesInv, ReadVersion \/ ProbeFeature \/ ReadUnits
    PROVE  CapabilitiesInv' /\ \A c \in Callers : ~Asking(c)
<1>1. Len(Features) \in Nat
  BY FeaturesAssumption
<1>2. TypeInv /\ KeptInv
  BY DEF CapabilitiesInv
<1>3. phase \in Int /\ phase < Len(Features) + 2 /\ phase >= 0
  BY <1>1, <1>2 DEF TypeInv, ReadVersion, ProbeFeature, ReadUnits
<1>4. ~Ready
  BY <1>1, <1>3 DEF Ready
<1>5. refused = {} /\ \A c \in Callers : ~Asking(c)
  BY <1>4, NothingAskedYet
<1>6. UNCHANGED <<family, inverter, call, refused>>
  BY DEF ReadVersion, ProbeFeature, ReadUnits
<1>7. phase' \in Int
  BY <1>1, <1>3 DEF ReadVersion, ProbeFeature, ReadUnits, Unusable
<1>8. TypeInv' /\ RefusedInv' /\ \A c \in Callers : ~Asking(c)'
  BY <1>2, <1>5, <1>6, <1>7 DEF TypeInv, RefusedInv, Asking
<1>9. ASSUME family = "ET" PROVE KeptInv'
  <2>1. topology = "standalone" /\ {"meter", "backup"} \subseteq flags
    BY <1>2, <1>4, <1>5, <1>9 DEF KeptInv
  <2>2. CASE ReadVersion
    <3>1. narrowed = {}
      BY <1>2, <1>9, <2>2 DEF KeptInv, ReadVersion
    <3>2. CASE Recognised /\ phase' = 1
      <4>1. ~Ready'
        BY <1>1, <3>2 DEF Ready
      <4>2. /\ narrowed' = IF inverter.big THEN {"reactive"} ELSE {"extended", "reactive"}
            /\ flags \subseteq flags'
            /\ inverter.twoBatteries => "battery2" \in flags'
            /\ inverter.big => {"mppt", "meter1", "meter2"} \subseteq flags'
        BY <3>2 DEF Recognised
      <4> QED
        BY <1>6, <2>1, <2>2, <3>2, <4>1, <4>2 DEF KeptInv, ReadVersion
    <3>3. CASE phase' = Unusable /\ UNCHANGED <<flags, narrowed>>
      <4>1. phase' = -1
        BY <3>3 DEF Unusable
      <4> QED
        BY <1>6, <2>1, <2>2, <3>3, <4>1 DEF KeptInv, ReadVersion
    <3> QED
      BY <1>9, <2>2, <3>2, <3>3 DEF ReadVersion
  <2>3. CASE ProbeFeature
    <3>1. Features[phase] \in {"eco_mode_v2", "peak_shaving", "new_features", "neg_price"}
      BY <2>3, FeaturesAssumption DEF ProbeFeature
    <3>2. \A f \in {"meter", "backup", "battery2", "mppt", "meter1", "meter2"} :
            f \in flags <=> f \in flags'
      BY <2>3, <3>1 DEF ProbeFeature
    <3>3. phase >= 1 /\ phase' = phase + 1 /\ ~Ready' /\ UNCHANGED <<narrowed, topology>>
      BY <1>1, <1>3, <2>3 DEF ProbeFeature, Ready
    <3> QED
      BY <1>2, <1>3, <1>6, <1>9, <2>1, <3>2, <3>3 DEF KeptInv
  <2>4. CASE ReadUnits
    <3>1. \A f \in {"meter", "backup", "battery2", "mppt", "meter1", "meter2"} :
            f \in flags <=> f \in flags'
      BY <2>4 DEF ReadUnits
    <3>2. phase >= 1 /\ phase' # 0 /\ UNCHANGED narrowed
      BY <1>1, <1>3, <2>4 DEF ReadUnits, Unusable
    <3>3. topology' # "standalone" => "parallel" \in flags'
      BY <2>1, <2>4 DEF ReadUnits
    <3>4. ~Ready' => topology' = "standalone"
      BY <1>1, <2>1, <2>4 DEF ReadUnits, Ready
    <3> QED
      BY <1>2, <1>6, <1>9, <3>1, <3>2, <3>3, <3>4 DEF KeptInv
  <2> QED
    BY <2>2, <2>3, <2>4
<1>10. KeptInv'
  BY <1>6, <1>9 DEF KeptInv
<1> QED
  BY <1>5, <1>8, <1>10 DEF CapabilitiesInv, AloneInv, WantsInv

LEMMA BeginStep ==
    ASSUME CapabilitiesInv, NEW c \in Callers, Begin(c)
    PROVE  /\ CapabilitiesInv'
           /\ \A d \in Callers : Asking(d) => call'[d].result = "running"
<1>1. /\ TypeInv /\ RefusedInv /\ KeptInv /\ AloneInv /\ Ready /\ ~Asking(c)
      /\ UNCHANGED <<family, inverter, phase, flags, settings, narrowed, topology, refused>>
  BY DEF CapabilitiesInv, Begin
<1>2. "running" \in Blocks /\ call \in [Callers -> Calls] /\ refused \subseteq Blocks \ {"running"}
  BY <1>1, Places DEF TypeInv
<1> DEFINE mine == [next |-> "running", got |-> {}, known |-> refused,
                    alone |-> \A e \in Callers : ~Asking(e), result |-> "running"]
<1> DEFINE theirs(d) == [call[d] EXCEPT !.alone = @ /\ ~Asking(d)]
<1>3. call' = [d \in Callers |-> IF d = c THEN mine ELSE theirs(d)]
  BY DEF Begin
<1>4. mine \in Calls
  BY <1>2 DEF Calls
<1>5. ASSUME NEW d \in Callers
      PROVE  /\ theirs(d) \in Calls
             /\ theirs(d).next = call[d].next /\ theirs(d).got = call[d].got
             /\ theirs(d).known = call[d].known /\ theirs(d).result = call[d].result
             /\ theirs(d).alone => call[d].alone /\ ~Asking(d)
  BY <1>2 DEF Calls
<1>6. mine.alone => \A e \in Callers : ~Asking(e)
  OBVIOUS
<1>7. mine.result = "running" /\ mine.next = "running" /\ mine.known = refused
  OBVIOUS
<1> HIDE DEF mine, theirs
<1>8. call'[c] = mine /\ \A d \in Callers \ {c} : call'[d] = theirs(d)
  BY <1>3
<1>9. TypeInv' /\ RefusedInv' /\ KeptInv'
  <2>1. call' \in [Callers -> Calls]
    BY <1>3, <1>4, <1>5
  <2> QED
    BY <1>1, <2>1 DEF TypeInv, RefusedInv, KeptInv, Ready
<1>10. AloneInv'
  <2> SUFFICES ASSUME NEW d \in Callers, NEW e \in Callers, d # e, Asking(d)', Asking(e)'
               PROVE  ~call'[d].alone
    BY DEF AloneInv
  <2>1. CASE d = c
    <3>1. Asking(e)
      BY <1>5, <1>8, <2>1 DEF Asking
    <3> QED
      BY <1>6, <1>7, <1>8, <2>1, <3>1
  <2>2. CASE d # c
    <3>1. Asking(d)
      BY <1>5, <1>8, <2>2 DEF Asking
    <3> QED
      BY <1>5, <1>8, <2>2, <3>1
  <2> QED
    BY <2>1, <2>2
<1>11. ASSUME NEW d \in Callers PROVE WantsInv(d)' /\ (Asking(d) => Delivered(d))'
  <2>1. CASE d = c
    <3>1. WantsInv(d)'
      BY <1>1, <1>2, <1>7, <1>8, <2>1 DEF WantsInv, Ready
    <3>2. Delivered(d)'
      <4> SUFFICES ASSUME NEW t \in Listed', PlaceOf(t) < NextPlace("running") PROVE FALSE
        BY <1>7, <1>8, <2>1 DEF Delivered
      <4>1. t \in {"running", "battery", "battery2", "backup", "meter", "mppt", "parallel",
                   "battery2_basic"}
        BY DEF Listed
      <4>2. PlaceOf(t) \in 1..7 /\ NextPlace("running") = 1
        BY <4>1, Places DEF PlaceOf, NextPlace
      <4> QED
        BY <4>2
    <3> QED
      BY <3>1, <3>2
  <2>2. CASE d # c
    <3>1. WantsInv(d) /\ (Asking(d) => Delivered(d))
      BY DEF CapabilitiesInv
    <3> QED
      BY <1>1, <1>5, <1>8, <2>2, <3>1, OthersStay
  <2> QED
    BY <2>1, <2>2
<1>12. \A d \in Callers : Asking(d) => call'[d].result = "running"
  BY <1>1, <1>5, <1>8 DEF Asking
<1> QED
  BY <1>9, <1>10, <1>11, <1>12 DEF CapabilitiesInv

\* A reading that ends well has none of its tables left to fill.
Ends(c) == Asking(c) /\ call'[c].result = "done" =>
    call'[c].next = "none" /\ call'[c].alone = call[c].alone /\ Delivered(c)'

\* One caller goes on, and the others' readings stay where they were.
LEMMA OneGoesOn ==
    ASSUME CapabilitiesInv, NEW c \in Callers, Asking(c), UNCHANGED <<family, phase, topology>>,
           flags' \subseteq flags \union {"battery"}, refused \subseteq refused',
           call' \in [Callers -> Calls],
           \A d \in Callers \ {c} : call'[d] = call[d],
           call'[c].alone = call[c].alone \/ call'[c].result # "running",
           TypeInv', RefusedInv', KeptInv', WantsInv(c)',
           call'[c].result \in {"running", "done"} => Delivered(c)',
           call'[c].result = "done" => call'[c].next = "none" /\ call'[c].alone = call[c].alone
    PROVE  CapabilitiesInv' /\ \A d \in Callers : Ends(d)
<1>1. TypeInv /\ AloneInv
  BY DEF CapabilitiesInv
<1>2. AloneInv'
  <2> SUFFICES ASSUME NEW d \in Callers, NEW e \in Callers, d # e, Asking(d)', Asking(e)'
               PROVE  ~call'[d].alone
    BY DEF AloneInv
  <2>1. Asking(d) /\ Asking(e)
    BY DEF Asking
  <2>2. ~call[d].alone
    BY <1>1, <2>1 DEF AloneInv
  <2>3. call'[d].alone = call[d].alone
    BY DEF Asking
  <2> QED
    BY <2>2, <2>3
<1>3. ASSUME NEW d \in Callers PROVE WantsInv(d)' /\ (Asking(d) => Delivered(d))'
  <2>1. CASE d = c
    BY <2>1 DEF Asking
  <2>2. CASE d # c
    <3>1. WantsInv(d) /\ (Asking(d) => Delivered(d))
      BY DEF CapabilitiesInv
    <3>2. Asking(d) => ~call[d].alone
      BY <1>1, <2>2 DEF AloneInv
    <3>3. call'[d] = call[d]
      BY <2>2
    <3> QED
      BY <1>1, <3>1, <3>2, <3>3, OthersStay
  <2> QED
    BY <2>1, <2>2
<1>4. ASSUME NEW d \in Callers PROVE Ends(d)
  BY DEF Ends, Asking
<1> QED
  BY <1>2, <1>3, <1>4 DEF CapabilitiesInv

LEMMA AnsweredStep ==
    ASSUME CapabilitiesInv, NEW c \in Callers, Answered(c)
    PROVE  CapabilitiesInv' /\ \A d \in Callers : Ends(d)
<1> DEFINE b == call[c].next
           n == Following(b, flags')
           got == call[c].got \union Table(b, flags)
<1>1. /\ TypeInv /\ RefusedInv /\ KeptInv /\ WantsInv(c) /\ Asking(c) /\ Delivered(c)
      /\ UNCHANGED <<family, inverter, phase, settings, narrowed, topology, begun, refused>>
      /\ Continue(c, n, got)
  BY DEF CapabilitiesInv, Answered
<1>2. b \in Blocks /\ Ready /\ call[c].known \subseteq refused
  BY <1>1 DEF WantsInv
<1>3. /\ flags' \subseteq flags \union {"battery"} /\ flags \ {"battery"} \subseteq flags'
      /\ b # "running" => flags' = flags
  BY DEF Answered
<1>4. /\ n \in Blocks \union {"none"}
      /\ \A o \in Blocks \ {"meter1", "meter2"} :
                Place(b) < Place(o) /\ Place(o) < NextPlace(n) => o \notin flags'
  BY <1>2, FollowingFacts
<1>5. got \in SUBSET Tables
  <2>1. call[c] \in Calls
    BY <1>1 DEF TypeInv
  <2> QED
    BY <1>2, <2>1, TableFacts DEF Calls
<1>6. /\ call' \in [Callers -> Calls]
      /\ \A d \in Callers \ {c} : call'[d] = call[d]
      /\ call'[c].next = n /\ call'[c].got = got /\ call'[c].alone = call[c].alone
      /\ call'[c].result = IF n = "none" THEN "done" ELSE "running"
      /\ call'[c].known \subseteq call[c].known
  BY <1>1, <1>4, <1>5, ContinueFacts
<1>7. ASSUME NEW t \in Listed', PlaceOf(t) = Place(b)
      PROVE  t \in got \/ Excused(c, t)'
  <2>1. /\ t \in {"running", "battery", "battery2", "backup", "meter", "mppt", "parallel",
                  "battery2_basic"}
        /\ t = "battery2_basic" => "battery2" \in flags'
    BY DEF Listed
  <2>2. CASE t = "battery2_basic"
    <3>1. b = "backup"
      BY <1>2, <1>7, <2>2, Places DEF PlaceOf
    <3>2. "battery2" \in flags
      BY <1>3, <2>1, <2>2, <3>1
    <3> QED
      BY <2>2, <3>1, <3>2 DEF Table, MeterBlocks
  <2>3. CASE t = "meter"
    <3>1. b \in MeterBlocks
      BY <1>2, <1>7, <2>3, Places DEF PlaceOf, MeterBlocks
    <3> QED
      BY <2>3, <3>1 DEF Table, MeterBlocks
  <2>4. CASE t \in {"running", "battery", "battery2", "backup", "mppt", "parallel"}
    <3>1. b = t /\ b \notin MeterBlocks
      BY <1>2, <1>7, <2>4, Places DEF PlaceOf, MeterBlocks
    <3> QED
      BY <3>1 DEF Table
  <2> QED
    BY <2>1, <2>2, <2>3, <2>4
<1> HIDE DEF n, got
<1>8. Delivered(c)'
  <2>1. call[c].got \subseteq call'[c].got
    BY <1>6 DEF got
  <2> QED
    BY <1>1, <1>2, <1>3, <1>4, <1>6, <1>7, <2>1, DeliversOn
<1>9. TypeInv' /\ RefusedInv' /\ KeptInv'
  BY <1>1, <1>3, <1>6 DEF TypeInv, RefusedInv, KeptInv, Ready
<1>10. WantsInv(c)'
  <2>1. /\ call'[c].next = Following(b, flags') /\ call'[c].known \subseteq refused'
        /\ call'[c].result = IF Following(b, flags') = "none" THEN "done" ELSE "running"
    BY <1>1, <1>2, <1>6 DEF n
  <2>2. Ready'
    BY <1>1, <1>2 DEF Ready
  <2> QED
    BY <1>1, <1>2, <1>9, <2>1, <2>2, WantsFollowing
<1>11. call'[c].result = "done" => call'[c].next = "none"
  BY <1>6
<1> QED
  BY <1>1, <1>3, <1>6, <1>8, <1>9, <1>10, <1>11, OneGoesOn

LEMMA RefusedStep ==
    ASSUME CapabilitiesInv, NEW c \in Callers, Refused(c)
    PROVE  CapabilitiesInv' /\ \A d \in Callers : Ends(d)
<1> DEFINE b == call[c].next
           n == Fallback(b, flags')
<1>1. /\ TypeInv /\ RefusedInv /\ KeptInv /\ WantsInv(c) /\ Asking(c) /\ Delivered(c)
      /\ UNCHANGED <<family, inverter, phase, settings, topology, begun>>
      /\ Continue(c, n, call[c].got)
  BY DEF CapabilitiesInv, Refused
<1>2. /\ b \in Blocks /\ Ready /\ call[c].known \subseteq refused
      /\ b = "meter2" => "meter1" \notin call[c].known /\ "meter" \notin call[c].known
      /\ b = "meter1" => "meter2" \notin flags /\ "meter" \notin call[c].known
      /\ b = "meter" => "meter2" \notin flags /\ "meter1" \notin flags
  BY <1>1 DEF WantsInv
<1>3. /\ b # "running" /\ flags' = flags \ {b} /\ refused' = refused \union {b}
      /\ narrowed' = IF family = "ET" THEN narrowed \union Filters(b) ELSE narrowed
  BY DEF Refused, WithoutBlock
<1>4. /\ b = "meter2" => n = "meter1"
      /\ b = "meter1" => n = "meter"
      /\ b \notin {"meter1", "meter2"} => n = Following(b, flags')
  BY DEF Fallback
<1>5. /\ n \in Blocks \union {"none"}
      /\ \A o \in Blocks \ {"meter1", "meter2"} :
                Place(b) < Place(o) /\ Place(o) < NextPlace(n) => o \notin flags'
  <2>1. CASE b \in {"meter1", "meter2"}
    <3>1. n \in {"meter", "meter1"} /\ NextPlace(n) = 5 /\ Place(b) = 5
      BY <1>4, <2>1, Places DEF NextPlace
    <3>2. \A o \in Blocks : Place(o) \in 1..7
      BY Places
    <3> QED
      BY <3>1, <3>2, Places
  <2>2. CASE b \notin {"meter1", "meter2"}
    BY <1>2, <1>4, <2>2, FollowingFacts
  <2> QED
    BY <2>1, <2>2
<1>6. call[c].got \in SUBSET Tables
  <2>1. call[c] \in Calls
    BY <1>1 DEF TypeInv
  <2> QED
    BY <2>1 DEF Calls
<1>7. /\ call' \in [Callers -> Calls]
      /\ \A d \in Callers \ {c} : call'[d] = call[d]
      /\ call'[c].next = n /\ call'[c].got = call[c].got /\ call'[c].alone = call[c].alone
      /\ call'[c].result = IF n = "none" THEN "done" ELSE "running"
      /\ call'[c].known \subseteq call[c].known
  BY <1>1, <1>5, <1>6, ContinueFacts
<1>8. ASSUME NEW t \in Listed', PlaceOf(t) = Place(b), Place(b) < NextPlace(n)
      PROVE  t \in call[c].got \/ Excused(c, t)'
  <2>1. /\ t \in {"running", "battery", "battery2", "backup", "meter", "mppt", "parallel",
                  "battery2_basic"}
        /\ t \in {"battery", "battery2", "backup", "mppt", "parallel"} => t \in flags'
        /\ t = "battery2_basic" => "backup" \in flags'
        /\ t = "meter" => family = "ET" \/ "meter" \in flags'
    BY <1>1 DEF Listed, TypeInv
  <2>2. CASE b = "meter"
    <3>1. t = "meter" /\ "meter" \notin flags'
      BY <1>3, <1>8, <2>1, <2>2, Places DEF PlaceOf
    <3> QED
      BY <1>1, <2>1, <3>1 DEF Excused
  <2>3. CASE b \in {"meter1", "meter2"}
    <3>1. NextPlace(n) = 5 /\ Place(b) = 5
      BY <1>4, <2>3, Places DEF NextPlace
    <3> QED
      BY <1>8, <3>1
  <2>4. CASE b = "backup"
    <3>1. t \in {"backup", "battery2_basic"}
      BY <1>8, <2>1, <2>4, Places DEF PlaceOf
    <3> QED
      BY <1>3, <2>1, <2>4, <3>1
  <2>5. CASE b \in {"battery", "battery2", "mppt", "parallel"}
    <3>1. t = b
      BY <1>8, <2>1, <2>5, Places DEF PlaceOf
    <3> QED
      BY <1>3, <2>1, <2>5, <3>1
  <2> QED
    BY <1>2, <1>3, <2>2, <2>3, <2>4, <2>5, Places
<1> HIDE DEF n
<1>9. Delivered(c)'
  BY <1>1, <1>2, <1>3, <1>5, <1>7, <1>8, DeliversOn
<1>10. TypeInv' /\ RefusedInv'
  BY <1>1, <1>2, <1>3, <1>7 DEF TypeInv, RefusedInv, Ready
<1>11. KeptInv'
  <2> SUFFICES ASSUME family = "ET"
               PROVE  KeptInv'
    BY <1>1 DEF KeptInv
  <2>1. /\ "extended2" \in narrowed' => "extended2" \in narrowed \/ b = "meter2"
        /\ "extended" \in narrowed' => "extended" \in narrowed \/ b = "meter1"
        /\ narrowed \subseteq narrowed'
        /\ b = "meter2" => "extended2" \in narrowed'
        /\ b = "meter1" => "extended" \in narrowed'
    BY <1>3 DEF Filters
  <2>2. flags \union refused \subseteq flags' \union refused' /\ refused \subseteq refused'
        /\ b \in refused'
    BY <1>3
  <2>3. phase = Len(Features) + 2 /\ Len(Features) \in Nat
    BY <1>2, FeaturesAssumption DEF Ready
  <2>4. Ready' /\ phase >= 1 /\ phase' = phase
    BY <1>1, <1>2, <2>3 DEF Ready
  <2>5. /\ "meter1" \in flags' \/ "extended" \in narrowed'
        /\ "meter2" \in flags' \/ "extended" \in narrowed' \/ "extended2" \in narrowed'
    BY <1>1, <1>3, <2>1, <2>4 DEF KeptInv
  <2> QED
    BY <1>1, <2>1, <2>2, <2>4, <2>5 DEF KeptInv
<1>12. WantsInv(c)'
  <2>1. Ready' /\ call'[c].known \subseteq refused'
    BY <1>1, <1>2, <1>3, <1>7 DEF Ready
  <2>2. CASE b \in {"meter1", "meter2"}
    <3>1. n \in {"meter", "meter1"} /\ n \in Blocks /\ n \notin call'[c].known
      BY <1>2, <1>4, <1>7, <2>2, Places
    <3>2. /\ n = "meter1" => "meter2" \notin flags' /\ "meter" \notin call'[c].known
          /\ n = "meter" => "meter2" \notin flags' /\ "meter1" \notin flags'
      BY <1>2, <1>3, <1>4, <1>7, <2>2
    <3> QED
      BY <1>7, <2>1, <3>1, <3>2 DEF WantsInv
  <2>3. CASE b \notin {"meter1", "meter2"}
    <3>1. /\ call'[c].next = Following(b, flags')
          /\ call'[c].result = IF Following(b, flags') = "none" THEN "done" ELSE "running"
      BY <1>4, <1>7, <2>3
    <3> QED
      BY <1>1, <1>2, <1>10, <2>1, <3>1, WantsFollowing
  <2> QED
    BY <2>2, <2>3
<1>13. call'[c].result = "done" => call'[c].next = "none"
  BY <1>7
<1>14. flags' \subseteq flags \union {"battery"} /\ refused \subseteq refused'
  BY <1>3
<1> QED
  BY <1>1, <1>7, <1>9, <1>10, <1>11, <1>12, <1>13, <1>14, OneGoesOn

LEMMA LostStep ==
    ASSUME CapabilitiesInv, NEW c \in Callers, Lost(c)
    PROVE  CapabilitiesInv' /\ \A d \in Callers : Ends(d)
<1>1. /\ TypeInv /\ RefusedInv /\ KeptInv /\ WantsInv(c) /\ Asking(c) /\ Delivered(c)
      /\ UNCHANGED <<family, inverter, phase, settings, narrowed, topology, begun, refused>>
      /\ call[c].next \in Blocks /\ call[c] \in Calls
  BY DEF CapabilitiesInv, Lost, WantsInv, TypeInv
<1>2. CASE family = "DT" /\ call[c].next = "meter"
  <2>1. flags' = flags \ {"meter"} /\ Continue(c, "none", call[c].got)
    BY <1>2 DEF Lost
  <2>2. /\ call' \in [Callers -> Calls]
        /\ \A d \in Callers \ {c} : call'[d] = call[d]
        /\ call'[c].next = "none" /\ call'[c].got = call[c].got /\ call'[c].alone = call[c].alone
        /\ call'[c].result = "done"
    <3>1. call[c].got \in SUBSET Tables
      BY <1>1 DEF Calls
    <3> QED
      BY <1>1, <2>1, <3>1, ContinueFacts
  <2>3. Delivered(c)'
    <3>1. Listed' \subseteq {"running"}
      BY <1>1, <1>2, <2>1 DEF Listed
    <3>2. "running" \in Listed /\ PlaceOf("running") < NextPlace("meter")
      BY <1>2, Places DEF Listed, PlaceOf, NextPlace
    <3>3. "running" \in call[c].got
      BY <1>1, <1>2, <3>2 DEF Delivered, Excused
    <3> QED
      BY <2>2, <3>1, <3>3 DEF Delivered
  <2>4. TypeInv' /\ RefusedInv' /\ KeptInv' /\ WantsInv(c)'
    BY <1>1, <1>2, <2>1, <2>2 DEF TypeInv, RefusedInv, KeptInv, WantsInv, Asking, Ready
  <2> QED
    BY <1>1, <2>1, <2>2, <2>3, <2>4, OneGoesOn
<1>3. CASE ~(family = "DT" /\ call[c].next = "meter")
  <2>1. UNCHANGED flags /\ Fail(c)
    BY <1>3 DEF Lost
  <2> DEFINE k == [NoCall EXCEPT !.result = "failed"]
  <2>2. k \in Calls /\ k.result = "failed"
    BY DEF NoCall, Calls
  <2>3. call' = [call EXCEPT ![c] = k]
    BY <2>1 DEF Fail
  <2> HIDE DEF k
  <2>4. /\ call' \in [Callers -> Calls] /\ call'[c].result = "failed"
        /\ \A d \in Callers \ {c} : call'[d] = call[d]
    BY <1>1, <2>2, <2>3 DEF TypeInv
  <2>5. TypeInv' /\ RefusedInv' /\ KeptInv' /\ WantsInv(c)'
    BY <1>1, <2>1, <2>4 DEF TypeInv, RefusedInv, KeptInv, WantsInv, Asking, Ready
  <2> QED
    BY <1>1, <2>1, <2>4, <2>5, OneGoesOn
<1> QED
  BY <1>2, <1>3

LEMMA CapabilitiesStep ==
    ASSUME CapabilitiesInv, [Next]_vars
    PROVE  /\ CapabilitiesInv'
           /\ \A d \in Callers : Ends(d)
           /\ UNCHANGED family
<1>1. CASE ReadVersion \/ ProbeFeature \/ ReadUnits
  BY <1>1, DeviceInfoStep DEF Ends, ReadVersion, ProbeFeature, ReadUnits
<1>2. ASSUME NEW c \in Callers, Begin(c)
      PROVE  CapabilitiesInv' /\ (\A d \in Callers : Ends(d)) /\ UNCHANGED family
  BY <1>2, BeginStep DEF Ends, Begin
<1>3. ASSUME NEW c \in Callers, Answered(c)
      PROVE  CapabilitiesInv' /\ (\A d \in Callers : Ends(d)) /\ UNCHANGED family
  BY <1>3, AnsweredStep DEF Answered
<1>4. ASSUME NEW c \in Callers, Refused(c)
      PROVE  CapabilitiesInv' /\ (\A d \in Callers : Ends(d)) /\ UNCHANGED family
  BY <1>4, RefusedStep DEF Refused
<1>5. ASSUME NEW c \in Callers, Lost(c)
      PROVE  CapabilitiesInv' /\ (\A d \in Callers : Ends(d)) /\ UNCHANGED family
  BY <1>5, LostStep DEF Lost
<1>6. CASE UNCHANGED vars
  BY <1>6
  DEF vars, CapabilitiesInv, TypeInv, RefusedInv, KeptInv, AloneInv, WantsInv, Delivered,
      Excused, Listed, Asking, Ready, Ends
<1> QED
  BY <1>1, <1>2, <1>3, <1>4, <1>5, <1>6 DEF Next

-----------------------------------------------------------------------------
(* The theorems *)

\* What the flags, the refusals, the filters and the blocks under way have to do
\* with each other is inductive.
THEOREM CapabilitiesInvariance == Spec => []CapabilitiesInv
<1>1. Init => CapabilitiesInv
  BY CapabilitiesInit
<1>2. CapabilitiesInv /\ [Next]_vars => CapabilitiesInv'
  BY CapabilitiesStep
<1> QED
  BY <1>1, <1>2, PTL DEF Spec

\* However readings narrow the table of the meter under each other, the block a
\* reading asks for holds every sensor that will be filled from it.
THEOREM MeterSensorsFit == Spec => []MeterSensorsInsideBlock
<1>1. CapabilitiesInv => MeterSensorsInsideBlock
  <2> SUFFICES ASSUME CapabilitiesInv, NEW c \in Callers, family = "ET", Asking(c),
                      call[c].next \in MeterBlocks, NEW s \in Meter
               PROVE  Span(s) \subseteq Registers(call[c].next)
    BY DEF MeterSensorsInsideBlock
  <2>1. /\ phase >= 1
        /\ call[c].next = "meter1" => "meter2" \notin flags
        /\ call[c].next = "meter" => "meter1" \notin flags
    BY FeaturesAssumption DEF CapabilitiesInv, WantsInv, Ready
  <2>2. /\ "reactive" \in narrowed
        /\ "meter1" \in flags \/ "extended" \in narrowed
        /\ "meter2" \in flags \/ "extended" \in narrowed \/ "extended2" \in narrowed
    BY <2>1 DEF CapabilitiesInv, KeptInv
  <2>3. /\ s \in EtMeter /\ NotReactiveEnergy(s)
        /\ "extended" \in narrowed => NotExtendedMeter(s)
        /\ "extended2" \in narrowed => NotExtendedMeter2(s)
    BY <2>2 DEF Meter
  <2>4. /\ Span(s) \subseteq EtMeterExtended2Block
        /\ NotExtendedMeter2(s) \/ NotExtendedMeter(s) => Span(s) \subseteq EtMeterExtendedBlock
        /\ NotExtendedMeter(s) => Span(s) \subseteq EtMeterBlock
    BY <2>3, MeterFits
  <2>5. CASE call[c].next = "meter2"
    BY <2>4, <2>5 DEF Registers
  <2>6. CASE call[c].next = "meter1"
    BY <2>1, <2>2, <2>3, <2>4, <2>6 DEF Registers
  <2>7. CASE call[c].next = "meter"
    BY <2>1, <2>2, <2>3, <2>4, <2>7 DEF Registers
  <2> QED
    BY <2>5, <2>6, <2>7 DEF MeterBlocks
<1> QED
  BY <1>1, CapabilitiesInvariance, PTL

\* No lost answer and no other rejection costs an ET inverter a feature it has by its
\* model, or a sensor of its meter.
THEOREM FeaturesAreKept == Spec => []KeptUnlessRefused
<1>1. CapabilitiesInv => KeptUnlessRefused
  <2>1. Ready => phase >= 1
    BY FeaturesAssumption DEF Ready
  <2> QED
    BY <2>1 DEF CapabilitiesInv, KeptInv, KeptUnlessRefused
<1> QED
  BY <1>1, CapabilitiesInvariance, PTL

\* A block that was refused before a reading began is not asked for in it.
THEOREM RefusalsAreRemembered == Spec => []NotAskedAgain
<1>1. CapabilitiesInv => NotAskedAgain
  BY DEF CapabilitiesInv, WantsInv, NotAskedAgain
<1> QED
  BY <1>1, CapabilitiesInvariance, PTL

\* A reading that succeeds has filled the tables that sensors() lists at its end.
THEOREM ReadingsDeliver == Spec => ListedSensorsDelivered
<1> DEFINE Filled == \A c \in Callers :
             Asking(c) /\ call'[c].result = "done" =>
               Listed' \subseteq call'[c].got
                   \union (IF family = "ET" /\ "meter" \notin flags' THEN {"meter"} ELSE {})
                   \union (IF call[c].alone THEN {} ELSE {"battery"})
<1>1. CapabilitiesInv /\ [Next]_vars => Filled
  <2> SUFFICES ASSUME CapabilitiesInv, [Next]_vars, NEW c \in Callers,
                      Asking(c), call'[c].result = "done", NEW t \in Listed'
               PROVE  \/ t \in call'[c].got
                      \/ t = "meter" /\ family = "ET" /\ "meter" \notin flags'
                      \/ t = "battery" /\ ~call[c].alone
    OBVIOUS
  <2>1. /\ UNCHANGED family
        /\ call'[c].next = "none" /\ call'[c].alone = call[c].alone /\ Delivered(c)'
    BY CapabilitiesStep DEF Ends
  <2>2. t \in {"running", "battery", "battery2", "backup", "meter", "mppt", "parallel",
               "battery2_basic"}
    BY DEF Listed
  <2>3. PlaceOf(t) < NextPlace("none")
    BY <2>2, Places DEF PlaceOf, NextPlace
  <2> QED
    BY <2>1, <2>3 DEF Delivered, Excused
<1>2. CapabilitiesInv /\ [Next]_vars => [Filled]_vars
  BY <1>1
<1> QED
  BY <1>2, CapabilitiesInvariance, PTL DEF Spec, ListedSensorsDelivered
=============================================================================
