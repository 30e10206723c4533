--------------------------- MODULE DiscoveryProofs ---------------------------
(***************************************************************************)
(* Discovery, for any addresses, timeouts and retry counts: a device that  *)
(* is where it is looked for is found unless its answers are lost, and a   *)
(* family is taken by trial only in the order of the trials.  Both follow  *)
(* from what each step of the call knows of the failures noted so far.     *)
(***************************************************************************)
EXTENDS Discovery, TLAPS, SequenceTheorems

\* What is known when the next answer is awaited.
StepInv ==
    /\ asked.family \in Families \union {"none"}
    /\ failures \in Seq(Families \union {"none"})
    /\ step # "done" => result = "none"
    /\ step \in {"begin", "probe"} => failures = <<>>
    /\ step = "probe" => Discovering /\ asked.doDiscover /\ asked.udpPort
    /\ step = "known" =>
        /\ object \in Families
        /\ Discovering => /\ asked.doDiscover /\ asked.udpPort /\ device.ascii
                          /\ object = device.mark /\ failures = <<>>
    /\ step \in {"info", "data"} =>
        /\ Discovering /\ asked.doDiscover
        /\ Tried \in 0..2 /\ InOrder /\ object = Trials[Tried + 1]
        /\ asked.udpPort /\ device.mark # "unknown" => Untold = 1

\* A family was not there, or its own object's request was lost.
Missed(f) == f \in lost \/ ~Reached(f, Where(f))

\* Where the request that is awaited went to, and what came of the families before.
PlaceInv ==
    /\ step \in {"known", "info", "data"} =>
        protocol.timeout = asked.timeout /\ protocol.retries = asked.retries
    /\ step = "known" /\ ~Discovering => object = asked.family /\ protocol.commAddr = Where(object)
    /\ step \in {"info", "data"} =>
        protocol.commAddr = Where(object) /\ \A i \in 1..Tried : Missed(Trials[i])

LEMMA TrialFacts ==
    /\ Trials[1] = "ET" /\ Trials[2] = "DT" /\ Trials[3] = "ES"
    /\ \A i \in 1..3 : Trials[i] \in Families \ {"HCA"}
    /\ Following["none"] = "ET" /\ Following["ET"] = "DT" /\ Following["DT"] = "ES"
    /\ Following["ES"] = "none"
    /\ "none" \notin Families
  BY DEF Trials, Following, Families

\* An object is made for the place where its family is looked for.
LEMMA ObjectPlaces ==
    ASSUME NEW f, NEW commAddr, NEW timeout, NEW retries
    PROVE  /\ Object(f, commAddr, timeout, retries).timeout = timeout
           /\ Object(f, commAddr, timeout, retries).retries = retries
           /\ commAddr # 0 => Object(f, commAddr, timeout, retries).commAddr = commAddr
           /\ commAddr = 0 /\ f # "HCA" => Object(f, commAddr, timeout, retries).commAddr = Usual(f)
<1>1. CASE commAddr # 0
  BY <1>1 DEF Object, Protocol
<1>2. CASE commAddr = 0 /\ f = "HCA"
  BY <1>2 DEF Object, Protocol
<1>3. CASE commAddr = 0 /\ f # "HCA" /\ f = "DT"
  BY <1>3 DEF Object, Protocol, Usual
<1>4. CASE commAddr = 0 /\ f # "HCA" /\ f # "DT"
  BY <1>4 DEF Object, Protocol, Usual
<1> QED
  BY <1>1, <1>2, <1>3, <1>4

LEMMA MadeForFamily ==
    ASSUME ~Discovering
    PROVE  /\ ForFamily(asked.family).timeout = asked.timeout
           /\ ForFamily(asked.family).retries = asked.retries
           /\ ForFamily(asked.family).commAddr = Where(asked.family)
<1> DEFINE addr == IF asked.family = "HCA" /\ asked.commAddr = 0 THEN 247 ELSE asked.commAddr
<1>1. ForFamily(asked.family) = Object(asked.family, addr, asked.timeout, asked.retries)
  BY DEF ForFamily
<1>2. CASE asked.commAddr # 0
  BY <1>1, <1>2, ObjectPlaces DEF Where
<1>3. CASE asked.commAddr = 0 /\ asked.family = "HCA"
  <2>1. addr = 247 /\ 247 # 0 /\ Where(asked.family) = 247
    BY <1>3 DEF Where, Usual
  <2> QED
    BY <1>1, <2>1, ObjectPlaces
<1>4. CASE asked.commAddr = 0 /\ asked.family # "HCA"
  BY <1>1, <1>4, ObjectPlaces DEF Where
<1> QED
  BY <1>2, <1>3, <1>4

LEMMA MadeForTrial ==
    ASSUME Discovering, NEW f, f # "HCA"
    PROVE  /\ ForTrial(f).timeout = asked.timeout /\ ForTrial(f).retries = asked.retries
           /\ ForTrial(f).commAddr = Where(f)
  BY ObjectPlaces DEF ForTrial, Where

\* What was missed stays missed.
LEMMA MissedStays ==
    ASSUME NEW f, Missed(f), lost \subseteq lost', UNCHANGED <<asked, device>>
    PROVE  Missed(f)'
  BY DEF Missed, Reached, Where, Usual, Discovering

\* Noting what has failed.
LEMMA NotedFacts ==
    ASSUME NEW S, failures \in Seq(S), NEW f \in S, failures' = Append(failures, f),
           f = "none" => failures = <<>>, InOrder, Tried \in 0..2,
           f # "none" => f = Trials[Tried + 1]
    PROVE  /\ failures' \in Seq(S) /\ InOrder'
           /\ f = "none" => Untold' = 1 /\ Tried' = 0
           /\ f # "none" => Untold' = Untold /\ Tried' = Tried + 1
<1>1. /\ failures' \in Seq(S) /\ Len(failures') = Len(failures) + 1 /\ failures' # <<>>
      /\ \A i \in 1..Len(failures) : failures'[i] = failures[i]
      /\ failures'[Len(failures) + 1] = f
      /\ Len(failures) \in Nat /\ DOMAIN failures = 1..Len(failures)
      /\ DOMAIN failures' = 1..(Len(failures) + 1)
      /\ failures = <<>> <=> Len(failures) = 0
  BY AppendProperties, LenProperties, EmptySeq
<1>2. CASE failures = <<>>
  <2>1. Untold = 0 /\ Len(failures) = 0 /\ Tried = 0
    BY <1>1, <1>2 DEF Untold, Tried
  <2>2. failures'[1] = f /\ Len(failures') = 1 /\ DOMAIN failures' = 1..1
    BY <1>1, <2>1
  <2>3. Untold' = IF f = "none" THEN 1 ELSE 0
    BY <1>1, <2>2 DEF Untold
  <2>4. Tried' = IF f = "none" THEN 0 ELSE 1
    BY <2>2, <2>3 DEF Tried
  <2>5. InOrder'
    BY <2>1, <2>2, <2>3 DEF InOrder
  <2> QED
    BY <1>1, <2>1, <2>3, <2>4, <2>5
<1>3. CASE failures # <<>>
  <2>1. f # "none" /\ Len(failures) >= 1 /\ failures'[1] = failures[1]
    BY <1>1, <1>3
  <2>2. Untold' = Untold /\ Untold \in {0, 1}
    BY <1>1, <1>3, <2>1 DEF Untold
  <2>a. /\ Tried = Len(failures) - Untold /\ Tried' = Len(failures') - Untold'
        /\ Len(failures) \in Nat /\ Len(failures') = Len(failures) + 1
    BY <1>1 DEF Tried
  <2>3. Tried' = Tried + 1
    <3>1. \A l \in Nat, u \in {0, 1} : (l + 1) - u = (l - u) + 1
      OBVIOUS
    <3> QED
      BY <2>2, <2>a, <3>1
  <2>4. ASSUME NEW i \in DOMAIN failures', i > Untold PROVE failures'[i] = Trials[i - Untold]
    <3>1. CASE i \in DOMAIN failures
      BY <1>1, <2>4, <3>1 DEF InOrder
    <3>2. CASE i = Len(failures) + 1
      <4>1. i - Untold = Tried + 1
        BY <2>2, <2>a, <2>3, <3>2
      <4> QED
        BY <1>1, <2>1, <3>2, <4>1
    <3> QED
      BY <1>1, <3>1, <3>2
  <2>5. InOrder'
    BY <2>2, <2>4 DEF InOrder
  <2> QED
    BY <1>1, <2>1, <2>2, <2>3, <2>5
<1> QED
  BY <1>2, <1>3

\* The next family is tried, or all have been.
LEMMA TriesNext ==
    ASSUME NEW f, TryAfter(f), Discovering, asked.doDiscover, UNCHANGED <<asked, device>>,
           failures' \in Seq(Families \union {"none"}), InOrder', Tried' \in 0..3,
           asked.family \in Families \union {"none"}, result = "none",
           f = IF Tried' = 0 THEN "none" ELSE Trials[Tried'],
           asked.udpPort /\ device.mark # "unknown" => Untold' = 1,
           \A i \in 1..Tried' : Missed(Trials[i])'
    PROVE  StepInv' /\ PlaceInv' /\ FoundWhereItIs' /\ TakenByTrial'
<1>1. CASE Tried' = 3
  <2>1. End("InverterError")
    BY <1>1, TrialFacts DEF TryAfter
  <2>2. step' = "done" /\ result' = "InverterError" /\ "InverterError" \notin Families
    BY <2>1 DEF End, Families
  <2>3. Missed("ET")' /\ Missed("DT")' /\ Missed("ES")'
    <3>1. 1 \in 1..Tried' /\ 2 \in 1..Tried' /\ 3 \in 1..Tried'
      BY <1>1
    <3>2. Missed(Trials[1])' /\ Missed(Trials[2])' /\ Missed(Trials[3])'
      BY <3>1
    <3> QED
      BY <3>2, TrialFacts
  <2>4. FoundWhereItIs'
    <3>1. Sought' = {"ET", "DT", "ES"}
      BY DEF Sought, Discovering
    <3> QED
      BY <2>2, <2>3, <3>1 DEF FoundWhereItIs, Missed
  <2> QED
    BY <1>1, <2>2, <2>4 DEF StepInv, PlaceInv, TakenByTrial, Discovering
<1>2. CASE Tried' \in 0..2
  <2>1. Following[f] = Trials[Tried' + 1] /\ Following[f] # "none"
    BY <1>2, TrialFacts
  <2>2. Ask("info", Following[f], ForTrial(Following[f]))
    BY <2>1 DEF TryAfter
  <2>3. step' = "info" /\ object' = Trials[Tried' + 1] /\ result' = "none"
    BY <2>1, <2>2 DEF Ask
  <2>4. PlaceInv' /\ FoundWhereItIs'
    <3>1. object' # "HCA" /\ object' = Following[f]
      BY <1>2, <2>1, <2>3, TrialFacts
    <3>2. protocol' = ForTrial(object')
      BY <2>2, <3>1 DEF Ask
    <3>3. /\ protocol'.timeout = asked.timeout /\ protocol'.retries = asked.retries
          /\ protocol'.commAddr = Where(object')
      BY <3>1, <3>2, MadeForTrial
    <3>4. Where(object)' = Where(object')
      BY DEF Where, Usual, Discovering
    <3> QED
      BY <2>3, <3>3, <3>4 DEF PlaceInv, FoundWhereItIs, Families
  <2>5. StepInv'
    BY <1>2, <2>3 DEF StepInv, Discovering
  <2>6. TakenByTrial'
    BY <2>3 DEF TakenByTrial, Families
  <2> QED
    BY <2>4, <2>5, <2>6
<1> QED
  BY <1>1, <1>2

-----------------------------------------------------------------------------
(* The steps *)

DiscoveryInv == StepInv /\ PlaceInv /\ FoundWhereItIs /\ TakenByTrial

\* Before the first failure nothing has been tried.
LEMMA NothingFailed ==
    ASSUME failures = <<>>
    PROVE  Untold = 0 /\ Tried = 0 /\ InOrder
<1>1. Len(failures) = 0 /\ DOMAIN failures = 1..0
  BY EmptySeq, LenProperties
<1>2. Untold = 0
  BY DEF Untold
<1>3. Tried = 0
  BY <1>1, <1>2 DEF Tried
<1> QED
  BY <1>1, <1>2, <1>3 DEF InOrder

LEMMA DiscoveryInit ==
    ASSUME Init
    PROVE  DiscoveryInv
<1>1. asked.family \in Families \union {"none"} /\ failures = <<>> /\ step = "begin" /\ result = "none"
  BY DEF Init
<1>2. StepInv
  BY <1>1, EmptySeq DEF StepInv
<1>3. PlaceInv /\ FoundWhereItIs /\ TakenByTrial
  BY <1>1 DEF PlaceInv, FoundWhereItIs, TakenByTrial, Families
<1> QED
  BY <1>2, <1>3 DEF DiscoveryInv

\* The call ends, and nothing is being asked any more.
LEMMA CallEnds ==
    ASSUME NEW how, End(how), UNCHANGED asked, asked.family \in Families \union {"none"},
           failures' \in Seq(Families \union {"none"})
    PROVE  /\ StepInv' /\ PlaceInv'
           /\ how \notin Families \union {"InverterError"} => FoundWhereItIs' /\ TakenByTrial'
  BY DEF End, StepInv, PlaceInv, FoundWhereItIs, TakenByTrial, Families

LEMMA ConnectStep ==
    ASSUME DiscoveryInv, Connect
    PROVE  DiscoveryInv'
<1>1. /\ asked.family \in Families \union {"none"} /\ failures = <<>> /\ result = "none"
      /\ UNCHANGED <<asked, device, failures>> /\ failures' \in Seq(Families \union {"none"})
  BY DEF DiscoveryInv, StepInv, Connect
<1>2. Untold' = 0 /\ Tried' = 0 /\ InOrder'
  <2>1. Untold = 0 /\ Tried = 0 /\ InOrder
    BY <1>1, NothingFailed
  <2> QED
    BY <1>1, <2>1 DEF Untold, Tried, InOrder
<1>3. CASE ~Discovering
  <2>1. Ask("known", asked.family, ForFamily(asked.family))
    BY <1>3 DEF Connect
  <2>2. PlaceInv' /\ FoundWhereItIs'
    <3>1. step' = "known" /\ object' = asked.family /\ result' = "none"
      BY <1>1, <2>1 DEF Ask
    <3>2. /\ protocol'.timeout = asked.timeout /\ protocol'.retries = asked.retries
          /\ protocol'.commAddr = Where(asked.family)
      BY <1>3, <2>1, MadeForFamily DEF Ask
    <3>3. Where(object)' = Where(asked.family)
      BY <1>1, <3>1 DEF Where, Usual, Discovering
    <3> QED
      BY <1>1, <3>1, <3>2, <3>3 DEF PlaceInv, FoundWhereItIs, Families
  <2>3. /\ step' = "known" /\ object' = asked.family /\ result' = "none"
        /\ asked.family \in Families /\ ~Discovering'
    BY <1>1, <1>3, <2>1 DEF Ask, Discovering
  <2> QED
    BY <1>1, <2>2, <2>3 DEF DiscoveryInv, StepInv, TakenByTrial, Discovering
<1>4. CASE Discovering /\ ~asked.doDiscover
  <2>1. End("InverterError")
    BY <1>4 DEF Connect
  <2>2. TakenByTrial' /\ FoundWhereItIs'
    <3>1. Sought' = {}
      BY <1>1, <1>4 DEF Sought, Discovering
    <3>2. result' = "InverterError" /\ "InverterError" \notin Families /\ ~asked'.doDiscover
      BY <1>1, <1>4, <2>1 DEF End, Families
    <3> QED
      BY <3>1, <3>2 DEF FoundWhereItIs, TakenByTrial
  <2> QED
    BY <1>1, <2>1, <2>2, CallEnds DEF DiscoveryInv
<1>5. CASE Discovering /\ asked.doDiscover /\ ~asked.udpPort
  <2>1. TryAfter("none")
    BY <1>5 DEF Connect
  <2>2. \A i \in 1..Tried' : Missed(Trials[i])'
    BY <1>2
  <2> QED
    BY <1>1, <1>2, <1>5, <2>1, <2>2, TriesNext DEF DiscoveryInv
<1>6. CASE Discovering /\ asked.doDiscover /\ asked.udpPort
  <2>1. step' = "probe" /\ result' = "none" /\ Discovering'
    BY <1>1, <1>6 DEF Connect, Discovering
  <2> QED
    BY <1>1, <1>6, <2>1
    DEF DiscoveryInv, StepInv, PlaceInv, FoundWhereItIs, TakenByTrial, Families
<1> QED
  BY <1>3, <1>4, <1>5, <1>6

LEMMA ProbeAnsweredStep ==
    ASSUME DiscoveryInv, ProbeAnswered, device.mark \in Families \union {"unknown"}
    PROVE  DiscoveryInv'
<1>1. /\ asked.family \in Families \union {"none"} /\ failures = <<>> /\ result = "none"
      /\ Discovering /\ asked.doDiscover /\ asked.udpPort
      /\ UNCHANGED <<asked, device, failures>> /\ failures' \in Seq(Families \union {"none"})
  BY DEF DiscoveryInv, StepInv, ProbeAnswered
<1>2. Untold' = 0 /\ Tried' = 0 /\ InOrder'
  <2>1. Untold = 0 /\ Tried = 0 /\ InOrder
    BY <1>1, NothingFailed
  <2> QED
    BY <1>1, <2>1 DEF Untold, Tried, InOrder
<1>3. CASE End("UnicodeDecodeError")
  BY <1>1, <1>3, CallEnds DEF DiscoveryInv, Families
<1>4. CASE device.mark = "unknown" /\ TryAfter("none")
  <2>1. \A i \in 1..Tried' : Missed(Trials[i])'
    BY <1>2
  <2> QED
    BY <1>1, <1>2, <1>4, <2>1, TriesNext DEF DiscoveryInv
<1>5. CASE /\ device.ascii /\ device.mark # "unknown"
           /\ Ask("known", device.mark, ForTag(device.mark))
  <2>1. PlaceInv' /\ FoundWhereItIs'
    <3>1. step' = "known" /\ result' = "none" /\ protocol' = ForTag(device.mark)
      BY <1>1, <1>5 DEF Ask
    <3>2. protocol'.timeout = asked.timeout /\ protocol'.retries = asked.retries
      BY <3>1, ObjectPlaces DEF ForTag
    <3> QED
      BY <1>1, <3>1, <3>2 DEF PlaceInv, FoundWhereItIs, Families, Discovering
  <2>2. step' = "known" /\ object' = device.mark /\ result' = "none" /\ device.mark \in Families
    BY <1>1, <1>5 DEF Ask
  <2>3. TakenByTrial'
    BY <2>2 DEF TakenByTrial, Families
  <2>4. StepInv'
    BY <1>1, <1>5, <2>2 DEF StepInv, Discovering
  <2> QED
    BY <2>1, <2>3, <2>4 DEF DiscoveryInv
<1> QED
  BY <1>3, <1>4, <1>5 DEF ProbeAnswered

\* An object that is taken is the one the device is marked with, or the next of the trials.
LEMMA ObjectTaken ==
    ASSUME DiscoveryInv, step \in {"known", "data"}, Hears, End(object),
           UNCHANGED <<asked, device, failures>>
    PROVE  DiscoveryInv'
<1>1. asked.family \in Families \union {"none"} /\ failures' \in Seq(Families \union {"none"})
  BY DEF DiscoveryInv, StepInv
<1>2. result' = object
  BY DEF End
<1>a. ASSUME object # "InverterError"
      PROVE  FoundWhereItIs'
  <2>1. Reached(object, protocol.commAddr)'
    BY DEF Hears, Reached, End
  <2>2. Reached(result, protocol.commAddr)'
    BY <1>2, <2>1 DEF Reached, End
  <2>3. protocol.timeout = asked.timeout /\ protocol.retries = asked.retries /\ protocol' = protocol
    BY DEF DiscoveryInv, PlaceInv, End
  <2> QED
    BY <1>2, <1>a, <2>2, <2>3 DEF FoundWhereItIs
<1>3. CASE step = "known"
  <2>1. /\ object \in Families
        /\ Discovering => /\ asked.udpPort /\ device.ascii
                          /\ object = device.mark /\ failures = <<>>
    BY <1>3 DEF DiscoveryInv, StepInv
  <2>2. TakenByTrial'
    BY <1>2, <2>1 DEF TakenByTrial, Discovering, Families
  <2> QED
    BY <1>1, <1>a, <2>1, <2>2, CallEnds DEF DiscoveryInv, Families
<1>4. CASE step = "data"
  <2>1. /\ Tried \in 0..2 /\ InOrder /\ object = Trials[Tried + 1]
        /\ asked.udpPort /\ device.mark # "unknown" => Untold = 1
    BY <1>4 DEF DiscoveryInv, StepInv
  <2>2. Tried' \in 0..2 /\ Tried' = Tried /\ Untold' = Untold /\ InOrder'
    BY <2>1 DEF Tried, Untold, InOrder
  <2>3. Tried' < 3 /\ result' = Trials[Tried' + 1] /\ result' # "InverterError"
    BY <1>2, <2>1, <2>2, TrialFacts DEF Families
  <2>4. TakenByTrial'
    BY <2>1, <2>2, <2>3 DEF TakenByTrial
  <2> QED
    BY <1>1, <1>2, <1>a, <2>3, <2>4, CallEnds DEF DiscoveryInv
<1> QED
  BY <1>3, <1>4

LEMMA InfoAnsweredStep ==
    ASSUME DiscoveryInv, InfoAnswered
    PROVE  DiscoveryInv'
<1>1. UNCHANGED <<asked, device, failures, lost>> /\ step \in {"known", "info"}
  BY DEF InfoAnswered
<1>2. CASE step = "known"
  BY <1>1, <1>2, ObjectTaken DEF InfoAnswered
<1>3. CASE step = "info"
  <2>1. step' = "data" /\ UNCHANGED <<object, protocol, result>>
    BY <1>3 DEF InfoAnswered
  <2>2. StepInv'
    BY <1>1, <1>3, <2>1 DEF DiscoveryInv, StepInv, Discovering, Tried, Untold, InOrder
  <2>3. PlaceInv' /\ FoundWhereItIs'
    <3>1. Tried' = Tried /\ Where(object)' = Where(object)
      BY <1>1, <2>1 DEF Tried, Untold, Where, Usual, Discovering
    <3>2. protocol.commAddr = Where(object) /\ \A i \in 1..Tried : Missed(Trials[i])
      BY <1>3 DEF DiscoveryInv, PlaceInv
    <3>3. \A i \in 1..Tried' : Missed(Trials[i])'
      BY <1>1, <3>1, <3>2, MissedStays
    <3>4. protocol'.timeout = asked'.timeout /\ protocol'.retries = asked'.retries
      BY <1>1, <1>3, <2>1 DEF DiscoveryInv, PlaceInv
    <3>5. result' = "none"
      BY <1>3, <2>1 DEF DiscoveryInv, StepInv
    <3> QED
      BY <2>1, <3>1, <3>2, <3>3, <3>4, <3>5 DEF PlaceInv, FoundWhereItIs, Families
  <2>4. TakenByTrial'
    BY <1>1, <2>1 DEF DiscoveryInv, TakenByTrial, Discovering, Tried, Untold, InOrder
  <2> QED
    BY <2>2, <2>3, <2>4 DEF DiscoveryInv
<1> QED
  BY <1>1, <1>2, <1>3

LEMMA FailedStep ==
    ASSUME DiscoveryInv, Failed
    PROVE  DiscoveryInv'
<1> DEFINE tried == IF step \in {"probe", "known"} THEN "none" ELSE object
<1>1. /\ asked.family \in Families \union {"none"} /\ failures \in Seq(Families \union {"none"})
      /\ result = "none" /\ UNCHANGED <<asked, device>>
      /\ step \in {"probe", "known", "info", "data"}
  BY DEF DiscoveryInv, StepInv, Failed
<1>2. CASE ~Discovering
  <2>1. End("InverterError") /\ Lose(object) /\ UNCHANGED failures
    BY <1>2 DEF Failed
  <2>2. TakenByTrial'
    BY <1>1, <1>2 DEF TakenByTrial, Discovering
  <2>3. FoundWhereItIs'
    <3>1. step = "known"
      BY <1>1, <1>2 DEF DiscoveryInv, StepInv
    <3>2. object = asked.family /\ protocol.commAddr = Where(object)
      BY <1>2, <3>1 DEF DiscoveryInv, PlaceInv
    <3>3. object \in lost' \/ ~Reached(object, Where(object))
      BY <2>1, <3>2 DEF Lose, Hears
    <3>4. (asked.family \in lost \/ ~Reached(asked.family, Where(asked.family)))'
      BY <1>1, <3>2, <3>3 DEF Reached, Where, Usual, Discovering
    <3>5. Sought' = {asked'.family} /\ result' = "InverterError" /\ "InverterError" \notin Families
      BY <1>1, <1>2, <2>1 DEF Sought, Discovering, End, Families
    <3> QED
      BY <3>4, <3>5 DEF FoundWhereItIs
  <2> QED
    BY <1>1, <2>1, <2>2, <2>3, CallEnds DEF DiscoveryInv
<1>3. CASE Discovering
  <2>1. failures' = Append(failures, tried) /\ Lose(tried) /\ TryAfter(tried)
    BY <1>3 DEF Failed
  <2>2. CASE step \in {"probe", "known"}
    <3>1. failures = <<>> /\ asked.doDiscover /\ tried = "none"
      BY <1>3, <2>2 DEF DiscoveryInv, StepInv
    <3>2. Tried \in 0..2 /\ InOrder
      BY <3>1, NothingFailed
    <3>3. /\ failures' \in Seq(Families \union {"none"}) /\ InOrder'
          /\ Untold' = 1 /\ Tried' = 0
      BY <1>1, <2>1, <3>1, <3>2, NotedFacts
    <3>4. \A i \in 1..Tried' : Missed(Trials[i])'
      BY <3>3
    <3> QED
      BY <1>1, <1>3, <2>1, <3>1, <3>3, <3>4, TriesNext DEF DiscoveryInv
  <2>3. CASE step \in {"info", "data"}
    <3>1. /\ asked.doDiscover /\ Tried \in 0..2 /\ InOrder /\ tried = Trials[Tried + 1]
          /\ asked.udpPort /\ device.mark # "unknown" => Untold = 1
      BY <2>3 DEF DiscoveryInv, StepInv
    <3>2. tried \in Families /\ tried # "none"
      BY <3>1, TrialFacts
    <3>3. /\ failures' \in Seq(Families \union {"none"}) /\ InOrder'
          /\ Untold' = Untold /\ Tried' = Tried + 1
      BY <1>1, <2>1, <3>1, <3>2, NotedFacts
    <3>4. Tried' \in 1..3 /\ tried = Trials[Tried']
      BY <3>1, <3>3
    <3>5. \A i \in 1..Tried' : Missed(Trials[i])'
      <4>1. lost \subseteq lost' /\ tried = object
        BY <2>1, <2>3 DEF Lose
      <4>2. protocol.commAddr = Where(object) /\ \A i \in 1..Tried : Missed(Trials[i])
        BY <2>3 DEF DiscoveryInv, PlaceInv
      <4>3. object \in lost' \/ ~Reached(object, Where(object))
        BY <2>1, <4>1, <4>2 DEF Lose, Hears
      <4>f. PICK f \in Families : f = tried
        BY <3>2
      <4>4. Missed(f)'
        BY <1>1, <4>1, <4>3, <4>f DEF Missed, Reached, Where, Usual, Discovering
      <4>5. ASSUME NEW i \in 1..Tried' PROVE Missed(Trials[i])'
        <5>1. CASE i \in 1..Tried
          BY <1>1, <4>1, <4>2, <5>1, MissedStays
        <5>2. CASE i = Tried'
          BY <3>4, <4>f, <4>4, <5>2
        <5> QED
          BY <3>1, <3>3, <4>5, <5>1, <5>2
      <4> QED
        BY <4>5
    <3> QED
      BY <1>1, <1>3, <2>1, <3>1, <3>3, <3>4, <3>5, TriesNext DEF DiscoveryInv
  <2> QED
    BY <1>1, <2>2, <2>3
<1> QED
  BY <1>2, <1>3

\* The search makes no object, the scan for slaves changes none, and an exception ends the call.
LEMMA OtherSteps ==
    ASSUME DiscoveryInv, Search \/ SearchEnds \/ Broken \/ DiscoverSlaves \/ UNCHANGED vars
    PROVE  DiscoveryInv'
<1>1. CASE Search
  BY <1>1 DEF Search, DiscoveryInv, StepInv, PlaceInv, FoundWhereItIs, TakenByTrial, Families
<1>2. CASE SearchEnds \/ Broken
  <2>1. PICK how \in {"response", "no response", "exception"} : End(how)
    BY <1>2 DEF SearchEnds, Broken
  <2>2. how \notin Families \union {"InverterError"}
    BY DEF Families
  <2>3. UNCHANGED <<asked, failures>>
    BY <1>2 DEF SearchEnds, Broken
  <2> QED
    BY <2>1, <2>2, <2>3, CallEnds DEF DiscoveryInv, StepInv
<1>3. CASE UNCHANGED <<asked, device, step, object, protocol, failures, result, lost>>
  <2>1. StepInv' /\ TakenByTrial'
    BY <1>3 DEF DiscoveryInv, StepInv, TakenByTrial, Discovering, Tried, Untold, InOrder
  <2>2. PlaceInv' /\ FoundWhereItIs'
    BY <1>3 DEF DiscoveryInv, PlaceInv, FoundWhereItIs, Missed, Reached, Where, Usual, Sought,
                Discovering, Tried, Untold
  <2> QED
    BY <2>1, <2>2 DEF DiscoveryInv
<1> QED
  BY <1>1, <1>2, <1>3 DEF DiscoverSlaves, vars

-----------------------------------------------------------------------------
(* The theorems *)

\* The device stays what it is while it is looked for.
DeviceMarked == device.mark \in Families \union {"unknown"}

\* What each step knows of the failures noted so far, together with both
\* properties, is inductive.
THEOREM DiscoveryInvariance == Spec => [](DeviceMarked /\ DiscoveryInv)
<1>1. Init => DeviceMarked /\ DiscoveryInv
  BY DiscoveryInit DEF Init, DeviceMarked
<1>2. DeviceMarked /\ DiscoveryInv /\ [Next]_vars => (DeviceMarked /\ DiscoveryInv)'
  <2> SUFFICES ASSUME DeviceMarked, DiscoveryInv, [Next]_vars
               PROVE  (DeviceMarked /\ DiscoveryInv)'
    OBVIOUS
  <2>1. DeviceMarked'
    BY DEF DeviceMarked, Next, Connect, ProbeAnswered, InfoAnswered, DataAnswered, Failed,
           Broken, Search, SearchEnds, DiscoverSlaves, vars
  <2>2. CASE Connect
    BY <2>2, <2>1, ConnectStep
  <2>3. CASE ProbeAnswered
    BY <2>3, <2>1, ProbeAnsweredStep DEF DeviceMarked
  <2>4. CASE InfoAnswered
    BY <2>4, <2>1, InfoAnsweredStep
  <2>5. CASE DataAnswered
    BY <2>5, <2>1, ObjectTaken DEF DataAnswered
  <2>6. CASE Failed
    BY <2>6, <2>1, FailedStep
  <2>7. CASE Search \/ SearchEnds \/ Broken \/ DiscoverSlaves \/ UNCHANGED vars
    BY <2>7, <2>1, OtherSteps
  <2> QED
    BY <2>2, <2>3, <2>4, <2>5, <2>6, <2>7 DEF Next
<1> QED
  BY <1>1, <1>2, PTL DEF Spec

\* An inverter that is where its family is looked for is found unless its own
\* object's requests are lost, whatever becomes of the probe.
THEOREM DevicesAreFound == Spec => []FoundWhereItIs
<1>1. DiscoveryInv => FoundWhereItIs
  BY DEF DiscoveryInv
<1> QED
  BY <1>1, DiscoveryInvariance, PTL

\* A device is taken for the family of its serial number or by trial, in order, and
\* it is given up only after each family was tried.
THEOREM TrialsAreInOrder == Spec => []TakenByTrial
<1>1. DiscoveryInv => TakenByTrial
  BY DEF DiscoveryInv
<1> QED
  BY <1>1, DiscoveryInvariance, PTL

=============================================================================
