------------------------------ MODULE Discovery ------------------------------
(***************************************************************************)
(* connect, discover and search_inverters: which family's object is made   *)
(* for a device, with which address and limits its requests are sent, and  *)
(* how the call ends (goodwe/__init__.py); and discover_parallel_slaves of *)
(* an ET inverter that was connected to (goodwe/et.py).  A request is      *)
(* answered, ends with an InverterError, or with another exception.        *)
(***************************************************************************)
EXTENDS Naturals, Sequences

CONSTANTS
    Addresses,     \* comm_addr, 0 when it is not given
    Timeouts,
    RetryCounts

Families == {"ET", "DT", "ES", "HCA"}

VARIABLES
    asked,      \* arguments of connect; its family is "none" when it is to be found out
    device,     \* families whose requests it answers, its Modbus address, the family its serial
                \* number is marked with, whether that answer is ASCII, whether it is one of several
    step,       \* the request under way: "probe" of discover; the information of a family
                \* that is "known"; "info" and "data" of one that is tried; "search"
    object,     \* family of the object in use
    protocol,   \* communication address, timeout and retries of the protocol object in use
    failures,   \* the list of that name: what had been tried
    result,     \* the family of the object returned, or how else the call ended
    slaves,     \* how discover_parallel_slaves ended
    lost        \* families whose own object's request failed though it could be answered

vars == <<asked, device, step, object, protocol, failures, result, slaves, lost>>

Protocol(commAddr, timeout, retries) ==
    [commAddr |-> commAddr, timeout |-> timeout, retries |-> retries]

Init ==
    /\ asked \in [family : Families \union {"none"}, doDiscover : BOOLEAN, udpPort : BOOLEAN,
                  commAddr : Addresses, timeout : Timeouts, retries : RetryCounts]
    /\ device \in [answers : SUBSET Families, address : Addresses \union {127, 247},
                   mark : Families \union {"unknown"}, ascii : BOOLEAN, parallel : BOOLEAN]
    /\ device.mark \in device.answers \union {"unknown"}
    /\ step = "begin" /\ object = "none" /\ protocol = Protocol(0, 0, 0)
    /\ failures = <<>> /\ result = "none"
    /\ slaves = "unasked" /\ lost = {}

-----------------------------------------------------------------------------
(* The object of a family, and where the device hears it *)

\* Each constructor's default, where an address is not given.
Object(f, commAddr, timeout, retries) ==
    Protocol(CASE commAddr # 0 \/ f = "HCA" -> commAddr
               [] commAddr = 0 /\ f = "DT" -> 127
               [] OTHER -> 247,
             timeout, retries)

\* In connect, with the address the caller gave; a charger's default stands here.
ForFamily(f) ==
    Object(f, IF f = "HCA" /\ asked.commAddr = 0 THEN 247 ELSE asked.commAddr,
           asked.timeout, asked.retries)
\* In discover, of the family the serial number shows.
ForTag(f) == Object(f, 0, asked.timeout, asked.retries)
\* Mutant of ForTrial: no address, as in the probe's construction.
ForTrialShifted(f) == Object(f, asked.timeout, asked.retries, 3)
\* In discover, of a family that is tried.
ForTrial(f) == Object(f, 0, asked.timeout, asked.retries)
\* The probe's, and that of the search, name no communication address.
ForProbe == Protocol(asked.timeout, asked.retries, 3)
ForSearch == Protocol(1, 0, 3)

\* Only the requests of ES bear no address of the device.
Reached(f, commAddr) == f \in device.answers /\ (f # "ES" => commAddr = device.address)
Hears == Reached(object, protocol.commAddr)

Ask(what, f, made) ==
    /\ step' = what /\ object' = f /\ protocol' = made
    /\ UNCHANGED result
End(how) == step' = "done" /\ result' = how /\ UNCHANGED <<object, protocol>>

\* The families are tried one after the other.
Following == [none |-> "ET", ET |-> "DT", DT |-> "ES", ES |-> "none"]
TryAfter(f) ==
    IF Following[f] = "none" THEN End("InverterError")
    ELSE Ask("info", Following[f], ForTrial(Following[f]))

-----------------------------------------------------------------------------
(* connect, discover *)

Discovering == asked.family = "none"

Connect ==
    /\ step = "begin"
    /\ \/ ~Discovering /\ Ask("known", asked.family, ForFamily(asked.family))
       \/ Discovering /\ ~asked.doDiscover /\ End("InverterError")
       \/ Discovering /\ asked.doDiscover /\ ~asked.udpPort /\ TryAfter("none")
       \/ /\ Discovering /\ asked.doDiscover /\ asked.udpPort
          /\ step' = "probe" /\ protocol' = ForProbe
          /\ UNCHANGED <<object, result>>
    /\ UNCHANGED <<asked, device, failures, slaves, lost>>

\* Mutant of ProbeAnswered: the tags of the chargers are not looked for.
ProbeAnsweredNoCharger ==
    /\ step = "probe" /\ device.answers # {}
    /\ \/ ~device.ascii /\ End("UnicodeDecodeError")
       \/ device.ascii /\ device.mark \in {"HCA", "unknown"} /\ TryAfter("none")
       \/ device.ascii /\ device.mark \notin {"HCA", "unknown"} /\ Ask("known", device.mark, ForTag(device.mark))
    /\ UNCHANGED <<asked, device, failures, slaves, lost>>
\* The answer names the family, or nothing known, or cannot be decoded.
ProbeAnswered ==
    /\ step = "probe" /\ device.answers # {}
    /\ \/ ~device.ascii /\ End("UnicodeDecodeError")
       \/ device.ascii /\ device.mark = "unknown" /\ TryAfter("none")
       \/ device.ascii /\ device.mark # "unknown" /\ Ask("known", device.mark, ForTag(device.mark))
    /\ UNCHANGED <<asked, device, failures, slaves, lost>>

\* read_device_info; of a family that is only tried, read_runtime_data has to succeed too.
InfoAnswered ==
    /\ step \in {"known", "info"} /\ Hears
    /\ IF step = "known" THEN End(object) ELSE step' = "data" /\ UNCHANGED <<object, protocol, result>>
    /\ UNCHANGED <<asked, device, failures, slaves, lost>>
DataAnswered ==
    /\ step = "data" /\ Hears /\ End(object)
    /\ UNCHANGED <<asked, device, failures, slaves, lost>>

Lose(f) == lost' = lost \union (IF f = object /\ Hears THEN {f} ELSE {})
\* What failed is noted ("none" before the trial), and the next family is tried.
Failed ==
    /\ step \in {"probe", "known", "info", "data"}
    /\ IF ~Discovering THEN End("InverterError") /\ Lose(object) /\ UNCHANGED failures
       ELSE LET tried == IF step \in {"probe", "known"} THEN "none" ELSE object IN
                failures' = Append(failures, tried) /\ Lose(tried) /\ TryAfter(tried)
    /\ UNCHANGED <<asked, device, slaves>>

\* Any other exception, of the socket or of reading the answer, is caught nowhere.
Broken ==
    /\ step \in {"probe", "known", "info", "data", "search"}
    /\ End("exception")
    /\ UNCHANGED <<asked, device, failures, slaves, lost>>

\* search_inverters: a broadcast, with 1 and 0 in the places of address and timeout.
Search ==
    /\ step = "begin"
    /\ step' = "search" /\ protocol' = ForSearch
    /\ UNCHANGED <<asked, device, object, failures, result, slaves, lost>>
SearchEnds ==
    /\ step = "search"
    /\ \/ device.answers # {} /\ End("response")
       \/ End("no response")
    /\ UNCHANGED <<asked, device, failures, slaves, lost>>

-----------------------------------------------------------------------------
(* discover_parallel_slaves *)

\* int.from_bytes takes no ProtocolResponse: TypeError, which the except clause turns
\* into a RequestFailedException.  The scan of the addresses is never reached.
DiscoverSlaves ==
    /\ result = "ET" /\ slaves = "unasked"
    /\ slaves' = IF device.parallel THEN "RequestFailedException" ELSE "ValueError"
    /\ UNCHANGED <<asked, device, step, object, protocol, failures, result, lost>>

Next == Connect \/ ProbeAnswered \/ InfoAnswered \/ DataAnswered \/ Failed
        \/ Broken \/ Search \/ SearchEnds \/ DiscoverSlaves
Spec == Init /\ [][Next]_vars

-----------------------------------------------------------------------------
(* Properties *)

Usual(f) == IF f = "DT" THEN 127 ELSE 247
Where(f) == IF ~Discovering /\ asked.commAddr # 0 THEN asked.commAddr ELSE Usual(f)
Sought == IF ~Discovering THEN {asked.family} ELSE IF asked.doDiscover THEN {"ET", "DT", "ES"} ELSE {}

\* An error that says the inverter cannot be contacted means that none of the families
\* looked for is there, at the address given with the family or, on the path of discover,
\* which drops the address given (__init__.py:68), at the usual one; or that a request of
\* that family's own object was lost.  Whatever became of the probe, and of the object
\* its answer led to, the trials make up for it (__init__.py:123-135).  An object that is
\* returned keeps asking where the device was found, with the caller's limits.
FoundWhereItIs ==
    /\ result = "InverterError" => \A f \in Sought : f \in lost \/ ~Reached(f, Where(f))
    /\ result \in Families =>
         /\ Reached(result, protocol.commAddr)
         /\ protocol.timeout = asked.timeout /\ protocol.retries = asked.retries

\* A device whose serial number shows its family is taken for one of another, or of
\* the same by trial, only if the probe or its own family's requests failed; and by
\* trial it is the first family of the order that does not fail.  It is given up
\* only after each family was tried, once, in order, and the error lists them all.
Trials == <<"ET", "DT", "ES">>
Untold == IF failures # <<>> /\ failures[1] = "none" THEN 1 ELSE 0
Tried == Len(failures) - Untold

InOrder == \A i \in DOMAIN failures : i > Untold => failures[i] = Trials[i - Untold]
TakenByTrial ==
    /\ Discovering /\ result \in Families =>
         \/ asked.udpPort /\ device.ascii /\ result = device.mark /\ failures = <<>>
         \/ /\ Tried < 3 /\ InOrder /\ result = Trials[Tried + 1]
            /\ asked.udpPort /\ device.mark # "unknown" => Untold = 1
    /\ Discovering /\ asked.doDiscover /\ result = "InverterError" => Tried = 3 /\ InOrder
=============================================================================
