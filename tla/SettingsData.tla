---------------------------- MODULE SettingsData ----------------------------
(***************************************************************************)
(* read_setting and read_settings_data: all settings are read one by one,  *)
(* from a list made when the reading began, while other calls on the same *)
(* object, and read_device_info, change what the object holds of settings  *)
(* and topology (goodwe/et.py, dt.py, hca.py; the ES family reads them all *)
(* by one request).                                                        *)
(***************************************************************************)
EXTENDS Naturals, Sequences, Functions

CONSTANTS
    Callers,
    Order,        \* the settings, in the order of the table
    Restricted,   \* those a slave cannot access
    Variant,      \* those read_device_info puts into the map, or back into it
    Groups,       \* those whose reader may raise ValueError: groups and timestamps
    Slots,        \* those of the time-of-use schedule: TypeError on all ones
    MaxCalls      \* calls begun, all callers together

ASSUME SettingsAssumption ==
    /\ Order \in Seq(Range(Order)) /\ IsInjective(Order)
    /\ Restricted \union Variant \union Groups \union Slots \subseteq Range(Order)
    /\ MaxCalls \in Nat

Settings == Range(Order)
Place(s) == CHOOSE i \in DOMAIN Order : Order[i] = s
First(todo) == CHOOSE s \in todo : \A t \in todo : Place(s) <= Place(t)

\* What a setting's registers hold: what its reader takes, what it raises an error
\* on, or they are not there.
Contents == {"value", "ValueError", "TypeError", "illegal"}

VARIABLES
    family,      \* "ET", "DT" or "HCA"
    contents,    \* of the inverter's registers
    known,       \* keys of self._settings
    slave,       \* _parallel_topology is that of a slave
    call,        \* each caller's call: the settings it set out to read, those still to be read
    begun,       \* calls begun
    refused,     \* history: settings refused as an illegal data address
    snags        \* history: what else befell each call

vars == <<family, contents, known, slave, call, begun, refused, snags>>

NoCall == [all |-> FALSE, todo |-> {}, listed |-> {}, result |-> "idle"]
Running(c) == call[c].result = "running"

\* Only the ET family has a time-of-use schedule; the charger's settings are plain
\* numbers.  The ET family starts without the settings its probes add.
Init ==
    /\ family \in {"ET", "DT", "HCA"}
    /\ contents \in [Settings -> Contents]
    /\ \A s \in Settings : /\ contents[s] = "ValueError" => s \in Groups /\ family # "HCA"
                           /\ contents[s] = "TypeError" => s \in Slots /\ family = "ET"
    /\ known = IF family = "ET" THEN Settings \ Variant ELSE Settings
    /\ slave = FALSE
    /\ call = [c \in Callers |-> NoCall]
    /\ begun = 0
    /\ refused = {} /\ snags = [c \in Callers |-> {}]

-----------------------------------------------------------------------------
(* Calls *)

\* settings()
Listed == {s \in known : ~(slave /\ s \in Restricted)}

\* read_setting raises before any request: the setting is unknown, or the inverter
\* is known for a slave.
Barred(s) == s \notin known \/ (slave /\ s \in Restricted)

\* The call goes on to its next setting, or ends.
Proceed(k, todo) ==
    [k EXCEPT !.todo = todo,
              !.result = CASE todo = {} -> "done"
                           [] todo # {} /\ Barred(First(todo)) -> "failed"
                           [] OTHER -> "running"]

Begin(c, all, todo) ==
    /\ ~Running(c) /\ begun < MaxCalls
    /\ begun' = begun + 1
    /\ call' = [call EXCEPT ![c] =
                  Proceed([NoCall EXCEPT !.all = all, !.listed = todo], todo)]
    /\ snags' = [snags EXCEPT ![c] = {}]
    /\ UNCHANGED <<family, contents, known, slave, refused>>
ReadSetting(c) == \E s \in Settings : Begin(c, FALSE, {s})
ReadSettingsData(c) == Begin(c, TRUE, Listed)

\* Mutant of Caught: only an undecodable value is logged and skipped.
CaughtValuesOnly == IF family = "DT" THEN {} ELSE {"ValueError"}
\* What read_settings_data takes for a setting without a value.
Caught == IF family = "DT" THEN {} ELSE {"ValueError", "RequestFailed"}

\* The setting under way has its value, or reading it has raised an exception.
Current(c) == First(call[c].todo)
Valued(c) == call' = [call EXCEPT ![c] = Proceed(@, @.todo \ {Current(c)})]
Raises(c, exception) ==
    IF call[c].all /\ exception \in Caught THEN Valued(c)
    ELSE call' = [call EXCEPT ![c].result = "failed"]

Answered(c) ==
    /\ Running(c)
    /\ contents[Current(c)] # "illegal"
    /\ IF contents[Current(c)] = "value" THEN Valued(c) ELSE Raises(c, contents[Current(c)])
    /\ UNCHANGED <<family, contents, known, slave, begun, refused, snags>>

\* Mutant of Forgotten: the setting is asked for again and again.
ForgottenNever(s) == {}
\* What the map loses when a setting is not there.
Forgotten(s) == IF family = "DT" THEN {s} ELSE {}

\* ILLEGAL_DATA_ADDRESS becomes a ValueError, except in the charger's family.
Refused(c) ==
    /\ Running(c) /\ contents[Current(c)] = "illegal"
    /\ refused' = refused \union {Current(c)}
    /\ known' = known \ Forgotten(Current(c))
    /\ Raises(c, IF family = "HCA" THEN "RequestRejected" ELSE "ValueError")
    /\ UNCHANGED <<family, contents, slave, begun, snags>>

\* Mutant of Rejected: the message is not compared.
RejectedForgets(c) ==
    /\ Running(c)
    /\ known' = known \ Forgotten(Current(c))
    /\ Raises(c, "ValueError")
    /\ snags' = [snags EXCEPT ![c] = @ \union {"rejected"}]
    /\ UNCHANGED <<family, contents, slave, begun, refused>>

\* Any other rejection is no value, except in the charger's family.
Rejected(c) ==
    /\ Running(c)
    /\ IF family = "HCA" THEN Raises(c, "RequestRejected") ELSE Valued(c)
    /\ snags' = [snags EXCEPT ![c] = @ \union {"rejected"}]
    /\ UNCHANGED <<family, contents, known, slave, begun, refused>>

\* No valid answer after the retries.
GivenUp(c) ==
    /\ Running(c)
    /\ Raises(c, "RequestFailed")
    /\ snags' = [snags EXCEPT ![c] = @ \union {"failed"}]
    /\ UNCHANGED <<family, contents, known, slave, begun, refused>>

\* A request of read_device_info is answered: settings are added to the map, the
\* ET family learns its topology.
DeviceInfoRead ==
    /\ \/ family # "HCA" /\ known' = known \union Variant /\ UNCHANGED slave
       \/ family = "ET" /\ slave' = ~slave /\ UNCHANGED known
    /\ snags' = [c \in Callers |-> IF Running(c) /\ slave' # slave THEN snags[c] \union {"turned"} ELSE snags[c]]
    /\ UNCHANGED <<family, contents, call, begun, refused>>

Next ==
    \/ \E c \in Callers : \/ ReadSetting(c) \/ ReadSettingsData(c)
                          \/ Answered(c) \/ Refused(c) \/ Rejected(c) \/ GivenUp(c)
    \/ DeviceInfoRead
Spec == Init /\ [][Next]_vars

-----------------------------------------------------------------------------
(* The invariant *)

Results == {"idle", "running", "done", "failed"}
TypeOK ==
    /\ family \in {"ET", "DT", "HCA"}
    /\ contents \in [Settings -> Contents]
    /\ known \subseteq Settings /\ slave \in BOOLEAN
    /\ call \in [Callers -> [all : BOOLEAN, todo : SUBSET Settings,
                             listed : SUBSET Settings, result : Results]]
    /\ begun \in 0..MaxCalls
    /\ refused \subseteq Settings
    /\ snags \in [Callers -> SUBSET {"rejected", "failed", "turned"}]

\* What a family's registers cannot hold, and which is never a slave.
FamilyInv ==
    /\ slave => family = "ET"
    /\ \A s \in Settings : /\ contents[s] = "TypeError" => family = "ET"
                           /\ contents[s] = "ValueError" => family # "HCA"

\* A call under way has something to read.  What a reading of all settings set out
\* to read and the object has lost since was not there; and it was no slave's
\* then, whatever the topology is by now.
CallInv == \A c \in Callers : Running(c) =>
    /\ call[c].todo # {} /\ call[c].todo \subseteq call[c].listed
    /\ call[c].all =>
        /\ \A s \in call[c].listed \ known : family = "DT" /\ contents[s] = "illegal"
        /\ slave /\ call[c].listed \intersect Restricted # {} => "turned" \in snags[c]

-----------------------------------------------------------------------------
(* Properties *)

FailsAll(c) == Running(c) /\ call[c].all /\ call'[c].result = "failed"

\* A reading of all settings survives whatever befalls a single one, with these
\* exceptions: an ET inverter found to be a slave meanwhile, or a register whose
\* reader raises what nobody catches; a charger that rejects anything; and a DT
\* inverter, of which everything must be there and be answered.
ReadingFailsForCause == [][\A c \in Callers :
    FailsAll(c) =>
        LET held == {contents[s] : s \in call[c].listed} IN
            CASE family = "ET" -> "turned" \in snags[c] \/ "TypeError" \in held
              [] family = "HCA" -> "illegal" \in held \/ "rejected" \in snags'[c]
              [] family = "DT" -> held # {"value"} \/ "failed" \in snags'[c]]_vars

\* A setting is struck off only after the inverter refused it: no lost answer and no
\* other rejection, of any caller, costs one; ET inverters and chargers keep them
\* all (et.py:1246, "transient errors shouldn't disable features").
SettingsKeptUnlessRefused ==
    /\ Settings \ (known \union Variant) \subseteq refused
    /\ family # "DT" => Settings \ Variant \subseteq known

\* A DT reading that fails over registers that are not there has cost the map one of
\* the settings it set out to read, if only by another caller: as many readings fail
\* as there are such settings, then one succeeds.
FailureForgetsASetting == [][\A c \in Callers :
    FailsAll(c) /\ family = "DT" /\ "failed" \notin snags'[c]
        /\ (\A s \in call[c].listed : contents[s] # "ValueError") =>
            ~(call[c].listed \subseteq known')]_vars
=============================================================================
