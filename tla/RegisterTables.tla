--------------------------- MODULE RegisterTables ---------------------------
(***************************************************************************)
(* Where the sensors and settings of the families are (the tables at the   *)
(* head of goodwe/et.py, dt.py, es.py and hca.py) and the blocks of        *)
(* registers a runtime reading asks for.  A sensor is its first register   *)
(* and how many it takes; sensors of a runtime table that read the same    *)
(* registers are one element, and those calculated from other sensors'     *)
(* registers are none.  Settings are told apart, also where two of them    *)
(* are the same register.                                                  *)
(* The running data and the settings data of the ES family are addressed   *)
(* by byte instead.                                                        *)
(***************************************************************************)
EXTENDS Integers

Sensor(at, words) == [at |-> at, words |-> words]
Switch(at) == [at |-> at, words |-> 1, values |-> "on or off"]
Of(words, registers) == {Sensor(r, words) : r \in registers}
Every(first, last, step) == {r \in first..last : (r - first) % step = 0}
Span(s) == s.at..(s.at + s.words - 1)
Block(first, count) == first..(first + count - 1)
Overlap(s, t) == Span(s) \intersect Span(t) # {}

-----------------------------------------------------------------------------
(* ET family: runtime tables, in the order of the file.                     *)

EtRunning ==
    Of(1, 35103..35104 \union 35107..35108 \union 35111..35112 \union 35115..35116
          \union 35119..35123 \union 35125..35128 \union 35130..35133 \union 35135..35136
          \union 35145..35148 \union 35151..35154 \union 35157..35160 \union 35173..35181
          \union 35184..35188 \union Every(35199, 35211, 3) \union 47547..47594)
    \union Of(2, Every(35105, 35117, 4) \union Every(35137, 35143, 2) \union Every(35161, 35171, 2)
                 \union Every(35189, 35197, 2) \union Every(35200, 35209, 3)
                 \union {35149, 35155, 35182, 35220})
    \union Of(3, {35100})
EtBattery == Of(1, 37000..37023)
EtBattery2 == Of(1, 39000..39021)
EtBackup ==
    Of(1, 35228..35231 \union 35234..35237 \union 35240..35243)
    \union Of(2, Every(35232, 35244, 6) \union {35246})
EtBattery2Basic == Of(1, {35262, 35263, 35266}) \union Of(2, {35264})
EtMeter ==
    Of(1, 36000..36014 \union 36043..36044 \union 36051..36057)
    \union Of(2, Every(36015, 36041, 2) \union Every(36045, 36049, 2))
    \union Of(4, Every(36092, 36120, 4) \union {33510, 33514})
EtMppt ==
    Of(1, 35303..35327 \union 35337..35352)
    \union Of(2, Every(35353, 35363, 2) \union {35301})
EtParallel ==
    Of(1, 10400..10410 \union 10434..10437 \union 10470..10474 \union {10480} \union 10486..10499)
    \union Of(2, Every(10412, 10432, 2) \union {10438, 10476, 10478} \union Every(10481, 10485, 2))

\* The blocks ET.__init__ prepares.
EtRunningBlock == Block(35100, 125)
EtMeterBlock == Block(36000, 45)
EtMeterExtendedBlock == Block(36000, 58)
EtMeterExtended2Block == Block(36000, 125)
\* Mutant of EtBatteryBlock: one register short.
EtBatteryBlockShort == Block(37000, 23)
EtBatteryBlock == Block(37000, 24)
EtBattery2Block == Block(39000, 22)
EtMpptBlock == Block(35301, 61)
EtParallelBlock == Block(10400, 86)
EtBackupBlock == Block(35212, 39)      \* 0x898C, 0x27

\* _not_extended_meter, _not_extended_meter2, _not_reactive_energy
NotExtendedMeter(s) == s.at < 36045
NotExtendedMeter2(s) == s.at < 36058
NotReactiveEnergy(s) == s.at \notin {33510, 33514}
\* _not_slave_only_restricted goes by a sensor's first register.
RestrictedRegisters ==
    36000..36149 \union 36995..37074 \union 47500..47591 \union 47594..47650 \union 10400..10411
SlaveRestricted(s) == s.at \in RestrictedRegisters

(* ET family: settings. *)

EtSettings ==
    Of(1, 45251..45252 \union 45350..45358 \union 45482..45483 \union 47509..47512
          \union Every(47514, 47530, 4) \union 47531..47533 \union 47900..47910
          \union 47915..47928 \union 47933..47935
          \union {45127, 45246, 45248, 45264, 45288, 45539, 45542}
          \union {47000, 47010, 47120, 47500, 47539, 47541})
    \union Of(2, Every(47911, 47913, 2) \union Every(47929, 47931, 2) \union {45132})
    \union Of(3, {45200})
    \union Of(4, Every(47515, 47527, 4))
EtSettings19 ==
    Of(1, 47545..47570 \union 47595..47597 \union 47599..47601 \union 47603..47604
          \union 47613..47616 \union Every(47618, 47738, 5) \union 47739..47740
          \union 47743..47744)
    \union Of(2, Every(47619, 47734, 5) \union Every(47621, 47741, 5))
\* peak_shaving_enabled is the register of tou_slot8_work_week.
PeakShavingSwitch == Switch(47591)
EtSettings22 ==
    {PeakShavingSwitch} \union Of(1, 47571..47594 \union 47605..47606 \union {47544, 47602, 47609, 47612})
    \union Of(2, {47542})
EtNewFeatures == Of(1, {46708, 47775, 47780, 48028}) \union Of(2, {47776, 47778, 47781})
EtNegPrice == Of(1, 47785..47812)

-----------------------------------------------------------------------------
(* DT family *)

DtRunning ==
    Of(1, 30103..30108 \union 30115..30126 \union 30138..30139 \union 30141..30142
          \union 30162..30164 \union {30129, 30132, 30144, 30149, 30172})
    \union Of(2, {30127, 30130, 30133, 30135, 30145, 30147, 30165})
    \union Of(3, {30100})
DtMeter == Of(1, {30209}) \union Of(2, Every(30195, 30199, 2))
DtSettings ==
    Of(1, 40326..40328 \union 40330..40332 \union 40352..40353 \union {40345, 40347, 40362})
    \union Of(3, {40313})
DtSinglePhase == Of(2, {40328})
DtThreePhase == Of(1, {40336})
DtRunningBlock == Block(30100, 73)
DtMeterBlock == Block(30195, 15)

-----------------------------------------------------------------------------
(* HCA charger *)

HcaBlock1ThreePhase ==
    Of(1, 10001..10039 \union 10067..10069 \union 10075..10079 \union {10060, 10084})
    \union Of(2, Every(10061, 10065, 2))
HcaBlock1SinglePhase ==
    Of(1, 10001..10009 \union {10012} \union 10015..10039 \union 10067..10069
          \union 10075..10079 \union {10060, 10084})
    \union Of(2, Every(10061, 10065, 2))
HcaBlock2 == Of(1, 10107..10108) \union Of(2, {10103, 10105})
HcaBlock3 ==
    Of(1, 10157..10160 \union 10162..10164 \union {10176}) \union Of(2, Every(10166, 10174, 2))
HcaSettings == Of(1, 10019..10039 \union 10071..10073 \union {10000, 10060, 10157})
HcaRunningBlock == Block(10000, 85)
HcaRunningBlock2 == Block(10103, 6)
HcaRunningBlock3 == Block(10157, 20)

-----------------------------------------------------------------------------
(* ES family: two tables in bytes of an AA55 payload, and registers.        *)

EsRunning ==
    Of(1, 29..30 \union 51..52 \union {4, 9, 26, 33, 42, 77, 80})
    \union Of(2, Every(43, 49, 2) \union {0, 2, 5, 7, 10, 14, 16, 20, 22, 24, 31, 34}
                 \union {36, 40, 53, 67, 69, 75, 78, 81, 83})
    \union Of(4, {55, 59, 63, 71, 89})
EsSettingsData ==
    Of(2, Every(12, 18, 2) \union Every(22, 30, 2) \union Every(34, 42, 2) \union {52, 56, 66, 68})
EsSettings == Of(1, Every(1796, 1808, 4)) \union Of(4, Every(1793, 1805, 4))
EsSettings14 == Of(1, Every(47549, 47567, 6)) \union Of(6, Every(47547, 47565, 6))

-----------------------------------------------------------------------------
(* _settings once read_device_info has updated it: a setting added under the  *)
(* name of another one takes its place, as grid_export_limit does in the DT   *)
(* family and all eco modes in the ES family.                                 *)

SettingsOf ==
    [et |-> EtSettings \union EtSettings19 \union EtSettings22 \union EtNewFeatures \union EtNegPrice,
     dt_single_phase |-> (DtSettings \ Of(1, {40328})) \union DtSinglePhase,
     dt_three_phase |-> (DtSettings \ Of(1, {40328})) \union DtThreePhase,
     hca |-> HcaSettings, es |-> EsSettings, es_arm_14 |-> EsSettings14]

-----------------------------------------------------------------------------
(* What is read to fill a table, and the sensors of a table it does not hold. *)

Reading(table, block) == [table |-> table, block |-> block]
Outside(r) == {s \in r.table : ~(Span(s) \subseteq r.block)}

\* read_runtime_data of the families; read_settings_data of ES.  The answers of
\* the ES family are as long as the shortest of the recorded ones.
EtReadings ==
    [running |-> Reading(EtRunning, EtRunningBlock), battery |-> Reading(EtBattery, EtBatteryBlock),
     battery2 |-> Reading(EtBattery2, EtBattery2Block), backup |-> Reading(EtBackup, EtBackupBlock),
     battery2_basic |-> Reading(EtBattery2Basic, EtBackupBlock), mppt |-> Reading(EtMppt, EtMpptBlock),
     parallel |-> Reading(EtParallel, EtParallelBlock)]
DtReadings ==
    [running |-> Reading(DtRunning, DtRunningBlock), meter |-> Reading(DtMeter, DtMeterBlock)]
HcaReadings ==
    [three_phase |-> Reading(HcaBlock1ThreePhase, HcaRunningBlock),
     single_phase |-> Reading(HcaBlock1SinglePhase, HcaRunningBlock),
     block2 |-> Reading(HcaBlock2, HcaRunningBlock2), block3 |-> Reading(HcaBlock3, HcaRunningBlock3)]
EsReadings ==
    [running |-> Reading(EsRunning, Block(0, 95)), settings |-> Reading(EsSettingsData, Block(0, 86))]
=============================================================================
