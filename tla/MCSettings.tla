----------------------------- MODULE MCSettings -----------------------------
(***************************************************************************)
(* Three settings read by two callers: a timestamp, one of the time-of-use *)
(* schedule that a slave cannot access, and one that comes and goes with   *)
(* read_device_info.                                                       *)
(***************************************************************************)
EXTENDS SettingsData, TLC

MCOrder == <<"time", "work_week", "grid_export_limit">>
MCRestricted == {"work_week"}
MCVariant == {"grid_export_limit"}
MCGroups == {"time"}
MCSlots == {"work_week"}
Symmetry == Permutations(Callers)
=============================================================================
