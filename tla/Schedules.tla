----------------------------- MODULE Schedules -----------------------------
(***************************************************************************)
(* The daily schedule in a pump's status: what the daemon decodes of it    *)
(* (src/jebao_flow/protocol/schedule.py) and what Home Assistant takes of  *)
(* the published one (custom_components/jebao_flow/sensor.py).             *)
(*                                                                         *)
(* A slot is its sequence of bytes: start and end as hour and minute, the  *)
(* code of the mode, parameters.  Names of modes and parameters are left   *)
(* out, and with them their length limits; so is the pump's clock.         *)
(***************************************************************************)
EXTENDS Datapoints, Sequences

SlotCapacity == 48

Slots == 0 .. SlotCapacity - 1

(* _SPECS: where the slots lie, and which mode codes are known; selector:  *)
(* the third parameter is a flag.                                          *)
Specs ==
    [key \in Products \ {"dosing_pump"} |->
       CASE key = "dc_pump_pro" ->
              [offset |-> 9,  size |-> 8, modes |-> 5, selector |-> FALSE]
         [] key = "local_wavemaker" ->
              [offset |-> 8,  size |-> 8, modes |-> 6, selector |-> TRUE]
         [] key = "local_wavemaker_pro" ->
              [offset |-> 11, size |-> 9, modes |-> 9, selector |-> FALSE]
         [] key = "aquarium_pump" ->
              [offset |-> 13, size |-> 6, modes |-> 3, selector |-> FALSE]]

Slot(spec, raw, i) ==
    [k \in 1 .. spec.size |-> ByteAt(raw, spec.offset + i * spec.size + k - 1)]

(* _is_unused: all zero or all 0xee. *)
Unused(slot) == \E b \in {0, 238} : \A k \in DOMAIN slot : slot[k] = b

(* _format_time *)
WallClock(hour, minute, allow24) ==
    \/ hour <= 23 /\ minute <= 59
    \/ allow24 /\ hour = 24 /\ minute = 0

Decodable(spec, slot) ==
    /\ WallClock(slot[1], slot[2], FALSE)
    /\ WallClock(slot[3], slot[4], TRUE)
    /\ slot[5] < spec.modes
    /\ spec.selector => slot[8] \in {0, 1}

(* decode_schedule: the entries and the slots it cannot read; None for a   *)
(* product without a known layout.                                         *)
Schedule(key, raw, enabled) ==
    IF key \notin DOMAIN Specs THEN None
    ELSE LET spec == Specs[key]
             used == {i \in Slots : ~Unused(Slot(spec, raw, i))}
             read == {i \in used : Decodable(spec, Slot(spec, raw, i))}
         IN  [enabled |-> enabled,
              entries |-> [i \in read |-> Slot(spec, raw, i)],
              invalid |-> used \ read]

-----------------------------------------------------------------------------
(* Mutant: Home Assistant does not know 24:00. *)
ScheduleTimeOfDay(hour, minute) == hour < 24 /\ minute < 60

(* _is_schedule_time, of a start or an end *)
ScheduleTime(hour, minute) ==
    \/ hour = 24 /\ minute = 0
    \/ hour < 24 /\ minute < 60

(* _schedule_entries and _invalid_schedule_slots *)
Shown(schedule) ==
    LET taken == {i \in DOMAIN schedule.entries :
                    LET slot == schedule.entries[i]
                    IN  /\ ScheduleTime(slot[1], slot[2])
                        /\ ScheduleTime(slot[3], slot[4])
                        /\ slot[5] \in 0 .. 255}
    IN  [schedule EXCEPT !.entries = [i \in taken |-> schedule.entries[i]],
                         !.invalid = @ \cap Slots]

=============================================================================
