----------------------------- MODULE Datapoints -----------------------------
(***************************************************************************)
(* The products' datapoints (src/jebao_flow/protocol/profiles.py), where   *)
(* they lie in a pump's status, how a status is read (schema.py) and how a *)
(* control is built (control.py).                                          *)
(*                                                                         *)
(* A status is the function of its bytes that are not 0.  A value with a   *)
(* name is given by its index: names are unique within a datapoint, so a   *)
(* request by name and the name read back agree when the indices do.       *)
(***************************************************************************)
EXTENDS Integers, FiniteSets, FiniteSetsExt

CONSTANTS None

-----------------------------------------------------------------------------
(* Datapoints; names is how many values have one. *)

Bool(id, name, bit) ==
    [id |-> id, name |-> name, writable |-> TRUE, byte |-> 0, bit |-> bit,
     length |-> 1, names |-> 0, minimum |-> 0, maximum |-> 1]

Enum(id, name, bit, length, names) ==
    [Bool(id, name, bit) EXCEPT !.length = length, !.names = names,
                                !.maximum = 2 ^ length - 1]

UInt8(id, name, byte, minimum, maximum, names) ==
    [Bool(id, name, 0) EXCEPT !.byte = byte, !.length = 8, !.names = names,
                              !.minimum = minimum, !.maximum = maximum]

Problem(id, name, byte, bit) ==
    [Bool(id, name, bit) EXCEPT !.byte = byte, !.writable = FALSE]

FaultNames == <<"Fault_Overcurrent", "Fault_Overvoltage", "Fault_OverTemp",
                "Fault_Undervoltage", "Fault_Lockedrotor",
                "Fault_no_liveload", "Fault_UART">>

Faults(first, byte) ==
    {Problem(first + i - 1, FaultNames[i], byte, i - 1) : i \in 1 .. 7}

(* A percentage and a duration. *)
Percent(id, name, byte) == UInt8(id, name, byte, 0, 100, 0)
Minutes(id, name, byte) == UInt8(id, name, byte, 1, 60, 0)

-----------------------------------------------------------------------------
(* The products. *)

DCPumpPro ==
    [size |-> 402, group |-> 1, controllable |-> TRUE,
     enabled |-> "SwitchON", power |-> "Flow", mode |-> "Mode",
     frequency |-> "Frequency",
     attributes |->
       {Bool(0, "SwitchON", 0), Bool(1, "TimerON", 1),
        UInt8(2, "Mode", 1, 0, 255, 5), Percent(3, "Flow", 2),
        Percent(4, "Frequency", 3), Minutes(5, "FeedTime", 4),
        UInt8(6, "AutoMode", 5, 0, 255, 5), Percent(7, "AutoFlow", 6),
        Percent(8, "AutoFreq", 7), Minutes(9, "AutoFeedTime", 8)}
       \cup Faults(60, 401)]

DosingPump ==
    [size |-> 394, group |-> 2, controllable |-> FALSE,
     enabled |-> "switch", power |-> None, mode |-> None, frequency |-> None,
     attributes |->
       {Bool(0, "switch", 0), Bool(1, "channe1", 1), Bool(2, "channe2", 2),
        Bool(3, "channe3", 3), Bool(4, "channe4", 4), Bool(5, "Timer1ON", 5),
        Bool(6, "Timer2ON", 6), Bool(7, "Timer3ON", 7), Bool(8, "Timer4ON", 8),
        Bool(9, "CALSW", 9), Enum(10, "CALSet", 10, 2, 4),
        UInt8(11, "IntervalT1", 2, 0, 30, 0), UInt8(12, "IntervalT2", 3, 0, 30, 0),
        UInt8(13, "IntervalT3", 4, 0, 30, 0), UInt8(14, "IntervalT4", 5, 0, 30, 0),
        UInt8(15, "Calib1", 6, 10, 100, 0),
        Problem(21, "OpenCircuit", 392, 0), Problem(22, "Fault_UART", 393, 0)}]

LocalWavemaker ==
    [size |-> 401, group |-> 2, controllable |-> TRUE,
     enabled |-> "SwitchON", power |-> "Flow", mode |-> "Mode",
     frequency |-> "Frequency",
     attributes |->
       {Bool(0, "SwitchON", 0), Bool(1, "PulseTide", 1),
        Bool(2, "FeedSwitch", 2), Bool(3, "TimerON", 3),
        Bool(4, "AutoPulseTide", 4), Enum(5, "Mode", 5, 2, 4),
        Enum(6, "Linkage", 7, 2, 3), Enum(7, "AutoMode", 9, 3, 6),
        Percent(8, "Flow", 2), Percent(9, "Frequency", 3),
        Minutes(10, "FeedTime", 4), Percent(11, "AutoFlow", 5),
        Percent(12, "AutoFreq", 6), Minutes(13, "AutoFeedTime", 7)}
       \cup Faults(64, 400)]

AquariumPump ==
    [size |-> 302, group |-> 1, controllable |-> TRUE,
     enabled |-> "SwitchON", power |-> "Motor_Speed", mode |-> None,
     frequency |-> None,
     attributes |->
       {Bool(0, "SwitchON", 0), Bool(1, "Mode", 1), Bool(2, "FeedSwitch", 2),
        Bool(3, "TimerON", 3), Enum(4, "AutoMode", 4, 2, 3),
        Percent(5, "Motor_Speed", 1), Minutes(6, "FeedTime", 2),
        Percent(7, "AutoGears", 3), Minutes(8, "AutoFeedTime", 4)}
       \cup Faults(59, 301)]

LocalWavemakerPro ==
    [size |-> 452, group |-> 1, controllable |-> TRUE,
     enabled |-> "SwitchON", power |-> "Flow", mode |-> "Mode",
     frequency |-> "Frequency",
     attributes |->
       {Bool(0, "SwitchON", 0), Bool(1, "TimerON", 1),
        Enum(2, "Linkage", 2, 2, 4), UInt8(3, "Mode", 1, 0, 255, 9),
        Percent(4, "Flow", 2), Percent(5, "Frequency", 3),
        Percent(6, "Cust_Wav_Freq", 4), Minutes(7, "FeedTime", 5),
        UInt8(8, "AutoMode", 6, 0, 255, 9), Percent(9, "AutoFlow", 7),
        Percent(10, "AutoFreq", 8), Percent(11, "Auto_Cust_Wav_Freq", 9),
        Minutes(12, "AutoFeedTime", 10)}
       \cup Faults(63, 451)]

Products == {"dc_pump_pro", "dosing_pump", "local_wavemaker", "aquarium_pump",
             "local_wavemaker_pro"}

Schemas ==
    [key \in Products |->
       CASE key = "dc_pump_pro"         -> DCPumpPro
         [] key = "dosing_pump"         -> DosingPump
         [] key = "local_wavemaker"     -> LocalWavemaker
         [] key = "aquarium_pump"       -> AquariumPump
         [] key = "local_wavemaker_pro" -> LocalWavemakerPro]

ByName(schema, name) == CHOOSE a \in schema.attributes : a.name = name

-----------------------------------------------------------------------------
(* Reading *)

ByteAt(raw, n) == IF n \in DOMAIN raw THEN raw[n] ELSE 0

(* A bit field of byte 0 of a product with a bit group lies in the         *)
(* big-endian number of the group; every other one lies in its byte.       *)
Grouped(schema, a) == a.byte = 0 /\ schema.group > 1

Word(schema, a, raw) ==
    IF Grouped(schema, a) THEN 256 * ByteAt(raw, 0) + ByteAt(raw, 1)
                          ELSE ByteAt(raw, a.byte)

(* _decode_attribute *)
Value(schema, a, raw) == (Word(schema, a, raw) \div 2 ^ a.bit) % 2 ^ a.length

Values(schema, raw) ==
    [name \in {a.name : a \in schema.attributes} |->
        Value(schema, ByName(schema, name), raw)]

-----------------------------------------------------------------------------
(* Writing *)

SetByte(raw, n, value) ==
    [m \in DOMAIN raw \cup {n} |-> IF m = n THEN value ELSE raw[m]]

(* The field gets the value, the rest of its word stays. *)
WithValue(schema, a, raw, value) ==
    LET word == Word(schema, a, raw)
                  + (value - Value(schema, a, raw)) * 2 ^ a.bit
    IN  IF Grouped(schema, a)
        THEN SetByte(SetByte(raw, 0, word \div 256), 1, word % 256)
        ELSE SetByte(raw, a.byte, word)

(* Mutant: bits are counted from the first byte on, also within a group.   *)
PlacedLinearly(schema, a, raw, value) ==
    LET n    == a.byte + a.bit \div 8
        unit == 2 ^ (a.bit % 8)
        old  == (ByteAt(raw, n) \div unit) % 2 ^ a.length
    IN  SetByte(raw, n, (ByteAt(raw, n) + (value - old) * unit) % 256)

(* _place_value *)
Placed(schema, a, raw, value) == WithValue(schema, a, raw, value)

(* What can be asked of a datapoint; one with names is asked by name.      *)
Requestable(a) == a.minimum .. IF a.names > 0 THEN a.names - 1 ELSE a.maximum

(* build_control_payload for changes, a function from names to values: the *)
(* flags and the values, None if it refuses.                               *)
Changed(schema, changes) == {ByName(schema, name) : name \in DOMAIN changes}

Payload(schema, changes) ==
    IF /\ schema.controllable
       /\ \A a \in Changed(schema, changes) :
             a.writable /\ changes[a.name] \in Requestable(a)
    THEN [flags  |-> {a.id : a \in Changed(schema, changes)},
          values |-> FoldSet(LAMBDA a, raw :
                               Placed(schema, a, raw, changes[a.name]),
                             <<>>, Changed(schema, changes))]
    ELSE None

(* What a pump does with a payload: the flagged datapoints take the values. *)
Obeyed(schema, raw, payload) ==
    FoldSet(LAMBDA a, r :
               WithValue(schema, a, r, Value(schema, a, payload.values)),
            raw, {a \in schema.attributes : a.id \in payload.flags})

=============================================================================
