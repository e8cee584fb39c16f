----------------------------- MODULE MCReadings -----------------------------
(* Instances of Bindings and Readings for TLC. *)
EXTENDS Readings

CONSTANTS v1, v2, v3, m1, m2, a1, a2, a3, other,
          left, right, fixed, spare

wave   == "local_wavemaker"
return == "dc_pump_pro"

(* Two wavemakers known by identity, one of them by its MAC only, one pump  *)
(* with a fixed endpoint and one known by its address only.                *)
Pumps ==
    <<[id |-> left, type |-> "wavemaker", device_id |-> v1, mac_address |-> m1,
       address |-> None, product_key |-> None],
      [id |-> fixed, type |-> "wavemaker", device_id |-> None,
       mac_address |-> None, address |-> a1, product_key |-> wave],
      [id |-> right, type |-> "wavemaker", device_id |-> None,
       mac_address |-> m2, address |-> a1, product_key |-> None],
      [id |-> spare, type |-> "return_pump", device_id |-> None,
       mac_address |-> None, address |-> a2, product_key |-> None]>>

(* _PRODUCT_TYPES *)
Keys ==
    [key \in Products |->
       CASE key \in {"dc_pump_pro", "aquarium_pump"} -> "return_pump"
         [] key = "dosing_pump" -> "dosing_pump"
         [] OTHER -> "wavemaker"]

Answer(v, m, a, k) ==
    [device_id |-> v, mac_address |-> m, address |-> a, product_key |-> k]

(* The pumps from either address, impostors that carry half an identity or  *)
(* a foreign product key, and pumps nobody configured.                     *)
Answers ==
    {Answer(v1, m1, a1, wave), Answer(v1, m1, a2, wave), Answer(v1, m1, a2, return),
     Answer(v2, m2, a1, wave), Answer(v2, m2, a2, wave), Answer(v2, m2, a3, other),
     Answer(v1, m2, a1, wave), Answer(v1, m2, a3, "local_wavemaker_pro"),
     Answer(v3, None, a2, "aquarium_pump"), Answer(v3, m1, a3, wave)}

InUse == {v1, v2, v3, m1, m2, a1, a2, a3, other, left, right, fixed, spare}
         \cup Products

-----------------------------------------------------------------------------
(* The statuses a pump is met with: nothing set; every bit of the first two *)
(* bytes and of the last set, with slots of every kind; out of range.      *)

Windows ==
    <<<<6, 30, 24, 0, 0>>, <<23, 59, 0, 0, 2>>, <<24, 0, 6, 0, 0>>,
      <<8, 60, 9, 0, 1>>, <<0, 0, 12, 0, 9>>, <<0, 0, 24, 1, 1>>>>

(* Slot i holds Windows[i]; of the last three one mixes 0xee and zero, one *)
(* is 0xee, one is a window.                                               *)
Timers(product) ==
    IF product \notin DOMAIN Specs THEN <<>>
    ELSE LET spec == Specs[product]
         IN  [n \in spec.offset .. spec.offset + SlotCapacity * spec.size - 1 |->
                LET i == (n - spec.offset) \div spec.size
                    k == 1 + ((n - spec.offset) % spec.size)
                IN  IF i = SlotCapacity - 3 THEN IF k < 3 THEN 0 ELSE 238
                    ELSE IF i = SlotCapacity - 2 THEN 238
                    ELSE IF i = SlotCapacity - 1 THEN IF k < 6 THEN Windows[1][k] ELSE 1
                    ELSE IF i \in 1 .. Len(Windows) /\ k < 6 THEN Windows[i][k]
                    ELSE IF i = 7 /\ k = 8 THEN 2
                    ELSE 0]

Busy(product) ==
    LET timers == Timers(product)
        set    == {0, 1, Schemas[product].size - 1}
    IN  [n \in DOMAIN timers \cup set |-> IF n \in set THEN 255 ELSE timers[n]]

Overdriven == [n \in {1, 2, 3} |-> 101]

Samples == [product \in Products |-> {<<>>, Busy(product), Overdriven}]

Asked ==
    [enabled : {TRUE}, power : {1, 100}, mode : {None, 0, 3, 8},
     frequency : {None, 50}]
    \cup [enabled : {FALSE}, power : {1}, mode : {None}, frequency : {None}]

=============================================================================
