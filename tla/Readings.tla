------------------------------ MODULE Readings ------------------------------
(***************************************************************************)
(* What the daemon makes of the pump behind a binding: the adapter that    *)
(* create_read_only_lan_device gives it, with the schema and the schedule  *)
(* layout of the bound product key, reads the pump's status; Home          *)
(* Assistant shows the schedule of it; a target is turned into a control.  *)
(*                                                                         *)
(* A binding made from a configured address and product key was never      *)
(* answered, so any product may be there; everything else was answered by  *)
(* the pump.  The pump is external: it holds any of some statuses, and     *)
(* does what a control of its own product says.                            *)
(***************************************************************************)
EXTENDS Bindings

CONSTANTS
    Statuses,         \* Statuses[product]: statuses a pump can be met with
    Targets           \* targets the engine can ask a pump for, within the
                      \* limits of its configuration (_validate_power)

VARIABLES
    pump,             \* the pump looked at: its binding, product and status
    asked             \* the changes the control sent to it asked for

INSTANCE Schedules

allVars == <<vars, pump, asked>>

ASSUME ReadingsAssumption ==
    /\ DOMAIN ProductTypes \subseteq Products
    /\ DOMAIN Statuses = Products
    /\ \A product \in Products : \A raw \in Statuses[product] :
          \A n \in DOMAIN raw : raw[n] \in 0 .. 255
    /\ \A t \in Targets : t.enabled \in BOOLEAN

-----------------------------------------------------------------------------
Answered(b) == \E r \in discovered : Endpoint(r) = <<b.address, b.product_key>>

Behind(b) == IF Answered(b) THEN {b.product_key} ELSE Products

(* Mutant: a longer status will do. *)
LongEnough(schema, size) == size >= schema.size

(* decode_status and decode_schedule take a status of their own size only. *)
Fits(schema, size) == size = schema.size

Logical(schema, values, name) == IF name = None THEN 0 ELSE values[name]

(* get_state with _to_device_state, whose limits the state model checks;   *)
(* None if it raises.                                                      *)
GetState(key, size, raw) ==
    LET schema == Schemas[key]
        values == Values(schema, raw)
    IN  IF /\ Fits(schema, size)
           /\ Logical(schema, values, schema.power) <= 100
           /\ Logical(schema, values, schema.frequency) <= 100
        THEN [values |-> values,
              schedule |-> Schedule(key, raw,
                              "TimerON" \in DOMAIN values /\ values["TimerON"] = 1)]
        ELSE None

(* _target_changes, None if it raises. *)
TargetChanges(schema, t) ==
    LET given == {<<schema.enabled, 1>>, <<schema.power, t.power>>} \cup
                 (IF t.mode = None THEN {} ELSE {<<schema.mode, t.mode>>}) \cup
                 (IF t.frequency = None THEN {}
                  ELSE {<<schema.frequency, t.frequency>>})
    IN  IF ~t.enabled THEN [name \in {schema.enabled} |-> 0]
        ELSE IF \E g \in given : g[1] = None THEN None
        ELSE [name \in {g[1] : g \in given} |->
                 (CHOOSE g \in given : g[1] = name)[2]]

-----------------------------------------------------------------------------
ReadingsInit == Init /\ pump = None /\ asked = None

(* The worker of a binding meets what is there. *)
Meet(b) ==
    /\ position = Len(Configs)
    /\ pump = None
    /\ \E product \in Behind(b) : \E raw \in Statuses[product] :
         pump' = [binding |-> b, product |-> product, raw |-> raw]
    /\ UNCHANGED <<vars, asked>>

(* preview_target or write_target, and the pump obeys. *)
Control(t) ==
    /\ pump # None /\ asked = None
    /\ pump.product = pump.binding.product_key
    /\ LET schema  == Schemas[pump.product]
           changes == TargetChanges(schema, t)
       IN  /\ changes # None
           /\ Payload(schema, changes) # None
           /\ asked' = changes
           /\ pump' = [pump EXCEPT !.raw =
                          Obeyed(schema, @, Payload(schema, changes))]
    /\ UNCHANGED vars

ReadingsNext ==
    \/ Next /\ UNCHANGED <<pump, asked>>
    \/ \E b \in resolved : Meet(b)
    \/ \E t \in Targets : Control(t)

ReadingsSpec == ReadingsInit /\ [][ReadingsNext]_allVars

-----------------------------------------------------------------------------
(* Properties *)

State(p) == GetState(p.binding.product_key, Schemas[p.product].size, p.raw)

(* A status is read with the schema of the pump it is from or not at all,  *)
(* also when the configured product key is another pump's.                 *)
NeverMisread ==
    pump # None /\ pump.product # pump.binding.product_key => State(pump) = None

DayMinutes == 24 * 60

Window(slot) == <<60 * slot[1] + slot[2], 60 * slot[3] + slot[4]>>

(* Everything in the pump's schedule reaches Home Assistant and nothing    *)
(* else: each slot that is not all zero or all 0xee, and no other, is an   *)
(* entry or unreadable; what the daemon could decode passes the client's   *)
(* own checks.                                                             *)
ScheduleShown ==
    pump # None =>
      LET state == State(pump)
          told  == state.schedule
          shown == Shown(told)
          spec  == Specs[pump.product]
          idle  == {i \in Slots : \E b \in {0, 238} : \A k \in 1 .. spec.size :
                       ByteAt(pump.raw, spec.offset + i * spec.size + k - 1) = b}
      IN  state # None /\ told # None =>
            /\ shown = told
            /\ DOMAIN shown.entries \cup shown.invalid = Slots \ idle
            /\ DOMAIN shown.entries \cap shown.invalid = {}
            /\ \A i \in DOMAIN shown.entries :
                  Window(shown.entries[i])
                     \in (0 .. DayMinutes - 1) \X (0 .. DayMinutes)

(* A control changes what was asked for, as the read-back will compare it, *)
(* and nothing else: no other datapoint and no slot of the schedule.       *)
ControlIsExact ==
    [][asked' # asked =>
         LET before == Values(Schemas[pump.product], pump.raw)
             after  == Values(Schemas[pump.product], pump'.raw)
         IN  /\ \A name \in DOMAIN after :
                  after[name] = IF name \in DOMAIN asked' THEN asked'[name]
                                                          ELSE before[name]
             /\ Schedule(pump.product, pump'.raw, TRUE)
                  = Schedule(pump.product, pump.raw, TRUE)]_allVars

=============================================================================
