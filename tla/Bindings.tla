------------------------------ MODULE Bindings ------------------------------
(***************************************************************************)
(* resolve_device_bindings (src/jebao_flow/devices/observer.py): which     *)
(* configured device is polled at which endpoint of the network.  The loop *)
(* over the configurations is the state machine, one iteration a step; it  *)
(* starts from any set of responses a discovery can return.                *)
(*                                                                         *)
(* An endpoint is an address with a product key.  MAC addresses are values *)
(* compared after _compact_mac.                                            *)
(***************************************************************************)
EXTENDS Integers, Sequences, FiniteSets

CONSTANTS
    None,
    Configs,          \* the enabled devices in the order of the configuration
    Types,            \* pump types
    ProductTypes,     \* _PRODUCT_TYPES: a function from product keys to Types
    Responses,        \* responses a discovery can collect
    Strings           \* ids, MACs, addresses and product keys in use

VARIABLES
    discovered,       \* the responses of this discovery
    position,         \* how many configurations the loop has finished
    resolved,         \* set of [id, address, product_key]
    claimedVendorIds,
    claimedEndpoints

vars == <<discovered, position, resolved, claimedVendorIds, claimedEndpoints>>

-----------------------------------------------------------------------------
Response ==
    [device_id : Strings, mac_address : Strings \cup {None},
     address : Strings, product_key : Strings \cup {None}]

Config ==
    [id : Strings, type : Types, device_id : Strings \cup {None},
     mac_address : Strings \cup {None}, address : Strings \cup {None},
     product_key : Strings \cup {None}]

(* A product key that is not in _PRODUCT_TYPES has no type. *)
ASSUME BindingsAssumption ==
    /\ None \notin Strings
    /\ Configs \in Seq(Config)
    /\ \A i, j \in DOMAIN Configs : Configs[i].id = Configs[j].id => i = j
    /\ DOMAIN ProductTypes \subseteq Strings
    /\ Responses \subseteq Response
    /\ IsFiniteSet(Responses)

HasType(key, type) ==
    key \in DOMAIN ProductTypes /\ ProductTypes[key] = type

(* DeviceIdentityConfig demands one of the two. *)
Identified(c) == c.device_id # None \/ c.mac_address # None

Endpoint(r) == <<r.address, r.product_key>>

(* An answer is kept per vendor id and address, so a device that answers    *)
(* from two addresses stays visible twice.                                 *)
Discoveries ==
    {found \in SUBSET Responses :
        \A r, s \in found :
            r.device_id = s.device_id /\ r.address = s.address => r = s}

Init ==
    /\ discovered \in Discoveries
    /\ position = 0
    /\ resolved = {}
    /\ claimedVendorIds = {}
    /\ claimedEndpoints = {}

-----------------------------------------------------------------------------
(* The responses that carry every part of the configured identity. *)
Matches(c) ==
    {r \in discovered :
        /\ c.device_id   # None => r.device_id   = c.device_id
        /\ c.mac_address # None => r.mac_address = c.mac_address
        /\ c.product_key # None => r.product_key = c.product_key}

(* Without an identity and a product key: the responses from the address.  *)
MatchesByAddress(c) ==
    {r \in discovered :
        r.address = c.address /\ HasType(r.product_key, c.type)}

(* Mutant: an endpoint can be claimed twice. *)
BindUnclaimed(c, endpoint) ==
    /\ resolved' = resolved \cup {[id |-> c.id, address |-> endpoint[1],
                                   product_key |-> endpoint[2]]}
    /\ claimedEndpoints' = claimedEndpoints \cup {endpoint}

(* Binds c to the endpoint unless another device has claimed it. *)
Bind(c, endpoint) ==
    IF endpoint \in claimedEndpoints
    THEN UNCHANGED <<resolved, claimedEndpoints>>
    ELSE /\ resolved' = resolved \cup {[id |-> c.id, address |-> endpoint[1],
                                        product_key |-> endpoint[2]]}
         /\ claimedEndpoints' = claimedEndpoints \cup {endpoint}

Skip == UNCHANGED <<resolved, claimedEndpoints, claimedVendorIds>>

ResolveConfigured(c) ==
    IF HasType(c.product_key, c.type)
    THEN Bind(c, <<c.address, c.product_key>>) /\ UNCHANGED claimedVendorIds
    ELSE Skip

ResolveByAddress(c) ==
    IF Cardinality(MatchesByAddress(c)) = 1
    THEN /\ \E r \in MatchesByAddress(c) : Bind(c, Endpoint(r))
         /\ UNCHANGED claimedVendorIds
    ELSE Skip

(* Mutant: the vendor id is claimed before the product key is checked.      *)
ResolveByIdentityClaimFirst(c) ==
    IF Cardinality(Matches(c)) = 1
    THEN \E r \in Matches(c) :
           /\ claimedVendorIds' = claimedVendorIds \cup {r.device_id}
           /\ IF r.device_id \notin claimedVendorIds
                 /\ HasType(r.product_key, c.type)
              THEN Bind(c, Endpoint(r))
              ELSE UNCHANGED <<resolved, claimedEndpoints>>
    ELSE Skip

ResolveByIdentity(c) ==
    IF Cardinality(Matches(c)) = 1
    THEN \E r \in Matches(c) :
           IF r.device_id \notin claimedVendorIds
              /\ HasType(r.product_key, c.type)
           THEN /\ claimedVendorIds' = claimedVendorIds \cup {r.device_id}
                /\ Bind(c, Endpoint(r))
           ELSE Skip
    ELSE Skip

Resolve(c) ==
    IF Identified(c) THEN ResolveByIdentity(c)
    ELSE IF c.address # None /\ c.product_key # None THEN ResolveConfigured(c)
    ELSE IF c.address # None THEN ResolveByAddress(c)
    ELSE Skip

Next ==
    /\ position < Len(Configs)
    /\ position' = position + 1
    /\ Resolve(Configs[position + 1])
    /\ UNCHANGED discovered

Spec == Init /\ [][Next]_vars

-----------------------------------------------------------------------------
(* Properties *)

(* Type invariant; the claims are those of the bindings made so far, and no *)
(* vendor id is claimed that did not answer.                                *)
TypeOK ==
    /\ discovered \in SUBSET Responses
    /\ position \in 0 .. Len(Configs)
    /\ resolved \subseteq [id : Strings, address : Strings,
                            product_key : DOMAIN ProductTypes]
    /\ claimedEndpoints = {<<b.address, b.product_key>> : b \in resolved}
    /\ claimedVendorIds \subseteq {r.device_id : r \in discovered}

(* No two logical devices are bound to one endpoint, which is an address    *)
(* with a product key.  (One address with two product keys can be bound    *)
(* twice; NeverMisread of Readings says what is read there then.)          *)
EndpointBoundOnce ==
    \A a, b \in resolved :
        a.address = b.address /\ a.product_key = b.product_key => a = b

(* "Resolve only exact, stable identities; never infer by model, order, or  *)
(* product key": a device with an identity is bound only to the endpoint of *)
(* the one response that carries it, and every device only to an endpoint  *)
(* of its own pump type; conflicting answers bind nothing.                 *)
OnlyOwnIdentity ==
    \A b \in resolved : \E i \in 1 .. position :
      LET c == Configs[i]
      IN  /\ c.id = b.id
          /\ HasType(b.product_key, c.type)
          /\ Identified(c) =>
               /\ \A r \in discovered :
                    /\ c.device_id # None => r.device_id = c.device_id
                    /\ c.mac_address # None => r.mac_address = c.mac_address
                    /\ c.product_key # None => r.product_key = c.product_key
                    => Endpoint(r) = <<b.address, b.product_key>>
               /\ \E r \in discovered : Endpoint(r) = <<b.address, b.product_key>>
          /\ c.address # None /\ ~Identified(c) => b.address = c.address

(* A device whose identity has exactly one answer of its type is left       *)
(* unbound only for a device that is bound: to the same endpoint, or to an  *)
(* answer of the same vendor id.                                           *)
Taken(r) ==
    \E b \in resolved :
        \/ <<b.address, b.product_key>> = Endpoint(r)
        \/ \E s \in discovered :
              s.device_id = r.device_id /\ Endpoint(s) = <<b.address, b.product_key>>

UnboundForAReason ==
    \A i \in 1 .. position :
      \A r \in discovered :
        /\ Identified(Configs[i])
        /\ Matches(Configs[i]) = {r}
        /\ HasType(r.product_key, Configs[i].type)
        => Taken(r)

=============================================================================
