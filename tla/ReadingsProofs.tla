--------------------------- MODULE ReadingsProofs ---------------------------
(***************************************************************************)
(* Proofs about resolve_device_bindings, for every configuration, table of *)
(* product keys and set of answers a discovery returns, and about what is  *)
(* read from the pumps behind the bindings and written to them, for every  *)
(* status of bytes and every target.                                       *)
(*                                                                         *)
(* A datapoint is a field of bits in a word.  The lemmas climb from        *)
(* division to fields, to bits, to datapoints that share no bit, to the    *)
(* folds that write several of them, to the five products.                 *)
(***************************************************************************)
EXTENDS Readings, FiniteSetTheorems, WellFoundedInduction, TLAPS

-----------------------------------------------------------------------------
(* The bindings *)

(* A set of responses with one member is that member's singleton.          *)
LEMMA OnlyMember ==
    ASSUME TypeOK, NEW S \in SUBSET discovered, Cardinality(S) = 1
    PROVE  \E r \in discovered : S = {r}
<1>1. IsFiniteSet(S)
  BY FS_Subset, BindingsAssumption DEF TypeOK
<1> QED
  BY <1>1, FS_Singleton

(* What binding the configuration c to an endpoint of its type does. *)
BoundTo(c, endpoint) ==
    /\ endpoint \in Strings \X DOMAIN ProductTypes
    /\ HasType(endpoint[2], c.type)
    /\ endpoint \notin claimedEndpoints
    /\ resolved' = resolved \cup {[id |-> c.id, address |-> endpoint[1],
                                   product_key |-> endpoint[2]]}
    /\ claimedEndpoints' = claimedEndpoints \cup {endpoint}
    /\ Identified(c) => \E r \in discovered :
                            Matches(c) = {r} /\ endpoint = Endpoint(r)
    /\ ~Identified(c) => endpoint[1] = c.address

(* One iteration binds the configuration, or leaves all bindings alone.    *)
LEMMA IterationKinds ==
    ASSUME TypeOK, Next
    PROVE  /\ position + 1 \in DOMAIN Configs
           /\ Configs[position + 1] \in Config
           /\ position' = position + 1
           /\ discovered' = discovered
           /\ claimedVendorIds' \subseteq {r.device_id : r \in discovered}
           /\ \/ UNCHANGED <<resolved, claimedEndpoints>>
              \/ \E endpoint : BoundTo(Configs[position + 1], endpoint)
<1> DEFINE c == Configs[position + 1]
<1>1. /\ position + 1 \in DOMAIN Configs
      /\ c \in Config
      /\ position' = position + 1
      /\ discovered' = discovered
      /\ Resolve(c)
  BY BindingsAssumption DEF TypeOK, Next
<1>2. \A r \in discovered : r \in Response
  BY BindingsAssumption DEF TypeOK
<1>3. \A key, type : HasType(key, type) => key \in DOMAIN ProductTypes
  BY DEF HasType
<1>4. CASE Skip
  BY <1>1, <1>4 DEF Skip, TypeOK
<1>5. CASE Identified(c) /\ ResolveByIdentity(c) /\ ~Skip
  <2>1. Cardinality(Matches(c)) = 1
    BY <1>5 DEF ResolveByIdentity
  <2>2. PICK r \in discovered : Matches(c) = {r}
    BY <2>1, OnlyMember DEF Matches
  <2>3. /\ HasType(r.product_key, c.type)
        /\ claimedVendorIds' = claimedVendorIds \cup {r.device_id}
        /\ Bind(c, Endpoint(r))
    BY <1>5, <2>1, <2>2 DEF ResolveByIdentity
  <2>4. Endpoint(r) \in Strings \X DOMAIN ProductTypes
    BY <1>2, <1>3, <2>3 DEF Endpoint, Response
  <2>5. CASE Endpoint(r) \in claimedEndpoints
    BY <1>1, <2>2, <2>3, <2>5 DEF Bind, TypeOK
  <2>6. CASE Endpoint(r) \notin claimedEndpoints
    <3>1. BoundTo(c, Endpoint(r))
      BY <1>5, <2>2, <2>3, <2>4, <2>6 DEF Bind, BoundTo, Endpoint
    <3> QED
      BY <1>1, <2>2, <2>3, <3>1 DEF TypeOK
  <2> QED
    BY <2>5, <2>6
<1>6. CASE ~Identified(c) /\ c.address # None /\ ResolveConfigured(c) /\ ~Skip
  <2> DEFINE endpoint == <<c.address, c.product_key>>
  <2>1. HasType(c.product_key, c.type) /\ Bind(c, endpoint) /\ UNCHANGED claimedVendorIds
    BY <1>6 DEF ResolveConfigured
  <2>2. endpoint \in Strings \X DOMAIN ProductTypes
    BY <1>1, <1>3, <1>6, <2>1 DEF Config
  <2>3. endpoint \notin claimedEndpoints
    BY <1>6, <2>1 DEF Bind, Skip
  <2>4. BoundTo(c, endpoint)
    BY <1>6, <2>1, <2>2, <2>3 DEF Bind, BoundTo
  <2> QED
    BY <1>1, <2>1, <2>4 DEF TypeOK
<1>7. CASE ~Identified(c) /\ ResolveByAddress(c) /\ ~Skip
  <2>1. PICK r \in MatchesByAddress(c) : Bind(c, Endpoint(r))
    BY <1>7 DEF ResolveByAddress
  <2>2. /\ r \in discovered
        /\ r.address = c.address
        /\ HasType(r.product_key, c.type)
        /\ UNCHANGED claimedVendorIds
    BY <1>7, <2>1 DEF ResolveByAddress, MatchesByAddress
  <2>3. Endpoint(r) \in Strings \X DOMAIN ProductTypes
    BY <1>2, <1>3, <2>2 DEF Endpoint, Response
  <2>4. Endpoint(r) \notin claimedEndpoints
    BY <1>7, <2>1, <2>2 DEF Bind, Skip
  <2>5. BoundTo(c, Endpoint(r))
    BY <1>7, <2>1, <2>2, <2>3, <2>4 DEF Bind, BoundTo, Endpoint
  <2> QED
    BY <1>1, <2>2, <2>5 DEF TypeOK
<1> QED
  BY <1>1, <1>4, <1>5, <1>6, <1>7 DEF Resolve

LEMMA InitType == Init => TypeOK
BY BindingsAssumption DEF Init, TypeOK, Discoveries

LEMMA StepType == TypeOK /\ [Next]_vars => TypeOK'
<1> SUFFICES ASSUME TypeOK, [Next]_vars PROVE TypeOK'
  OBVIOUS
<1>1. CASE UNCHANGED vars
  BY <1>1 DEF vars, TypeOK
<1>2. CASE Next
  <2> DEFINE c == Configs[position + 1]
  <2>1. /\ c \in Config
        /\ position' \in 0 .. Len(Configs)
        /\ discovered' \in SUBSET Responses
        /\ claimedVendorIds' \subseteq {r.device_id : r \in discovered'}
    BY <1>2, IterationKinds, BindingsAssumption DEF TypeOK
  <2>2. CASE UNCHANGED <<resolved, claimedEndpoints>>
    BY <2>1, <2>2 DEF TypeOK
  <2>3. ASSUME NEW endpoint, BoundTo(c, endpoint)
        PROVE  TypeOK'
    <3> DEFINE new == [id |-> c.id, address |-> endpoint[1],
                       product_key |-> endpoint[2]]
    <3>1. /\ resolved' = resolved \cup {new}
          /\ claimedEndpoints' = claimedEndpoints \cup {endpoint}
          /\ endpoint = <<new.address, new.product_key>>
          /\ new \in [id : Strings, address : Strings,
                      product_key : DOMAIN ProductTypes]
      BY <2>1, <2>3 DEF BoundTo, Config
    <3> HIDE DEF new
    <3>2. claimedEndpoints' = {<<b.address, b.product_key>> : b \in resolved'}
      BY <3>1 DEF TypeOK
    <3> QED
      BY <2>1, <3>1, <3>2 DEF TypeOK
  <2> QED
    BY <1>2, <2>2, <2>3, IterationKinds
<1> QED
  BY <1>1, <1>2

(* Bindings, claims and the discovery's answers stay what they should be:  *)
(* the claimed endpoints are exactly the bound ones.                       *)
THEOREM BindingsType == Spec => []TypeOK
BY InitType, StepType, PTL DEF Spec

(* Two devices are never bound to one endpoint, an address with a product  *)
(* key (resolve_device_bindings).                                          *)
THEOREM BoundOnce == Spec => []EndpointBoundOnce
<1>1. Init => EndpointBoundOnce
  BY DEF Init, EndpointBoundOnce
<1>2. ASSUME TypeOK, EndpointBoundOnce, [Next]_vars
      PROVE  EndpointBoundOnce'
  <2>1. CASE UNCHANGED vars
    BY <1>2, <2>1 DEF vars, EndpointBoundOnce
  <2>2. CASE Next /\ UNCHANGED <<resolved, claimedEndpoints>>
    BY <1>2, <2>2 DEF EndpointBoundOnce
  <2>3. ASSUME NEW c, NEW endpoint, BoundTo(c, endpoint)
        PROVE  EndpointBoundOnce'
    <3> DEFINE new == [id |-> c.id, address |-> endpoint[1],
                       product_key |-> endpoint[2]]
    <3>1. \A b \in resolved :
            ~(b.address = new.address /\ b.product_key = new.product_key)
      BY <1>2, <2>3 DEF BoundTo, TypeOK
    <3>2. resolved' = resolved \cup {new}
      BY <2>3 DEF BoundTo
    <3> HIDE DEF new
    <3> QED
      BY <1>2, <3>1, <3>2 DEF EndpointBoundOnce
  <2> QED
    BY <1>2, <2>1, <2>2, <2>3, IterationKinds
<1> QED
  BY <1>1, <1>2, BindingsType, PTL DEF Spec

(* A device is bound only by its exact identity or its configured address, *)
(* and only to an endpoint of its own pump type.                           *)
THEOREM OwnIdentity == Spec => []OnlyOwnIdentity
<1>1. Init => OnlyOwnIdentity
  BY DEF Init, OnlyOwnIdentity
<1>2. ASSUME TypeOK, OnlyOwnIdentity, [Next]_vars
      PROVE  OnlyOwnIdentity'
  <2>1. CASE UNCHANGED vars
    BY <1>2, <2>1 DEF vars, OnlyOwnIdentity
  <2>2. CASE Next
    <3> DEFINE c == Configs[position + 1]
    <3>1. /\ position' = position + 1 /\ position \in Nat
          /\ discovered' = discovered
      BY <1>2, <2>2, IterationKinds DEF TypeOK
    <3> DEFINE Own(b, i) ==
          /\ Configs[i].id = b.id
          /\ HasType(b.product_key, Configs[i].type)
          /\ Identified(Configs[i]) =>
               /\ \A r \in discovered :
                    /\ Configs[i].device_id # None => r.device_id = Configs[i].device_id
                    /\ Configs[i].mac_address # None => r.mac_address = Configs[i].mac_address
                    /\ Configs[i].product_key # None => r.product_key = Configs[i].product_key
                    => Endpoint(r) = <<b.address, b.product_key>>
               /\ \E r \in discovered : Endpoint(r) = <<b.address, b.product_key>>
          /\ Configs[i].address # None /\ ~Identified(Configs[i]) =>
               b.address = Configs[i].address
    <3>2. \A b \in resolved : \E i \in 1 .. position : Own(b, i)
      BY <1>2 DEF OnlyOwnIdentity
    <3>3. ASSUME NEW endpoint, BoundTo(c, endpoint)
          PROVE  Own([id |-> c.id, address |-> endpoint[1],
                      product_key |-> endpoint[2]], position + 1)
      BY <3>3 DEF BoundTo, Matches
    <3>4. \A b \in resolved' : \E i \in 1 .. position + 1 : Own(b, i)
      <4>1. SUFFICES ASSUME NEW b \in resolved'
                     PROVE  \E i \in 1 .. position + 1 : Own(b, i)
        OBVIOUS
      <4>2. CASE b \in resolved
        BY <3>1, <3>2, <4>2
      <4>3. CASE b \notin resolved
        <5>1. PICK endpoint : BoundTo(c, endpoint)
          BY <1>2, <2>2, <4>3, IterationKinds
        <5>2. b = [id |-> c.id, address |-> endpoint[1],
                   product_key |-> endpoint[2]]
          BY <4>3, <5>1 DEF BoundTo
        <5>3. Own(b, position + 1)
          BY <3>3, <5>1, <5>2
        <5> HIDE DEF Own
        <5> QED
          BY <3>1, <5>3
      <4> QED
        BY <4>2, <4>3
    <3> QED
      BY <3>1, <3>4 DEF OnlyOwnIdentity, Endpoint
  <2> QED
    BY <1>2, <2>1, <2>2
<1> QED
  BY <1>1, <1>2, BindingsType, PTL DEF Spec

(* A vendor id is claimed for a bound device: one of the answers with that *)
(* id is from a bound endpoint.                                            *)
ClaimsBound ==
    \A v \in claimedVendorIds : \E s \in discovered :
        s.device_id = v /\ Endpoint(s) \in claimedEndpoints

TakenEndpoint(r) ==
    \/ Endpoint(r) \in claimedEndpoints
    \/ \E s \in discovered :
          s.device_id = r.device_id /\ Endpoint(s) \in claimedEndpoints

LEMMA TakenAsEndpoint ==
    ASSUME TypeOK, NEW r
    PROVE  Taken(r) <=> TakenEndpoint(r)
BY DEF TypeOK, Taken, TakenEndpoint

(* The iteration for a device whose identity has one answer.               *)
LEMMA IdentityResolved ==
    ASSUME TypeOK, Next, NEW r \in discovered,
           Identified(Configs[position + 1]), Matches(Configs[position + 1]) = {r}
    PROVE  \/ r.device_id \in claimedVendorIds /\ UNCHANGED claimedVendorIds
           \/ ~HasType(r.product_key, Configs[position + 1].type)
              /\ UNCHANGED claimedVendorIds
           \/ /\ claimedVendorIds' = claimedVendorIds \cup {r.device_id}
              /\ Endpoint(r) \in claimedEndpoints'
<1>1. Cardinality(Matches(Configs[position + 1])) = 1
  BY FS_Singleton
<1>2. ResolveByIdentity(Configs[position + 1])
  BY DEF Next, Resolve
<1> QED
  BY <1>1, <1>2 DEF ResolveByIdentity, Bind, Skip

(* Claims of vendor ids are made for answers that are bound.               *)
LEMMA ClaimsKept ==
    ASSUME TypeOK, ClaimsBound, Next
    PROVE  /\ ClaimsBound'
           /\ discovered' = discovered
           /\ claimedEndpoints \subseteq claimedEndpoints'
<1> DEFINE c == Configs[position + 1]
<1>1. discovered' = discovered /\ claimedEndpoints \subseteq claimedEndpoints'
  BY IterationKinds DEF BoundTo
<1>2. CASE UNCHANGED claimedVendorIds
  BY <1>1, <1>2 DEF ClaimsBound, Endpoint
<1>3. CASE claimedVendorIds' # claimedVendorIds
  <2>1. Identified(c) /\ ResolveByIdentity(c)
    BY <1>3 DEF Next, Resolve, ResolveConfigured, ResolveByAddress, Skip
  <2>2. Cardinality(Matches(c)) = 1
    BY <1>3, <2>1 DEF ResolveByIdentity, Skip
  <2>3. PICK r \in discovered : Matches(c) = {r}
    BY <2>2, OnlyMember DEF Matches
  <2>4. /\ claimedVendorIds' = claimedVendorIds \cup {r.device_id}
        /\ Endpoint(r) \in claimedEndpoints'
    BY <1>3, <2>1, <2>3, IdentityResolved
  <2> QED
    BY <1>1, <2>4 DEF ClaimsBound, Endpoint
<1> QED
  BY <1>1, <1>2, <1>3

Settled(i) ==
    \A r \in discovered :
      /\ Identified(Configs[i])
      /\ Matches(Configs[i]) = {r}
      /\ HasType(r.product_key, Configs[i].type)
      => TakenEndpoint(r)

AllSettled == ClaimsBound /\ \A i \in 1 .. position : Settled(i)

(* A device whose identity has one answer of its type is bound, unless the *)
(* endpoint or the vendor id of that answer went to a bound device: no     *)
(* claim is ever made for nothing (resolve_device_bindings).               *)
THEOREM UnboundExplained == Spec => []UnboundForAReason
<1>1. TypeOK /\ AllSettled => UnboundForAReason
  BY TakenAsEndpoint DEF AllSettled, UnboundForAReason, Settled
<1>2. Init => AllSettled
  BY DEF Init, ClaimsBound, AllSettled
<1>3. ASSUME TypeOK, AllSettled, [Next]_vars
      PROVE  AllSettled'
  <2>1. CASE UNCHANGED vars
    <3>1. /\ UNCHANGED <<discovered, position, claimedVendorIds, claimedEndpoints>>
          /\ \A c : Matches(c)' = Matches(c)
      BY <2>1 DEF vars, Matches
    <3> QED
      BY <1>3, <3>1 DEF AllSettled, Settled, ClaimsBound, TakenEndpoint
  <2>2. CASE Next
    <3>1. /\ ClaimsBound'
          /\ discovered' = discovered
          /\ claimedEndpoints \subseteq claimedEndpoints'
          /\ position' = position + 1 /\ position \in Nat
      BY <1>3, <2>2, ClaimsKept, IterationKinds DEF TypeOK, AllSettled
    <3>2. /\ \A c : Matches(c)' = Matches(c)
          /\ \A r : TakenEndpoint(r) => TakenEndpoint(r)'
      BY <3>1 DEF Matches, TakenEndpoint
    <3>3. ASSUME NEW i \in 1 .. position PROVE Settled(i)'
      BY <1>3, <3>1, <3>2 DEF AllSettled, Settled
    <3>4. ASSUME NEW i, i = position + 1, NEW r \in discovered,
                 Identified(Configs[i]), Matches(Configs[i]) = {r},
                 HasType(r.product_key, Configs[i].type)
          PROVE  TakenEndpoint(r)'
      <4>1. CASE r.device_id \in claimedVendorIds
        BY <1>3, <3>2, <4>1 DEF AllSettled, ClaimsBound, TakenEndpoint
      <4>2. CASE r.device_id \notin claimedVendorIds
        BY <1>3, <2>2, <3>4, <4>2, IdentityResolved DEF TakenEndpoint
      <4> QED
        BY <4>1, <4>2
    <3>5. ASSUME NEW i, i = position + 1 PROVE Settled(i)'
      BY <3>1, <3>2, <3>4, <3>5 DEF Settled
    <3>6. \A i \in 1 .. position' : i \in 1 .. position \/ i = position + 1
      BY <3>1
    <3> QED
      BY <3>1, <3>3, <3>5, <3>6 DEF AllSettled
  <2> QED
    BY <1>3, <2>1, <2>2
<1> QED
  BY <1>1, <1>2, <1>3, BindingsType, PTL DEF Spec

-----------------------------------------------------------------------------
(* Division *)

(* Division with remainder, as the provers use it.                         *)
LEMMA DivMod ==
    ASSUME NEW n \in Nat, NEW d \in Nat \ {0}
    PROVE  n \div d \in Nat /\ n % d \in 0 .. d - 1 /\ n = (n \div d) * d + (n % d)
<1> DEFINE q == n \div d
           m == n % d
<1>1. q \in Int /\ m \in 0 .. d - 1 /\ n = d * q + m
  BY SMT
<1> HIDE DEF q, m
<1>2. q >= 0
  <2> SUFFICES ASSUME q < 0 PROVE FALSE
    BY <1>1
  <2>1. d * (- q) >= d
    BY <1>1
  <2> QED
    BY <1>1, <2>1
<1>3. q \in Nat /\ m \in 0 .. d - 1 /\ n = q * d + m
  BY <1>1, <1>2
<1> QED
  BY <1>3 DEF q, m

LEMMA DivUnique ==
    ASSUME NEW d \in Nat \ {0}, NEW k \in Nat, NEW r \in 0 .. d - 1
    PROVE  (k * d + r) \div d = k /\ (k * d + r) % d = r
<1> DEFINE n == k * d + r
<1>1. n \in Nat
  OBVIOUS
<1> DEFINE q == n \div d
           m == n % d
<1>2. q \in Nat /\ m \in 0 .. d - 1 /\ n = q * d + m
  BY <1>1, DivMod
<1> HIDE DEF q, m
<1>3. ~ q > k
  <2> SUFFICES ASSUME q > k PROVE FALSE
    OBVIOUS
  <2>1. d * (q - k) >= d
    BY <1>2
  <2> QED
    BY <2>1, <1>2
<1>4. ~ q < k
  <2> SUFFICES ASSUME q < k PROVE FALSE
    OBVIOUS
  <2>1. d * (k - q) >= d
    BY <1>2
  <2> QED
    BY <2>1, <1>2
<1> QED
  BY <1>2, <1>3, <1>4 DEF q, m

LEMMA DivDiv ==
    ASSUME NEW n \in Nat, NEW d \in Nat \ {0}, NEW c \in Nat \ {0}
    PROVE  n \div (d * c) = (n \div d) \div c
<1> DEFINE y == n \div d
           s == n % d
           z == y \div c
           t == y % c
<1>1. y \in Nat /\ s \in 0 .. d - 1 /\ n = y * d + s
  BY DivMod
<1> HIDE DEF y, s
<1>2. z \in Nat /\ t \in 0 .. c - 1 /\ y = z * c + t
  BY <1>1, DivMod
<1> HIDE DEF z, t
<1>3. t * d + s \in 0 .. d * c - 1
  <2>1. t * d <= (c - 1) * d
    BY <1>2
  <2>2. t * d \in Nat /\ (c - 1) * d = d * c - d
    BY <1>2
  <2> QED
    BY <1>1, <2>1, <2>2
<1>4. n = z * (d * c) + (t * d + s)
  BY <1>1, <1>2
<1>5. d * c \in Nat \ {0}
  OBVIOUS
<1>6. n \div (d * c) = z
  BY <1>2, <1>3, <1>4, <1>5, DivUnique
<1> QED
  BY <1>6 DEF y, z

(* Adding a multiple of d * c does not change what is left of the part      *)
(* below it.                                                               *)
LEMMA DivModAdd ==
    ASSUME NEW d \in Nat \ {0}, NEW c \in Nat \ {0}, NEW k \in Nat, NEW r \in Nat
    PROVE  ((k * (d * c) + r) \div d) % c = (r \div d) % c
<1> DEFINE y == r \div d
           s == r % d
           z == y \div c
           t == y % c
<1>1. y \in Nat /\ s \in 0 .. d - 1 /\ r = y * d + s
  BY DivMod
<1> HIDE DEF y, s
<1>2. z \in Nat /\ t \in 0 .. c - 1 /\ y = z * c + t
  BY <1>1, DivMod
<1> HIDE DEF z, t
<1>3. k * (d * c) + r = (k * c + y) * d + s /\ k * c + y \in Nat
  BY <1>1
<1>4. (k * (d * c) + r) \div d = k * c + y
  BY <1>1, <1>3, DivUnique
<1>5. k * c + y = (k + z) * c + t /\ k + z \in Nat
  BY <1>2
<1>6. (k * c + y) % c = t
  BY <1>2, <1>5, DivUnique
<1> QED
  BY <1>4, <1>6, Zenon DEF y, t

-----------------------------------------------------------------------------
(* Fields of a number: the one of q values from the unit p on. *)

FieldOf(w, p, q) == (w \div p) % q

LEMMA FieldBelow ==
    ASSUME NEW d \in Nat \ {0}, NEW c \in Nat \ {0}, NEW k \in Nat, NEW r \in Nat,
           NEW u, u = k * (d * c) + r
    PROVE  FieldOf(u, d, c) = FieldOf(r, d, c)
<1>1. ((k * (d * c) + r) \div d) % c = (r \div d) % c
  BY DivModAdd
<1> QED
  BY <1>1, Zenon DEF FieldOf

WithField(w, p, q, v) == w + (v - FieldOf(w, p, q)) * p

(* The number made of what is above a field, the field and what is below.  *)
Composed(h, m, r, p, q) == (h * q + m) * p + r

LEMMA FieldParts ==
    ASSUME NEW w \in Nat, NEW p \in Nat \ {0}, NEW q \in Nat \ {0}
    PROVE  /\ FieldOf(w, p, q) \in 0 .. q - 1
           /\ \E h \in Nat, r \in 0 .. p - 1 :
                 w = Composed(h, FieldOf(w, p, q), r, p, q)
<1> DEFINE x == w \div p
           r == w % p
           h == x \div q
           m == x % q
<1>1. x \in Nat /\ r \in 0 .. p - 1 /\ w = x * p + r
  BY DivMod
<1> HIDE DEF x, r
<1>2. h \in Nat /\ m \in 0 .. q - 1 /\ x = h * q + m
  BY <1>1, DivMod
<1>3. FieldOf(w, p, q) = m
  BY DEF x, FieldOf
<1> HIDE DEF h, m
<1> QED
  BY <1>1, <1>2, <1>3 DEF Composed

LEMMA PartsFields ==
    ASSUME NEW p \in Nat \ {0}, NEW q \in Nat \ {0},
           NEW h \in Nat, NEW m \in 0 .. q - 1, NEW r \in 0 .. p - 1
    PROVE  /\ Composed(h, m, r, p, q) \in Nat
           /\ FieldOf(Composed(h, m, r, p, q), p, q) = m
           /\ Composed(h, m, r, p, q) \div (p * q) = h
<1> DEFINE w == Composed(h, m, r, p, q)
<1>1. h * q + m \in Nat
  OBVIOUS
<1>2. w \in Nat /\ w \div p = h * q + m
  BY <1>1, DivUnique DEF Composed
<1>3. (h * q + m) % q = m /\ (h * q + m) \div q = h
  BY DivUnique
<1> HIDE DEF w
<1>4. w \div (p * q) = (w \div p) \div q
  BY <1>2, DivDiv
<1>5. w \in Nat /\ FieldOf(w, p, q) = m /\ w \div (p * q) = h
  BY <1>2, <1>3, <1>4 DEF FieldOf
<1> QED
  BY <1>5 DEF w

(* The numbers that have a field of q values, with c above it and p below. *)
Bound(p, q, c) == p * q * c

(* The numbers agree below the unit p. *)
SameBelow(p, w, W) ==
    \E k1, k2 \in Nat, r \in Nat : w = k1 * p + r /\ W = k2 * p + r

(* Writing a field gives it the value, keeps the number within the bound,  *)
(* and keeps what is above and below.                                      *)
LEMMA FieldWritten ==
    ASSUME NEW p \in Nat \ {0}, NEW q \in Nat \ {0}, NEW c \in Nat \ {0},
           NEW w \in 0 .. Bound(p, q, c) - 1, NEW v \in 0 .. q - 1
    PROVE  /\ WithField(w, p, q, v) \in 0 .. Bound(p, q, c) - 1
           /\ FieldOf(WithField(w, p, q, v), p, q) = v
           /\ WithField(w, p, q, v) \div (p * q) = w \div (p * q)
           /\ SameBelow(p, w, WithField(w, p, q, v))
<1> DEFINE W == WithField(w, p, q, v)
           m == FieldOf(w, p, q)
<1>1. w \in Nat /\ w < p * q * c
  <2>1. Bound(p, q, c) = p * q * c /\ p * q * c \in Nat
    BY DEF Bound
  <2> QED
    BY <2>1
<1>2. m \in 0 .. q - 1
  BY <1>1, FieldParts
<1>3. PICK h \in Nat, r \in 0 .. p - 1 : w = Composed(h, m, r, p, q)
  BY <1>1, FieldParts
<1>4. W = w + (v - m) * p
  BY DEF WithField
<1> HIDE DEF m, W
<1>5. W = Composed(h, v, r, p, q)
  BY <1>2, <1>3, <1>4 DEF Composed
<1>6. W \in Nat /\ FieldOf(W, p, q) = v /\ W \div (p * q) = h
  BY <1>5, PartsFields
<1>7. w \div (p * q) = h
  BY <1>2, <1>3, PartsFields
<1>8. h < c
  <2> SUFFICES ASSUME h >= c PROVE FALSE
    OBVIOUS
  <2>1. h * (q * p) >= c * (q * p)
    OBVIOUS
  <2>2. w >= h * (q * p)
    BY <1>2, <1>3 DEF Composed
  <2> QED
    BY <1>1, <2>1, <2>2
<1>9. W < p * q * c
  <2>1. (h + 1) * (p * q) <= c * (p * q)
    BY <1>8
  <2>2. v * p <= (q - 1) * p
    OBVIOUS
  <2>3. W < (h + 1) * (p * q)
    BY <1>5, <2>2 DEF Composed
  <2> QED
    BY <1>6, <2>1, <2>3
<1>10. W \in 0 .. Bound(p, q, c) - 1
  BY <1>6, <1>9 DEF Bound
<1>11. SameBelow(p, w, W)
  <2>1. h * q + m \in Nat /\ h * q + v \in Nat /\ r \in Nat
    BY <1>2
  <2> QED
    BY <1>3, <1>5, <2>1 DEF Composed, SameBelow
<1>12. /\ W \in 0 .. Bound(p, q, c) - 1
       /\ FieldOf(W, p, q) = v
       /\ W \div (p * q) = w \div (p * q)
       /\ SameBelow(p, w, W)
  BY <1>6, <1>7, <1>10, <1>11
<1> QED
  BY <1>12 DEF W

-----------------------------------------------------------------------------
(* Bits *)
(* A set of numbers that is not empty has a least one: with it, a proof by *)
(* induction is one about the least counterexample.                        *)
LEMMA LeastNat ==
    ASSUME NEW T \in SUBSET Nat, T # {}
    PROVE  \E n \in T : \A m \in T : n <= m
<1> DEFINE R == OpToRel(<, Nat)
<1>1. \A x, y \in Nat : <<x, y>> \in R <=> x < y
  BY DEF OpToRel
<1>2. IsWellFoundedOn(R, Nat)
  BY NatLessThanWellFounded
<1> HIDE DEF R
<1>3. \E x \in T : \A y \in T : ~ (<<y, x>> \in R)
  BY <1>2, WFMin
<1>4. PICK x \in T : \A y \in T : ~ (<<y, x>> \in R)
  BY <1>3
<1>5. \A y \in T : ~ (y < x)
  BY <1>1, <1>4
<1> QED
  BY <1>5

(* The powers of 2 up to that of the widest word. *)
Powers == [k \in 0 .. 16 |-> 2 ^ k]

LEMMA PowersAre ==
    /\ Powers[0] = 1 /\ Powers[1] = 2 /\ Powers[2] = 4 /\ Powers[3] = 8
    /\ Powers[4] = 16 /\ Powers[5] = 32 /\ Powers[6] = 64 /\ Powers[7] = 128
    /\ Powers[8] = 256 /\ Powers[9] = 512 /\ Powers[10] = 1024
    /\ Powers[11] = 2048 /\ Powers[12] = 4096 /\ Powers[13] = 8192
    /\ Powers[14] = 16384 /\ Powers[15] = 32768 /\ Powers[16] = 65536
BY SMT DEF Powers

LEMMA PowersDouble ==
    /\ \A k \in 0 .. 16 : Powers[k] = 2 ^ k /\ Powers[k] \in Nat \ {0}
    /\ \A k \in 0 .. 15 : Powers[k + 1] = 2 * Powers[k]
<1>1. \A k \in 0 .. 16 : Powers[k] = 2 ^ k
  BY DEF Powers
<1>2. ASSUME NEW k \in 0 .. 16
      PROVE  Powers[k] \in Nat \ {0} /\ (k # 16 => Powers[k + 1] = 2 * Powers[k])
  <2>1. k \in {0, 1, 2, 3, 4, 5, 6, 7, 8, 9, 10, 11, 12, 13, 14, 15, 16}
    OBVIOUS
  <2> QED
    BY <2>1, PowersAre
<1> QED
  BY <1>1, <1>2

LEMMA PowersAdd ==
    \A m, n \in 0 .. 16 : m + n <= 16 => Powers[m + n] = Powers[m] * Powers[n]
<1> DEFINE T == {n \in 0 .. 16 : \E m \in 0 .. 16 :
                    m + n <= 16 /\ Powers[m + n] # Powers[m] * Powers[n]}
<1>1. T = {}
  <2> SUFFICES ASSUME T # {} PROVE FALSE
    OBVIOUS
  <2>1. T \in SUBSET Nat
    OBVIOUS
  <2>2. PICK n \in T : \A k \in T : n <= k
    <3> HIDE DEF T
    <3> QED
      BY <2>1, LeastNat
  <2>3. PICK m \in 0 .. 16 : m + n <= 16 /\ Powers[m + n] # Powers[m] * Powers[n]
    BY <2>2
  <2>4. n \in 0 .. 16 /\ Powers[m] \in Nat
    BY <2>2, PowersDouble
  <2>5. n # 0
    BY <2>3, <2>4, PowersAre
  <2>6. n - 1 \in 0 .. 16 /\ n - 1 \notin T
    BY <2>2, <2>4, <2>5
  <2>7. Powers[m + (n - 1)] = Powers[m] * Powers[n - 1]
    BY <2>3, <2>4, <2>6
  <2>8. /\ Powers[n] = 2 * Powers[n - 1] /\ Powers[n - 1] \in Nat
    <3>1. n - 1 \in 0 .. 15 /\ (n - 1) + 1 = n
      BY <2>4, <2>5
    <3> QED
      BY <3>1, PowersDouble
  <2>9. Powers[m + n] = 2 * Powers[m + (n - 1)]
    <3>1. m + (n - 1) \in 0 .. 15 /\ (m + (n - 1)) + 1 = m + n
      BY <2>3, <2>4, <2>5
    <3> QED
      BY <3>1, PowersDouble
  <2>10. Powers[m + n] = Powers[m] * Powers[n]
    BY <2>4, <2>7, <2>8, <2>9
  <2> QED
    BY <2>3, <2>10
<1> QED
  BY <1>1

(* The field of l bits from bit b on. *)
Bits(w, b, l) == FieldOf(w, Powers[b], Powers[l])

WithBits(w, b, l, v) == WithField(w, Powers[b], Powers[l], v)

(* The numbers of n bits. *)
Numbers(n) == 0 .. Powers[n] - 1

LEMMA NumbersAre ==
    ASSUME NEW n \in 0 .. 16
    PROVE  Numbers(n) \subseteq Nat
BY PowersDouble DEF Numbers

LEMMA Octets ==
    ASSUME NEW x
    PROVE  x \in Numbers(8) <=> x \in Nat /\ x < 256
BY PowersAre DEF Numbers

LEMMA Words ==
    ASSUME NEW x
    PROVE  x \in Numbers(16) <=> x \in Nat /\ x < 65536
<1>1. Powers[16] \in Nat
  BY PowersDouble
<1>2. x \in Numbers(16) <=> x \in Nat /\ x < Powers[16]
  <2> DEFINE top == Powers[16]
  <2>1. top \in Nat /\ Numbers(16) = 0 .. top - 1
    BY <1>1 DEF Numbers
  <2> HIDE DEF top
  <2>2. x \in 0 .. top - 1 <=> x \in Nat /\ x < top
    BY <2>1
  <2> QED
    BY <2>1, <2>2 DEF top
<1> QED
  BY <1>2, PowersAre

LEMMA BitsWrite ==
    ASSUME NEW n \in 0 .. 16, NEW b \in Nat, NEW l \in Nat, b + l <= n,
           NEW w \in Numbers(n), NEW v \in Numbers(l)
    PROVE  /\ WithBits(w, b, l, v) \in Numbers(n)
           /\ Bits(WithBits(w, b, l, v), b, l) = v
           /\ \A b2, l2 \in Nat :
                b2 + l2 <= n /\ (b + l <= b2 \/ b2 + l2 <= b) =>
                  Bits(WithBits(w, b, l, v), b2, l2) = Bits(w, b2, l2)
<1> DEFINE W == WithBits(w, b, l, v)
           p == Powers[b]
           q == Powers[l]
           c == Powers[n - (b + l)]
<1>1. b \in 0 .. 16 /\ l \in 0 .. 16 /\ n - (b + l) \in 0 .. 16
      /\ b + l \in 0 .. 16
  OBVIOUS
<1>2. p \in Nat \ {0} /\ q \in Nat \ {0} /\ c \in Nat \ {0}
  BY <1>1, PowersDouble
<1>3. Powers[n] = Bound(p, q, c)
  <2>1. (b + l) + (n - (b + l)) = n
    OBVIOUS
  <2>2. Powers[n] = Powers[b + l] * c
    BY <1>1, <2>1, PowersAdd
  <2>3. Powers[b + l] = p * q
    BY <1>1, PowersAdd
  <2> HIDE DEF p, q, c
  <2> QED
    BY <1>2, <2>2, <2>3 DEF Bound
<1>4. W = WithField(w, p, q, v) /\ Bits(W, b, l) = FieldOf(W, p, q)
  BY DEF WithBits, Bits
<1> HIDE DEF p, q, c, W
<1>5. /\ W \in Numbers(n)
      /\ FieldOf(W, p, q) = v
      /\ W \div (p * q) = w \div (p * q)
      /\ SameBelow(p, w, W)
  <2>1. w \in 0 .. Bound(p, q, c) - 1 /\ v \in 0 .. q - 1
    BY <1>3 DEF q, Numbers
  <2>2. /\ WithField(w, p, q, v) \in 0 .. Bound(p, q, c) - 1
        /\ FieldOf(WithField(w, p, q, v), p, q) = v
    BY <1>2, <2>1, FieldWritten
  <2>3. WithField(w, p, q, v) \div (p * q) = w \div (p * q)
    BY <1>2, <2>1, FieldWritten
  <2>4. SameBelow(p, w, WithField(w, p, q, v))
    BY <1>2, <2>1, FieldWritten
  <2> QED
    BY <1>3, <1>4, <2>2, <2>3, <2>4 DEF Numbers
<1>6. W \in Nat /\ w \in Nat
  BY <1>5, NumbersAre
<1>7. ASSUME NEW b2 \in Nat, NEW l2 \in Nat, b2 + l2 <= n, b + l <= b2
      PROVE  Bits(W, b2, l2) = Bits(w, b2, l2)
  <2> DEFINE d == Powers[b2 - (b + l)]
  <2>1. b2 - (b + l) \in 0 .. 16 /\ (b + l) + (b2 - (b + l)) = b2
    BY <1>7
  <2>2. d \in Nat \ {0}
    BY <2>1, PowersDouble
  <2>3. Powers[b2] = (p * q) * d
    <3>1. Powers[b2] = Powers[b + l] * d
      BY <1>1, <1>7, <2>1, PowersAdd
    <3>2. Powers[b + l] = p * q
      BY <1>1, PowersAdd DEF p, q
    <3> QED
      BY <3>1, <3>2
  <2> HIDE DEF d
  <2>4. p * q \in Nat \ {0}
    BY <1>2
  <2>5. /\ W \div Powers[b2] = (W \div (p * q)) \div d
        /\ w \div Powers[b2] = (w \div (p * q)) \div d
    BY <1>6, <2>2, <2>3, <2>4, DivDiv
  <2> QED
    BY <1>5, <2>5 DEF Bits, FieldOf
<1>8. ASSUME NEW b2 \in Nat, NEW l2 \in Nat, b2 + l2 <= b
      PROVE  Bits(W, b2, l2) = Bits(w, b2, l2)
  <2> DEFINE d == Powers[b2]
             e == Powers[l2]
             f == Powers[b - (b2 + l2)]
  <2>1. b2 \in 0 .. 16 /\ l2 \in 0 .. 16 /\ b2 + l2 \in 0 .. 16
        /\ b - (b2 + l2) \in 0 .. 16 /\ (b2 + l2) + (b - (b2 + l2)) = b
    BY <1>1, <1>8
  <2>2. d \in Nat \ {0} /\ e \in Nat \ {0} /\ f \in Nat \ {0}
    BY <2>1, PowersDouble
  <2>3. p = (d * e) * f
    <3>1. p = Powers[b2 + l2] * f
      BY <1>1, <2>1, PowersAdd DEF p
    <3>2. Powers[b2 + l2] = d * e
      BY <2>1, PowersAdd
    <3> QED
      BY <3>1, <3>2
  <2> HIDE DEF d, e, f
  <2>4. ASSUME NEW k \in Nat, NEW r \in Nat, NEW u, u = k * p + r
        PROVE  FieldOf(u, d, e) = FieldOf(r, d, e)
    <3> DEFINE j == k * f
    <3>1. k * p = j * (d * e) /\ j \in Nat
      BY <2>2, <2>3
    <3> HIDE DEF j
    <3>2. u = j * (d * e) + r
      BY <2>4, <3>1
    <3>3. /\ d \in Nat \ {0} /\ e \in Nat \ {0}
          /\ j \in Nat /\ r \in Nat
      BY <2>2, <3>1
    <3> QED
      BY <3>2, <3>3, FieldBelow
  <2>5. PICK k1 \in Nat, k2 \in Nat, r \in Nat : w = k1 * p + r /\ W = k2 * p + r
    BY <1>5 DEF SameBelow
  <2>6. FieldOf(W, d, e) = FieldOf(w, d, e)
    BY <2>4, <2>5
  <2> QED
    BY <2>6 DEF Bits, d, e
<1>9. /\ W \in Numbers(n)
      /\ Bits(W, b, l) = v
      /\ \A b2, l2 \in Nat :
           b2 + l2 <= n /\ (b + l <= b2 \/ b2 + l2 <= b) =>
             Bits(W, b2, l2) = Bits(w, b2, l2)
  BY <1>4, <1>5, <1>7, <1>8
<1> QED
  BY <1>9 DEF W

LEMMA BitsWritten ==
    ASSUME NEW n \in 0 .. 16, NEW b \in Nat, NEW l \in Nat, b + l <= n,
           NEW w \in Numbers(n), NEW v \in Numbers(l)
    PROVE  /\ WithBits(w, b, l, v) \in Numbers(n)
           /\ Bits(WithBits(w, b, l, v), b, l) = v
BY BitsWrite

LEMMA BitsKept ==
    ASSUME NEW n \in 0 .. 16, NEW b \in Nat, NEW l \in Nat, b + l <= n,
           NEW w \in Numbers(n), NEW v \in Numbers(l),
           NEW b2 \in Nat, NEW l2 \in Nat, b2 + l2 <= n,
           b + l <= b2 \/ b2 + l2 <= b
    PROVE  Bits(WithBits(w, b, l, v), b2, l2) = Bits(w, b2, l2)
BY BitsWrite

-----------------------------------------------------------------------------
(* Bytes and datapoints *)
(* A status, or the values of a control: a function to bytes. *)
Bytes(raw) == \A n \in DOMAIN raw : raw[n] \in Numbers(8)

LEMMA ByteType ==
    ASSUME NEW raw, Bytes(raw), NEW n
    PROVE  ByteAt(raw, n) \in Numbers(8)
BY Octets DEF Bytes, ByteAt

LEMMA ByteSet ==
    ASSUME NEW raw, Bytes(raw), NEW n, NEW x \in Numbers(8)
    PROVE  Bytes(SetByte(raw, n, x)) /\ ByteAt(SetByte(raw, n, x), n) = x
BY DEF Bytes, ByteAt, SetByte

LEMMA ByteKept ==
    ASSUME NEW raw, NEW n, NEW x, NEW m, m # n
    PROVE  ByteAt(SetByte(raw, n, x), m) = ByteAt(raw, m)
BY DEF ByteAt, SetByte

(* The word of a datapoint. *)
Width(schema, a) == IF Grouped(schema, a) THEN 16 ELSE 8

Cells(schema, a) == IF Grouped(schema, a) THEN {0, 1} ELSE {a.byte}

WithWord(schema, a, raw, word) ==
    IF Grouped(schema, a) THEN SetByte(SetByte(raw, 0, word \div 256), 1, word % 256)
                          ELSE SetByte(raw, a.byte, word)

LEMMA WordType ==
    ASSUME NEW schema, NEW a, NEW raw, Bytes(raw)
    PROVE  Word(schema, a, raw) \in Numbers(Width(schema, a))
<1>1. CASE Grouped(schema, a)
  <2>1. /\ ByteAt(raw, 0) \in Nat /\ ByteAt(raw, 0) < 256
        /\ ByteAt(raw, 1) \in Nat /\ ByteAt(raw, 1) < 256
    BY ByteType, Octets
  <2>2. /\ Word(schema, a, raw) = 256 * ByteAt(raw, 0) + ByteAt(raw, 1)
        /\ Width(schema, a) = 16
    BY <1>1 DEF Word, Width
  <2>3. Word(schema, a, raw) \in Numbers(16)
    BY <2>1, <2>2, Words
  <2> QED
    BY <2>2, <2>3
<1>2. CASE ~Grouped(schema, a)
  BY <1>2, ByteType DEF Word, Width
<1> QED
  BY <1>1, <1>2

LEMMA WordWritten ==
    ASSUME NEW schema, NEW a, NEW raw, Bytes(raw),
           NEW word \in Numbers(Width(schema, a))
    PROVE  /\ Bytes(WithWord(schema, a, raw, word))
           /\ Word(schema, a, WithWord(schema, a, raw, word)) = word
<1>1. CASE Grouped(schema, a)
  <2> DEFINE high == word \div 256
             low  == word % 256
             first == SetByte(raw, 0, high)
             both  == SetByte(first, 1, low)
  <2>1. word \in Numbers(16)
    BY <1>1 DEF Width
  <2>2. word \in Nat /\ word < 65536
    BY <2>1, Words
  <2>3. /\ high \in Nat /\ high < 256 /\ low \in Nat /\ low < 256
        /\ 256 * high + low = word
    BY <2>2
  <2>4. WithWord(schema, a, raw, word) = both
    BY <1>1 DEF WithWord
  <2> HIDE DEF high, low
  <2>5. high \in Numbers(8) /\ low \in Numbers(8)
    BY <2>3, Octets
  <2>6. Bytes(first) /\ ByteAt(first, 0) = high
    BY <2>5, ByteSet
  <2> HIDE DEF first
  <2>7. Bytes(both) /\ ByteAt(both, 1) = low
    BY <2>5, <2>6, ByteSet
  <2>8. ByteAt(both, 0) = high
    BY <2>6, ByteKept
  <2> HIDE DEF both
  <2>9. Word(schema, a, both) = word
    BY <1>1, <2>3, <2>7, <2>8 DEF Word
  <2> QED
    BY <2>4, <2>7, <2>9
<1>2. CASE ~Grouped(schema, a)
  <2>1. word \in Numbers(8)
    BY <1>2 DEF Width
  <2>2. WithWord(schema, a, raw, word) = SetByte(raw, a.byte, word)
    BY <1>2 DEF WithWord
  <2> QED
    BY <1>2, <2>1, <2>2, ByteSet DEF Word
<1> QED
  BY <1>1, <1>2

LEMMA WordKeeps ==
    ASSUME NEW schema, NEW a, NEW raw, NEW word, NEW n, n \notin Cells(schema, a)
    PROVE  ByteAt(WithWord(schema, a, raw, word), n) = ByteAt(raw, n)
<1>1. CASE Grouped(schema, a)
  <2>1. n # 0 /\ n # 1
    BY <1>1 DEF Cells
  <2> QED
    BY <1>1, <2>1, ByteKept DEF WithWord
<1>2. CASE ~Grouped(schema, a)
  BY <1>2, ByteKept DEF WithWord, Cells
<1> QED
  BY <1>1, <1>2

(* A datapoint within its word, and two that share no bit. *)
Placeable(schema, a) ==
    a.bit \in Nat /\ a.length \in Nat /\ a.bit + a.length <= Width(schema, a)

Apart(schema, a, b) ==
    IF a.byte = b.byte
    THEN a.bit + a.length <= b.bit \/ b.bit + b.length <= a.bit
    ELSE Cells(schema, a) \cap Cells(schema, b) = {}

LEMMA ValueIsBits ==
    ASSUME NEW schema, NEW a, NEW raw, Placeable(schema, a)
    PROVE  Value(schema, a, raw) = Bits(Word(schema, a, raw), a.bit, a.length)
<1>1. a.bit \in 0 .. 16 /\ a.length \in 0 .. 16
  BY DEF Placeable, Width
<1>2. Powers[a.bit] = 2 ^ a.bit /\ Powers[a.length] = 2 ^ a.length
  BY <1>1, PowersDouble
<1> QED
  BY <1>2 DEF Value, Bits, FieldOf

LEMMA WithValueIsBits ==
    ASSUME NEW schema, NEW a, NEW raw, NEW value, Placeable(schema, a)
    PROVE  WithValue(schema, a, raw, value) =
             WithWord(schema, a, raw,
                      WithBits(Word(schema, a, raw), a.bit, a.length, value))
<1>1. a.bit \in 0 .. 16
  BY DEF Placeable, Width
<1>2. Powers[a.bit] = 2 ^ a.bit
  BY <1>1, PowersDouble
<1>3. Value(schema, a, raw) =
        FieldOf(Word(schema, a, raw), Powers[a.bit], Powers[a.length])
  BY ValueIsBits DEF Bits
<1> QED
  BY <1>2, <1>3 DEF WithValue, WithWord, WithBits, WithField

(* The word of a written datapoint. *)
LEMMA WordNew ==
    ASSUME NEW schema, NEW a, NEW raw, Placeable(schema, a), Bytes(raw),
           NEW value \in Numbers(a.length)
    PROVE  /\ Bytes(WithValue(schema, a, raw, value))
           /\ Word(schema, a, raw) \in Numbers(Width(schema, a))
           /\ Word(schema, a, WithValue(schema, a, raw, value))
                = WithBits(Word(schema, a, raw), a.bit, a.length, value)
<1> DEFINE old == Word(schema, a, raw)
           word == WithBits(old, a.bit, a.length, value)
           top == Width(schema, a)
<1>1. top \in 0 .. 16 /\ a.bit \in Nat /\ a.length \in Nat
      /\ a.bit + a.length <= top
  BY DEF Placeable, Width
<1>2. old \in Numbers(top)
  BY WordType
<1> HIDE DEF old, top
<1>3. word \in Numbers(top)
  BY <1>1, <1>2, BitsWritten
<1> USE DEF old, top
<1>4. WithValue(schema, a, raw, value) = WithWord(schema, a, raw, word)
  BY WithValueIsBits
<1> HIDE DEF word
<1>5. /\ Bytes(WithWord(schema, a, raw, word))
      /\ Word(schema, a, WithWord(schema, a, raw, word)) = word
  BY <1>3, WordWritten
<1> QED
  BY <1>2, <1>4, <1>5 DEF word

(* It is read back ... *)
LEMMA ValueWritten ==
    ASSUME NEW schema, NEW a, NEW raw, Placeable(schema, a), Bytes(raw),
           NEW value \in Numbers(a.length)
    PROVE  /\ Bytes(WithValue(schema, a, raw, value))
           /\ Value(schema, a, WithValue(schema, a, raw, value)) = value
<1>1. Width(schema, a) \in 0 .. 16 /\ a.bit \in Nat /\ a.length \in Nat
      /\ a.bit + a.length <= Width(schema, a)
  BY DEF Placeable, Width
<1> DEFINE old == Word(schema, a, raw)
           top == Width(schema, a)
           new == WithValue(schema, a, raw, value)
<1>2. /\ Bytes(new)
      /\ old \in Numbers(top)
      /\ Word(schema, a, new) = WithBits(old, a.bit, a.length, value)
  BY WordNew
<1> HIDE DEF old, top
<1>3. Bits(WithBits(old, a.bit, a.length, value), a.bit, a.length) = value
  <2>1. top \in 0 .. 16 /\ a.bit + a.length <= top
    BY <1>1 DEF top
  <2> QED
    BY <1>1, <1>2, <2>1, BitsWritten
<1> HIDE DEF new
<1>4. Value(schema, a, new) = value
  BY <1>2, <1>3, ValueIsBits
<1> QED
  BY <1>2, <1>4 DEF new

(* ... no byte outside its word changes ... *)
LEMMA CellsKept ==
    ASSUME NEW schema, NEW a, NEW raw, NEW value, Placeable(schema, a),
           NEW n, n \notin Cells(schema, a)
    PROVE  ByteAt(WithValue(schema, a, raw, value), n) = ByteAt(raw, n)
BY WithValueIsBits, WordKeeps

(* ... and no other datapoint. *)
LEMMA ValueKept ==
    ASSUME NEW schema, NEW a, NEW raw, Placeable(schema, a), Bytes(raw),
           NEW value \in Numbers(a.length),
           NEW b, Placeable(schema, b), Apart(schema, a, b)
    PROVE  Value(schema, b, WithValue(schema, a, raw, value)) = Value(schema, b, raw)
<1> DEFINE written == WithValue(schema, a, raw, value)
<1>1. CASE a.byte = b.byte
  <2>1. \A r : Word(schema, b, r) = Word(schema, a, r)
    BY <1>1 DEF Word, Grouped
  <2>2. Width(schema, b) = Width(schema, a)
    BY <1>1 DEF Width, Grouped
  <2>3. /\ b.bit \in Nat /\ b.length \in Nat
        /\ b.bit + b.length <= Width(schema, a)
        /\ a.bit + a.length <= b.bit \/ b.bit + b.length <= a.bit
    BY <1>1, <2>2 DEF Placeable, Apart
  <2>4. Bits(Word(schema, a, written), b.bit, b.length)
          = Bits(Word(schema, a, raw), b.bit, b.length)
    <3>1. Width(schema, a) \in 0 .. 16 /\ a.bit \in Nat /\ a.length \in Nat
          /\ a.bit + a.length <= Width(schema, a)
      BY DEF Placeable, Width
    <3> QED
      BY <2>3, <3>1, WordNew, BitsKept
  <2> QED
    BY <2>1, <2>4, ValueIsBits
<1>2. CASE a.byte # b.byte
  <2>1. ASSUME NEW n \in Cells(schema, b)
        PROVE  ByteAt(written, n) = ByteAt(raw, n)
    BY <1>2, CellsKept DEF Apart
  <2>2. Word(schema, b, written) = Word(schema, b, raw)
    BY <2>1 DEF Word, Cells
  <2> QED
    BY <2>2 DEF Value
<1> QED
  BY <1>1, <1>2

-----------------------------------------------------------------------------
(* The products *)

LEMMA SchemasAre ==
    /\ Schemas["dc_pump_pro"] = DCPumpPro
    /\ Schemas["dosing_pump"] = DosingPump
    /\ Schemas["local_wavemaker"] = LocalWavemaker
    /\ Schemas["aquarium_pump"] = AquariumPump
    /\ Schemas["local_wavemaker_pro"] = LocalWavemakerPro
BY DEF Schemas, Products

(* No two products have a status of the same size. *)
LEMMA SizesDiffer ==
    ASSUME NEW p \in Products, NEW q \in Products,
           Schemas[p].size = Schemas[q].size
    PROVE  p = q
<1>1. /\ DCPumpPro.size = 402 /\ DosingPump.size = 394
      /\ LocalWavemaker.size = 401 /\ AquariumPump.size = 302
      /\ LocalWavemakerPro.size = 452
  BY DEF DCPumpPro, DosingPump, LocalWavemaker, AquariumPump, LocalWavemakerPro
<1> QED
  BY <1>1, SchemasAre DEF Products

(* What a pump looked at is: of some product, behind a binding to a known  *)
(* product key, with a status of bytes.                                    *)
PumpOK(p) ==
    \E b, raw : \E product \in Products :
       /\ p = [binding |-> b, product |-> product, raw |-> raw]
       /\ b.product_key \in Products
       /\ Bytes(raw)

ReadingsTypeOK == TypeOK /\ (pump # None => PumpOK(pump))

LEMMA BoundToProduct ==
    ASSUME TypeOK, NEW b \in resolved
    PROVE  b.product_key \in Products
BY ReadingsAssumption DEF TypeOK

LEMMA StatusBytes ==
    ASSUME NEW product \in Products, NEW raw \in Statuses[product]
    PROVE  Bytes(raw)
BY ReadingsAssumption, Octets DEF Bytes

-----------------------------------------------------------------------------
(* Writing several datapoints: the folds of Payload and Obeyed. *)

First(s) == CHOOSE x \in s : TRUE

(* What the fold over s makes of the folds over smaller sets, v giving the *)
(* datapoints their values.                                                *)
FoldStep(it, schema, base, v, s) ==
    IF s = {} THEN base
    ELSE WithValue(schema, First(s), it[s \ {First(s)}], v[First(s)])

Folding(it, schema, base, v, S) ==
    [s \in SUBSET S |-> FoldStep(it, schema, base, v, s)]

IsFold(it, schema, base, v, S) ==
    \A s \in SUBSET S : it[s] = FoldStep(it, schema, base, v, s)

LEMMA FirstIn ==
    ASSUME NEW s, s # {}
    PROVE  First(s) \in s
BY DEF First

LEMMA SmallerFold ==
    ASSUME NEW S, IsFiniteSet(S), NEW s \in SUBSET S, s # {}
    PROVE  /\ First(s) \in s
           /\ s \ {First(s)} \in SUBSET S
           /\ Cardinality(s \ {First(s)}) \in Nat
           /\ Cardinality(s) = Cardinality(s \ {First(s)}) + 1
<1>1. First(s) \in s /\ IsFiniteSet(s)
  BY FirstIn, FS_Subset
<1>2. /\ IsFiniteSet(s \ {First(s)})
      /\ Cardinality(s \ {First(s)}) = Cardinality(s) - 1
  BY <1>1, FS_RemoveElement
<1>3. Cardinality(s) \in Nat /\ Cardinality(s \ {First(s)}) \in Nat
  BY <1>1, <1>2, FS_CardinalityType
<1> QED
  BY <1>1, <1>2, <1>3

(* The sets of at most n datapoints. *)
UpTo(S, n) == {s \in SUBSET S : Cardinality(s) <= n}

(* There is a fold over every finite set.                                  *)
LEMMA FoldExists ==
    ASSUME NEW schema, NEW base, NEW v, NEW S, IsFiniteSet(S)
    PROVE  \E it : it = Folding(it, schema, base, v, S)
<1> DEFINE Good(n) == \E it : it = [s \in UpTo(S, n) |->
                                      FoldStep(it, schema, base, v, s)]
           T == {n \in Nat : ~Good(n)}
<1>1. \A s \in SUBSET S : IsFiniteSet(s) /\ Cardinality(s) \in Nat
  BY FS_Subset, FS_CardinalityType
<1>2. Good(0)
  <2> DEFINE it == [s \in UpTo(S, 0) |-> base]
  <2>1. \A s \in UpTo(S, 0) : s = {}
    BY <1>1, FS_EmptySet DEF UpTo
  <2>2. \A s \in UpTo(S, 0) : FoldStep(it, schema, base, v, s) = base
    BY <2>1 DEF FoldStep
  <2>3. it = [s \in UpTo(S, 0) |-> FoldStep(it, schema, base, v, s)]
    BY <2>2
  <2> QED
    BY <2>3
<1>3. ASSUME NEW n \in Nat, Good(n)
      PROVE  Good(n + 1)
  <2>1. PICK f : f = [s \in UpTo(S, n) |-> FoldStep(f, schema, base, v, s)]
    BY <1>3
  <2> DEFINE g == [s \in UpTo(S, n + 1) |-> FoldStep(f, schema, base, v, s)]
  <2>2. ASSUME NEW s \in UpTo(S, n)
        PROVE  g[s] = f[s]
    <3>1. s \in UpTo(S, n + 1)
      BY <1>1 DEF UpTo
    <3> QED
      BY <2>1, <3>1
  <2>3. ASSUME NEW s \in UpTo(S, n + 1)
        PROVE  FoldStep(g, schema, base, v, s) = FoldStep(f, schema, base, v, s)
    <3>1. CASE s = {}
      BY <3>1 DEF FoldStep
    <3>2. CASE s # {}
      <4>1. s \ {First(s)} \in UpTo(S, n)
        BY <3>2, SmallerFold DEF UpTo
      <4> HIDE DEF g
      <4> QED
        BY <2>2, <3>2, <4>1 DEF FoldStep
    <3> QED
      BY <3>1, <3>2
  <2>4. g = [s \in UpTo(S, n + 1) |-> FoldStep(g, schema, base, v, s)]
    <3>1. g = [s \in UpTo(S, n + 1) |-> FoldStep(f, schema, base, v, s)]
      OBVIOUS
    <3> HIDE DEF g
    <3> QED
      BY <2>3, <3>1
  <2> HIDE DEF g
  <2> QED
    BY <2>4
<1>4. T = {}
  <2> SUFFICES ASSUME T # {} PROVE FALSE
    OBVIOUS
  <2>1. T \in SUBSET Nat
    OBVIOUS
  <2>2. PICK n \in T : \A m \in T : n <= m
    <3> HIDE DEF T
    <3> QED
      BY <2>1, LeastNat
  <2>3. n \in Nat /\ ~Good(n)
    OBVIOUS
  <2> HIDE DEF Good
  <2>4. n # 0
    BY <1>2, <2>3
  <2>5. n - 1 \in Nat /\ n - 1 \notin T
    BY <2>2, <2>3, <2>4
  <2>6. Good(n - 1) /\ (n - 1) + 1 = n
    BY <2>3, <2>5
  <2> QED
    BY <1>3, <2>3, <2>5, <2>6
<1>5. Cardinality(S) \in Nat
  BY FS_CardinalityType
<1>6. UpTo(S, Cardinality(S)) = SUBSET S
  BY FS_Subset DEF UpTo
<1>7. Good(Cardinality(S))
  <2> HIDE DEF Good
  <2> QED
    BY <1>4, <1>5
<1> QED
  BY <1>6, <1>7 DEF Folding

(* Several datapoints that share no bit. *)
Writable(schema, v, S) ==
    /\ IsFiniteSet(S)
    /\ \A a \in S : Placeable(schema, a) /\ v[a] \in Numbers(a.length)
    /\ \A a, b \in S : a # b => Apart(schema, a, b)

(* raw is base with the datapoints of s written. *)
AllWritten(schema, base, v, s, raw) ==
    /\ Bytes(raw)
    /\ \A a \in s : Value(schema, a, raw) = v[a]
    /\ \A b : Placeable(schema, b) /\ (\A a \in s : Apart(schema, a, b)) =>
         Value(schema, b, raw) = Value(schema, b, base)
    /\ \A n : (\A a \in s : n \notin Cells(schema, a)) =>
         ByteAt(raw, n) = ByteAt(base, n)

LEMMA OneMore ==
    ASSUME NEW schema, NEW base, NEW v, NEW S, Writable(schema, v, S),
           NEW s \in SUBSET S, NEW c \in s, NEW raw,
           AllWritten(schema, base, v, s \ {c}, raw)
    PROVE  AllWritten(schema, base, v, s, WithValue(schema, c, raw, v[c]))
<1> DEFINE new == WithValue(schema, c, raw, v[c])
<1>1. /\ Placeable(schema, c) /\ v[c] \in Numbers(c.length)
      /\ Bytes(raw)
  BY DEF Writable, AllWritten
<1>2. Bytes(new) /\ Value(schema, c, new) = v[c]
  BY <1>1, ValueWritten
<1>3. ASSUME NEW b, Placeable(schema, b), Apart(schema, c, b)
      PROVE  Value(schema, b, new) = Value(schema, b, raw)
  BY <1>1, <1>3, ValueKept
<1>4. ASSUME NEW n, n \notin Cells(schema, c)
      PROVE  ByteAt(new, n) = ByteAt(raw, n)
  BY <1>1, <1>4, CellsKept
<1> HIDE DEF new
<1>5. ASSUME NEW a \in s, a # c
      PROVE  Value(schema, a, new) = v[a]
  <2>1. a \in S /\ c \in S /\ a \in s \ {c}
    BY <1>5
  <2>2. Placeable(schema, a) /\ Apart(schema, c, a)
    BY <1>5, <2>1 DEF Writable
  <2>3. Value(schema, a, new) = Value(schema, a, raw)
    BY <1>3, <2>2
  <2> QED
    BY <2>1, <2>3 DEF AllWritten
<1>6. ASSUME NEW b, Placeable(schema, b), \A a \in s : Apart(schema, a, b)
      PROVE  Value(schema, b, new) = Value(schema, b, base)
  BY <1>3, <1>6 DEF AllWritten
<1>7. ASSUME NEW n, \A a \in s : n \notin Cells(schema, a)
      PROVE  ByteAt(new, n) = ByteAt(base, n)
  BY <1>4, <1>7 DEF AllWritten
<1>8. AllWritten(schema, base, v, s, new)
  BY <1>2, <1>5, <1>6, <1>7 DEF AllWritten
<1> QED
  BY <1>8 DEF new

(* A fold writes all of them. *)
LEMMA FoldWrites ==
    ASSUME NEW schema, NEW base, NEW v, NEW S, Writable(schema, v, S),
           Bytes(base), NEW it, IsFold(it, schema, base, v, S)
    PROVE  AllWritten(schema, base, v, S, it[S])
<1> DEFINE Good(s) == AllWritten(schema, base, v, s, it[s])
           T == {n \in Nat : \E s \in SUBSET S : Cardinality(s) = n /\ ~Good(s)}
<1>1. IsFiniteSet(S)
  BY DEF Writable
<1>2. Good({})
  <2>1. it[{}] = base
    BY DEF IsFold, FoldStep
  <2> QED
    BY <2>1 DEF AllWritten
<1>3. ASSUME NEW s \in SUBSET S, s # {}, Good(s \ {First(s)})
      PROVE  Good(s)
  <2>1. it[s] = WithValue(schema, First(s), it[s \ {First(s)}], v[First(s)])
    BY <1>3 DEF IsFold, FoldStep
  <2>2. First(s) \in s
    BY <1>3, FirstIn
  <2> QED
    BY <1>3, <2>1, <2>2, OneMore
<1> HIDE DEF Good
<1>4. T = {}
  <2> SUFFICES ASSUME T # {} PROVE FALSE
    OBVIOUS
  <2>1. T \in SUBSET Nat
    OBVIOUS
  <2>2. PICK n \in T : \A m \in T : n <= m
    <3> HIDE DEF T
    <3> QED
      BY <2>1, LeastNat
  <2>3. PICK s \in SUBSET S : Cardinality(s) = n /\ ~Good(s)
    BY <2>2
  <2>4. s # {}
    BY <1>2, <2>3
  <2> DEFINE t == s \ {First(s)}
  <2>5. t \in SUBSET S /\ Cardinality(t) \in Nat /\ Cardinality(t) + 1 = n
    BY <1>1, <2>3, <2>4, SmallerFold
  <2>6. ~Good(t)
    BY <1>3, <2>3, <2>4
  <2> HIDE DEF t
  <2>7. Cardinality(t) \in T
    BY <2>5, <2>6
  <2>8. n <= Cardinality(t)
    BY <2>2, <2>7
  <2> QED
    BY <2>2, <2>5, <2>8
<1>5. Cardinality(S) \in Nat /\ Cardinality(S) \notin T
  BY <1>1, <1>4, FS_CardinalityType
<1>6. Good(S)
  BY <1>5
<1> QED
  BY <1>6 DEF Good

Asks(changes, S) == [a \in S |-> changes[a.name]]

Takes(schema, values, S) == [a \in S |-> Value(schema, a, values)]

Placing(schema, changes, S) ==
    FoldSet(LAMBDA a, raw : Placed(schema, a, raw, changes[a.name]), <<>>, S)

Obeying(schema, raw, values, S) ==
    FoldSet(LAMBDA a, r : WithValue(schema, a, r, Value(schema, a, values)), raw, S)

(* The values of a payload are a fold ... *)
LEMMA PayloadFolds ==
    ASSUME NEW schema, NEW changes, NEW S, IsFiniteSet(S)
    PROVE  \E it : /\ IsFold(it, schema, <<>>, Asks(changes, S), S)
                   /\ Placing(schema, changes, S) = it[S]
<1> DEFINE v == Asks(changes, S)
           Eq(f) == f = [s \in SUBSET S |->
                          IF s = {} THEN <<>>
                          ELSE Placed(schema, CHOOSE x \in s : TRUE,
                                      f[s \ {CHOOSE x \in s : TRUE}],
                                      changes[(CHOOSE x \in s : TRUE).name])]
           it == CHOOSE f : Eq(f)
<1>1. PICK f : f = Folding(f, schema, <<>>, v, S)
  <2> HIDE DEF v
  <2> QED
    BY FoldExists
<1>2. ASSUME NEW s \in SUBSET S, s # {}
      PROVE  v[First(s)] = changes[First(s).name]
  BY <1>2, FirstIn DEF Asks
<1>3. Eq(f)
  BY <1>1, <1>2 DEF Folding, FoldStep, Placed, First
<1>4. Eq(it)
  BY <1>3
<1>5. Placing(schema, changes, S) = it[S]
  BY DEF Placing, FoldSet, MapThenFoldSet
<1>6. IsFold(it, schema, <<>>, v, S)
  <2> HIDE DEF it, v
  <2>1. ASSUME NEW s \in SUBSET S
        PROVE  it[s] = FoldStep(it, schema, <<>>, v, s)
    BY <1>2, <1>4 DEF FoldStep, Placed, First
  <2> QED
    BY <2>1 DEF IsFold
<1> QED
  BY <1>5, <1>6

(* ... and so is what the pump makes of them. *)
LEMMA ObeyedFolds ==
    ASSUME NEW schema, NEW raw, NEW values, NEW S, IsFiniteSet(S)
    PROVE  \E it : /\ IsFold(it, schema, raw, Takes(schema, values, S), S)
                   /\ Obeying(schema, raw, values, S) = it[S]
<1> DEFINE v == Takes(schema, values, S)
           Eq(f) == f = [s \in SUBSET S |->
                          IF s = {} THEN raw
                          ELSE WithValue(schema, CHOOSE x \in s : TRUE,
                                         f[s \ {CHOOSE x \in s : TRUE}],
                                         Value(schema, CHOOSE x \in s : TRUE, values))]
           it == CHOOSE f : Eq(f)
<1>1. PICK f : f = Folding(f, schema, raw, v, S)
  <2> HIDE DEF v
  <2> QED
    BY FoldExists
<1>2. ASSUME NEW s \in SUBSET S, s # {}
      PROVE  v[First(s)] = Value(schema, First(s), values)
  BY <1>2, FirstIn DEF Takes
<1>3. Eq(f)
  BY <1>1, <1>2 DEF Folding, FoldStep, First
<1>4. Eq(it)
  BY <1>3
<1>5. Obeying(schema, raw, values, S) = it[S]
  BY DEF Obeying, FoldSet, MapThenFoldSet
<1>6. IsFold(it, schema, raw, v, S)
  <2> HIDE DEF it, v
  <2>1. ASSUME NEW s \in SUBSET S
        PROVE  it[s] = FoldStep(it, schema, raw, v, s)
    BY <1>2, <1>4 DEF FoldStep, First
  <2> QED
    BY <2>1 DEF IsFold
<1> QED
  BY <1>5, <1>6

-----------------------------------------------------------------------------
(* The datapoints of the products *)

Field(a, id, name, byte, bit, length) ==
    /\ a.id = id /\ a.name = name
    /\ a.byte = byte /\ a.bit = bit /\ a.length = length
    /\ a.writable => Requestable(a) \subseteq Numbers(length)

LEMMA BoolIs ==
    ASSUME NEW id, NEW name, NEW bit
    PROVE  Field(Bool(id, name, bit), id, name, 0, bit, 1)
<1> DEFINE a == Bool(id, name, bit)
<1>1. /\ a.id = id /\ a.name = name /\ a.byte = 0 /\ a.bit = bit
      /\ a.length = 1 /\ a.writable = TRUE
      /\ a.minimum = 0 /\ a.maximum = 1 /\ a.names = 0
  BY DEF Bool
<1> HIDE DEF a
<1>2. Requestable(a) = 0 .. 1 /\ Numbers(1) = 0 .. 1
  BY <1>1, PowersAre DEF Requestable, Numbers
<1>3. Field(a, id, name, 0, bit, 1)
  BY <1>1, <1>2 DEF Field
<1> QED
  BY <1>3 DEF a

LEMMA EnumIs ==
    ASSUME NEW id, NEW name, NEW bit, NEW length \in Nat, NEW names \in Nat \ {0},
           (length = 2 /\ names <= 4) \/ (length = 3 /\ names <= 8)
    PROVE  Field(Enum(id, name, bit, length, names), id, name, 0, bit, length)
<1> DEFINE a == Enum(id, name, bit, length, names)
<1>1. /\ a.id = id /\ a.name = name /\ a.byte = 0 /\ a.bit = bit
      /\ a.length = length /\ a.writable = TRUE
      /\ a.minimum = 0 /\ a.names = names
  BY DEF Enum, Bool
<1> HIDE DEF a
<1>2. Requestable(a) = 0 .. names - 1
  BY <1>1 DEF Requestable
<1>3. Powers[length] \in Nat /\ names <= Powers[length]
  BY PowersAre
<1>4. Requestable(a) \subseteq Numbers(length)
  BY <1>2, <1>3 DEF Numbers
<1>5. Field(a, id, name, 0, bit, length)
  BY <1>1, <1>4 DEF Field
<1> QED
  BY <1>5 DEF a

LEMMA UInt8Is ==
    ASSUME NEW id, NEW name, NEW byte, NEW minimum \in Nat, NEW maximum \in Nat,
           NEW names \in Nat, maximum <= 255, names <= 256
    PROVE  Field(UInt8(id, name, byte, minimum, maximum, names),
                 id, name, byte, 0, 8)
<1> DEFINE a == UInt8(id, name, byte, minimum, maximum, names)
<1>1. /\ a.id = id /\ a.name = name /\ a.byte = byte /\ a.bit = 0
      /\ a.length = 8 /\ a.writable = TRUE
      /\ a.minimum = minimum /\ a.maximum = maximum /\ a.names = names
  BY DEF UInt8, Bool
<1> HIDE DEF a
<1>2. Requestable(a) = minimum .. IF names > 0 THEN names - 1 ELSE maximum
  BY <1>1 DEF Requestable
<1>3. \A x \in Requestable(a) : x \in Nat /\ x < 256
  BY <1>2
<1>4. Requestable(a) \subseteq Numbers(8)
  BY <1>3, Octets
<1>5. Field(a, id, name, byte, 0, 8)
  BY <1>1, <1>4 DEF Field
<1> QED
  BY <1>5 DEF a

LEMMA PercentIs ==
    ASSUME NEW id, NEW name, NEW byte
    PROVE  Field(Percent(id, name, byte), id, name, byte, 0, 8)
BY UInt8Is DEF Percent

LEMMA MinutesIs ==
    ASSUME NEW id, NEW name, NEW byte
    PROVE  Field(Minutes(id, name, byte), id, name, byte, 0, 8)
BY UInt8Is DEF Minutes

LEMMA FaultsAre ==
    ASSUME NEW first \in Nat, NEW byte
    PROVE  /\ \A a \in Faults(first, byte) : \E i \in 0 .. 6 :
                Field(a, first + i, FaultNames[i + 1], byte, i, 1) /\ ~a.writable
           /\ \A a, b \in Faults(first, byte) : a.id = b.id => a = b
<1>1. ASSUME NEW i \in 1 .. 7
      PROVE  LET a == Problem(first + i - 1, FaultNames[i], byte, i - 1)
             IN  Field(a, first + i - 1, FaultNames[i], byte, i - 1, 1) /\ ~a.writable
  BY DEF Problem, Bool, Field
<1>2. ASSUME NEW a \in Faults(first, byte)
      PROVE  \E i \in 1 .. 7 :
                /\ a = Problem(first + i - 1, FaultNames[i], byte, i - 1)
                /\ Field(a, first + i - 1, FaultNames[i], byte, i - 1, 1)
                /\ ~a.writable
  BY <1>1 DEF Faults
<1>3. ASSUME NEW a \in Faults(first, byte)
      PROVE  \E i \in 0 .. 6 :
                Field(a, first + i, FaultNames[i + 1], byte, i, 1) /\ ~a.writable
  <2>1. PICK i \in 1 .. 7 :
           Field(a, first + i - 1, FaultNames[i], byte, i - 1, 1) /\ ~a.writable
    BY <1>2
  <2> DEFINE j == i - 1
  <2>2. j \in 0 .. 6 /\ first + i - 1 = first + j /\ i = j + 1
    OBVIOUS
  <2>3. Field(a, first + j, FaultNames[j + 1], byte, j, 1) /\ ~a.writable
    BY <2>1, <2>2
  <2> QED
    BY <2>2, <2>3
<1>4. ASSUME NEW a \in Faults(first, byte), NEW b \in Faults(first, byte),
             a.id = b.id
      PROVE  a = b
  <2>1. PICK i \in 1 .. 7 :
           /\ a = Problem(first + i - 1, FaultNames[i], byte, i - 1)
           /\ Field(a, first + i - 1, FaultNames[i], byte, i - 1, 1)
    BY <1>2
  <2>2. PICK j \in 1 .. 7 :
           /\ b = Problem(first + j - 1, FaultNames[j], byte, j - 1)
           /\ Field(b, first + j - 1, FaultNames[j], byte, j - 1, 1)
    BY <1>2
  <2>3. i = j
    BY <1>4, <2>1, <2>2 DEF Field
  <2> QED
    BY <2>1, <2>2, <2>3
<1> QED
  BY <1>3, <1>4

(* The datapoints of a product: they fit, are told apart by their ids,     *)
(* share no bit, can hold what can be asked for and lie before top if they *)
(* can be written.                                                         *)
WellLaidOut(schema, top) ==
    /\ \A a \in schema.attributes : Placeable(schema, a)
    /\ \A a, b \in schema.attributes : a.id = b.id => a = b
    /\ \A a, b \in schema.attributes : a # b => Apart(schema, a, b)
    /\ \A a \in schema.attributes : a.writable =>
         /\ Requestable(a) \subseteq Numbers(a.length)
         /\ \A n \in Cells(schema, a) : n \in Nat /\ n < top
    /\ \A name \in {schema.enabled, schema.power, schema.mode, schema.frequency} :
         name # None \/ name = schema.enabled =>
           \E a \in schema.attributes : a.name = name

LEMMA DCPumpProLaidOut == WellLaidOut(DCPumpPro, 9)
<1> DEFINE x0 == Bool(0, "SwitchON", 0)
           x1 == Bool(1, "TimerON", 1)
           x2 == UInt8(2, "Mode", 1, 0, 255, 5)
           x3 == Percent(3, "Flow", 2)
           x4 == Percent(4, "Frequency", 3)
           x5 == Minutes(5, "FeedTime", 4)
           x6 == UInt8(6, "AutoMode", 5, 0, 255, 5)
           x7 == Percent(7, "AutoFlow", 6)
           x8 == Percent(8, "AutoFreq", 7)
           x9 == Minutes(9, "AutoFeedTime", 8)
           F == Faults(60, 401)
           A == {x0, x1, x2, x3, x4, x5, x6, x7, x8, x9} \cup F
<1>1. /\ DCPumpPro.attributes = A /\ DCPumpPro.group = 1
      /\ DCPumpPro.enabled = "SwitchON" /\ DCPumpPro.power = "Flow"
      /\ DCPumpPro.mode = "Mode" /\ DCPumpPro.frequency = "Frequency"
  BY DEF DCPumpPro
<1>2. /\ Field(x0, 0, "SwitchON", 0, 0, 1)
      /\ Field(x1, 1, "TimerON", 0, 1, 1)
      /\ Field(x2, 2, "Mode", 1, 0, 8)
      /\ Field(x3, 3, "Flow", 2, 0, 8)
      /\ Field(x4, 4, "Frequency", 3, 0, 8)
      /\ Field(x5, 5, "FeedTime", 4, 0, 8)
      /\ Field(x6, 6, "AutoMode", 5, 0, 8)
      /\ Field(x7, 7, "AutoFlow", 6, 0, 8)
      /\ Field(x8, 8, "AutoFreq", 7, 0, 8)
      /\ Field(x9, 9, "AutoFeedTime", 8, 0, 8)
  BY BoolIs, UInt8Is, PercentIs, MinutesIs
<1> HIDE DEF x0, x1, x2, x3, x4, x5, x6, x7, x8, x9
<1>3. ASSUME NEW a \in F
      PROVE  /\ a.id \in 60 .. 66 /\ a.byte = 401 /\ a.bit = a.id - 60
             /\ a.length = 1 /\ ~a.writable
  BY FaultsAre DEF Field
<1>4. \A a, b \in F : a.id = b.id => a = b
  BY FaultsAre
<1> HIDE DEF F
<1>5. ASSUME NEW a \in A
      PROVE  \/ /\ a.id \in 0 .. 1 /\ a.byte = 0 /\ a.bit = a.id /\ a.length = 1
             \/ /\ a.id \in 2 .. 9 /\ a.byte = a.id - 1 /\ a.bit = 0 /\ a.length = 8
             \/ /\ a.id \in 60 .. 66 /\ a.byte = 401 /\ a.bit = a.id - 60
                /\ a.length = 1 /\ ~a.writable
  BY <1>2, <1>3 DEF Field
<1>6. ASSUME NEW a \in A, NEW b \in A, a.id = b.id
      PROVE  a = b
  BY <1>2, <1>3, <1>4, <1>6 DEF Field
<1>7. ASSUME NEW a \in A, a.writable
      PROVE  Requestable(a) \subseteq Numbers(a.length)
  BY <1>2, <1>3, <1>7 DEF Field
<1>8. \A n \in {"SwitchON", "Flow", "Mode", "Frequency"} : \E a \in A : a.name = n
  BY <1>2 DEF Field
<1> HIDE DEF A
<1>9. ASSUME NEW a \in A
      PROVE  Placeable(DCPumpPro, a) /\ Cells(DCPumpPro, a) = {a.byte}
  BY <1>1, <1>5 DEF Placeable, Width, Grouped, Cells
<1>10. ASSUME NEW a \in A, NEW b \in A, a # b
       PROVE  Apart(DCPumpPro, a, b)
  <2>1. a.id # b.id
    BY <1>6, <1>10
  <2>2. a.byte = b.byte => a.bit + a.length <= b.bit \/ b.bit + b.length <= a.bit
    BY <1>5, <2>1
  <2> QED
    BY <1>9, <2>2 DEF Apart
<1>11. ASSUME NEW a \in A, a.writable
       PROVE  \A n \in Cells(DCPumpPro, a) : n \in Nat /\ n < 9
  BY <1>5, <1>9, <1>11
<1> QED
  BY <1>1, <1>6, <1>7, <1>8, <1>9, <1>10, <1>11 DEF WellLaidOut

LEMMA LocalWavemakerLaidOut == WellLaidOut(LocalWavemaker, 8)
<1> DEFINE x0 == Bool(0, "SwitchON", 0)
           x1 == Bool(1, "PulseTide", 1)
           x2 == Bool(2, "FeedSwitch", 2)
           x3 == Bool(3, "TimerON", 3)
           x4 == Bool(4, "AutoPulseTide", 4)
           x5 == Enum(5, "Mode", 5, 2, 4)
           x6 == Enum(6, "Linkage", 7, 2, 3)
           x7 == Enum(7, "AutoMode", 9, 3, 6)
           x8 == Percent(8, "Flow", 2)
           x9 == Percent(9, "Frequency", 3)
           x10 == Minutes(10, "FeedTime", 4)
           x11 == Percent(11, "AutoFlow", 5)
           x12 == Percent(12, "AutoFreq", 6)
           x13 == Minutes(13, "AutoFeedTime", 7)
           F == Faults(64, 400)
           A == {x0, x1, x2, x3, x4, x5, x6, x7, x8, x9, x10, x11, x12,
                 x13} \cup F
<1>1. /\ LocalWavemaker.attributes = A /\ LocalWavemaker.group = 2
      /\ LocalWavemaker.enabled = "SwitchON" /\ LocalWavemaker.power = "Flow"
      /\ LocalWavemaker.mode = "Mode" /\ LocalWavemaker.frequency = "Frequency"
  BY DEF LocalWavemaker
<1>2. /\ Field(x0, 0, "SwitchON", 0, 0, 1)
      /\ Field(x1, 1, "PulseTide", 0, 1, 1)
      /\ Field(x2, 2, "FeedSwitch", 0, 2, 1)
      /\ Field(x3, 3, "TimerON", 0, 3, 1)
      /\ Field(x4, 4, "AutoPulseTide", 0, 4, 1)
      /\ Field(x5, 5, "Mode", 0, 5, 2)
      /\ Field(x6, 6, "Linkage", 0, 7, 2)
      /\ Field(x7, 7, "AutoMode", 0, 9, 3)
      /\ Field(x8, 8, "Flow", 2, 0, 8)
      /\ Field(x9, 9, "Frequency", 3, 0, 8)
      /\ Field(x10, 10, "FeedTime", 4, 0, 8)
      /\ Field(x11, 11, "AutoFlow", 5, 0, 8)
      /\ Field(x12, 12, "AutoFreq", 6, 0, 8)
      /\ Field(x13, 13, "AutoFeedTime", 7, 0, 8)
  <2>1. /\ Field(x5, 5, "Mode", 0, 5, 2)
        /\ Field(x6, 6, "Linkage", 0, 7, 2)
        /\ Field(x7, 7, "AutoMode", 0, 9, 3)
    BY EnumIs
  <2> QED
    BY <2>1, BoolIs, PercentIs, MinutesIs
<1> HIDE DEF x0, x1, x2, x3, x4, x5, x6, x7, x8, x9, x10, x11, x12, x13
<1>3. ASSUME NEW a \in F
      PROVE  /\ a.id \in 64 .. 70 /\ a.byte = 400 /\ a.bit = a.id - 64
             /\ a.length = 1 /\ ~a.writable
  BY FaultsAre DEF Field
<1>4. \A a, b \in F : a.id = b.id => a = b
  BY FaultsAre
<1> HIDE DEF F
<1>5. ASSUME NEW a \in A
      PROVE  \/ /\ a.id \in 0 .. 4 /\ a.byte = 0 /\ a.bit = a.id /\ a.length = 1
             \/ /\ a.id = 5 /\ a.byte = 0 /\ a.bit = 5 /\ a.length = 2
             \/ /\ a.id = 6 /\ a.byte = 0 /\ a.bit = 7 /\ a.length = 2
             \/ /\ a.id = 7 /\ a.byte = 0 /\ a.bit = 9 /\ a.length = 3
             \/ /\ a.id \in 8 .. 13 /\ a.byte = a.id - 6 /\ a.bit = 0 /\ a.length = 8
             \/ /\ a.id \in 64 .. 70 /\ a.byte = 400 /\ a.bit = a.id - 64
                /\ a.length = 1 /\ ~a.writable
  BY <1>2, <1>3 DEF Field
<1>6. ASSUME NEW a \in A, NEW b \in A, a.id = b.id
      PROVE  a = b
  BY <1>2, <1>3, <1>4, <1>6 DEF Field
<1>7. ASSUME NEW a \in A, a.writable
      PROVE  Requestable(a) \subseteq Numbers(a.length)
  BY <1>2, <1>3, <1>7 DEF Field
<1>8. \A n \in {"SwitchON", "Flow", "Mode", "Frequency"} : \E a \in A : a.name = n
  BY <1>2 DEF Field
<1> HIDE DEF A
<1>9. ASSUME NEW a \in A
      PROVE  /\ Placeable(LocalWavemaker, a)
             /\ Cells(LocalWavemaker, a) = IF a.byte = 0 THEN {0, 1} ELSE {a.byte}
  BY <1>1, <1>5 DEF Placeable, Width, Grouped, Cells
<1>10. ASSUME NEW a \in A, NEW b \in A, a # b
       PROVE  Apart(LocalWavemaker, a, b)
  <2>1. a.id # b.id
    BY <1>6, <1>10
  <2>2. a.byte = b.byte => a.bit + a.length <= b.bit \/ b.bit + b.length <= a.bit
    BY <1>5, <2>1
  <2>3. a.byte \in Nat /\ a.byte # 1 /\ b.byte \in Nat /\ b.byte # 1
    BY <1>5
  <2> QED
    BY <1>9, <2>2, <2>3 DEF Apart
<1>11. ASSUME NEW a \in A, a.writable
       PROVE  \A n \in Cells(LocalWavemaker, a) : n \in Nat /\ n < 8
  BY <1>5, <1>9, <1>11
<1> QED
  BY <1>1, <1>6, <1>7, <1>8, <1>9, <1>10, <1>11 DEF WellLaidOut

LEMMA AquariumPumpLaidOut == WellLaidOut(AquariumPump, 13)
<1> DEFINE x0 == Bool(0, "SwitchON", 0)
           x1 == Bool(1, "Mode", 1)
           x2 == Bool(2, "FeedSwitch", 2)
           x3 == Bool(3, "TimerON", 3)
           x4 == Enum(4, "AutoMode", 4, 2, 3)
           x5 == Percent(5, "Motor_Speed", 1)
           x6 == Minutes(6, "FeedTime", 2)
           x7 == Percent(7, "AutoGears", 3)
           x8 == Minutes(8, "AutoFeedTime", 4)
           F == Faults(59, 301)
           A == {x0, x1, x2, x3, x4, x5, x6, x7, x8} \cup F
<1>1. /\ AquariumPump.attributes = A /\ AquariumPump.group = 1
      /\ AquariumPump.enabled = "SwitchON" /\ AquariumPump.power = "Motor_Speed"
      /\ AquariumPump.mode = None /\ AquariumPump.frequency = None
  BY DEF AquariumPump
<1>2. /\ Field(x0, 0, "SwitchON", 0, 0, 1)
      /\ Field(x1, 1, "Mode", 0, 1, 1)
      /\ Field(x2, 2, "FeedSwitch", 0, 2, 1)
      /\ Field(x3, 3, "TimerON", 0, 3, 1)
      /\ Field(x4, 4, "AutoMode", 0, 4, 2)
      /\ Field(x5, 5, "Motor_Speed", 1, 0, 8)
      /\ Field(x6, 6, "FeedTime", 2, 0, 8)
      /\ Field(x7, 7, "AutoGears", 3, 0, 8)
      /\ Field(x8, 8, "AutoFeedTime", 4, 0, 8)
  <2>1. Field(x4, 4, "AutoMode", 0, 4, 2)
    BY EnumIs
  <2> QED
    BY <2>1, BoolIs, PercentIs, MinutesIs
<1> HIDE DEF x0, x1, x2, x3, x4, x5, x6, x7, x8
<1>3. ASSUME NEW a \in F
      PROVE  /\ a.id \in 59 .. 65 /\ a.byte = 301 /\ a.bit = a.id - 59
             /\ a.length = 1 /\ ~a.writable
  BY FaultsAre DEF Field
<1>4. \A a, b \in F : a.id = b.id => a = b
  BY FaultsAre
<1> HIDE DEF F
<1>5. ASSUME NEW a \in A
      PROVE  \/ /\ a.id \in 0 .. 3 /\ a.byte = 0 /\ a.bit = a.id /\ a.length = 1
             \/ /\ a.id = 4 /\ a.byte = 0 /\ a.bit = 4 /\ a.length = 2
             \/ /\ a.id \in 5 .. 8 /\ a.byte = a.id - 4 /\ a.bit = 0 /\ a.length = 8
             \/ /\ a.id \in 59 .. 65 /\ a.byte = 301 /\ a.bit = a.id - 59
                /\ a.length = 1 /\ ~a.writable
  BY <1>2, <1>3 DEF Field
<1>6. ASSUME NEW a \in A, NEW b \in A, a.id = b.id
      PROVE  a = b
  BY <1>2, <1>3, <1>4, <1>6 DEF Field
<1>7. ASSUME NEW a \in A, a.writable
      PROVE  Requestable(a) \subseteq Numbers(a.length)
  BY <1>2, <1>3, <1>7 DEF Field
<1>8. \A n \in {"SwitchON", "Motor_Speed"} : \E a \in A : a.name = n
  BY <1>2 DEF Field
<1> HIDE DEF A
<1>9. ASSUME NEW a \in A
      PROVE  Placeable(AquariumPump, a) /\ Cells(AquariumPump, a) = {a.byte}
  BY <1>1, <1>5 DEF Placeable, Width, Grouped, Cells
<1>10. ASSUME NEW a \in A, NEW b \in A, a # b
       PROVE  Apart(AquariumPump, a, b)
  <2>1. a.id # b.id
    BY <1>6, <1>10
  <2>2. a.byte = b.byte => a.bit + a.length <= b.bit \/ b.bit + b.length <= a.bit
    BY <1>5, <2>1
  <2> QED
    BY <1>9, <2>2 DEF Apart
<1>11. ASSUME NEW a \in A, a.writable
       PROVE  \A n \in Cells(AquariumPump, a) : n \in Nat /\ n < 13
  BY <1>5, <1>9, <1>11
<1> QED
  BY <1>1, <1>6, <1>7, <1>8, <1>9, <1>10, <1>11 DEF WellLaidOut

LEMMA LocalWavemakerProLaidOut == WellLaidOut(LocalWavemakerPro, 11)
<1> DEFINE x0 == Bool(0, "SwitchON", 0)
           x1 == Bool(1, "TimerON", 1)
           x2 == Enum(2, "Linkage", 2, 2, 4)
           x3 == UInt8(3, "Mode", 1, 0, 255, 9)
           x4 == Percent(4, "Flow", 2)
           x5 == Percent(5, "Frequency", 3)
           x6 == Percent(6, "Cust_Wav_Freq", 4)
           x7 == Minutes(7, "FeedTime", 5)
           x8 == UInt8(8, "AutoMode", 6, 0, 255, 9)
           x9 == Percent(9, "AutoFlow", 7)
           x10 == Percent(10, "AutoFreq", 8)
           x11 == Percent(11, "Auto_Cust_Wav_Freq", 9)
           x12 == Minutes(12, "AutoFeedTime", 10)
           F == Faults(63, 451)
           A == {x0, x1, x2, x3, x4, x5, x6, x7, x8, x9, x10, x11, x12} \cup F
<1>1. /\ LocalWavemakerPro.attributes = A /\ LocalWavemakerPro.group = 1
      /\ LocalWavemakerPro.enabled = "SwitchON" /\ LocalWavemakerPro.power = "Flow"
      /\ LocalWavemakerPro.mode = "Mode" /\ LocalWavemakerPro.frequency = "Frequency"
  BY DEF LocalWavemakerPro
<1>2. /\ Field(x0, 0, "SwitchON", 0, 0, 1)
      /\ Field(x1, 1, "TimerON", 0, 1, 1)
      /\ Field(x2, 2, "Linkage", 0, 2, 2)
      /\ Field(x3, 3, "Mode", 1, 0, 8)
      /\ Field(x4, 4, "Flow", 2, 0, 8)
      /\ Field(x5, 5, "Frequency", 3, 0, 8)
      /\ Field(x6, 6, "Cust_Wav_Freq", 4, 0, 8)
      /\ Field(x7, 7, "FeedTime", 5, 0, 8)
      /\ Field(x8, 8, "AutoMode", 6, 0, 8)
      /\ Field(x9, 9, "AutoFlow", 7, 0, 8)
      /\ Field(x10, 10, "AutoFreq", 8, 0, 8)
      /\ Field(x11, 11, "Auto_Cust_Wav_Freq", 9, 0, 8)
      /\ Field(x12, 12, "AutoFeedTime", 10, 0, 8)
  <2>1. Field(x2, 2, "Linkage", 0, 2, 2)
    BY EnumIs
  <2> QED
    BY <2>1, BoolIs, UInt8Is, PercentIs, MinutesIs
<1> HIDE DEF x0, x1, x2, x3, x4, x5, x6, x7, x8, x9, x10, x11, x12
<1>3. ASSUME NEW a \in F
      PROVE  /\ a.id \in 63 .. 69 /\ a.byte = 451 /\ a.bit = a.id - 63
             /\ a.length = 1 /\ ~a.writable
  BY FaultsAre DEF Field
<1>4. \A a, b \in F : a.id = b.id => a = b
  BY FaultsAre
<1> HIDE DEF F
<1>5. ASSUME NEW a \in A
      PROVE  \/ /\ a.id \in 0 .. 1 /\ a.byte = 0 /\ a.bit = a.id /\ a.length = 1
             \/ /\ a.id = 2 /\ a.byte = 0 /\ a.bit = 2 /\ a.length = 2
             \/ /\ a.id \in 3 .. 12 /\ a.byte = a.id - 2 /\ a.bit = 0 /\ a.length = 8
             \/ /\ a.id \in 63 .. 69 /\ a.byte = 451 /\ a.bit = a.id - 63
                /\ a.length = 1 /\ ~a.writable
  BY <1>2, <1>3 DEF Field
<1>6. ASSUME NEW a \in A, NEW b \in A, a.id = b.id
      PROVE  a = b
  BY <1>2, <1>3, <1>4, <1>6 DEF Field
<1>7. ASSUME NEW a \in A, a.writable
      PROVE  Requestable(a) \subseteq Numbers(a.length)
  BY <1>2, <1>3, <1>7 DEF Field
<1>8. \A n \in {"SwitchON", "Flow", "Mode", "Frequency"} : \E a \in A : a.name = n
  BY <1>2 DEF Field
<1> HIDE DEF A
<1>9. ASSUME NEW a \in A
      PROVE  Placeable(LocalWavemakerPro, a) /\ Cells(LocalWavemakerPro, a) = {a.byte}
  BY <1>1, <1>5 DEF Placeable, Width, Grouped, Cells
<1>10. ASSUME NEW a \in A, NEW b \in A, a # b
       PROVE  Apart(LocalWavemakerPro, a, b)
  <2>1. a.id # b.id
    BY <1>6, <1>10
  <2>2. a.byte = b.byte => a.bit + a.length <= b.bit \/ b.bit + b.length <= a.bit
    BY <1>5, <2>1
  <2> QED
    BY <1>9, <2>2 DEF Apart
<1>11. ASSUME NEW a \in A, a.writable
       PROVE  \A n \in Cells(LocalWavemakerPro, a) : n \in Nat /\ n < 11
  BY <1>5, <1>9, <1>11
<1> QED
  BY <1>1, <1>6, <1>7, <1>8, <1>9, <1>10, <1>11 DEF WellLaidOut

-----------------------------------------------------------------------------
(* A control *)
LEMMA SpecsAre ==
    /\ DOMAIN Specs = Products \ {"dosing_pump"}
    /\ Specs["dc_pump_pro"].offset = 9 /\ Specs["dc_pump_pro"].size = 8
    /\ Specs["local_wavemaker"].offset = 8 /\ Specs["local_wavemaker"].size = 8
    /\ Specs["local_wavemaker_pro"].offset = 11
    /\ Specs["local_wavemaker_pro"].size = 9
    /\ Specs["aquarium_pump"].offset = 13 /\ Specs["aquarium_pump"].size = 6
    /\ \A key \in DOMAIN Specs : Specs[key].modes \in Nat /\ Specs[key].modes <= 9
<1>1. DOMAIN Specs = Products \ {"dosing_pump"}
  BY DEF Specs
<1>2. /\ Specs["dc_pump_pro"] =
           [offset |-> 9,  size |-> 8, modes |-> 5, selector |-> FALSE]
      /\ Specs["local_wavemaker"] =
           [offset |-> 8,  size |-> 8, modes |-> 6, selector |-> TRUE]
      /\ Specs["local_wavemaker_pro"] =
           [offset |-> 11, size |-> 9, modes |-> 9, selector |-> FALSE]
      /\ Specs["aquarium_pump"] =
           [offset |-> 13, size |-> 6, modes |-> 3, selector |-> FALSE]
  BY DEF Specs, Products
<1> QED
  BY <1>1, <1>2 DEF Products

(* The pumps that can be controlled have a schedule, after all datapoints  *)
(* that can be written.                                                    *)
LEMMA ControllableLaidOut ==
    ASSUME NEW key \in Products, Schemas[key].controllable
    PROVE  /\ key \in DOMAIN Specs
           /\ WellLaidOut(Schemas[key], Specs[key].offset)
           /\ Specs[key].offset \in Nat /\ Specs[key].size \in Nat
<1>1. ~DosingPump.controllable
  BY DEF DosingPump
<1>2. key # "dosing_pump"
  BY <1>1, SchemasAre
<1> QED
  BY <1>2, SchemasAre, SpecsAre, DCPumpProLaidOut, LocalWavemakerLaidOut,
     AquariumPumpLaidOut, LocalWavemakerProLaidOut DEF Products

(* The names of the datapoints a schema gives to a target's parts. *)
Named(schema) == {schema.enabled, schema.power, schema.mode, schema.frequency}

LEMMA ChangesNamed ==
    ASSUME NEW schema, NEW t \in Targets, TargetChanges(schema, t) # None
    PROVE  /\ DOMAIN TargetChanges(schema, t) \subseteq Named(schema)
           /\ \A name \in DOMAIN TargetChanges(schema, t) :
                 name # None \/ name = schema.enabled
<1> DEFINE given == {<<schema.enabled, 1>>, <<schema.power, t.power>>} \cup
                    (IF t.mode = None THEN {} ELSE {<<schema.mode, t.mode>>}) \cup
                    (IF t.frequency = None THEN {}
                     ELSE {<<schema.frequency, t.frequency>>})
<1>1. CASE ~t.enabled
  <2>1. DOMAIN TargetChanges(schema, t) = {schema.enabled}
    BY <1>1 DEF TargetChanges
  <2> QED
    BY <2>1 DEF Named
<1>2. CASE t.enabled
  <2>1. \A g \in given : g[1] \in Named(schema)
    BY DEF Named
  <2>2. /\ \A g \in given : g[1] # None
        /\ DOMAIN TargetChanges(schema, t) = {g[1] : g \in given}
    <3>1. TargetChanges(schema, t) =
            IF \E g \in given : g[1] = None THEN None
            ELSE [name \in {g[1] : g \in given} |->
                     (CHOOSE g \in given : g[1] = name)[2]]
      BY <1>2 DEF TargetChanges
    <3> HIDE DEF given
    <3> QED
      BY <3>1
  <2> HIDE DEF given
  <2> QED
    BY <2>1, <2>2
<1> QED
  BY <1>1, <1>2, ReadingsAssumption

LEMMA NamedFinite ==
    ASSUME NEW schema
    PROVE  IsFiniteSet(Named(schema))
<1>1. IsFiniteSet({})
  BY FS_EmptySet
<1>2. IsFiniteSet({} \cup {schema.enabled})
  BY <1>1, FS_AddElement
<1>3. IsFiniteSet(({} \cup {schema.enabled}) \cup {schema.power})
  BY <1>2, FS_AddElement
<1>4. IsFiniteSet((({} \cup {schema.enabled}) \cup {schema.power})
                    \cup {schema.mode})
  BY <1>3, FS_AddElement
<1>5. IsFiniteSet(((({} \cup {schema.enabled}) \cup {schema.power})
                     \cup {schema.mode}) \cup {schema.frequency})
  BY <1>4, FS_AddElement
<1>6. Named(schema) = ((({} \cup {schema.enabled}) \cup {schema.power})
                         \cup {schema.mode}) \cup {schema.frequency}
  BY DEF Named
<1> QED
  BY <1>5, <1>6

(* The changed datapoints are those with the names. *)
LEMMA ChangedAre ==
    ASSUME NEW schema, NEW top, WellLaidOut(schema, top),
           NEW t \in Targets, TargetChanges(schema, t) # None
    PROVE  LET changes == TargetChanges(schema, t)
               S == Changed(schema, changes)
           IN  /\ S \subseteq schema.attributes
               /\ IsFiniteSet(S)
               /\ \A a \in S : a.name \in DOMAIN changes
               /\ \A name \in DOMAIN changes : ByName(schema, name) \in S
<1> DEFINE changes == TargetChanges(schema, t)
           S == Changed(schema, changes)
<1>1. DOMAIN changes \subseteq Named(schema)
  BY ChangesNamed
<1>2. ASSUME NEW name \in DOMAIN changes
      PROVE  ByName(schema, name) \in schema.attributes
             /\ ByName(schema, name).name = name
  <2>1. name \in Named(schema) /\ (name # None \/ name = schema.enabled)
    BY ChangesNamed
  <2>2. \E a \in schema.attributes : a.name = name
    BY <2>1 DEF WellLaidOut, Named
  <2> QED
    BY <2>2 DEF ByName
<1> HIDE DEF changes
<1>3. IsFiniteSet(DOMAIN changes)
  BY <1>1, NamedFinite, FS_Subset
<1>4. IsFiniteSet(S)
  <2> DEFINE f == [name \in DOMAIN changes |-> ByName(schema, name)]
  <2>1. f \in Surjection(DOMAIN changes, S)
    BY DEF Surjection, Changed
  <2> HIDE DEF f
  <2> QED
    BY <1>3, <2>1, FS_Surjection
<1>5. /\ S \subseteq schema.attributes
      /\ \A a \in S : a.name \in DOMAIN changes
      /\ \A name \in DOMAIN changes : ByName(schema, name) \in S
  BY <1>2 DEF Changed
<1> QED
  BY <1>4, <1>5 DEF changes

(* A pump that obeys a control has exactly the changed datapoints written. *)
LEMMA ControlWrites ==
    ASSUME NEW schema, NEW top, WellLaidOut(schema, top),
           NEW t \in Targets, TargetChanges(schema, t) # None,
           Payload(schema, TargetChanges(schema, t)) # None,
           NEW raw, Bytes(raw)
    PROVE  LET changes == TargetChanges(schema, t)
               S == Changed(schema, changes)
           IN  AllWritten(schema, raw, Asks(changes, S), S,
                          Obeyed(schema, raw, Payload(schema, changes)))
<1> DEFINE changes == TargetChanges(schema, t)
           S == Changed(schema, changes)
           payload == Payload(schema, changes)
           values == Placing(schema, changes, S)
<1>1. S \subseteq schema.attributes /\ IsFiniteSet(S)
  BY ChangedAre
<1> HIDE DEF changes, S
<1>2. /\ payload = [flags |-> {a.id : a \in S}, values |-> values]
      /\ \A a \in S : a.writable /\ changes[a.name] \in Requestable(a)
  BY DEF Payload, Placing, changes, S
<1> HIDE DEF values, payload
<1>3. Writable(schema, Asks(changes, S), S)
  <2>1. \A a \in S : Placeable(schema, a)
                     /\ Asks(changes, S)[a] \in Numbers(a.length)
    BY <1>1, <1>2 DEF WellLaidOut, Asks
  <2>2. \A a, b \in S : a # b => Apart(schema, a, b)
    BY <1>1 DEF WellLaidOut
  <2> QED
    BY <1>1, <2>1, <2>2 DEF Writable
<1>4. AllWritten(schema, <<>>, Asks(changes, S), S, values)
  <2>1. PICK it : /\ IsFold(it, schema, <<>>, Asks(changes, S), S)
                  /\ values = it[S]
    BY <1>1, PayloadFolds DEF values
  <2>2. Bytes(<<>>)
    BY DEF Bytes
  <2> QED
    BY <1>3, <2>1, <2>2, FoldWrites
<1>5. Takes(schema, values, S) = Asks(changes, S)
  <2>1. \A a \in S : Value(schema, a, values) = changes[a.name]
    BY <1>4 DEF AllWritten, Asks
  <2> QED
    BY <2>1 DEF Takes, Asks
<1> DEFINE O == {a \in schema.attributes : a.id \in payload.flags}
<1>6. O = S /\ payload.values = values
  BY <1>1, <1>2 DEF WellLaidOut
<1>7. Obeyed(schema, raw, payload) = Obeying(schema, raw, payload.values, O)
  BY DEF Obeyed, Obeying
<1> HIDE DEF O
<1>8. PICK it : /\ IsFold(it, schema, raw, Asks(changes, S), S)
                /\ Obeyed(schema, raw, payload) = it[S]
  <2>1. PICK it : /\ IsFold(it, schema, raw, Takes(schema, payload.values, O), O)
                  /\ Obeying(schema, raw, payload.values, O) = it[O]
    BY <1>1, <1>6, ObeyedFolds
  <2> QED
    BY <1>5, <1>6, <1>7, <2>1
<1>9. AllWritten(schema, raw, Asks(changes, S), S, Obeyed(schema, raw, payload))
  BY <1>3, <1>8, FoldWrites
<1> QED
  BY <1>9 DEF changes, S, payload

(* What a control does to the pump looked at. *)
LEMMA ControlledPump ==
    ASSUME ReadingsTypeOK, NEW t \in Targets, Control(t)
    PROVE  LET schema  == Schemas[pump.product]
               changes == TargetChanges(schema, t)
               S       == Changed(schema, changes)
           IN  /\ pump.product \in Products /\ Bytes(pump.raw)
               /\ schema.controllable
               /\ changes # None /\ asked' = changes
               /\ pump'.product = pump.product
               /\ AllWritten(schema, pump.raw, Asks(changes, S), S, pump'.raw)
               /\ PumpOK(pump')
<1> DEFINE schema  == Schemas[pump.product]
           changes == TargetChanges(schema, t)
           S       == Changed(schema, changes)
           new     == Obeyed(schema, pump.raw, Payload(schema, changes))
<1>1. /\ pump # None /\ changes # None /\ Payload(schema, changes) # None
      /\ asked' = changes
      /\ pump' = [pump EXCEPT !.raw = new]
  BY DEF Control
<1>2. PICK b, raw : \E product \in Products :
         /\ pump = [binding |-> b, product |-> product, raw |-> raw]
         /\ b.product_key \in Products /\ Bytes(raw)
  BY <1>1 DEF ReadingsTypeOK, PumpOK
<1>3. PICK product \in Products :
         pump = [binding |-> b, product |-> product, raw |-> raw]
  BY <1>2
<1>4. pump.product = product /\ pump.raw = raw /\ Bytes(pump.raw)
  BY <1>2, <1>3
<1>5. schema.controllable
  BY <1>1 DEF Payload
<1>6. WellLaidOut(schema, Specs[pump.product].offset)
  BY <1>4, <1>5, ControllableLaidOut
<1>7. AllWritten(schema, pump.raw, Asks(changes, S), S, new)
  BY <1>1, <1>4, <1>6, ControlWrites
<1> HIDE DEF new, S, changes, schema
<1>8. pump' = [binding |-> b, product |-> product, raw |-> new]
  BY <1>1, <1>3
<1>9. Bytes(new)
  BY <1>7 DEF AllWritten
<1>10. PumpOK(pump')
  BY <1>2, <1>8, <1>9 DEF PumpOK
<1>11. /\ pump.product \in Products /\ Bytes(pump.raw)
       /\ schema.controllable
       /\ changes # None /\ asked' = changes
       /\ pump'.product = pump.product
       /\ AllWritten(schema, pump.raw, Asks(changes, S), S, pump'.raw)
       /\ PumpOK(pump')
  BY <1>1, <1>4, <1>5, <1>7, <1>8, <1>10
<1> QED
  BY <1>11 DEF schema, changes, S

LEMMA ReadingsInitType == ReadingsInit => ReadingsTypeOK
BY InitType DEF ReadingsInit, ReadingsTypeOK

LEMMA ReadingsStepType ==
    ReadingsTypeOK /\ [ReadingsNext]_allVars => ReadingsTypeOK'
<1> SUFFICES ASSUME ReadingsTypeOK, [ReadingsNext]_allVars
             PROVE  ReadingsTypeOK'
  OBVIOUS
<1>1. CASE UNCHANGED allVars
  BY <1>1, StepType DEF allVars, ReadingsTypeOK, PumpOK
<1>2. CASE Next /\ UNCHANGED <<pump, asked>>
  BY <1>2, StepType DEF ReadingsTypeOK, PumpOK
<1>3. ASSUME NEW b \in resolved, Meet(b)
      PROVE  ReadingsTypeOK'
  <2>1. TypeOK'
    BY <1>3, StepType DEF Meet, ReadingsTypeOK
  <2>2. b.product_key \in Products
    BY <1>3, BoundToProduct DEF ReadingsTypeOK
  <2>3. PICK product \in Behind(b) : \E raw \in Statuses[product] :
           pump' = [binding |-> b, product |-> product, raw |-> raw]
    BY <1>3 DEF Meet
  <2>4. product \in Products
    BY <2>2, <2>3 DEF Behind
  <2>5. PICK raw \in Statuses[product] :
           pump' = [binding |-> b, product |-> product, raw |-> raw]
    BY <2>3
  <2>6. Bytes(raw)
    BY <2>4, StatusBytes
  <2>7. PumpOK(pump')
    BY <2>2, <2>4, <2>5, <2>6 DEF PumpOK
  <2> QED
    BY <2>1, <2>7 DEF ReadingsTypeOK, PumpOK
<1>4. ASSUME NEW t \in Targets, Control(t)
      PROVE  ReadingsTypeOK'
  <2>1. TypeOK'
    BY <1>4, StepType DEF Control, ReadingsTypeOK
  <2>2. PumpOK(pump')
    BY <1>4, ControlledPump
  <2> QED
    BY <2>1, <2>2 DEF ReadingsTypeOK, PumpOK
<1> QED
  BY <1>1, <1>2, <1>3, <1>4 DEF ReadingsNext

(* The pump looked at is of some product and bound to a known one, and its  *)
(* status stays one of bytes, also after the controls it obeys.            *)
THEOREM ReadingsType == ReadingsSpec => []ReadingsTypeOK
BY ReadingsInitType, ReadingsStepType, PTL DEF ReadingsSpec

(* A status that is read is one of the product the pump is bound as.        *)
LEMMA ReadIsOwn ==
    ASSUME ReadingsTypeOK, pump # None, State(pump) # None
    PROVE  pump.product = pump.binding.product_key
<1>1. pump.product \in Products /\ pump.binding.product_key \in Products
  BY DEF ReadingsTypeOK, PumpOK
<1>2. Schemas[pump.product].size = Schemas[pump.binding.product_key].size
  BY DEF State, GetState, Fits
<1> QED
  BY <1>1, <1>2, SizesDiffer

(* A status is never read with another product's schema (decode_status).   *)
THEOREM ReadByOwnSchema == ReadingsSpec => []NeverMisread
<1>1. ReadingsTypeOK => NeverMisread
  BY ReadIsOwn DEF NeverMisread
<1> QED
  BY <1>1, ReadingsType, PTL

-----------------------------------------------------------------------------
LEMMA SpecSizes ==
    ASSUME NEW key \in DOMAIN Specs
    PROVE  /\ Specs[key].offset \in Nat
           /\ Specs[key].size \in Nat /\ Specs[key].size >= 6
           /\ Specs[key].modes \in Nat /\ Specs[key].modes <= 9
BY SpecsAre DEF Products

MinutesOfDay == (0 .. DayMinutes - 1) \X (0 .. DayMinutes)

LEMMA WindowIn ==
    ASSUME NEW x \in Nat, x <= 1439, NEW y \in Nat, y <= 1440
    PROVE  <<x, y>> \in MinutesOfDay
<1>1. DayMinutes \in Nat /\ x <= DayMinutes - 1 /\ y <= DayMinutes
  BY DEF DayMinutes
<1> QED
  BY <1>1 DEF MinutesOfDay

(* A schedule the daemon decodes is taken whole by Home Assistant. *)
ShownWhole(told, spec, raw) ==
    LET shown == Shown(told)
        idle  == {i \in Slots : \E b \in {0, 238} : \A k \in 1 .. spec.size :
                     ByteAt(raw, spec.offset + i * spec.size + k - 1) = b}
    IN  /\ shown = told
        /\ DOMAIN shown.entries \cup shown.invalid = Slots \ idle
        /\ DOMAIN shown.entries \cap shown.invalid = {}
        /\ \A i \in DOMAIN shown.entries :
              Window(shown.entries[i]) \in MinutesOfDay

LEMMA ScheduleTaken ==
    ASSUME NEW key \in DOMAIN Specs, NEW raw, Bytes(raw), NEW enabled
    PROVE  ShownWhole(Schedule(key, raw, enabled), Specs[key], raw)
<1> DEFINE told == Schedule(key, raw, enabled)
           spec == Specs[key]
           slot(i) == Slot(spec, raw, i)
           idle == {i \in Slots : \E b \in {0, 238} : \A k \in 1 .. spec.size :
                      ByteAt(raw, spec.offset + i * spec.size + k - 1) = b}
           inUse == {i \in Slots : ~Unused(slot(i))}
           read == {i \in inUse : Decodable(spec, slot(i))}
<1>1. /\ spec.size \in Nat /\ spec.size >= 6
      /\ spec.modes \in Nat /\ spec.modes <= 9
  BY SpecSizes
<1>2. told = [enabled |-> enabled, entries |-> [i \in read |-> slot(i)],
              invalid |-> inUse \ read]
  BY DEF Schedule
<1>3. ASSUME NEW i \in Slots, NEW k \in 1 .. spec.size
      PROVE  /\ slot(i)[k] = ByteAt(raw, spec.offset + i * spec.size + k - 1)
             /\ slot(i)[k] \in Nat /\ slot(i)[k] < 256
  BY ByteType, Octets DEF Slot
<1>4. inUse = Slots \ idle
  <2>1. ASSUME NEW i \in Slots
        PROVE  Unused(slot(i)) <=> \E b \in {0, 238} : \A k \in 1 .. spec.size :
                 ByteAt(raw, spec.offset + i * spec.size + k - 1) = b
    <3>1. DOMAIN slot(i) = 1 .. spec.size
      BY DEF Slot
    <3> DEFINE at(k) == ByteAt(raw, spec.offset + i * spec.size + k - 1)
               ids   == 1 .. spec.size
               bytes == slot(i)
    <3>2. \A k \in ids : bytes[k] = at(k)
      BY <1>3
    <3>3. Unused(bytes) <=> \E b \in {0, 238} : \A k \in DOMAIN bytes : bytes[k] = b
      BY DEF Unused
    <3>4. DOMAIN bytes = ids
      BY <3>1
    <3> HIDE DEF at, ids, bytes
    <3>5. Unused(bytes) <=> \E b \in {0, 238} : \A k \in ids : at(k) = b
      BY <3>2, <3>3, <3>4
    <3> QED
      BY <3>5 DEF at, ids, bytes
  <2> HIDE DEF slot
  <2> QED
    BY <2>1
<1>5. ASSUME NEW i \in read
      PROVE  /\ ScheduleTime(slot(i)[1], slot(i)[2])
             /\ ScheduleTime(slot(i)[3], slot(i)[4])
             /\ slot(i)[5] \in Nat /\ slot(i)[5] < 256
             /\ 60 * slot(i)[1] + slot(i)[2] \in Nat
             /\ 60 * slot(i)[1] + slot(i)[2] <= 1439
             /\ 60 * slot(i)[3] + slot(i)[4] \in Nat
             /\ 60 * slot(i)[3] + slot(i)[4] <= 1440
  <2>1. /\ i \in Slots /\ Decodable(spec, slot(i))
        /\ 1 \in 1 .. spec.size /\ 2 \in 1 .. spec.size /\ 3 \in 1 .. spec.size
        /\ 4 \in 1 .. spec.size /\ 5 \in 1 .. spec.size
    BY <1>1
  <2> DEFINE h1 == slot(i)[1]  m1 == slot(i)[2]
             h2 == slot(i)[3]  m2 == slot(i)[4]
             c  == slot(i)[5]
  <2>2. h1 \in Nat /\ m1 \in Nat /\ h2 \in Nat /\ m2 \in Nat /\ c \in Nat
    BY <1>3, <2>1
  <2>3. WallClock(h1, m1, FALSE) /\ WallClock(h2, m2, TRUE) /\ c < spec.modes
    BY <2>1 DEF Decodable
  <2> HIDE DEF h1, m1, h2, m2, c, slot
  <2>4. /\ h1 <= 23 /\ m1 <= 59
        /\ (h2 <= 23 /\ m2 <= 59) \/ (h2 = 24 /\ m2 = 0)
        /\ c < 9
    BY <1>1, <2>2, <2>3 DEF WallClock
  <2>5. /\ ScheduleTime(h1, m1) /\ ScheduleTime(h2, m2)
        /\ c \in Nat /\ c < 256
        /\ 60 * h1 + m1 \in Nat /\ 60 * h1 + m1 <= 1439
        /\ 60 * h2 + m2 \in Nat /\ 60 * h2 + m2 <= 1440
    BY <2>2, <2>4 DEF ScheduleTime
  <2> QED
    BY <2>5 DEF h1, m1, h2, m2, c
<1> HIDE DEF told, slot, idle, inUse, read
<1>6. read \subseteq inUse /\ inUse \subseteq Slots
  BY DEF read, inUse
<1>7. /\ DOMAIN told.entries = read /\ told.invalid = inUse \ read
      /\ \A i \in read : told.entries[i] = slot(i)
  BY <1>2
<1>8. Shown(told) = told
  <2> DEFINE taken == {i \in DOMAIN told.entries :
                         /\ ScheduleTime(told.entries[i][1], told.entries[i][2])
                         /\ ScheduleTime(told.entries[i][3], told.entries[i][4])
                         /\ told.entries[i][5] \in 0 .. 255}
  <2>1. taken = read
    BY <1>5, <1>7
  <2>2. Shown(told) = [told EXCEPT !.entries = [i \in taken |-> told.entries[i]],
                                   !.invalid = @ \cap Slots]
    BY DEF Shown
  <2> HIDE DEF taken
  <2>3. [i \in taken |-> told.entries[i]] = told.entries
    BY <1>2, <1>7, <2>1
  <2>4. told.invalid \cap Slots = told.invalid
    BY <1>6, <1>7
  <2> QED
    BY <1>2, <2>2, <2>3, <2>4
<1>9. /\ DOMAIN told.entries \cup told.invalid = Slots \ idle
      /\ DOMAIN told.entries \cap told.invalid = {}
  BY <1>4, <1>6, <1>7
<1>10. ASSUME NEW i \in DOMAIN told.entries
       PROVE  Window(told.entries[i]) \in MinutesOfDay
  <2>1. /\ 60 * slot(i)[1] + slot(i)[2] \in Nat
        /\ 60 * slot(i)[1] + slot(i)[2] <= 1439
        /\ 60 * slot(i)[3] + slot(i)[4] \in Nat
        /\ 60 * slot(i)[3] + slot(i)[4] <= 1440
    BY <1>5, <1>7
  <2>2. Window(told.entries[i]) =
          <<60 * slot(i)[1] + slot(i)[2], 60 * slot(i)[3] + slot(i)[4]>>
    BY <1>7 DEF Window
  <2> QED
    BY <2>1, <2>2, WindowIn
<1>11. ShownWhole(told, spec, raw)
  BY <1>8, <1>9, <1>10 DEF ShownWhole, idle
<1> QED
  BY <1>11 DEF told

(* Every slot in use of every schedule that is decoded reaches Home         *)
(* Assistant, with times of a day or as unreadable, and no unused slot does *)
(* (decode_schedule, _schedule_entries).                                   *)
THEOREM ScheduleReachesClient == ReadingsSpec => []ScheduleShown
<1>1. ASSUME ReadingsTypeOK, pump # None, State(pump) # None,
             State(pump).schedule # None
      PROVE  ShownWhole(State(pump).schedule, Specs[pump.product], pump.raw)
  <2>1. pump.binding.product_key = pump.product /\ Bytes(pump.raw)
    BY <1>1, ReadIsOwn DEF ReadingsTypeOK, PumpOK
  <2>2. PICK enabled :
           State(pump).schedule = Schedule(pump.product, pump.raw, enabled)
    BY <1>1, <2>1 DEF State, GetState
  <2>3. pump.product \in DOMAIN Specs
    BY <1>1, <2>2 DEF Schedule
  <2> QED
    BY <2>1, <2>2, <2>3, ScheduleTaken
<1>2. ReadingsTypeOK => ScheduleShown
  BY <1>1, Zenon DEF ScheduleShown, ShownWhole, MinutesOfDay
<1> QED
  BY <1>2, ReadingsType, PTL

(* A value read after a control: what was asked for, or what it was. *)
LEMMA ValuesAfter ==
    ASSUME ReadingsTypeOK, NEW t \in Targets, Control(t)
    PROVE  LET schema == Schemas[pump.product]
               before == Values(schema, pump.raw)
               after  == Values(schema, pump'.raw)
           IN  \A name \in DOMAIN after :
                  after[name] = IF name \in DOMAIN asked' THEN asked'[name]
                                                          ELSE before[name]
<1> DEFINE schema  == Schemas[pump.product]
           changes == TargetChanges(schema, t)
           S       == Changed(schema, changes)
           names   == {a.name : a \in schema.attributes}
           top     == Specs[pump.product].offset
<1>1. /\ pump.product \in Products
      /\ schema.controllable
      /\ changes # None /\ asked' = changes
      /\ AllWritten(schema, pump.raw, Asks(changes, S), S, pump'.raw)
  BY ControlledPump
<1>2. WellLaidOut(schema, top)
  BY <1>1, ControllableLaidOut
<1>3. /\ S \subseteq schema.attributes
      /\ \A a \in S : a.name \in DOMAIN changes
      /\ \A name \in DOMAIN changes : ByName(schema, name) \in S
  BY <1>1, <1>2, ChangedAre
<1>4. Values(schema, pump.raw)
         = [name \in names |-> Value(schema, ByName(schema, name), pump.raw)]
      /\ Values(schema, pump'.raw)
         = [name \in names |-> Value(schema, ByName(schema, name), pump'.raw)]
  BY DEF Values
<1> HIDE DEF schema, changes, S, top
<1>5. ASSUME NEW name \in names
      PROVE  Value(schema, ByName(schema, name), pump'.raw) =
               IF name \in DOMAIN changes THEN changes[name]
               ELSE Value(schema, ByName(schema, name), pump.raw)
  <2> DEFINE a == ByName(schema, name)
  <2>1. a \in schema.attributes /\ a.name = name
    BY DEF ByName
  <2> HIDE DEF a
  <2>2. CASE name \in DOMAIN changes
    <3>1. a \in S
      BY <1>3, <2>2 DEF a
    <3>2. Value(schema, a, pump'.raw) = changes[a.name]
      BY <1>1, <3>1 DEF AllWritten, Asks
    <3> QED
      BY <2>1, <2>2, <3>2 DEF a
  <2>3. CASE name \notin DOMAIN changes
    <3>1. a \notin S
      BY <1>3, <2>1, <2>3
    <3>2. Placeable(schema, a) /\ \A b \in S : Apart(schema, b, a)
      BY <1>2, <1>3, <2>1, <3>1 DEF WellLaidOut
    <3>3. Value(schema, a, pump'.raw) = Value(schema, a, pump.raw)
      BY <1>1, <3>2 DEF AllWritten
    <3> QED
      BY <2>3, <3>3 DEF a
  <2> QED
    BY <2>2, <2>3
<1>6. \A name \in DOMAIN Values(schema, pump'.raw) :
        Values(schema, pump'.raw)[name] =
          IF name \in DOMAIN asked' THEN asked'[name]
          ELSE Values(schema, pump.raw)[name]
  <2> HIDE DEF names
  <2> QED
    BY <1>1, <1>4, <1>5
<1> QED
  BY <1>6 DEF schema

(* A control leaves the slots alone: they lie after all that is written.   *)
LEMMA SlotsAfter ==
    ASSUME ReadingsTypeOK, NEW t \in Targets, Control(t)
    PROVE  Schedule(pump.product, pump'.raw, TRUE)
             = Schedule(pump.product, pump.raw, TRUE)
<1> DEFINE key     == pump.product
           schema  == Schemas[key]
           changes == TargetChanges(schema, t)
           S       == Changed(schema, changes)
           spec    == Specs[key]
<1>1. /\ key \in Products /\ schema.controllable /\ changes # None
      /\ AllWritten(schema, pump.raw, Asks(changes, S), S, pump'.raw)
      /\ \A a \in S : a.writable
  <2>1. \A a \in S : a.writable
    BY DEF Control, Payload
  <2> QED
    BY <2>1, ControlledPump
<1>2. /\ key \in DOMAIN Specs
      /\ WellLaidOut(schema, spec.offset)
      /\ spec.offset \in Nat /\ spec.size \in Nat
  BY <1>1, ControllableLaidOut
<1>3. S \subseteq schema.attributes
  BY <1>1, <1>2, ChangedAre
<1> HIDE DEF schema, changes, S, spec
<1>4. ASSUME NEW n \in Nat, n >= spec.offset
      PROVE  ByteAt(pump'.raw, n) = ByteAt(pump.raw, n)
  <2>1. \A a \in S : n \notin Cells(schema, a)
    BY <1>1, <1>2, <1>3, <1>4 DEF WellLaidOut
  <2> QED
    BY <1>1, <2>1 DEF AllWritten
<1>5. ASSUME NEW i \in Slots
      PROVE  Slot(spec, pump'.raw, i) = Slot(spec, pump.raw, i)
  <2>1. ASSUME NEW k \in 1 .. spec.size
        PROVE  ByteAt(pump'.raw, spec.offset + i * spec.size + k - 1)
                 = ByteAt(pump.raw, spec.offset + i * spec.size + k - 1)
    <3>1. i * spec.size \in Nat
      BY <1>2 DEF Slots
    <3> DEFINE n == spec.offset + i * spec.size + k - 1
    <3>2. n \in Nat /\ n >= spec.offset
      BY <1>2, <3>1
    <3> HIDE DEF n
    <3>3. ByteAt(pump'.raw, n) = ByteAt(pump.raw, n)
      BY <1>4, <3>2
    <3> QED
      BY <3>3 DEF n
  <2> QED
    BY <2>1 DEF Slot
<1>6. ASSUME NEW raw1, NEW raw2,
             \A i \in Slots : Slot(spec, raw1, i) = Slot(spec, raw2, i)
      PROVE  Schedule(key, raw1, TRUE) = Schedule(key, raw2, TRUE)
  <2> DEFINE used(raw) == {i \in Slots : ~Unused(Slot(spec, raw, i))}
             read(raw) == {i \in used(raw) : Decodable(spec, Slot(spec, raw, i))}
  <2>1. used(raw1) = used(raw2)
    BY <1>6
  <2>2. read(raw1) = read(raw2)
    BY <1>6
  <2>3. [i \in read(raw1) |-> Slot(spec, raw1, i)]
          = [i \in read(raw2) |-> Slot(spec, raw2, i)]
    BY <1>6, <2>2
  <2>4. \A raw : Schedule(key, raw, TRUE) =
           [enabled |-> TRUE,
            entries |-> [i \in read(raw) |-> Slot(spec, raw, i)],
            invalid |-> used(raw) \ read(raw)]
    BY <1>2 DEF Schedule, spec
  <2> HIDE DEF used, read
  <2> QED
    BY <2>1, <2>2, <2>3, <2>4
<1> QED
  BY <1>5, <1>6

(* A control the pump obeys changes the datapoints it was asked to, to the *)
(* values asked for, and no other one and no slot of the schedule          *)
(* (build_control_payload).                                                *)
THEOREM ControlChangesOnlyWhatWasAsked == ReadingsSpec => ControlIsExact
<1> DEFINE Exact ==
      asked' # asked =>
         LET before == Values(Schemas[pump.product], pump.raw)
             after  == Values(Schemas[pump.product], pump'.raw)
         IN  /\ \A name \in DOMAIN after :
                  after[name] = IF name \in DOMAIN asked' THEN asked'[name]
                                                          ELSE before[name]
             /\ Schedule(pump.product, pump'.raw, TRUE)
                  = Schedule(pump.product, pump.raw, TRUE)
<1>1. ReadingsTypeOK /\ [ReadingsNext]_allVars => Exact
  <2> SUFFICES ASSUME ReadingsTypeOK, [ReadingsNext]_allVars, asked' # asked
               PROVE  Exact
    OBVIOUS
  <2>1. PICK t \in Targets : Control(t)
    BY DEF ReadingsNext, Meet, allVars
  <2> QED
    BY <2>1, ValuesAfter, SlotsAfter
<1> HIDE DEF Exact
<1>2. ReadingsTypeOK /\ [ReadingsNext]_allVars => [Exact]_allVars
  BY <1>1
<1>3. ReadingsSpec => [][Exact]_allVars
  BY <1>2, ReadingsType, PTL DEF ReadingsSpec
<1> QED
  BY <1>3 DEF ControlIsExact, Exact

=============================================================================
