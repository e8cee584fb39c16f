----------------------------- MODULE MCObserver -----------------------------
(* Instances of Observer for TLC. *)
EXTENDS Observer

CONSTANTS d1, d2, e1, e2

Bound(first, second) ==
    [d \in {d1, d2} |-> IF d = d1 THEN first ELSE second]

(* Two pumps at their addresses, or the first gone and the second at its    *)
(* address.                                                                *)
Moving == {Bound(e1, e2), Bound(None, e1)}

=============================================================================
