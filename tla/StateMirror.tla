---------------------------- MODULE StateMirror ----------------------------
(***************************************************************************)
(* What a client of the retained topics is promised: the copy of a state   *)
(* it sees never goes back to an older version and never shows one that    *)
(* the daemon did not have.                                                *)
(***************************************************************************)
EXTENDS Integers

CONSTANTS
    Topics,
    Absent            \* the copy before the daemon's first publication, -1

VARIABLES
    version,          \* what the daemon holds
    copy              \* what the broker retains

mirrorVars == <<version, copy>>

MirrorInit ==
    /\ version = [t \in Topics |-> 0]
    /\ copy = [t \in Topics |-> Absent]

Advance ==
    /\ version' \in [Topics -> Nat]
    /\ \A t \in Topics : version'[t] >= version[t]
    /\ UNCHANGED copy

Show(t) ==
    /\ \E v \in copy[t] + 1 .. version[t] : copy' = [copy EXCEPT ![t] = v]
    /\ UNCHANGED version

MirrorNext == Advance \/ \E t \in Topics : Show(t)

MirrorSpec == MirrorInit /\ [][MirrorNext]_mirrorVars

=============================================================================
