---------------------------- MODULE MCLanDevice ----------------------------
(* Instances of LanDevice for TLC. *)
EXTENDS LanDevice, Codec

CONSTANTS flow, low, high

(* Two powers, and the power the pump has by its own schedule is either.    *)
Powers == {[a \in {flow} |-> low], [a \in {flow} |-> high]}

(* Frames around the sizes where the length takes another octet, and the    *)
(* commands at the ends of their range.                                     *)
Samples ==
    {[flag |-> 0, command |-> command, payload |-> [i \in 1 .. size |-> (37 * i) % 256]] :
        command \in {0, 2 ^ 8, 2 ^ 16 - 1}, size \in {0, 1, 124, 125, 300}}

Followers == {<<>>, <<0>>, EncodeFrame([flag |-> 0, command |-> 4, payload |-> <<>>])}

(* FramesKeepApart and TornIsLost (theorems of LanDeviceProofs for every    *)
(* frame) on these.                                                         *)
ASSUME SamplesKeepApart ==
    \A frame \in Samples, rest \in Followers : FramesKeepApart(frame, rest)

ASSUME TornSamplesAreLost ==
    \A frame \in Samples :
        \A size \in 0 .. Len(EncodeFrame(frame)) - 1 : TornIsLost(frame, size)

=============================================================================
