------------------------- MODULE MCStreamCredentials -------------------------
(* Two users of the device, who come and go.                               *)
EXTENDS StreamCredentials

CONSTANTS ann, bob

MCUsers == {ann, bob}
=============================================================================
