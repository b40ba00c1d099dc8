---------------------------- MODULE MCEsp32WiFi ----------------------------
(* Two networks, so that a connection to one can meet what is left of the  *)
(* other; two polls before the timeout.                                    *)
EXTENDS Esp32WiFi
=============================================================================
