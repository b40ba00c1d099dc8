--------------------------- MODULE MCLwipDownload ---------------------------
(* Two downloads, so that a transfer left behind by the first can call     *)
(* back during the second; bodies of up to two segments; a timeout of two  *)
(* polls.                                                                  *)
EXTENDS LwipDownload

=============================================================================
