--------------------------- MODULE MCSyncDownload ---------------------------
(* Responses whose header block ends within the first recv, at the end of  *)
(* the header buffer, and beyond it; with and without a body.              *)
EXTENDS SyncDownload

MCClients == {"Simulator", "ESP32"}
MCResponses ==
    [head : {1, 4, 5}, total : {5, 7}, found : BOOLEAN]

=============================================================================
