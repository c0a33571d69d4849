------------------------ MODULE MCStreamingTransfer -------------------------
(***************************************************************************)
(* Two transfers: an upload with a digest and one from a file.  Two are    *)
(* enough for a transfer to be replaced while its worker, its timer, its   *)
(* upload and its cancel are all still under way.                          *)
(***************************************************************************)
EXTENDS StreamingTransfer
=============================================================================
