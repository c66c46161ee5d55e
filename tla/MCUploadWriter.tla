--------------------------- MODULE MCUploadWriter ---------------------------
(* Two uploads of one name, up to three units long with parts of two. *)
EXTENDS UploadWriter, TLC
==============================================================================
