----------------------------- MODULE MCTransfer -----------------------------
(***************************************************************************)
(* Small instances of Transfer: a buffer of two or three bytes, sources up *)
(* to five bytes, so that a transfer takes several reads and a read        *)
(* several writes, and announced sizes on both sides of the real length.   *)
(***************************************************************************)
EXTENDS Transfer

MCOps == AllOps
MCUploads == {"create_file", "append_file"}
MCUpTo2 == 0..2
MCUpTo5 == 0..5
MCExactly5 == {5}
=============================================================================
