--------------------------- MODULE MCUploadSource ---------------------------
(* Small instances of UploadSource.                                        *)
EXTENDS UploadSource
=============================================================================
