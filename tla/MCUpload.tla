------------------------------ MODULE MCUpload ------------------------------
(* Instances of AttachmentUpload for TLC.                                  *)
EXTENDS AttachmentUpload
=============================================================================
