------------------------------- MODULE Upload -------------------------------
(***************************************************************************)
(* What a streamed upload promises, whoever streams it: the producer either *)
(* ends the body or breaks it off, for good; the server stores only a body *)
(* that was ended; the caller is told of success only if it is stored.     *)
(* Importer and AttachmentUpload implement this specification.             *)
(***************************************************************************)
VARIABLES
  producer,   \* "open", "eof" (the body was ended) or "error" (broken off)
  stored,     \* has the server taken the upload
  told        \* what the caller knows: "none", "ok" or "error"

vars == <<producer, stored, told>>

Init == producer = "open" /\ stored = FALSE /\ told = "none"

EndBody ==
  /\ producer = "open"
  /\ producer' \in {"eof", "error"}
  /\ UNCHANGED stored

Store ==
  /\ producer = "eof" /\ stored' = TRUE
  /\ UNCHANGED <<producer, told>>

\* An error may be told at any time, success only of a stored upload.
Tell ==
  /\ told' = "error" \/ (told' = "ok" /\ stored)
  /\ UNCHANGED stored

\* Ending the body and telling the caller may be one step of the caller.
Next ==
  \/ EndBody /\ (UNCHANGED told \/ Tell)
  \/ Store
  \/ Tell /\ UNCHANGED producer

Spec == Init /\ [][Next]_vars
=============================================================================
