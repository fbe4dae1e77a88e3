---------------------------- MODULE ContactCards ----------------------------
(***************************************************************************)
(* Contact cards (contacts.go): how a vCard is encrypted and signed, and   *)
(* the reader that ContactCard.Read returns.  The detached signature of an *)
(* encrypted card is over the plaintext, so it is checked only when the    *)
(* consumer of the body has read it to its end.                            *)
(*                                                                         *)
(* A text is a sequence of chunks.  The Data of a card is a text in the    *)
(* clear, or encrypted to one entity; a signature is over a text and by an *)
(* entity, and what a wrong signature is over or by does not matter.       *)
(***************************************************************************)
EXTENDS Naturals, Sequences

CONSTANTS
  Texts,       \* the contents of vCards
  Strangers    \* entities that are not in the Client's ring

ASSUME TextsAssumption == Texts \subseteq Seq(Nat)

Clear == <<>>        \* no recipient: Data is not encrypted
NoSignature == [over |-> <<>>, by |-> <<>>]
NoCard == [type |-> "none", text |-> <<>>, to |-> Clear, signature |-> NoSignature]
NotWritten == [made |-> FALSE, signer |-> <<>>]

\* Before Read, and after it has failed.
NoReader ==
  [pc |-> "none", pos |-> 0, signed |-> <<>>, sigRead |-> FALSE, eof |-> FALSE,
   isSigned |-> FALSE, verified |-> FALSE]

VARIABLES
  card,        \* the card in the application's hands
  written,     \* did the application make it, and who signed it
  reader       \* the MessageDetails of its Read and the reader of the body

cardVars == <<card, written, reader>>

-----------------------------------------------------------------------------
Signed(type)    == type \in {"Signed", "EncryptedAndSigned"}
Encrypted(type) == type \in {"Encrypted", "EncryptedAndSigned"}
CardTypes       == {"Cleartext", "Encrypted", "Signed", "EncryptedAndSigned"}

\* The text is encrypted, then, if there is a signer, its copy is signed; an
\* error of the reader, the recipient or the signer makes no card.
NewEncryptedContactCard(text, to, signer) ==
  /\ card = NoCard
  /\ card' = [type      |-> IF signer = <<>> THEN "Encrypted" ELSE "EncryptedAndSigned",
              text      |-> text,
              to        |-> to,
              signature |-> IF signer = <<>> THEN NoSignature ELSE [over |-> text, by |-> signer]]
  /\ written' = [made |-> TRUE, signer |-> signer]
  /\ UNCHANGED reader

NewSignedContactCard(text, signer) ==
  /\ card = NoCard
  /\ card' = [type |-> "Signed", text |-> text, to |-> Clear,
              signature |-> [over |-> text, by |-> signer]]
  /\ written' = [made |-> TRUE, signer |-> signer]
  /\ UNCHANGED reader

\* GetContact returns whatever the server has: any type, text and signature.
ReceiveCard(type, text, to, signature) ==
  /\ card = NoCard
  /\ card' = [type |-> type, text |-> text, to |-> to, signature |-> signature]
  /\ UNCHANGED <<written, reader>>

-----------------------------------------------------------------------------
(* Read                                                                    *)

\* openpgp.CheckArmoredDetachedSignature (external).
Verifies(text, signature, ring) ==
  signature # NoSignature /\ signature.over = text /\ signature.by \in ring

\* Armor and decryption: Data must be encrypted to a key of the ring.
Decrypts(ring) == card.to # Clear /\ card.to \in ring

\* Is what Read delivers the text, and not its armored ciphertext.
DeliversText == Encrypted(card.type) \/ card.to = Clear

\* A cleartext card is checked at once, an encrypted one by its reader.
Read(ring) ==
  /\ card # NoCard /\ reader.pc = "none"
  /\ reader' =
       IF ~Encrypted(card.type)
       THEN [NoReader EXCEPT !.pc       = "open",
                             !.isSigned = Signed(card.type),
                             !.verified = Signed(card.type) /\ DeliversText
                                            /\ Verifies(card.text, card.signature, ring)]
       ELSE [NoReader EXCEPT !.pc = IF Decrypts(ring) THEN "open" ELSE "failed"]
  /\ UNCHANGED <<card, written>>

Detached == Signed(card.type) /\ Encrypted(card.type)

\* The reader once n chunks were returned: the tee has a copy of each.
Returned(n) ==
  [reader EXCEPT !.pos = n, !.signed = IF Detached THEN SubSeq(card.text, 1, n) ELSE <<>>]

\* Mutant: the signature is checked whenever the end is returned.
MutAtEOFAgain(r, ring) ==
  IF ~Detached THEN [r EXCEPT !.pc = "eof"]
  ELSE [r EXCEPT !.pc = "eof", !.eof = TRUE, !.sigRead = TRUE, !.isSigned = TRUE,
                 !.verified = ~r.sigRead /\ Verifies(r.signed, card.signature, ring)]

\* detachedSignatureReader.Read at the end of the body: the first time, the
\* signature is read and checked over what was returned.
AtEOF(r, ring) ==
  IF ~Detached \/ r.eof THEN [r EXCEPT !.pc = "eof"]
  ELSE [r EXCEPT !.pc = "eof", !.eof = TRUE, !.sigRead = TRUE, !.isSigned = TRUE,
                 !.verified = ~r.sigRead /\ Verifies(r.signed, card.signature, ring)]

\* One Read of the body: a chunk, a chunk together with the end, the end (any
\* number of times), or, when it decrypts, an error instead.
ReadBody(ring) ==
  /\ \/ reader.pc = "open" /\ reader.pos < Len(card.text)
          /\ \/ reader' = Returned(reader.pos + 1)
             \/ reader.pos + 1 = Len(card.text) /\ reader' = AtEOF(Returned(reader.pos + 1), ring)
     \/ reader.pc \in {"open", "eof"} /\ reader.pos = Len(card.text)
          /\ reader' = AtEOF(reader, ring)
     \/ reader.pc = "open" /\ Encrypted(card.type) /\ reader' = [reader EXCEPT !.pc = "broken"]
  /\ UNCHANGED <<card, written>>

-----------------------------------------------------------------------------
CardInit == card = NoCard /\ written = NotWritten /\ reader = NoReader

CardNext(ring) ==
  LET known == ring \cup Strangers
  IN \/ \E text \in Texts, to \in known, signer \in known \cup {<<>>} :
          NewEncryptedContactCard(text, to, signer)
     \/ \E text \in Texts, signer \in known : NewSignedContactCard(text, signer)
     \/ \E type \in CardTypes, text \in Texts, to \in known \cup {Clear},
           signature \in [over: Texts, by: known] \cup {NoSignature} :
          ReceiveCard(type, text, to, signature)
     \/ Read(ring)
     \/ ReadBody(ring)

-----------------------------------------------------------------------------
(* Properties                                                              *)

\* Every variable has its type.
CardTypeOK ==
  /\ card.type \in CardTypes \cup {"none"} /\ card.text \in Texts \cup {<<>>}
  /\ reader.pc \in {"none", "open", "eof", "broken", "failed"}
  /\ reader.pos \in 0..Len(card.text)
  /\ \A f \in {"sigRead", "eof", "isSigned", "verified"} : reader[f] \in BOOLEAN

\* Once the consumer has met the end of a signed card, and for as often as it
\* asks again, the details say that it is signed and whether the signature is
\* by a key of the ring and over the very text that was delivered; nothing is
\* called verified before the text it vouches for has passed.  A card made by
\* NewEncryptedContactCard or NewSignedContactCard is verified if its signer is
\* in the ring.
VerdictRight(ring) ==
  /\ reader.pc = "eof" =>
       /\ reader.isSigned <=> Signed(card.type)
       /\ reader.verified <=> /\ Signed(card.type) /\ DeliversText
                               /\ Verifies(card.text, card.signature, ring)
  /\ (Encrypted(card.type) /\ reader.pc \in {"open", "broken"}) => ~reader.verified
  /\ (written.made /\ reader.pc = "eof") =>
       (reader.verified <=> written.signer # <<>> /\ written.signer \in ring)
=============================================================================
