----------------------------- MODULE PackageSet -----------------------------
(***************************************************************************)
(* An outgoing message: a MessagePackageSet (messages.go) with its body,   *)
(* its session keys and one package per recipient, and the key of the      *)
(* attachment it is sent with (attachments.go).                            *)
(*                                                                         *)
(* A session key is the number of the call that generated it, 0 is nil.    *)
(* Body is the key it is encrypted with; a key packet is the key it holds  *)
(* and the recipient's key that it is encrypted to.                        *)
(***************************************************************************)
EXTENDS KeySelect

CONSTANTS
  Addrs,         \* e-mail addresses
  Recipients,    \* the recipients' entities
  MaxEncrypts,   \* bound: calls of MessagePackageSet.Encrypt
  MaxAttKeys     \* bound: calls of Attachment.GenerateKey

ASSUME RecipientsAssumption == Recipients \subseteq Seq(KeyParts) \ {<<>>}
ASSUME PackageBounds == MaxEncrypts \in Nat /\ MaxAttKeys \in Nat

VARIABLES
  made,                        \* NewMessagePackageSet was called
  Type, Addresses, MIMEType, Body, BodyKey, AttachmentKeys,   \* exported fields
  bodyKey, signature,          \* unexported fields
  bodySigned,                  \* is what Body holds signed
  writers, calls,              \* open writers; calls of Encrypt
  attKey, keyPackets, payload  \* the attachment: key, key packets, key of its data

setVars == <<Type, Addresses, MIMEType, Body, BodyKey, AttachmentKeys, bodyKey, signature,
             bodySigned, writers, calls>>
attVars == <<attKey, keyPackets, payload>>
packageVars == <<made, setVars, attVars>>

NoPackage == [type |-> "none", key |-> 0, att |-> 0, entity |-> <<>>, to |-> 0, signature |-> 0]
Packages ==
  [type: {"internal", "cleartext"}, key: 0..MaxEncrypts, att: 0..MaxAttKeys,
   entity: Recipients \cup {<<>>}, to: Nat, signature: 0..1]

-----------------------------------------------------------------------------
(* The attachment                                                          *)

\* packet.SerializeEncryptedKey (external) refuses a key that cannot encrypt.
Encrypts(e) == EncryptionKey(e) # 0 /\ CanEncrypt(e[EncryptionKey(e)])

\* Mutant: the key is stored before it is encrypted to anyone.
MutGenerateKeyEarly(to) ==
  /\ ~made /\ attKey < MaxAttKeys
  /\ attKey' = attKey + 1
  /\ keyPackets' = IF \A e \in to : Encrypts(e) THEN attKey + 1 ELSE keyPackets
  /\ UNCHANGED <<made, setVars, payload>>

\* GenerateKey stores the key once it is encrypted to every recipient in to;
\* a failure leaves the attachment alone.  The application enters the returned
\* key in the map that it gives to NewMessagePackageSet.
GenerateKey(to) ==
  /\ ~made /\ attKey < MaxAttKeys
  /\ \A e \in to : Encrypts(e)
  /\ attKey' = attKey + 1 /\ keyPackets' = attKey + 1
  /\ UNCHANGED <<made, setVars, payload>>

\* Attachment.Encrypt, its writer closed: an error without a key.
EncryptAttachment ==
  /\ attKey # 0
  /\ payload' = attKey
  /\ UNCHANGED <<made, setVars, attKey, keyPackets>>

-----------------------------------------------------------------------------
(* The body                                                                *)

NewMessagePackageSet ==
  /\ ~made /\ made' = TRUE
  /\ UNCHANGED <<setVars, attVars>>

\* symetricallyEncrypt: the writer for a session key, with a signature to follow
\* the text if there is a signer.
SymmetricWriter(key, signed) == [key |-> key, signed |-> signed # <<>>]

\* Mutant: the packages are not told of the signature.
MutEncryptUnsigned(signed) ==
  /\ made /\ calls < MaxEncrypts
  /\ calls' = calls + 1 /\ MIMEType' = calls + 1 /\ bodyKey' = calls + 1
  /\ signed # <<>> => SignerError(signed) = ""
  /\ writers' = writers \cup {SymmetricWriter(calls + 1, signed)}
  /\ UNCHANGED <<made, Type, Addresses, Body, BodyKey, AttachmentKeys, signature,
                 bodySigned, attVars>>

\* Encrypt with a signer (<<>>: none).  The MIME type and the new body key are
\* set before the signer is looked at, the signature flag before the writer is
\* made; all of them stay if Encrypt then fails.
Encrypt(signed) ==
  /\ made /\ calls < MaxEncrypts
  /\ calls' = calls + 1
  /\ MIMEType' = calls + 1
  /\ bodyKey' = calls + 1
  /\ IF signed = <<>> \/ SignerError(signed) = ""
     THEN /\ signature' = IF signed = <<>> THEN signature ELSE 1
          /\ \/ writers' = writers \cup {SymmetricWriter(calls + 1, signed)}
             \/ UNCHANGED writers
     ELSE UNCHANGED <<signature, writers>>
  /\ UNCHANGED <<made, Type, Addresses, Body, BodyKey, AttachmentKeys, bodySigned, attVars>>

\* No random key could be had: only the MIME type is set.
EncryptNoKey ==
  /\ made /\ calls < MaxEncrypts
  /\ calls' = calls + 1
  /\ MIMEType' = calls + 1
  /\ UNCHANGED <<made, Type, Addresses, Body, BodyKey, AttachmentKeys, bodyKey, signature,
                 bodySigned, writers, attVars>>

\* signatureWriter.Close, if the writer signs: the signature over the text goes
\* in before the ciphertext ends.
Finished(w) == Body' = w.key /\ bodySigned' = w.signed

\* outgoingMessageWriter.Close: the body is stored once everything is flushed,
\* the signature included; nothing is stored if that fails.
CloseWriter(w) ==
  /\ w \in writers
  /\ writers' = writers \ {w}
  /\ \/ Finished(w)
     \/ UNCHANGED <<Body, bodySigned>>
  /\ UNCHANGED <<made, Type, Addresses, MIMEType, BodyKey, AttachmentKeys, bodyKey, signature,
                 calls, attVars>>

-----------------------------------------------------------------------------
(* The recipients.  Both operations dereference bodyKey: the application   *)
(* calls Encrypt first.                                                    *)

\* Mutant: the keys are published when the address was not known before.
MutAddCleartextKnown(a) ==
  /\ made /\ bodyKey # 0
  /\ Addresses' = [Addresses EXCEPT ![a] =
       [NoPackage EXCEPT !.type = "cleartext", !.signature = signature]]
  /\ Type' = Type \cup {"cleartext"}
  /\ IF BodyKey = 0 /\ Addresses[a] = NoPackage
     THEN BodyKey' = bodyKey /\ AttachmentKeys' = attKey
     ELSE UNCHANGED <<BodyKey, AttachmentKeys>>
  /\ UNCHANGED <<made, MIMEType, Body, bodyKey, signature, bodySigned, writers, calls, attVars>>

\* AddCleartext: the keys are put in the clear the first time.
AddCleartext(a) ==
  /\ made /\ bodyKey # 0
  /\ Addresses' = [Addresses EXCEPT ![a] =
       [NoPackage EXCEPT !.type = "cleartext", !.signature = signature]]
  /\ Type' = Type \cup {"cleartext"}
  /\ IF BodyKey = 0
     THEN BodyKey' = bodyKey /\ AttachmentKeys' = attKey
     ELSE UNCHANGED <<BodyKey, AttachmentKeys>>
  /\ UNCHANGED <<made, MIMEType, Body, bodyKey, signature, bodySigned, writers, calls, attVars>>

\* AddInternal: an entity without an encryption key is an error without effect.
AddInternal(a, e) ==
  /\ made /\ bodyKey # 0 /\ Encrypts(e)
  /\ Addresses' = [Addresses EXCEPT ![a] =
       [type |-> "internal", key |-> bodyKey, att |-> attKey, entity |-> e,
        to |-> EncryptionKey(e), signature |-> signature]]
  /\ Type' = Type \cup {"internal"}
  /\ UNCHANGED <<made, MIMEType, Body, BodyKey, AttachmentKeys, bodyKey, signature, bodySigned,
                 writers, calls, attVars>>

-----------------------------------------------------------------------------
PackageInit ==
  /\ made = FALSE
  /\ Type = {} /\ Addresses = [a \in Addrs |-> NoPackage] /\ MIMEType = 0 /\ Body = 0
  /\ BodyKey = 0 /\ AttachmentKeys = 0 /\ bodyKey = 0 /\ signature = 0
  /\ bodySigned = FALSE /\ writers = {} /\ calls = 0
  /\ attKey = 0 /\ keyPackets = 0 /\ payload = 0

\* The steps of the application; signers are the entities it may sign with.
PackageNext(signers) ==
  \/ \E to \in SUBSET Recipients : GenerateKey(to)
  \/ EncryptAttachment
  \/ NewMessagePackageSet
  \/ \E e \in signers \cup {<<>>} : Encrypt(e)
  \/ EncryptNoKey
  \/ \E w \in writers : CloseWriter(w)
  \/ \E a \in Addrs : AddCleartext(a)
  \/ \E a \in Addrs, e \in Recipients : AddInternal(a, e)

-----------------------------------------------------------------------------
(* Properties                                                              *)

\* Every variable has its type.
PackageTypeOK ==
  /\ made \in BOOLEAN
  /\ Type \subseteq {"internal", "cleartext"}
  /\ Addresses \in [Addrs -> Packages \cup {NoPackage}]
  /\ MIMEType \in 0..MaxEncrypts /\ Body \in 0..MaxEncrypts /\ BodyKey \in 0..MaxEncrypts
  /\ AttachmentKeys \in 0..MaxAttKeys
  /\ bodyKey \in 0..MaxEncrypts /\ signature \in 0..1 /\ bodySigned \in BOOLEAN
  /\ writers \subseteq [key: 1..MaxEncrypts, signed: BOOLEAN] /\ calls \in 0..MaxEncrypts
  /\ attKey \in 0..MaxAttKeys /\ keyPackets \in 0..MaxAttKeys /\ payload \in 0..MaxAttKeys

Recipient(a) == Addresses[a] # NoPackage

\* However often and in whatever order an address is added again, the set's Type
\* covers the packages in it, and the session keys leave the client in the clear
\* exactly if a cleartext recipient was added: a message to internal recipients
\* only reveals none.
TypeAndKeys ==
  /\ \A a \in Addrs : Recipient(a) => Addresses[a].type \in Type
  /\ BodyKey # 0 <=> "cleartext" \in Type

\* When Encrypt was called once, every recipient's package opens the body,
\* whether it was added before or after the body was closed, and its signature
\* flag is right.
BodyReadable ==
  (calls = 1 /\ Body # 0) =>
    /\ MIMEType = Body
    /\ \A a \in Addrs : Recipient(a) =>
         /\ IF Addresses[a].type = "internal" THEN Addresses[a].key = Body ELSE BodyKey = Body
         /\ Addresses[a].signature = 1 <=> bodySigned

\* An attachment encrypted with its newest key can be opened by the sender and
\* by every recipient; a GenerateKey that fails half way changes nothing.
AttachmentReadable ==
  (payload # 0 /\ payload = attKey) =>
    /\ keyPackets = payload
    /\ \A a \in Addrs : Recipient(a) =>
         IF Addresses[a].type = "internal" THEN Addresses[a].att = payload
         ELSE AttachmentKeys = payload

\* What may be encrypted to: a valid subkey, than which none is newer, or the
\* primary key if there is no valid subkey.
BestKey(e, n) ==
  LET valid == {m \in Subkeys(e) : e[m].flagsValid /\ e[m].encrypt /\ ~e[m].expired
                                     /\ CanEncrypt(e[m])}
  IN IF valid = {} THEN n = 1 /\ CanEncrypt(e[1])
     ELSE n \in valid /\ \A m \in valid : e[m].created <= e[n].created

\* Every key packet is encrypted to the newest key of the recipient that is
\* valid for encryption (encryptionKey's single pass over the subkeys).
EncryptedToBestKey ==
  \A a \in Addrs : Addresses[a].type = "internal"
    => BestKey(Addresses[a].entity, Addresses[a].to)
=============================================================================
