--------------------------- MODULE PackageProofs ----------------------------
(***************************************************************************)
(* Proofs about the packages of Outgoing, for every set of addresses, of   *)
(* recipients and of keys: type and published keys of a set, who can open  *)
(* its body and its attachment, and for which key a packet is encrypted.   *)
(*                                                                         *)
(* TypeAndKeys is inductive with the values that its variables range over. *)
(* The attachment's key cannot change once the set exists, so all packages *)
(* hold the same one.  The body's key can, by a second Encrypt; as long as *)
(* there was one call only, every key of a writer, of the body and of a    *)
(* package is that call's, and every signature flag is the set's.          *)
(*                                                                         *)
(* The pass of encryptionKey over the subkeys holds the best of those that *)
(* it has seen (BestKeyFound, by induction over the subkeys).              *)
(***************************************************************************)
EXTENDS Outgoing, NumberLemmas

\* What the fields range over.
FieldInv ==
  /\ DOMAIN Addresses = Addrs
  /\ \A a \in Addrs : Recipient(a) => Addresses[a].type \in {"internal", "cleartext"}
  /\ calls \in Nat /\ attKey \in Nat /\ \A w \in writers : w.key # 0

\* The attachment and its key.
AttachmentInv ==
  /\ keyPackets = attKey
  /\ \A a \in Addrs : Addresses[a].type = "internal" => Addresses[a].att = attKey
  /\ BodyKey # 0 => AttachmentKeys = attKey
  /\ ~made => bodyKey = 0

\* Nothing has a key before there is a body key.
EmptyInv ==
  bodyKey = 0 =>
    /\ Body = 0 /\ BodyKey = 0 /\ writers = {}
    /\ \A a \in Addrs : ~Recipient(a)

\* After the first call of Encrypt all keys are 1 and all flags the set's.
OneCallInv ==
  /\ calls = 0 => bodyKey = 0 /\ signature = 0
  /\ calls = 1 =>
       /\ MIMEType = 1
       /\ bodyKey \in {0, 1} /\ BodyKey \in {0, 1} /\ Body \in {0, 1} /\ signature \in {0, 1}
       /\ \A w \in writers : w.key = 1 /\ (w.signed <=> signature = 1)
       /\ Body # 0 => (bodySigned <=> signature = 1)
       /\ \A a \in Addrs : Recipient(a) =>
            /\ Addresses[a].signature = signature
            /\ Addresses[a].type = "internal" => Addresses[a].key = 1

PInv == FieldInv /\ TypeAndKeys /\ AttachmentInv /\ EmptyInv /\ OneCallInv

-----------------------------------------------------------------------------
\* The fields of the package that stands for none.
LEMMA NoPackageFacts == NoPackage.type = "none" /\ NoPackage.key = 0
  BY DEF NoPackage

\* The invariant holds for an empty set.
LEMMA InitInv == PackageInit => PInv
  BY NoPackageFacts DEF PackageInit, PInv, FieldInv, TypeAndKeys, AttachmentInv, EmptyInv,
    OneCallInv, Recipient

\* Unlock, the login and contact cards leave the set alone.
LEMMA UnchangedInv == PInv /\ UNCHANGED packageVars => PInv'
  BY DEF PInv, FieldInv, TypeAndKeys, AttachmentInv, EmptyInv, OneCallInv, Recipient,
    packageVars, setVars, attVars

\* Attachment.GenerateKey.
LEMMA GenerateKeyInv == ASSUME PInv, NEW to, GenerateKey(to) PROVE PInv'
  <1> USE DEF GenerateKey, setVars
  <1>1. FieldInv' /\ TypeAndKeys'
    BY DEF PInv, FieldInv, TypeAndKeys, Recipient
  <1>2. EmptyInv' /\ OneCallInv'
    BY DEF PInv, EmptyInv, OneCallInv, Recipient
  <1>3. bodyKey = 0 /\ BodyKey = 0 /\ \A a \in Addrs : Addresses[a] = NoPackage
    BY DEF PInv, AttachmentInv, EmptyInv, Recipient
  <1>4. AttachmentInv'
    BY <1>3, NoPackageFacts DEF PInv, AttachmentInv
  <1> QED BY <1>1, <1>2, <1>4 DEF PInv

\* Attachment.Encrypt and NewMessagePackageSet.
LEMMA SmallStepsInv == PInv /\ (EncryptAttachment \/ NewMessagePackageSet) => PInv'
  BY DEF EncryptAttachment, NewMessagePackageSet, setVars, attVars,
    PInv, FieldInv, TypeAndKeys, AttachmentInv, EmptyInv, OneCallInv, Recipient

\* What a call of MessagePackageSet.Encrypt may add to the open writers.
LEMMA EncryptWriters ==
  ASSUME NEW signed, Encrypt(signed)
  PROVE  /\ \/ UNCHANGED writers
            \/ /\ writers' = writers \cup {SymmetricWriter(calls + 1, signed)}
               /\ signature' = IF signed = <<>> THEN signature ELSE 1
         /\ signature' \in {signature, 1}
  <1>1. CASE signed = <<>> \/ SignerError(signed) = ""
    BY <1>1, Zenon DEF Encrypt
  <1>2. CASE ~(signed = <<>> \/ SignerError(signed) = "")
    BY <1>2, Zenon DEF Encrypt
  <1> QED BY <1>1, <1>2

\* What every path of MessagePackageSet.Encrypt sets, and what it leaves alone.
LEMMA EncryptFields ==
  ASSUME NEW signed, Encrypt(signed)
  PROVE  /\ calls' = calls + 1 /\ MIMEType' = calls + 1 /\ bodyKey' = calls + 1
         /\ UNCHANGED <<made, Type, Addresses, Body, BodyKey, AttachmentKeys, bodySigned>>
         /\ UNCHANGED <<attKey, keyPackets, payload>>
         /\ made
  BY Zenon DEF Encrypt, attVars

\* A writer for a session key, with a signature or without one.
LEMMA WriterFields ==
  ASSUME NEW k, NEW signed
  PROVE  /\ SymmetricWriter(k, signed).key = k
         /\ SymmetricWriter(k, signed).signed = (signed # <<>>)
  BY DEF SymmetricWriter

\* MessagePackageSet.Encrypt, on every path: its first call finds nothing with a
\* key, after the second nothing is claimed.
LEMMA EncryptInv ==
  ASSUME PInv, NEW signed, Encrypt(signed) PROVE PInv'
  <1>1. /\ calls' = calls + 1 /\ MIMEType' = calls + 1 /\ bodyKey' = calls + 1
        /\ UNCHANGED <<made, Type, Addresses, Body, BodyKey, AttachmentKeys, bodySigned>>
        /\ UNCHANGED <<attKey, keyPackets, payload>>
        /\ made
    BY EncryptFields
  <1>2. calls \in Nat
    BY DEF PInv, FieldInv
  <1>3. \A w \in writers' : w \in writers \/ w.key # 0
    BY <1>2, EncryptWriters, WriterFields
  <1>4. FieldInv'
    BY <1>1, <1>3 DEF PInv, FieldInv, Recipient
  <1>5. TypeAndKeys' /\ AttachmentInv'
    BY <1>1 DEF PInv, TypeAndKeys, AttachmentInv, Recipient
  <1>6. EmptyInv'
    BY <1>1, <1>2 DEF EmptyInv
  <1>7. OneCallInv'
    <2>1. CASE calls = 0
      <3>1. /\ bodyKey = 0 /\ signature = 0 /\ Body = 0 /\ BodyKey = 0 /\ writers = {}
            /\ \A a \in Addrs : ~Recipient(a)
        BY <2>1 DEF PInv, EmptyInv, OneCallInv
      <3>2. calls' = 1 /\ bodyKey' = 1 /\ MIMEType' = 1 /\ Body' = 0 /\ BodyKey' = 0
        BY <1>1, <2>1, <3>1
      <3>3. signature' \in {0, 1}
        BY <3>1, EncryptWriters
      <3>4. \A w \in writers' : w.key = 1 /\ (w.signed <=> signature' = 1)
        <4>1. CASE UNCHANGED writers
          BY <3>1, <4>1
        <4>2. CASE /\ writers' = writers \cup {SymmetricWriter(calls + 1, signed)}
                   /\ signature' = IF signed = <<>> THEN signature ELSE 1
          <5>1. calls + 1 = 1
            BY <2>1
          <5>2. \A w \in writers' : w.key = 1 /\ w.signed = (signed # <<>>)
            BY <3>1, <4>2, <5>1, WriterFields
          <5>3. signed # <<>> <=> signature' = 1
            BY <3>1, <4>2
          <5> QED BY <5>2, <5>3
        <4> QED BY <4>1, <4>2, EncryptWriters
      <3>5. \A a \in Addrs : ~Recipient(a)'
        BY <1>1, <3>1 DEF Recipient
      <3> QED BY <3>2, <3>3, <3>4, <3>5 DEF OneCallInv
    <2>2. CASE calls # 0
      BY <1>1, <1>2, <2>2 DEF OneCallInv
    <2> QED BY <2>1, <2>2
  <1> QED BY <1>4, <1>5, <1>6, <1>7 DEF PInv

\* MessagePackageSet.Encrypt without a random key.
LEMMA EncryptNoKeyInv == PInv /\ EncryptNoKey => PInv'
  <1> SUFFICES ASSUME PInv, EncryptNoKey PROVE PInv'
    OBVIOUS
  <1> USE DEF EncryptNoKey, attVars
  <1>1. FieldInv' /\ TypeAndKeys' /\ AttachmentInv' /\ EmptyInv'
    BY DEF PInv, FieldInv, TypeAndKeys, AttachmentInv, EmptyInv, Recipient
  <1>2. OneCallInv'
    <2>1. calls \in Nat /\ calls' = calls + 1 /\ MIMEType' = calls + 1
      BY DEF PInv, FieldInv
    <2>2. CASE calls = 0
      <3>1. /\ bodyKey = 0 /\ signature = 0 /\ Body = 0 /\ BodyKey = 0 /\ writers = {}
            /\ \A a \in Addrs : ~Recipient(a)
        BY <2>2 DEF PInv, EmptyInv, OneCallInv
      <3> QED BY <2>1, <2>2, <3>1 DEF OneCallInv, Recipient
    <2>3. CASE calls # 0
      BY <2>1, <2>3 DEF OneCallInv
    <2> QED BY <2>2, <2>3
  <1> QED BY <1>1, <1>2 DEF PInv

\* outgoingMessageWriter.Close, whether or not it stores the body.
LEMMA CloseWriterInv ==
  ASSUME PInv, NEW w \in writers, CloseWriter(w) PROVE PInv'
  <1> USE DEF CloseWriter, Finished, attVars
  <1>1. bodyKey # 0
    BY DEF PInv, EmptyInv
  <1>2. FieldInv' /\ TypeAndKeys' /\ AttachmentInv' /\ EmptyInv'
    BY <1>1 DEF PInv, FieldInv, TypeAndKeys, AttachmentInv, EmptyInv, Recipient
  <1>3. OneCallInv'
    BY DEF PInv, OneCallInv, Recipient
  <1> QED BY <1>2, <1>3 DEF PInv

\* The package of MessagePackageSet.AddCleartext.
LEMMA CleartextFields ==
  ASSUME NEW p, p = [NoPackage EXCEPT !.type = "cleartext", !.signature = signature]
  PROVE  p.type = "cleartext" /\ p.signature = signature /\ p # NoPackage
  BY DEF NoPackage

\* MessagePackageSet.AddCleartext.
LEMMA AddCleartextInv ==
  ASSUME PInv, NEW a \in Addrs, AddCleartext(a) PROVE PInv'
  <1> DEFINE p == [NoPackage EXCEPT !.type = "cleartext", !.signature = signature]
  <1>1. p.type = "cleartext" /\ p.signature = signature /\ p # NoPackage
    BY CleartextFields
  <1>2. /\ Addresses' = [Addresses EXCEPT ![a] = p] /\ Type' = Type \cup {"cleartext"}
        /\ made /\ bodyKey # 0
        /\ BodyKey' = (IF BodyKey = 0 THEN bodyKey ELSE BodyKey)
        /\ AttachmentKeys' = (IF BodyKey = 0 THEN attKey ELSE AttachmentKeys)
        /\ UNCHANGED <<made, MIMEType, Body, bodyKey, signature, bodySigned, writers, calls>>
        /\ UNCHANGED <<attKey, keyPackets, payload>>
    BY DEF AddCleartext, attVars
  <1> HIDE DEF p
  <1>3. /\ DOMAIN Addresses' = Addrs
        /\ \A b \in Addrs : Addresses'[b] = IF b = a THEN p ELSE Addresses[b]
    BY <1>2 DEF PInv, FieldInv
  <1>4. FieldInv'
    BY <1>1, <1>2, <1>3 DEF PInv, FieldInv, Recipient
  <1>5. TypeAndKeys'
    BY <1>1, <1>2, <1>3 DEF PInv, TypeAndKeys, Recipient
  <1>6. AttachmentInv' /\ EmptyInv'
    BY <1>1, <1>2, <1>3 DEF PInv, AttachmentInv, EmptyInv
  <1>7. OneCallInv'
    BY <1>1, <1>2, <1>3 DEF PInv, OneCallInv, Recipient
  <1> QED BY <1>4, <1>5, <1>6, <1>7 DEF PInv

\* MessagePackageSet.AddInternal.
LEMMA AddInternalInv ==
  ASSUME PInv, NEW a \in Addrs, NEW e, AddInternal(a, e) PROVE PInv'
  <1> DEFINE p == [type |-> "internal", key |-> bodyKey, att |-> attKey, entity |-> e,
                   to |-> EncryptionKey(e), signature |-> signature]
  <1>1. p.type = "internal" /\ p.signature = signature /\ p.key = bodyKey /\ p.att = attKey
    OBVIOUS
  <1>2. /\ Addresses' = [Addresses EXCEPT ![a] = p] /\ Type' = Type \cup {"internal"}
        /\ made /\ bodyKey # 0
        /\ UNCHANGED <<made, MIMEType, Body, BodyKey, AttachmentKeys, bodyKey, signature,
                       bodySigned, writers, calls>>
        /\ UNCHANGED <<attKey, keyPackets, payload>>
    BY DEF AddInternal, attVars
  <1> HIDE DEF p
  <1>3. /\ DOMAIN Addresses' = Addrs
        /\ \A b \in Addrs : Addresses'[b] = IF b = a THEN p ELSE Addresses[b]
    BY <1>2 DEF PInv, FieldInv
  <1>4. FieldInv'
    BY <1>1, <1>2, <1>3 DEF PInv, FieldInv, Recipient
  <1>5. TypeAndKeys'
    BY <1>1, <1>2, <1>3 DEF PInv, TypeAndKeys, Recipient
  <1>6. AttachmentInv' /\ EmptyInv'
    BY <1>1, <1>2, <1>3 DEF PInv, AttachmentInv, EmptyInv
  <1>7. OneCallInv'
    BY <1>1, <1>2, <1>3 DEF PInv, OneCallInv, Recipient
  <1> QED BY <1>4, <1>5, <1>6, <1>7 DEF PInv

-----------------------------------------------------------------------------
\* Every step of the application keeps the invariant.
LEMMA NextInv == PInv /\ [Next]_vars => PInv'
  <1> SUFFICES ASSUME PInv, [Next]_vars PROVE PInv'
    OBVIOUS
  <1>1. CASE UNCHANGED packageVars
    BY <1>1, UnchangedInv
  <1>2. CASE PackageNext(keyRing \cup Recipients)
    <2>1. CASE \E to \in SUBSET Recipients : GenerateKey(to)
      BY <2>1, GenerateKeyInv
    <2>2. CASE EncryptAttachment \/ NewMessagePackageSet
      BY <2>2, SmallStepsInv
    <2>3. CASE \E e \in keyRing \cup Recipients \cup {<<>>} : Encrypt(e)
      BY <2>3, EncryptInv
    <2>4. CASE EncryptNoKey
      BY <2>4, EncryptNoKeyInv
    <2>5. CASE \E w \in writers : CloseWriter(w)
      BY <2>5, CloseWriterInv
    <2>6. CASE \E a \in Addrs : AddCleartext(a)
      BY <2>6, AddCleartextInv
    <2>7. CASE \E a \in Addrs, e \in Recipients : AddInternal(a, e)
      BY <2>7, AddInternalInv
    <2> QED BY <1>2, <2>1, <2>2, <2>3, <2>4, <2>5, <2>6, <2>7 DEF PackageNext
  <1> QED BY <1>1, <1>2 DEF Next, vars

\* The inductive invariant of the packages, for every instance of Outgoing.
LEMMA PackageInvariant == Spec => []PInv
  <1>1. Init => PInv
    BY InitInv DEF Init
  <1> QED BY <1>1, NextInv, PTL DEF Spec

\* In every order of AddCleartext and AddInternal the set's Type covers its
\* packages, and the session keys are published exactly if a cleartext recipient
\* was added (messages.go).
THEOREM TypeAndKeysCorrect == Spec => []TypeAndKeys
  <1>1. PInv => TypeAndKeys
    BY DEF PInv
  <1> QED BY <1>1, PackageInvariant, PTL

\* With one call of MessagePackageSet.Encrypt every recipient's package opens the
\* body, and its signature flag is right.
THEOREM BodyReadableCorrect == Spec => []BodyReadable
  <1>1. PInv => BodyReadable
    <2> SUFFICES ASSUME PInv, calls = 1, Body # 0
                 PROVE  /\ MIMEType = Body
                        /\ \A a \in Addrs : Recipient(a) =>
                             /\ IF Addresses[a].type = "internal" THEN Addresses[a].key = Body
                                ELSE BodyKey = Body
                             /\ Addresses[a].signature = 1 <=> bodySigned
      BY DEF BodyReadable
    <2>1. Body = 1 /\ MIMEType = 1 /\ BodyKey \in {0, 1} /\ (bodySigned <=> signature = 1)
      BY DEF PInv, OneCallInv
    <2>2. ASSUME NEW a \in Addrs, Recipient(a)
          PROVE  /\ IF Addresses[a].type = "internal" THEN Addresses[a].key = Body
                    ELSE BodyKey = Body
                 /\ Addresses[a].signature = 1 <=> bodySigned
      <3>1. Addresses[a].type = "internal" => Addresses[a].key = 1
        BY <2>2 DEF PInv, OneCallInv
      <3>2. Addresses[a].type # "internal" => BodyKey # 0
        BY <2>2 DEF PInv, FieldInv, TypeAndKeys
      <3>3. Addresses[a].signature = signature
        BY <2>2 DEF PInv, OneCallInv
      <3> QED BY <2>1, <3>1, <3>2, <3>3
    <2> QED BY <2>1, <2>2
  <1> QED BY <1>1, PackageInvariant, PTL

\* An attachment encrypted with the key that Attachment.GenerateKey made last can
\* be opened by the sender and by every recipient.
THEOREM AttachmentReadableCorrect == Spec => []AttachmentReadable
  <1>1. PInv => AttachmentReadable
    BY DEF PInv, FieldInv, TypeAndKeys, AttachmentInv, AttachmentReadable
  <1> QED BY <1>1, PackageInvariant, PTL

-----------------------------------------------------------------------------
(* The key that a package is encrypted to                                  *)

\* One pass of encryptionKey's loop, given the candidates f of the ones before.
BestStep(e, f, n) ==
  IF n = 1 THEN 0
  ELSE IF ValidForEncryption(e[n]) /\ (f[n - 1] = 0 \/ e[n].created > e[f[n - 1]].created)
       THEN n ELSE f[n - 1]

\* f has the candidate after each of the first k keys.
IsLoop(e, k, f) == f = [n \in 1..k |-> BestStep(e, f, n)]

\* The loop defines a candidate for every prefix of the keys: by induction on
\* the number of keys that were looked at.
LEMMA LoopExists ==
  ASSUME NEW e, Len(e) \in Nat, Len(e) > 0
  PROVE  \E f : IsLoop(e, Len(e), f)
  <1> DEFINE S == {k \in 1..Len(e) : \E f : IsLoop(e, k, f)}
  <1>1. 1 \in S
    <2> DEFINE f == [n \in 1..1 |-> 0]
    <2>1. \A n \in 1..1 : BestStep(e, f, n) = 0
      BY DEF BestStep
    <2> HIDE DEF f
    <2>2. f = [n \in 1..1 |-> BestStep(e, f, n)]
      BY <2>1 DEF f
    <2>3. IsLoop(e, 1, f)
      BY <2>2 DEF IsLoop
    <2> QED BY <2>3
  <1>2. ASSUME NEW k \in 1..Len(e), k \in S, k < Len(e) PROVE k + 1 \in S
    <2>1. PICK f : IsLoop(e, k, f)
      BY <1>2
    <2> DEFINE g == [n \in 1..(k + 1) |-> IF n \in 1..k THEN f[n] ELSE BestStep(e, f, n)]
    <2>2. \A n \in 1..(k + 1) : BestStep(e, g, n) = BestStep(e, f, n)
      <3>1. \A n \in 1..(k + 1) : n # 1 => n - 1 \in 1..k
        BY <1>2
      <3>2. \A n \in 1..k : g[n] = f[n]
        BY <1>2
      <3> QED BY <3>1, <3>2 DEF BestStep
    <2>3. \A n \in 1..k : f[n] = BestStep(e, f, n)
      BY <2>1 DEF IsLoop
    <2>4. \A n \in 1..(k + 1) : g[n] = BestStep(e, g, n)
      BY <2>2, <2>3
    <2>5. g = [n \in 1..(k + 1) |-> g[n]]
      OBVIOUS
    <2> HIDE DEF g
    <2>6. IsLoop(e, k + 1, g)
      BY <2>4, <2>5 DEF IsLoop
    <2>7. k + 1 \in 1..Len(e)
      BY <1>2
    <2> QED BY <2>6, <2>7
  <1> HIDE DEF S
  <1>3. \A k \in 1..Len(e) : k \in S
    BY <1>1, <1>2, UpTo
  <1> QED BY <1>3 DEF S

\* So the definition of CandidateSubkey is the value of that function.
LEMMA CandidateIsLast ==
  ASSUME NEW e, Len(e) \in Nat, Len(e) > 0
  PROVE  \E f : IsLoop(e, Len(e), f) /\ CandidateSubkey(e) = f[Len(e)]
  <1>1. IsLoop(e, Len(e), CHOOSE f : IsLoop(e, Len(e), f))
    BY LoopExists, Zenon
  <1>2. CandidateSubkey(e) = (CHOOSE f : IsLoop(e, Len(e), f))[Len(e)]
    BY Zenon DEF CandidateSubkey, IsLoop, BestStep
  <1> QED BY <1>1, <1>2

\* Candidate c is right for the first n keys.
RightFor(e, n, c) ==
  IF c = 0 THEN \A m \in 2..n : ~ValidForEncryption(e[m])
  ELSE /\ c \in 2..n /\ ValidForEncryption(e[c])
       /\ \A m \in 2..n : ValidForEncryption(e[m]) => e[m].created <= e[c].created

\* The candidate is a valid subkey than which none is newer, or there is none.
LEMMA CandidateRight ==
  ASSUME NEW e \in Seq(KeyParts) \ {<<>>}
  PROVE  RightFor(e, Len(e), CandidateSubkey(e))
  <1>0. Len(e) \in Nat /\ Len(e) > 0 /\ \A n \in 1..Len(e) : e[n] \in KeyParts
    OBVIOUS
  <1>1. PICK f : IsLoop(e, Len(e), f) /\ CandidateSubkey(e) = f[Len(e)]
    BY <1>0, CandidateIsLast
  <1>2. \A n \in 1..Len(e) : f[n] = BestStep(e, f, n)
    BY <1>1 DEF IsLoop
  <1>3. \A n \in 1..Len(e) : e[n].created \in Nat
    BY <1>0 DEF KeyParts
  <1> DEFINE S == {n \in 1..Len(e) : RightFor(e, n, f[n])}
  <1>4. 1 \in S
    BY <1>0, <1>2 DEF BestStep, RightFor
  <1>5. ASSUME NEW n \in 1..Len(e), n \in S, n < Len(e) PROVE n + 1 \in S
    <2>1. n + 1 \in 1..Len(e) /\ n + 1 # 1 /\ (n + 1) - 1 = n /\ n + 1 # 0
      BY <1>0, <1>5
    <2>2. RightFor(e, n, f[n])
      BY <1>5
    <2>3. f[n + 1] = IF ValidForEncryption(e[n + 1])
                          /\ (f[n] = 0 \/ e[n + 1].created > e[f[n]].created)
                     THEN n + 1 ELSE f[n]
      BY <1>2, <2>1 DEF BestStep
    <2>4. \A m \in 2..(n + 1) : m = n + 1 \/ m \in 2..n
      OBVIOUS
    <2>5. \A m \in 2..n : m \in 2..(n + 1) /\ m \in 1..Len(e)
      BY <1>0, <1>5
    <2>6. n + 1 \in 2..(n + 1)
      OBVIOUS
    <2>7. CASE f[n] = 0
      BY <2>1, <2>2, <2>3, <2>4, <2>6, <2>7, <1>3 DEF RightFor
    <2>8. CASE f[n] # 0
      <3>1. f[n] \in 2..n /\ ValidForEncryption(e[f[n]])
        BY <2>2, <2>8 DEF RightFor
      <3>2. \A m \in 2..n : ValidForEncryption(e[m]) => e[m].created <= e[f[n]].created
        BY <2>2, <2>8 DEF RightFor
      <3>3. e[f[n]].created \in Nat /\ e[n + 1].created \in Nat
              /\ \A m \in 2..n : e[m].created \in Nat
        BY <1>3, <2>1, <2>5, <3>1
      <3>4. RightFor(e, n + 1, f[n + 1])
        <4>1. CASE ValidForEncryption(e[n + 1]) /\ e[n + 1].created > e[f[n]].created
          <5>1. f[n + 1] = n + 1
            BY <2>3, <4>1
          <5>2. \A m \in 2..n : ValidForEncryption(e[m]) => e[m].created <= e[n + 1].created
            BY <3>2, <3>3, <4>1
          <5> QED BY <2>1, <2>4, <2>6, <3>3, <4>1, <5>1, <5>2 DEF RightFor
        <4>2. CASE ~(ValidForEncryption(e[n + 1]) /\ e[n + 1].created > e[f[n]].created)
          <5>1. f[n + 1] = f[n]
            BY <2>3, <2>8, <4>2
          <5>2. ValidForEncryption(e[n + 1]) => e[n + 1].created <= e[f[n]].created
            BY <3>3, <4>2
          <5>3. f[n] \in 2..(n + 1)
            BY <2>5, <3>1
          <5> QED BY <2>4, <2>8, <3>1, <3>2, <5>1, <5>2, <5>3 DEF RightFor
        <4> QED BY <4>1, <4>2
      <3> QED BY <2>1, <3>4
    <2> QED BY <2>7, <2>8
  <1> HIDE DEF S
  <1>6. \A n \in 1..Len(e) : n \in S
    BY <1>0, <1>4, <1>5, UpTo
  <1>7. Len(e) \in 1..Len(e)
    BY <1>0
  <1> QED BY <1>1, <1>6, <1>7 DEF S

\* encryptionKey finds the best key of every entity that can be encrypted to.
THEOREM BestKeyFound ==
  ASSUME NEW e \in Seq(KeyParts) \ {<<>>}, Encrypts(e)
  PROVE  BestKey(e, EncryptionKey(e))
  <1>1. RightFor(e, Len(e), CandidateSubkey(e))
    BY CandidateRight
  <1>2. \A m \in Subkeys(e) :
          (e[m].flagsValid /\ e[m].encrypt /\ ~e[m].expired /\ CanEncrypt(e[m]))
            <=> ValidForEncryption(e[m])
    BY DEF ValidForEncryption
  <1>3. CASE CandidateSubkey(e) = 0
    BY <1>1, <1>2, <1>3 DEF RightFor, BestKey, Subkeys, EncryptionKey, Encrypts
  <1>4. CASE CandidateSubkey(e) # 0
    BY <1>1, <1>2, <1>4 DEF RightFor, BestKey, Subkeys, EncryptionKey
  <1> QED BY <1>3, <1>4

\* Only AddInternal makes an internal package, and only of a recipient that it
\* can encrypt to.
LEMMA NextBestKey == PInv /\ EncryptedToBestKey /\ [Next]_vars => EncryptedToBestKey'
  <1> SUFFICES ASSUME PInv, EncryptedToBestKey, [Next]_vars PROVE EncryptedToBestKey'
    OBVIOUS
  <1>1. CASE UNCHANGED Addresses
    BY <1>1 DEF EncryptedToBestKey
  <1>2. ASSUME NEW a \in Addrs, NEW p, Addresses' = [Addresses EXCEPT ![a] = p],
               p.type = "internal" => BestKey(p.entity, p.to)
        PROVE  EncryptedToBestKey'
    <2>1. \A b \in Addrs : Addresses'[b] = IF b = a THEN p ELSE Addresses[b]
      BY <1>2 DEF PInv, FieldInv
    <2> QED BY <1>2, <2>1 DEF EncryptedToBestKey
  <1>3. ASSUME NEW a \in Addrs, AddCleartext(a) PROVE EncryptedToBestKey'
    <2> DEFINE p == [NoPackage EXCEPT !.type = "cleartext", !.signature = signature]
    <2>1. p.type # "internal"
      BY CleartextFields
    <2>2. Addresses' = [Addresses EXCEPT ![a] = p]
      BY <1>3 DEF AddCleartext
    <2> HIDE DEF p
    <2> QED BY <1>2, <2>1, <2>2
  <1>4. ASSUME NEW a \in Addrs, NEW e \in Recipients, AddInternal(a, e) PROVE EncryptedToBestKey'
    <2> DEFINE p == [type |-> "internal", key |-> bodyKey, att |-> attKey, entity |-> e,
                     to |-> EncryptionKey(e), signature |-> signature]
    <2>1. p.entity = e /\ p.to = EncryptionKey(e)
      OBVIOUS
    <2>2. Addresses' = [Addresses EXCEPT ![a] = p] /\ Encrypts(e)
      BY <1>4 DEF AddInternal
    <2>3. BestKey(e, EncryptionKey(e))
      BY <2>2, RecipientsAssumption, BestKeyFound
    <2> HIDE DEF p
    <2> QED BY <1>2, <2>1, <2>2, <2>3
  <1>5. ASSUME NEW signed, Encrypt(signed) PROVE UNCHANGED Addresses
    BY <1>5, EncryptFields
  <1>6. CASE PackageNext(keyRing \cup Recipients)
    BY <1>1, <1>3, <1>4, <1>5, <1>6
    DEF PackageNext, GenerateKey, EncryptAttachment, NewMessagePackageSet, EncryptNoKey,
      CloseWriter, setVars
  <1> QED BY <1>1, <1>6 DEF Next, vars, packageVars, setVars

\* Every key packet of a set is encrypted to the newest key of the recipient that
\* is valid for encryption, whatever keys the recipient has and in what order.
THEOREM EncryptedToBestKeyCorrect == Spec => []EncryptedToBestKey
  <1>1. Init => EncryptedToBestKey
    BY NoPackageFacts DEF Init, PackageInit, EncryptedToBestKey
  <1> QED BY <1>1, NextBestKey, PackageInvariant, PTL DEF Spec

-----------------------------------------------------------------------------
(* Types                                                                   *)

\* A package replaces the one that an address had.
LEMMA AddressesTyped ==
  ASSUME PackageTypeOK, NEW a \in Addrs, NEW p \in Packages,
         Addresses' = [Addresses EXCEPT ![a] = p]
  PROVE  Addresses' \in [Addrs -> Packages \cup {NoPackage}]
  <1>1. Addresses \in [Addrs -> Packages \cup {NoPackage}]
    BY DEF PackageTypeOK
  <1>2. p \in Packages \cup {NoPackage}
    OBVIOUS
  <1> HIDE DEF Packages
  <1> QED BY <1>1, <1>2, Zenon

\* MessagePackageSet.Encrypt.
LEMMA EncryptTypes ==
  ASSUME PackageTypeOK, NEW signed, Encrypt(signed)
  PROVE  PackageTypeOK'
  <1>1. calls \in 0..MaxEncrypts /\ calls < MaxEncrypts /\ MaxEncrypts \in Nat
    BY PackageBounds, Zenon DEF PackageTypeOK, Encrypt
  <1>2. calls + 1 \in 1..MaxEncrypts /\ calls + 1 \in 0..MaxEncrypts
    BY <1>1
  <1>3. SymmetricWriter(calls + 1, signed) \in [key: 1..MaxEncrypts, signed: BOOLEAN]
    BY <1>2 DEF SymmetricWriter
  <1>4. writers \subseteq [key: 1..MaxEncrypts, signed: BOOLEAN] /\ signature \in 0..1
    BY DEF PackageTypeOK
  <1>5. writers' \subseteq [key: 1..MaxEncrypts, signed: BOOLEAN]
    BY <1>3, <1>4, EncryptWriters, Zenon
  <1>6. signature' \in 0..1
    BY <1>4, EncryptWriters
  <1> QED BY <1>2, <1>5, <1>6, EncryptFields DEF PackageTypeOK

\* outgoingMessageWriter.Close.
LEMMA CloseWriterTypes ==
  ASSUME PackageTypeOK, NEW w \in writers, CloseWriter(w)
  PROVE  PackageTypeOK'
  <1>1. w \in [key: 1..MaxEncrypts, signed: BOOLEAN]
    BY DEF PackageTypeOK
  <1>2. w.key \in 0..MaxEncrypts /\ w.signed \in BOOLEAN
    BY <1>1, PackageBounds
  <1>3. Body' \in 0..MaxEncrypts /\ bodySigned' \in BOOLEAN
    BY <1>2 DEF CloseWriter, Finished, PackageTypeOK
  <1>4. writers' \subseteq [key: 1..MaxEncrypts, signed: BOOLEAN]
    BY DEF CloseWriter, PackageTypeOK
  <1> QED BY <1>3, <1>4 DEF CloseWriter, PackageTypeOK, attVars

\* The package that AddCleartext makes.
LEMMA CleartextPackage ==
  ASSUME NEW s \in 0..1,
         NEW p, p = [NoPackage EXCEPT !.type = "cleartext", !.signature = s]
  PROVE  p \in Packages
  <1>1. 0 \in 0..MaxEncrypts /\ 0 \in 0..MaxAttKeys /\ 0 \in Nat
    BY PackageBounds
  <1>2. p = [type |-> "cleartext", key |-> 0, att |-> 0, entity |-> <<>>, to |-> 0,
             signature |-> s]
    BY DEF NoPackage
  <1> QED BY <1>1, <1>2 DEF Packages

\* AddCleartext.
LEMMA AddCleartextTypes ==
  ASSUME PackageTypeOK, NEW a \in Addrs, AddCleartext(a)
  PROVE  PackageTypeOK'
  <1> DEFINE p == [NoPackage EXCEPT !.type = "cleartext", !.signature = signature]
  <1>1. p \in Packages
    BY CleartextPackage DEF PackageTypeOK
  <1>2. Addresses' = [Addresses EXCEPT ![a] = p]
    BY DEF AddCleartext
  <1> HIDE DEF p
  <1>3. Addresses' \in [Addrs -> Packages \cup {NoPackage}]
    BY <1>1, <1>2, AddressesTyped
  <1>4. BodyKey' \in 0..MaxEncrypts /\ AttachmentKeys' \in 0..MaxAttKeys
    BY DEF AddCleartext, PackageTypeOK
  <1>5. Type' \subseteq {"internal", "cleartext"}
    BY DEF AddCleartext, PackageTypeOK
  <1> QED BY <1>3, <1>4, <1>5 DEF AddCleartext, PackageTypeOK, attVars

\* AddInternal: a key packet is encrypted to a key of the recipient.
LEMMA AddInternalTypes ==
  ASSUME PackageTypeOK, NEW a \in Addrs, NEW e \in Recipients, AddInternal(a, e)
  PROVE  PackageTypeOK'
  <1> DEFINE p == [type |-> "internal", key |-> bodyKey, att |-> attKey, entity |-> e,
                   to |-> EncryptionKey(e), signature |-> signature]
  <1>1. EncryptionKey(e) \in Nat
    <2>1. e \in Seq(KeyParts) \ {<<>>} /\ Encrypts(e)
      BY RecipientsAssumption DEF AddInternal
    <2>2. BestKey(e, EncryptionKey(e))
      BY <2>1, BestKeyFound
    <2> QED BY <2>1, <2>2 DEF BestKey, Subkeys
  <1>2. p \in Packages
    BY <1>1 DEF Packages, PackageTypeOK
  <1>3. Addresses' = [Addresses EXCEPT ![a] = p]
    BY DEF AddInternal
  <1> HIDE DEF p
  <1>4. Addresses' \in [Addrs -> Packages \cup {NoPackage}]
    BY <1>2, <1>3, AddressesTyped
  <1>5. Type' \subseteq {"internal", "cleartext"}
    BY DEF AddInternal, PackageTypeOK
  <1> QED BY <1>4, <1>5 DEF AddInternal, PackageTypeOK, attVars

\* Every step keeps the types of the packages.
LEMMA NextPackageTypes == PackageTypeOK /\ [Next]_vars => PackageTypeOK'
  <1> SUFFICES ASSUME PackageTypeOK, [Next]_vars PROVE PackageTypeOK'
    OBVIOUS
  <1>1. CASE UNCHANGED packageVars
    BY <1>1 DEF PackageTypeOK, packageVars, setVars, attVars
  <1>2. CASE PackageNext(keyRing \cup Recipients)
    <2>1. CASE \E to \in SUBSET Recipients : GenerateKey(to)
      <3>1. /\ attKey \in 0..MaxAttKeys /\ attKey < MaxAttKeys
            /\ attKey' = attKey + 1 /\ keyPackets' = attKey + 1
            /\ UNCHANGED <<made, setVars, payload>>
        BY <2>1 DEF GenerateKey, PackageTypeOK
      <3>2. attKey + 1 \in 0..MaxAttKeys
        BY <3>1, PackageBounds
      <3> QED BY <3>1, <3>2 DEF PackageTypeOK, setVars
    <2>2. CASE EncryptAttachment \/ NewMessagePackageSet
      BY <2>2 DEF EncryptAttachment, NewMessagePackageSet, PackageTypeOK, setVars, attVars
    <2>3. CASE \E e \in keyRing \cup Recipients \cup {<<>>} : Encrypt(e)
      BY <2>3, EncryptTypes
    <2>4. CASE EncryptNoKey
      <3>1. calls + 1 \in 0..MaxEncrypts
        BY <2>4, PackageBounds DEF EncryptNoKey, PackageTypeOK
      <3> QED BY <2>4, <3>1 DEF EncryptNoKey, PackageTypeOK, attVars
    <2>5. CASE \E w \in writers : CloseWriter(w)
      BY <2>5, CloseWriterTypes
    <2>6. CASE \E a \in Addrs : AddCleartext(a)
      BY <2>6, AddCleartextTypes
    <2>7. CASE \E a \in Addrs, e \in Recipients : AddInternal(a, e)
      BY <2>7, AddInternalTypes
    <2> QED BY <1>2, <2>1, <2>2, <2>3, <2>4, <2>5, <2>6, <2>7 DEF PackageNext
  <1> QED BY <1>1, <1>2 DEF Next, vars

\* PackageTypeOK for every set of recipients and every number of calls: in
\* particular, a key packet always names a key of the recipient.
THEOREM PackageTypesCorrect == Spec => []PackageTypeOK
  <1>1. Init => PackageTypeOK
    <2> SUFFICES ASSUME PackageInit PROVE PackageTypeOK
      BY DEF Init
    <2>1. Addresses \in [Addrs -> Packages \cup {NoPackage}]
      BY DEF PackageInit
    <2>2. 0 \in 0..MaxEncrypts /\ 0 \in 0..MaxAttKeys /\ 0 \in 0..1 /\ FALSE \in BOOLEAN
      BY PackageBounds
    <2>3. {} \subseteq {"internal", "cleartext"}
          /\ {} \subseteq [key: 1..MaxEncrypts, signed: BOOLEAN]
      OBVIOUS
    <2> QED BY <2>1, <2>2, <2>3, Zenon DEF PackageInit, PackageTypeOK
  <1> QED BY <1>1, NextPackageTypes, PTL DEF Spec
=============================================================================
