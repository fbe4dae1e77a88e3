----------------------------- MODULE KeySelect ------------------------------
(***************************************************************************)
(* OpenPGP entities as far as the package looks at them: which key of an   *)
(* entity encrypts, which one signs (crypto.go), and how its private keys  *)
(* are unlocked (auth.go, unlockEntity).                                   *)
(*                                                                         *)
(* An entity is the sequence of its keys, the primary key first.  A key    *)
(* has the usage flags of its binding (self-)signature, an algorithm, an   *)
(* expiry, a creation time, and a private half that is absent, in the      *)
(* clear, or locked with some secret.                                      *)
(***************************************************************************)
EXTENDS Naturals, Sequences

Secrets == {"raw", "salted", "token"}     \* what may lock a private key

KeyParts ==
  [flagsValid: BOOLEAN, encrypt: BOOLEAN, sign: BOOLEAN,
   algo: {"both", "sign", "encrypt"}, expired: BOOLEAN, created: Nat,
   priv: {"none", "clear"} \cup Secrets]

CanEncrypt(k) == k.algo # "sign"
CanSign(k)    == k.algo # "encrypt"

Subkeys(e) == 2..Len(e)

-----------------------------------------------------------------------------
(* encryptionKey                                                           *)

\* Mutant: a subkey's expiry is not looked at.
MutValidThoughExpired(k) == k.flagsValid /\ k.encrypt /\ CanEncrypt(k)

ValidForEncryption(k) == k.flagsValid /\ k.encrypt /\ CanEncrypt(k) /\ ~k.expired

\* The loop over the subkeys: the candidate after the first n keys, 0 if none.
\* The newest one wins, the first of equally new ones.
CandidateSubkey(e) ==
  LET best[n \in 1..Len(e)] ==
        IF n = 1 THEN 0
        ELSE IF ValidForEncryption(e[n])
                  /\ (best[n - 1] = 0 \/ e[n].created > e[best[n - 1]].created)
             THEN n ELSE best[n - 1]
  IN best[Len(e)]

\* A primary key without usage flags is used whatever its algorithm and age:
\* && binds tighter than ||.
PrimaryEncrypts(k) == ~k.flagsValid \/ (k.encrypt /\ CanEncrypt(k) /\ ~k.expired)

\* The index of the key to encrypt to, 0 if there is none.
EncryptionKey(e) ==
  IF CandidateSubkey(e) # 0 THEN CandidateSubkey(e)
  ELSE IF PrimaryEncrypts(e[1]) THEN 1 ELSE 0

-----------------------------------------------------------------------------
(* signingKey                                                              *)

ValidForSigning(k) == k.flagsValid /\ k.sign /\ CanSign(k) /\ ~k.expired

PrimarySigns(k) == ~k.flagsValid \/ (k.sign /\ ~k.expired)

\* The first valid signing subkey, else the primary key if it may sign.
SigningKey(e) ==
  LET valid == {n \in Subkeys(e) : ValidForSigning(e[n])}
  IN IF valid # {} THEN CHOOSE n \in valid : \A m \in valid : n <= m
     ELSE IF PrimarySigns(e[1]) THEN 1 ELSE 0

\* Encrypt's checks of the signer: "" if the signer will do.
SignerError(e) ==
  IF SigningKey(e) = 0 THEN "no valid signing keys"
  ELSE IF e[SigningKey(e)].priv = "none" THEN "no private key in signing key"
  ELSE IF e[SigningKey(e)].priv # "clear" THEN "signing key must be decrypted"
  ELSE ""

-----------------------------------------------------------------------------
(* unlockEntity                                                            *)

\* Every private key of the entity is decrypted with the same secret.
OpensEntity(e, secret) == \A n \in 1..Len(e) : e[n].priv \in {"none", "clear", secret}

\* The entity after its keys were decrypted.
Unlocked(e, secret) ==
  [n \in 1..Len(e) |-> IF e[n].priv = secret THEN [e[n] EXCEPT !.priv = "clear"] ELSE e[n]]
=============================================================================
