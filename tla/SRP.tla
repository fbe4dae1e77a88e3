-------------------------------- MODULE SRP ---------------------------------
(***************************************************************************)
(* The login handshake of Auth: srp.go over a modulus of Bits bits.        *)
(* expandHash is an arbitrary function: its two values in a handshake that *)
(* become numbers, the multiplier and the scrambling parameter, are chosen *)
(* freely, and the hash of a proof is what it was computed from.           *)
(***************************************************************************)
EXTENDS BigInt

CONSTANTS
  Bits,      \* l, the length of a modulus: 2048 in the code
  Moduli,    \* the moduli a server may send, of up to Bits + 1 bits
  Hashed     \* values of hashPassword, as numbers

ASSUME SRPAssumption ==
  /\ Bits \in Nat \ {0}
  /\ Moduli \subseteq 1..(2^(Bits + 1) - 1)
  /\ Hashed \subseteq 0..(2^Bits - 1)

\* Moduli are signed by Proton, and the code trusts that they are prime.
ASSUME PrimeAssumption == \A m \in Moduli : \A d \in 2..(m - 1) : m % d # 0

VARIABLE login   \* the handshake under way: info, proofs, and the server's side

loginVars == <<login>>

-----------------------------------------------------------------------------
(* Numbers                                                                 *)

Numbers == 0..(2^Bits - 1)

Generator == 2

-----------------------------------------------------------------------------
(* generateProofs                                                          *)

NoBytes == <<>>
NoLogin ==
  [pc |-> "out", typed |-> 0, registered |-> 0, wellFormed |-> FALSE, modulus |-> NoBytes,
   serverEphemeral |-> NoBytes, hash |-> 0, honest |-> FALSE, secret |-> 0,
   clientEphemeral |-> NoBytes, scrambling |-> 0, session |-> 0, answer |-> 0]

Multiplier(l) == l.hash % Atoi(l.modulus)

OutOfBounds(i, modulus) == i <= 1 \/ i >= modulus - 1

\* What srp refuses: a block, signature, base64 text or version it cannot
\* accept, a modulus of the wrong size, numbers out of bounds.
Refuses(l) ==
  LET modulus == Atoi(l.modulus)
  IN \/ ~l.wellFormed
     \/ modulus \notin 2^(Bits - 1)..(2^Bits - 1)
     \/ OutOfBounds(Multiplier(l), modulus)
     \/ OutOfBounds(Generator, modulus)
     \/ OutOfBounds(Atoi(l.serverEphemeral), modulus)

\* The shared session, from the client's secret and the typed password.
Subtracted(l) ==
  LET modulus == Atoi(l.modulus)
      d == Atoi(l.serverEphemeral)
             - ((Exp(Generator, l.typed, modulus) * Multiplier(l)) % modulus)
  IN IF d < 0 THEN d + modulus ELSE d

\* Mutant: the exponent is reduced like the numbers it is computed from.
MutExponentModN(l, clientSecret, scrambling) ==
  (scrambling * l.typed + clientSecret) % Atoi(l.modulus)

Exponent(l, clientSecret, scrambling) ==
  (scrambling * l.typed + clientSecret) % (Atoi(l.modulus) - 1)

\* srp fails, and Auth with it.
SRPFails ==
  /\ login.pc = "info" /\ Refuses(login)
  /\ login' = NoLogin

\* Secrets that are too small and a scrambling parameter of 0 are drawn again.
GenerateProofs(clientSecret, scrambling) ==
  LET modulus == Atoi(login.modulus)
  IN /\ login.pc = "info" /\ ~Refuses(login)
     /\ clientSecret < modulus - 1 /\ clientSecret > 2 * Bits
     /\ scrambling # 0
     /\ login' = [login EXCEPT
          !.pc = "proved",
          !.clientEphemeral = Itoa(Exp(Generator, clientSecret, modulus), Bits),
          !.scrambling = scrambling,
          !.session = Exp(Subtracted(login), Exponent(login, clientSecret, scrambling), modulus)]

\* The two proofs, each its own hash.
ClientProof(l, session) == <<l.clientEphemeral, l.serverEphemeral, Itoa(session, Bits)>>
ServerProof(l, session) == <<l.clientEphemeral, ClientProof(l, l.session), Itoa(session, Bits)>>

\* VerifyServerProof: the handshake is over, and with it its local state.
VerifyServerProof ==
  /\ login.pc = "answered"
  /\ login' = IF ServerProof(login, login.answer) = ServerProof(login, login.session)
              THEN [NoLogin EXCEPT !.pc = "in"] ELSE NoLogin

-----------------------------------------------------------------------------
(* The server (external)                                                   *)

\* AuthInfo: an honest server draws its ephemeral from the password's verifier;
\* another one, or a damaged answer, has any number there.
AuthInfo(modulus, hash, typed, registered, secret) ==
  LET verifier == Exp(Generator, registered, modulus)
      honest   == ((hash % modulus) * verifier + Exp(Generator, secret, modulus)) % modulus
      info     == [NoLogin EXCEPT !.pc = "info", !.modulus = Itoa(modulus, Bits + 1), !.hash = hash,
                                  !.typed = typed, !.registered = registered,
                                  !.wellFormed = TRUE, !.secret = secret]
  IN /\ login.pc = "out"
     /\ \/ login' = [info EXCEPT !.honest = TRUE, !.serverEphemeral = Itoa(honest, Bits)]
        \/ \E i \in Numbers : login' = [info EXCEPT !.serverEphemeral = Itoa(i, Bits),
                                                    !.registered = 0, !.secret = 0]
        \/ login' = [info EXCEPT !.wellFormed = FALSE, !.registered = 0, !.secret = 0]

\* The shared session as the server computes it.
ServerSession(l) ==
  LET modulus  == Atoi(l.modulus)
      verifier == Exp(Generator, l.registered, modulus)
  IN Exp(Atoi(l.clientEphemeral) * Exp(verifier, l.scrambling, modulus), l.secret, modulus)

\* An honest server answers a client proof it can confirm and refuses others;
\* another one may guess right or not.
ServerAnswers ==
  /\ login.pc = "proved"
  /\ IF login.honest
     THEN login' = IF ClientProof(login, ServerSession(login)) = ClientProof(login, login.session)
                   THEN [login EXCEPT !.pc = "answered", !.answer = ServerSession(login)]
                   ELSE NoLogin
     ELSE \E i \in {0, login.session} : login' = [login EXCEPT !.pc = "answered", !.answer = i]

-----------------------------------------------------------------------------
LoginInit == login = NoLogin

LoginNext ==
  \/ \E m \in Moduli, hash \in Numbers, typed \in Hashed, registered \in Hashed :
       \E secret \in 1..(m - 2) : AuthInfo(m, hash, typed, registered, secret)
  \/ SRPFails
  \/ \E clientSecret \in Numbers, scrambling \in Numbers : GenerateProofs(clientSecret, scrambling)
  \/ ServerAnswers
  \/ VerifyServerProof

-----------------------------------------------------------------------------
(* Properties                                                              *)

\* Every variable has its type.
LoginTypeOK ==
  /\ login.pc \in {"out", "info", "proved", "answered", "in"}
  /\ {login.session, login.answer, login.scrambling} \subseteq Numbers
  /\ login.modulus = NoBytes \/ Atoi(login.modulus) \in Moduli

\* Whatever the secrets, the hash values and the modulus, generateProofs derives
\* the session that a server with the verifier of the typed password derives from
\* the other half of the handshake: the right password is never refused by the
\* proofs.
SessionsAgree ==
  (login.pc = "proved" /\ login.honest /\ login.typed = login.registered)
    => ServerSession(login) = login.session
=============================================================================
