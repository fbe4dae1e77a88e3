----------------------------- MODULE MCOutgoing -----------------------------
(* Instances of Outgoing for TLC.                                          *)
EXTENDS Outgoing, TLC

Primary(lock, n) ==
  [flagsValid |-> TRUE, encrypt |-> FALSE, sign |-> TRUE, algo |-> "both",
   expired |-> FALSE, created |-> n, priv |-> lock]
Sub(lock, n, old) ==
  [flagsValid |-> TRUE, encrypt |-> TRUE, sign |-> FALSE, algo |-> "encrypt",
   expired |-> old, created |-> n, priv |-> lock]
SignSub(lock, n) ==
  [flagsValid |-> TRUE, encrypt |-> FALSE, sign |-> TRUE, algo |-> "sign",
   expired |-> FALSE, created |-> n, priv |-> lock]

PrivKey(act, e, tok, s) == [active |-> act, entity |-> e, token |-> tok, salt |-> s]
Tok(t, b) == [to |-> t, by |-> b]

\* User keys: opened with the passphrase, with the salted one, with neither (the
\* salt is missing), inactive, and one with a token.
UserKinds ==
  {PrivKey(1, <<Primary("raw", 1)>>, NoToken, "nil"),
   PrivKey(1, <<Primary("salted", 2)>>, NoToken, "good"),
   PrivKey(1, <<Primary("salted", 3)>>, NoToken, "nil"),
   PrivKey(0, <<Primary("raw", 4)>>, NoToken, "nil"),
   PrivKey(1, <<Primary("token", 5)>>, Tok(1, 1), "nil")}

\* Address keys: passphrase, tokens of the user keys (one signed by another key
\* than it is encrypted to, one signed by a stranger), two secrets in one
\* entity, no entity, a salt bcrypt refuses.
AddressKinds ==
  {PrivKey(1, <<Primary("raw", 1), Sub("raw", 1, FALSE)>>, NoToken, "nil"),
   PrivKey(1, <<Primary("token", 2), Sub("token", 2, FALSE)>>, Tok(1, 1), "good"),
   PrivKey(1, <<Primary("token", 3), Sub("token", 3, FALSE)>>, Tok(2, 1), "nil"),
   PrivKey(1, <<Primary("token", 4), Sub("token", 4, FALSE)>>, Tok(1, 0), "nil"),
   PrivKey(1, <<Primary("raw", 5), SignSub("salted", 5)>>, NoToken, "nil"),
   PrivKey(1, <<>>, NoToken, "nil"),
   PrivKey(1, <<Primary("salted", 6)>>, NoToken, "bad")}

UpTo2(S) == {<<>>} \cup {<<x>> : x \in S} \cup {<<x, y>> : x, y \in S}

SomeKeyLists     == UpTo2(UserKinds)
SomeAddressLists == UpTo2({<<x>> : x \in AddressKinds}) \cup {<<l>> : l \in UpTo2(AddressKinds)}

\* Recipients: two valid subkeys, the newer one first; the newest subkey expired;
\* signing only; a primary key without usage flags.
SomeRecipients ==
  {<<Primary("none", 1), Sub("none", 3, FALSE), Sub("none", 2, FALSE)>>,
   <<Primary("none", 2), Sub("none", 1, FALSE), Sub("none", 2, TRUE)>>,
   <<Primary("none", 3), SignSub("none", 1)>>,
   <<[Primary("none", 4) EXCEPT !.flagsValid = FALSE]>>}

SomeTexts     == {<<>>, <<1>>, <<1, 2>>}
SomeStrangers == {<<Primary("none", 9)>>}

AddressSymmetry == Permutations(Addrs)
=============================================================================
