----------------------------- MODULE KeyUnlock ------------------------------
(***************************************************************************)
(* How Unlock (auth.go) turns the keys of the account into the Client's    *)
(* key ring: unlockKeyRing over the user's keys, then over the keys of     *)
(* each address, whose passphrase may be a token encrypted to and signed   *)
(* by user keys that were unlocked before.  Keys that cannot be unlocked   *)
(* are skipped.  The requests of Unlock are Session's; here their answers  *)
(* are the inputs.                                                         *)
(***************************************************************************)
EXTENDS KeySelect

CONSTANTS
  KeyLists,       \* the lists of user keys GetCurrentUser may return
  AddressLists,   \* the lists of addresses, each a list of keys
  MaxUnlocks      \* bound: calls of Unlock

\* A private key of the API: its Active flag, its armored entity (<<>> if it
\* does not parse), its token (to, by: the user keys it is encrypted to and
\* signed with, 0 if by none of them) and its salt, as ListKeySalts returned it.
NoToken == [to |-> 0, by |-> 0]
Tokens  == [to: Nat \ {0}, by: Nat]
PrivateKeys ==
  [active: 0..2, entity: Seq(KeyParts), token: Tokens \cup {NoToken},
   salt: {"nil", "good", "bad"}]

ASSUME ListsAssumption ==
  KeyLists \subseteq Seq(PrivateKeys) /\ AddressLists \subseteq Seq(Seq(PrivateKeys))
ASSUME UnlocksAssumption == MaxUnlocks \in Nat

VARIABLES
  keyRing,           \* Client.keyRing: the unlocked entities
  upc,               \* "idle", in the user's keys, or in those of the addresses
  users, addrs,      \* the answers of GetCurrentUser and ListAddresses
  addr, key,         \* the loops' positions
  userKeyRing,       \* positions of the user keys unlocked so far
  addrKeyRing, ring, \* entities: of this address, of the addresses before
  unlockErr, unlocks \* how the latest call ended; number of calls

loopVars   == <<users, addrs, addr, key, userKeyRing, addrKeyRing, ring>>
unlockVars == <<keyRing, upc, loopVars, unlockErr, unlocks>>

-----------------------------------------------------------------------------
(* unlockPrivateKey                                                        *)

\* Mutant: a token's signature is not checked.
MutPassphraseUnsigned(k, userRing) ==
  IF k.token # NoToken
  THEN IF k.token.to \in userRing THEN "token" ELSE "fail"
  ELSE IF k.salt = "nil" THEN "raw"
  ELSE IF k.salt = "good" THEN "salted" ELSE "fail"

\* The secret that key k is opened with, given the unlocked user keys: from
\* its token if it has one, else bcrypt of the passphrase with its salt, else
\* the passphrase; "fail" if that cannot be computed.
Passphrase(k, userRing) ==
  IF k.token # NoToken
  THEN IF k.token.to \in userRing /\ k.token.by \in userRing THEN "token" ELSE "fail"
  ELSE IF k.salt = "nil" THEN "raw"
  ELSE IF k.salt = "good" THEN "salted" ELSE "fail"

Unlocks(k, userRing) ==
  /\ k.active = 1
  /\ k.entity # <<>>
  /\ Passphrase(k, userRing) # "fail"
  /\ OpensEntity(k.entity, Passphrase(k, userRing))

Entity(k, userRing) == Unlocked(k.entity, Passphrase(k, userRing))

-----------------------------------------------------------------------------
(* Unlock                                                                  *)

\* Unlock has got the user; nothing is unlocked yet.
StartUnlock(u) ==
  /\ upc = "idle" /\ unlocks < MaxUnlocks
  /\ unlocks' = unlocks + 1
  /\ upc' = "user" /\ users' = u /\ key' = 1 /\ userKeyRing' = {}
  /\ UNCHANGED <<keyRing, addrs, addr, addrKeyRing, ring, unlockErr>>

\* One iteration of unlockKeyRing over the user's keys: no user key can be
\* unlocked with a token, since there is no user ring yet.
UserKey ==
  /\ upc = "user" /\ key <= Len(users)
  /\ key' = key + 1
  /\ userKeyRing' = IF Unlocks(users[key], {}) THEN userKeyRing \cup {key} ELSE userKeyRing
  /\ UNCHANGED <<keyRing, upc, users, addrs, addr, addrKeyRing, ring, unlockErr, unlocks>>

\* Mutant: the user ring outlives the call.
MutReturnsKeepsRing(err) ==
  /\ upc' = "idle" /\ unlockErr' = err
  /\ users' = <<>> /\ addrs' = <<>> /\ addr' = 1 /\ key' = 1
  /\ addrKeyRing' = {} /\ ring' = {}
  /\ UNCHANGED <<unlocks, userKeyRing>>

\* The local variables of Unlock are gone when it returns.
Returns(err) ==
  /\ upc' = "idle" /\ unlockErr' = err
  /\ users' = <<>> /\ addrs' = <<>> /\ addr' = 1 /\ key' = 1
  /\ userKeyRing' = {} /\ addrKeyRing' = {} /\ ring' = {}
  /\ UNCHANGED unlocks

\* No user key was unlocked: Unlock gives up.  Or ListAddresses failed.
UserKeysFail ==
  /\ upc = "user" /\ key > Len(users)
  /\ \/ userKeyRing = {} /\ Returns("ErrNoUnlockableKeys")
     \/ userKeyRing # {} /\ Returns("request")
  /\ UNCHANGED keyRing

\* ListAddresses has answered.
StartAddresses(as) ==
  /\ upc = "user" /\ key > Len(users) /\ userKeyRing # {}
  /\ upc' = "addr" /\ addrs' = as /\ addr' = 1 /\ key' = 1
  /\ addrKeyRing' = {} /\ ring' = {}
  /\ UNCHANGED <<keyRing, users, userKeyRing, unlockErr, unlocks>>

\* One iteration of unlockKeyRing over the keys of an address.
AddressKey ==
  /\ upc = "addr" /\ addr <= Len(addrs) /\ key <= Len(addrs[addr])
  /\ key' = key + 1
  /\ LET k == addrs[addr][key]
     IN addrKeyRing' = IF Unlocks(k, userKeyRing)
                       THEN addrKeyRing \cup {Entity(k, userKeyRing)} ELSE addrKeyRing
  /\ UNCHANGED <<keyRing, upc, users, addrs, addr, userKeyRing, ring, unlockErr, unlocks>>

\* The address is done; without any key it is skipped.
AddressDone ==
  /\ upc = "addr" /\ addr <= Len(addrs) /\ key > Len(addrs[addr])
  /\ ring' = ring \cup addrKeyRing /\ addrKeyRing' = {}
  /\ addr' = addr + 1 /\ key' = 1
  /\ UNCHANGED <<keyRing, upc, users, addrs, userKeyRing, unlockErr, unlocks>>

\* The ring is stored only now, and only if it is not empty.
UnlockDone ==
  /\ upc = "addr" /\ addr > Len(addrs)
  /\ \/ ring = {} /\ Returns("ErrNoUnlockableKeys") /\ UNCHANGED keyRing
     \/ ring # {} /\ Returns("") /\ keyRing' = ring

UnlockInit ==
  /\ keyRing = {} /\ upc = "idle" /\ unlockErr = "" /\ unlocks = 0
  /\ users = <<>> /\ addrs = <<>> /\ addr = 1 /\ key = 1
  /\ userKeyRing = {} /\ addrKeyRing = {} /\ ring = {}

UnlockStep ==
  \/ UserKey \/ UserKeysFail \/ AddressKey \/ AddressDone \/ UnlockDone
  \/ \E as \in AddressLists : StartAddresses(as)

UnlockNext == (\E u \in KeyLists : StartUnlock(u)) \/ UnlockStep

UnlockSpec == UnlockInit /\ [][UnlockNext]_unlockVars

-----------------------------------------------------------------------------
(* Properties                                                              *)

\* What the account's keys determine: an active key is opened if one secret
\* opens all of it and that secret can be had, a token's only through user keys
\* that are open themselves.
Obtainable(s, k, trusted) ==
  \/ s = "token"  /\ k.token # NoToken /\ {k.token.to, k.token.by} \subseteq trusted
  \/ s = "salted" /\ k.token = NoToken /\ k.salt = "good"
  \/ s = "raw"    /\ k.token = NoToken /\ k.salt = "nil"
Openable(k, trusted) ==
  /\ k.active = 1 /\ k.entity # <<>>
  /\ \E s \in Secrets : /\ Obtainable(s, k, trusted)
                        /\ \A n \in 1..Len(k.entity) : k.entity[n].priv \in {"none", "clear", s}
Opened(e) ==
  [n \in 1..Len(e) |-> [e[n] EXCEPT !.priv = IF @ = "none" THEN "none" ELSE "clear"]]
OpenUserKeys(u) == {i \in 1..Len(u) : Openable(u[i], {})}
RingOf(u, as) ==
  {Opened(k.entity) : k \in {x \in UNION {{as[a][i] : i \in 1..Len(as[a])} : a \in 1..Len(as)} :
                               Openable(x, OpenUserKeys(u))}}

\* Every variable has its type.
UnlockTypeOK ==
  /\ keyRing \subseteq Seq(KeyParts)
  /\ upc \in {"idle", "user", "addr"}
  /\ users \in KeyLists \cup {<<>>} /\ addrs \in AddressLists \cup {<<>>}
  /\ addr \in Nat \ {0} /\ key \in Nat \ {0}
  /\ userKeyRing \subseteq 1..Len(users)
  /\ addrKeyRing \subseteq Seq(KeyParts) /\ ring \subseteq Seq(KeyParts)
  /\ unlockErr \in {"", "request", "ErrNoUnlockableKeys"} /\ unlocks \in 0..MaxUnlocks

\* The Client's ring changes only to the complete ring of the account being
\* unlocked: the keys that fail cost none of the others, and an Unlock that
\* fails leaves the ring of the one before.
RingIsExact ==
  [][keyRing' # keyRing => keyRing' = RingOf(users, addrs) /\ keyRing' # {}]_unlockVars
=============================================================================
