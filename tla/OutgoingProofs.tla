--------------------------- MODULE OutgoingProofs ---------------------------
(***************************************************************************)
(* Proofs about the key ring, the contact cards and the login of Outgoing, *)
(* for every account, every list of keys, every text and every modulus,    *)
(* and that all its variables have their types.                            *)
(*                                                                         *)
(* Unlock: what unlockPrivateKey does with one key is what the account     *)
(* determines for it (OpensIff, OpensTo), so after any number of           *)
(* iterations the rings hold exactly the openable keys of the positions    *)
(* the loops have passed (RingInv), and the ring that is stored at the end *)
(* is the account's.                                                       *)
(*                                                                         *)
(* Contact cards: the ring cannot change while a card is read, the         *)
(* reader's copy is the part of the text that was returned, and the        *)
(* signature is checked once, over the whole of it (CardInv).              *)
(*                                                                         *)
(* Login: subtracting the verifier's multiple leaves the client with 2 to  *)
(* the server's secret (Recovers).  Both sides then raise 2 to the same    *)
(* product of exponents, the client having reduced one of them modulo      *)
(* m - 1 (SamePower, from Fermat's theorem); the sessions agree because    *)
(* what travels as bytes is read back as the same number (AtoiOfItoa).     *)
(***************************************************************************)
EXTENDS PackageProofs, SequenceTheorems

\* What the user's keys determine: those that the addresses' tokens may use.
UserRing == OpenUserKeys(users)

\* The i-th key of the a-th address is opened and gives entity x.
Gives(a, i, x) == Openable(addrs[a][i], UserRing) /\ x = Opened(addrs[a][i].entity)

\* The loops' positions, and what they have found so far.
RingInv ==
  /\ upc = "user" =>
       /\ users \in KeyLists /\ key \in 1..(Len(users) + 1)
       /\ \A i \in 1..Len(users) : i \in userKeyRing <=> i < key /\ Openable(users[i], {})
  /\ upc = "addr" =>
       /\ users \in KeyLists /\ addrs \in AddressLists
       /\ userKeyRing = UserRing
       /\ addr \in 1..(Len(addrs) + 1) /\ key \in Nat
       /\ addr <= Len(addrs) => key \in 1..(Len(addrs[addr]) + 1)
       /\ addr > Len(addrs) => addrKeyRing = {}
       /\ \A x : x \in ring <=>
            \E a \in 1..Len(addrs) : \E i \in 1..Len(addrs[a]) : a < addr /\ Gives(a, i, x)
       /\ addr <= Len(addrs) => \A x : x \in addrKeyRing <=>
            \E i \in 1..Len(addrs[addr]) : i < key /\ Gives(addr, i, x)

\* UnlockTypeOK in two parts: the numbers, and the lists and rings.
CountOK == addr \in Nat \ {0} /\ key \in Nat \ {0} /\ unlocks \in 0..MaxUnlocks

ListOK ==
  /\ keyRing \subseteq Seq(KeyParts)
  /\ upc \in {"idle", "user", "addr"}
  /\ users \in KeyLists \cup {<<>>} /\ addrs \in AddressLists \cup {<<>>}
  /\ userKeyRing \subseteq 1..Len(users)
  /\ addrKeyRing \subseteq Seq(KeyParts) /\ ring \subseteq Seq(KeyParts)
  /\ unlockErr \in {"", "request", "ErrNoUnlockableKeys"}

UInv == CountOK /\ ListOK /\ RingInv

-----------------------------------------------------------------------------
\* The lists' elements are private keys, and their entities are sequences.
LEMMA ListTypes ==
  /\ \A u \in KeyLists : u \in Seq(PrivateKeys) /\ Len(u) \in Nat
                           /\ \A i \in 1..Len(u) : u[i] \in PrivateKeys
  /\ \A as \in AddressLists :
       /\ as \in Seq(Seq(PrivateKeys)) /\ Len(as) \in Nat
       /\ \A a \in 1..Len(as) : as[a] \in Seq(PrivateKeys) /\ Len(as[a]) \in Nat
                                  /\ \A i \in 1..Len(as[a]) : as[a][i] \in PrivateKeys
  <1>1. \A u \in KeyLists : u \in Seq(PrivateKeys)
    BY ListsAssumption
  <1>2. \A as \in AddressLists : as \in Seq(Seq(PrivateKeys))
    BY ListsAssumption
  <1>3. \A s \in Seq(PrivateKeys) : Len(s) \in Nat /\ \A i \in 1..Len(s) : s[i] \in PrivateKeys
    OBVIOUS
  <1>4. \A as \in Seq(Seq(PrivateKeys)) :
          Len(as) \in Nat /\ \A a \in 1..Len(as) : as[a] \in Seq(PrivateKeys)
    <2> DEFINE T == Seq(PrivateKeys)
    <2> HIDE DEF T
    <2>1. \A as \in Seq(T) : Len(as) \in Nat /\ \A a \in 1..Len(as) : as[a] \in T
      OBVIOUS
    <2> QED BY <2>1 DEF T
  <1> QED BY <1>1, <1>2, <1>3, <1>4

\* unlockPrivateKey unlocks exactly the keys that can be opened: the one secret
\* that it tries is the only one that may be had for the key.
LEMMA OpensIff ==
  ASSUME NEW k, NEW trusted PROVE Unlocks(k, trusted) <=> Openable(k, trusted)
  <1> DEFINE s == Passphrase(k, trusted)
  <1>1. s # "fail" => s \in Secrets /\ Obtainable(s, k, trusted)
    BY DEF Passphrase, Secrets, Obtainable
  <1>2. \A t \in Secrets : Obtainable(t, k, trusted) => t = s /\ s # "fail"
    BY DEF Passphrase, Secrets, Obtainable
  <1> HIDE DEF s
  <1>3. Unlocks(k, trusted) <=>
          /\ k.active = 1 /\ k.entity # <<>> /\ s # "fail"
          /\ \A n \in 1..Len(k.entity) : k.entity[n].priv \in {"none", "clear", s}
    BY DEF Unlocks, OpensEntity, s
  <1> QED BY <1>1, <1>2, <1>3, Zenon DEF Openable

\* The entity it returns has every private key in the clear.
LEMMA OpensTo ==
  ASSUME NEW k \in PrivateKeys, NEW trusted, Unlocks(k, trusted)
  PROVE  Entity(k, trusted) = Opened(k.entity) /\ Opened(k.entity) \in Seq(KeyParts)
  <1> DEFINE s == Passphrase(k, trusted)
             e == k.entity
  <1>1. e \in Seq(KeyParts)
    BY DEF PrivateKeys
  <1>2. \A n \in 1..Len(e) : e[n].priv \in {"none", "clear", s}
    BY DEF Unlocks, OpensEntity
  <1>3. s \in Secrets
    BY DEF Unlocks, Passphrase, Secrets
  <1>4. Entity(k, trusted) =
          [n \in 1..Len(e) |-> IF e[n].priv = s THEN [e[n] EXCEPT !.priv = "clear"] ELSE e[n]]
    BY DEF Entity, Unlocked
  <1>5. Opened(k.entity) =
          [n \in 1..Len(e) |-> [e[n] EXCEPT !.priv = IF @ = "none" THEN "none" ELSE "clear"]]
    BY DEF Opened
  <1> HIDE DEF s, e
  <1>6. \A n \in 1..Len(e) : e[n] \in KeyParts
    BY <1>1
  <1>7. \A p \in KeyParts : p.priv \in {"none", "clear", s} =>
          /\ (IF p.priv = s THEN [p EXCEPT !.priv = "clear"] ELSE p)
               = [p EXCEPT !.priv = IF p.priv = "none" THEN "none" ELSE "clear"]
          /\ [p EXCEPT !.priv = IF p.priv = "none" THEN "none" ELSE "clear"] \in KeyParts
    BY <1>3 DEF KeyParts, Secrets
  <1>8. Entity(k, trusted) = Opened(k.entity)
    BY <1>2, <1>4, <1>5, <1>6, <1>7
  <1>9. Opened(k.entity) \in Seq(KeyParts)
    <2> DEFINE part(n) == [e[n] EXCEPT !.priv = IF e[n].priv = "none" THEN "none" ELSE "clear"]
    <2>1. \A n \in 1..Len(e) : part(n) \in KeyParts
      BY <1>2, <1>6, <1>7
    <2>2. Opened(k.entity) = [n \in 1..Len(e) |-> part(n)]
      BY <1>5
    <2>3. Len(e) \in Nat
      BY <1>1
    <2> HIDE DEF part
    <2> QED BY <2>1, <2>2, <2>3
  <1> QED BY <1>8, <1>9
-----------------------------------------------------------------------------
(* Unlock                                                                  *)

\* The two parts are the type invariant.
LEMMA UnlockTypes == UInv => UnlockTypeOK
  BY Zenon DEF UInv, CountOK, ListOK, UnlockTypeOK

\* Nothing is unlocked at the start.
LEMMA UnlockInitInv == UnlockInit => UInv
  <1> SUFFICES ASSUME UnlockInit PROVE UInv
    OBVIOUS
  <1>1. CountOK
    <2>1. addr = 1 /\ key = 1 /\ unlocks = 0
      BY DEF UnlockInit
    <2> QED BY <2>1, UnlocksAssumption DEF CountOK
  <1>2. ListOK /\ RingInv
    BY DEF UnlockInit, ListOK, RingInv
  <1> QED BY <1>1, <1>2 DEF UInv

\* A step that leaves Unlock alone.
LEMMA UnlockUnchanged == UInv /\ UNCHANGED unlockVars => UInv'
  <1> SUFFICES ASSUME UInv, UNCHANGED unlockVars PROVE UInv'
    OBVIOUS
  <1>1. CountOK' /\ ListOK'
    BY DEF UInv, CountOK, ListOK, unlockVars, loopVars
  <1>2. RingInv'
    BY DEF UInv, RingInv, UserRing, Gives, unlockVars, loopVars
  <1> QED BY <1>1, <1>2 DEF UInv

\* The position where a loop starts.
LEMMA FirstPosition == 1 \in Nat \ {0}
  OBVIOUS

\* Unlock returns: its rings are gone, and the Client's is what it is set to.
LEMMA ReturnsInv ==
  ASSUME UInv, NEW err \in {"", "request", "ErrNoUnlockableKeys"}, Returns(err),
         keyRing' \subseteq Seq(KeyParts)
  PROVE  UInv'
  <1>1. CountOK'
    <2>1. addr' = 1 /\ key' = 1 /\ unlocks' = unlocks
      BY DEF Returns
    <2>2. unlocks \in 0..MaxUnlocks
      BY DEF UInv, CountOK
    <2> QED BY <2>1, <2>2, FirstPosition, Zenon DEF CountOK
  <1>2. ListOK'
    BY DEF Returns, ListOK
  <1>3. RingInv'
    BY DEF Returns, RingInv
  <1> QED BY <1>1, <1>2, <1>3 DEF UInv

\* Unlock has got the user.
LEMMA StartUnlockInv == ASSUME UInv, NEW u \in KeyLists, StartUnlock(u) PROVE UInv'
  <1>1. Len(u) \in Nat
    BY ListTypes
  <1>2. CountOK'
    BY UnlocksAssumption DEF StartUnlock, UInv, CountOK
  <1>3. ListOK'
    BY DEF StartUnlock, UInv, ListOK
  <1>4. RingInv'
    BY <1>1 DEF StartUnlock, RingInv
  <1> QED BY <1>2, <1>3, <1>4 DEF UInv

\* One user key.
LEMMA UserKeyInv == ASSUME UInv, UserKey PROVE UInv'
  <1>1. /\ users \in KeyLists /\ Len(users) \in Nat /\ key \in 1..Len(users)
        /\ \A i \in 1..Len(users) : i \in userKeyRing <=> i < key /\ Openable(users[i], {})
    BY ListTypes DEF UInv, RingInv, UserKey
  <1>2. userKeyRing' = IF Openable(users[key], {}) THEN userKeyRing \cup {key} ELSE userKeyRing
    BY OpensIff DEF UserKey
  <1>3. key' = key + 1 /\ users' = users /\ upc' = "user"
    BY DEF UserKey
  <1>4. \A i \in 1..Len(users) : i < key + 1 <=> i < key \/ i = key
    BY <1>1
  <1>5. \A i \in 1..Len(users) : i \in userKeyRing' <=> i < key + 1 /\ Openable(users[i], {})
    BY <1>1, <1>2, <1>4
  <1>6. RingInv'
    BY <1>1, <1>3, <1>5 DEF RingInv
  <1>7. CountOK'
    BY <1>1 DEF UserKey, UInv, CountOK
  <1>8. ListOK'
    BY <1>1, <1>2 DEF UserKey, UInv, ListOK
  <1> QED BY <1>6, <1>7, <1>8 DEF UInv

\* ListAddresses has answered: all user keys have been tried.
LEMMA StartAddressesInv ==
  ASSUME UInv, NEW as \in AddressLists, StartAddresses(as) PROVE UInv'
  <1>1. /\ users \in KeyLists /\ key \in 1..(Len(users) + 1) /\ key > Len(users)
        /\ \A i \in 1..Len(users) : i \in userKeyRing <=> i < key /\ Openable(users[i], {})
    BY DEF UInv, RingInv, StartAddresses
  <1>2. userKeyRing = UserRing
    <2>1. Len(users) \in Nat
      BY <1>1, ListTypes
    <2>2. \A i \in 1..Len(users) : i < key
      BY <1>1, <2>1
    <2>3. userKeyRing \subseteq 1..Len(users)
      BY DEF UInv, ListOK
    <2>4. \A i \in 1..Len(users) : i \in userKeyRing <=> Openable(users[i], {})
      BY <1>1, <2>2, Zenon
    <2> QED BY <2>3, <2>4, Zenon DEF UserRing, OpenUserKeys
  <1>3. UserRing' = UserRing
    BY DEF StartAddresses, UserRing
  <1>4. Len(as) \in Nat /\ \A a \in 1..Len(as) : Len(as[a]) \in Nat
    BY ListTypes
  <1>5. /\ upc' = "addr" /\ addrs' = as /\ addr' = 1 /\ key' = 1
        /\ addrKeyRing' = {} /\ ring' = {} /\ users' = users /\ userKeyRing' = userKeyRing
    BY DEF StartAddresses
  <1>6. RingInv'
    <2>1. \A n \in Nat : \A i \in 1..n : ~(i < 1)
      OBVIOUS
    <2>2. /\ 1 \in 1..(Len(as) + 1) /\ 1 \in Nat
          /\ 1 <= Len(as) => 1 \in 1..(Len(as[1]) + 1) /\ 1 \in 1..Len(as)
      <3>1. 1 \in Nat /\ \A n \in Nat : 1 \in 1..(n + 1) /\ (1 <= n => 1 \in 1..n)
        OBVIOUS
      <3>2. 1 <= Len(as) => 1 \in 1..Len(as) /\ Len(as[1]) \in Nat
        BY <1>4, <3>1, Zenon
      <3> QED BY <1>4, <3>1, <3>2, Zenon
    <2>3. \A x : ~(\E a \in 1..Len(as) : \E i \in 1..Len(as[a]) : a < 1 /\ Gives(a, i, x)')
      BY <1>4, <2>1, Zenon
    <2>4. 1 <= Len(as) => \A x : ~(\E i \in 1..Len(as[1]) : i < 1 /\ Gives(1, i, x)')
      BY <1>4, <2>1, <2>2, Zenon
    <2> QED BY <1>1, <1>2, <1>3, <1>5, <2>2, <2>3, <2>4 DEF RingInv
  <1>7. CountOK'
    BY DEF StartAddresses, UInv, CountOK
  <1>8. ListOK'
    BY DEF StartAddresses, UInv, ListOK
  <1> QED BY <1>6, <1>7, <1>8 DEF UInv

\* What RingInv says in the addresses' loop.
LEMMA AddressFacts ==
  ASSUME UInv, upc = "addr"
  PROVE  /\ users \in KeyLists /\ addrs \in AddressLists /\ userKeyRing = UserRing
         /\ Len(addrs) \in Nat /\ addr \in 1..(Len(addrs) + 1) /\ key \in Nat
         /\ \A a \in 1..Len(addrs) :
              Len(addrs[a]) \in Nat /\ \A i \in 1..Len(addrs[a]) : addrs[a][i] \in PrivateKeys
         /\ addr <= Len(addrs) => addr \in 1..Len(addrs) /\ key \in 1..(Len(addrs[addr]) + 1)
  BY ListTypes DEF UInv, RingInv

\* One key of an address.
LEMMA AddressKeyInv == ASSUME UInv, AddressKey PROVE UInv'
  <1>1. upc = "addr" /\ addr <= Len(addrs) /\ key <= Len(addrs[addr])
    BY DEF AddressKey
  <1>2. addr \in 1..Len(addrs) /\ Len(addrs) \in Nat /\ Len(addrs[addr]) \in Nat
          /\ key \in 1..Len(addrs[addr])
    BY <1>1, AddressFacts
  <1>3. addrs[addr][key] \in PrivateKeys /\ userKeyRing = UserRing
    BY <1>1, <1>2, AddressFacts
  <1> DEFINE k == addrs[addr][key]
  <1>4. addrKeyRing' = IF Unlocks(k, userKeyRing) THEN addrKeyRing \cup {Entity(k, userKeyRing)}
                       ELSE addrKeyRing
    BY DEF AddressKey
  <1>5. addrKeyRing' = IF Openable(k, UserRing) THEN addrKeyRing \cup {Opened(k.entity)}
                       ELSE addrKeyRing
    BY <1>3, <1>4, OpensIff, OpensTo
  <1>6. Openable(k, UserRing) => Opened(k.entity) \in Seq(KeyParts)
    BY <1>3, OpensIff, OpensTo
  <1>7. \A x : x \in addrKeyRing' <=> x \in addrKeyRing \/ Gives(addr, key, x)
    BY <1>5, Zenon DEF Gives
  <1> HIDE DEF k
  <1>8. /\ upc' = upc /\ users' = users /\ addrs' = addrs /\ addr' = addr /\ key' = key + 1
        /\ userKeyRing' = userKeyRing /\ ring' = ring
    BY DEF AddressKey
  <1>9. \A x : x \in addrKeyRing <=>
          \E i \in 1..Len(addrs[addr]) : i < key /\ Gives(addr, i, x)
    BY <1>1 DEF UInv, RingInv
  <1>10. \A i \in 1..Len(addrs[addr]) : i < key + 1 <=> i < key \/ i = key
    BY <1>2
  <1>11. \A x : x \in addrKeyRing' <=>
          \E i \in 1..Len(addrs[addr]) : i < key + 1 /\ Gives(addr, i, x)
    BY <1>2, <1>7, <1>9, <1>10, Zenon
  <1>12. UserRing' = UserRing /\ \A a, i, x : Gives(a, i, x)' <=> Gives(a, i, x)
    BY <1>8 DEF UserRing, Gives
  <1>13. RingInv'
    <2>1. key + 1 \in 1..(Len(addrs[addr]) + 1) /\ key + 1 \in Nat /\ ~(addr > Len(addrs))
      BY <1>2
    <2> QED BY <1>1, <1>2, <1>8, <1>11, <1>12, <2>1 DEF UInv, RingInv
  <1>14. CountOK'
    BY <1>2 DEF AddressKey, UInv, CountOK
  <1>15. ListOK'
    BY <1>5, <1>6 DEF AddressKey, UInv, ListOK
  <1> QED BY <1>13, <1>14, <1>15 DEF UInv

\* An address is done: its ring joins the others.
LEMMA AddressDoneInv == ASSUME UInv, AddressDone PROVE UInv'
  <1>1. upc = "addr" /\ addr <= Len(addrs) /\ key > Len(addrs[addr])
    BY DEF AddressDone
  <1>2. addr \in 1..Len(addrs) /\ Len(addrs) \in Nat /\ Len(addrs[addr]) \in Nat /\ key \in Nat
    BY <1>1, AddressFacts
  <1>3. /\ upc' = upc /\ users' = users /\ addrs' = addrs /\ addr' = addr + 1 /\ key' = 1
        /\ userKeyRing' = userKeyRing /\ ring' = ring \cup addrKeyRing /\ addrKeyRing' = {}
    BY DEF AddressDone
  <1>4. \A x : x \in addrKeyRing <=> \E i \in 1..Len(addrs[addr]) : Gives(addr, i, x)
    <2>1. \A i \in 1..Len(addrs[addr]) : i < key
      BY <1>1, <1>2
    <2>2. \A x : x \in addrKeyRing <=>
            \E i \in 1..Len(addrs[addr]) : i < key /\ Gives(addr, i, x)
      BY <1>1 DEF UInv, RingInv
    <2> QED BY <2>1, <2>2, Zenon
  <1>5. \A x : x \in ring <=>
          \E a \in 1..Len(addrs) : \E i \in 1..Len(addrs[a]) : a < addr /\ Gives(a, i, x)
    BY <1>1 DEF UInv, RingInv
  <1>6. \A a \in 1..Len(addrs) : a < addr + 1 <=> a < addr \/ a = addr
    BY <1>2
  <1>7. \A x : x \in ring' <=> x \in ring \/ x \in addrKeyRing
    BY <1>3
  <1>8. \A x : x \in ring' <=>
          \E a \in 1..Len(addrs) : \E i \in 1..Len(addrs[a]) : a < addr + 1 /\ Gives(a, i, x)
    BY <1>2, <1>4, <1>5, <1>6, <1>7, Zenon
  <1>9. UserRing' = UserRing /\ \A a, i, x : Gives(a, i, x)' <=> Gives(a, i, x)
    BY <1>3 DEF UserRing, Gives
  <1>10. \A a \in 1..Len(addrs) : Len(addrs[a]) \in Nat
    BY <1>1, AddressFacts
  <1>11. RingInv'
    <2>1. addr + 1 \in 1..(Len(addrs) + 1)
      BY <1>2
    <2>2. addr + 1 <= Len(addrs) => 1 \in 1..(Len(addrs[addr + 1]) + 1)
      BY <1>2, <1>10
    <2>3. \A n \in Nat : \A i \in 1..n : ~(i < 1)
      OBVIOUS
    <2>4. addr + 1 <= Len(addrs) =>
            \A x : ~(\E i \in 1..Len(addrs[addr + 1]) : i < 1 /\ Gives(addr + 1, i, x))
      BY <1>2, <1>10, <2>3
    <2> QED BY <1>1, <1>3, <1>8, <1>9, <2>1, <2>2, <2>4 DEF UInv, RingInv
  <1>12. CountOK'
    BY <1>2 DEF AddressDone, UInv, CountOK
  <1>13. ListOK'
    BY DEF AddressDone, UInv, ListOK
  <1> QED BY <1>11, <1>12, <1>13 DEF UInv

\* The last address is done: the rings of all addresses are the account's ring.
LEMMA RingComplete ==
  ASSUME UInv, upc = "addr", addr > Len(addrs)
  PROVE  ring = RingOf(users, addrs)
  <1>1. Len(addrs) \in Nat /\ addr \in Nat
    BY AddressFacts DEF UInv, CountOK
  <1>2. \A a \in 1..Len(addrs) : a < addr
    BY <1>1
  <1>3. \A x : x \in ring <=>
          \E a \in 1..Len(addrs) : \E i \in 1..Len(addrs[a]) : a < addr /\ Gives(a, i, x)
    BY DEF UInv, RingInv
  <1>4. \A x : x \in ring <=>
          \E a \in 1..Len(addrs) : \E i \in 1..Len(addrs[a]) : Gives(a, i, x)
    BY <1>2, <1>3, Zenon
  <1>5. \A x : x \in RingOf(users, addrs) <=>
          \E a \in 1..Len(addrs) : \E i \in 1..Len(addrs[a]) : Gives(a, i, x)
    <2> DEFINE Keys == UNION {{addrs[a][i] : i \in 1..Len(addrs[a])} : a \in 1..Len(addrs)}
    <2>1. \A k : k \in Keys <=>
            \E a \in 1..Len(addrs) : \E i \in 1..Len(addrs[a]) : k = addrs[a][i]
      <3> DEFINE Of(a) == {addrs[a][i] : i \in 1..Len(addrs[a])}
      <3>1. \A k, a : k \in Of(a) <=> \E i \in 1..Len(addrs[a]) : k = addrs[a][i]
        BY Zenon
      <3>2. \A k : k \in Keys <=> \E a \in 1..Len(addrs) : k \in Of(a)
        BY SMT
      <3> HIDE DEF Of, Keys
      <3> QED BY <3>1, <3>2, Zenon
    <2>2. RingOf(users, addrs) = {Opened(k.entity) : k \in {x \in Keys : Openable(x, UserRing)}}
      BY Zenon DEF RingOf, UserRing
    <2> HIDE DEF Keys
    <2>3. \A x : x \in RingOf(users, addrs) <=>
            \E k \in Keys : Openable(k, UserRing) /\ x = Opened(k.entity)
      BY <2>2, Zenon
    <2> QED BY <2>1, <2>3, SMT DEF Gives
  <1> QED BY <1>4, <1>5, Zenon

\* Every step of Unlock.
LEMMA UnlockNextInv == UInv /\ UnlockNext => UInv'
  <1> SUFFICES ASSUME UInv, UnlockNext PROVE UInv'
    OBVIOUS
  <1>1. CASE UserKeysFail
    <2>1. keyRing' \subseteq Seq(KeyParts)
      BY <1>1 DEF UserKeysFail, UInv, ListOK
    <2>2. Returns("ErrNoUnlockableKeys") \/ Returns("request")
      BY <1>1 DEF UserKeysFail
    <2> QED BY <2>1, <2>2, ReturnsInv
  <1>2. CASE UnlockDone
    <2>1. keyRing' \subseteq Seq(KeyParts)
      BY <1>2 DEF UnlockDone, UInv, ListOK
    <2>2. Returns("ErrNoUnlockableKeys") \/ Returns("")
      BY <1>2 DEF UnlockDone
    <2> QED BY <2>1, <2>2, ReturnsInv
  <1> QED BY <1>1, <1>2, StartUnlockInv, UserKeyInv, StartAddressesInv, AddressKeyInv,
             AddressDoneInv DEF UnlockNext, UnlockStep

\* Every step of the system: only Unlock touches its variables.
LEMMA UnlockFrame == Next => UnlockNext \/ UNCHANGED unlockVars
  BY DEF Next

\* The invariant of Unlock.
THEOREM UnlockInvariant == Spec => []UInv
  <1>1. Init => UInv
    BY UnlockInitInv DEF Init
  <1>2. UInv /\ [Next]_vars => UInv'
    BY UnlockNextInv, UnlockUnchanged, UnlockFrame DEF vars
  <1> QED BY <1>1, <1>2, PTL DEF Spec

\* UnlockTypeOK for every account.
THEOREM UnlockTypesCorrect == Spec => []UnlockTypeOK
  BY UnlockInvariant, UnlockTypes, PTL

\* Only the last step of Unlock changes the Client's ring, and what it stores is
\* what the keys of the account determine: no order of the keys, no key that
\* cannot be opened and no call that fails makes it anything else.
THEOREM RingIsExactAlways == Spec => RingIsExact
  <1>1. ASSUME UInv, [Next]_vars
        PROVE  [keyRing' # keyRing => keyRing' = RingOf(users, addrs) /\ keyRing' # {}]_unlockVars
    <2> SUFFICES ASSUME keyRing' # keyRing
                 PROVE  keyRing' = RingOf(users, addrs) /\ keyRing' # {}
      OBVIOUS
    <2>1. UnlockNext
      BY <1>1, UnlockFrame DEF vars, unlockVars
    <2>2. UnlockDone
      BY <2>1 DEF UnlockNext, UnlockStep, StartUnlock, UserKey, UserKeysFail, StartAddresses,
        AddressKey, AddressDone
    <2>3. keyRing' = ring /\ ring # {} /\ upc = "addr" /\ addr > Len(addrs)
      BY <2>2 DEF UnlockDone
    <2> QED BY <1>1, <2>3, RingComplete
  <1> QED BY <1>1, UnlockInvariant, PTL DEF Spec, RingIsExact

-----------------------------------------------------------------------------
(* Contact cards                                                           *)

\* What CardTypeOK says, and the fields that a reader has.
Readers ==
  [pc: {"none", "open", "eof", "broken", "failed"}, pos: Nat, signed: Seq(Nat),
   sigRead: BOOLEAN, eof: BOOLEAN, isSigned: BOOLEAN, verified: BOOLEAN]

\* What ContactCard.Read and its reader have to say in the end.
RightVerdict ==
  Signed(card.type) /\ DeliversText /\ Verifies(card.text, card.signature, keyRing)

\* The card: nothing has happened without one, and one that was made here has the
\* signature of its signer.
MadeInv ==
  /\ card.type \in CardTypes \cup {"none"} /\ card.text \in Texts \cup {<<>>}
  /\ card = NoCard => reader = NoReader /\ written = NotWritten
  /\ written.made =>
       /\ card.type \in {"EncryptedAndSigned", "Signed"} =>
            card.signature = [over |-> card.text, by |-> written.signer]
       /\ card.type = "Signed" => card.to = Clear
       /\ card.type = "Encrypted" => written.signer = <<>>
       /\ card.type \in {"Encrypted", "EncryptedAndSigned", "Signed"}

\* The reader, by where it is.
ReaderInv ==
  /\ reader \in Readers /\ reader.pos <= Len(card.text)
  /\ reader.pc = "none" => reader = NoReader
  /\ (~Encrypted(card.type) /\ reader.pc \in {"open", "eof"}) =>
       (reader.isSigned <=> Signed(card.type)) /\ (reader.verified <=> RightVerdict)
  /\ (Encrypted(card.type) /\ reader.pc \in {"open", "broken"}) => ~reader.verified
  /\ (Encrypted(card.type) /\ reader.pc = "open") =>
       /\ ~reader.eof /\ ~reader.sigRead /\ ~reader.isSigned
       /\ Detached => reader.signed = SubSeq(card.text, 1, reader.pos)
  /\ reader.pc = "eof" => reader.pos = Len(card.text)
  /\ (Encrypted(card.type) /\ reader.pc = "eof") =>
       /\ reader.isSigned <=> Signed(card.type)
       /\ reader.verified <=> RightVerdict
       /\ Detached => reader.eof

CardInv == <<>> \notin keyRing /\ MadeInv /\ ReaderInv

\* The invariant has the verdict in it.
LEMMA VerdictFromInv == CardInv => CardVerdictRight
  <1> SUFFICES ASSUME CardInv PROVE CardVerdictRight
    OBVIOUS
  <1>1. reader.pc = "eof" =>
          (reader.isSigned <=> Signed(card.type)) /\ (reader.verified <=> RightVerdict)
    BY DEF CardInv, ReaderInv
  <1>2. (Encrypted(card.type) /\ reader.pc \in {"open", "broken"}) => ~reader.verified
    BY DEF CardInv, ReaderInv
  <1>3. ASSUME written.made
        PROVE  RightVerdict <=> written.signer # <<>> /\ written.signer \in keyRing
    <2>1. CASE card.type = "Encrypted"
      BY <1>3, <2>1 DEF CardInv, MadeInv, RightVerdict, Signed
    <2>2. CASE card.type \in {"Signed", "EncryptedAndSigned"}
      <3>1. card.signature = [over |-> card.text, by |-> written.signer]
        BY <1>3, <2>2 DEF CardInv, MadeInv
      <3>2. card.signature.over = card.text /\ card.signature.by = written.signer
        BY <3>1
      <3>3. NoSignature.by = <<>>
        BY DEF NoSignature
      <3>4. Signed(card.type) /\ DeliversText
        BY <1>3, <2>2 DEF CardInv, MadeInv, Signed, DeliversText, Encrypted
      <3>5. Verifies(card.text, card.signature, keyRing)
              <=> written.signer # <<>> /\ written.signer \in keyRing
        BY <3>2, <3>3 DEF Verifies, CardInv
      <3> QED BY <3>4, <3>5 DEF RightVerdict
    <2> QED BY <1>3, <2>1, <2>2 DEF CardInv, MadeInv
  <1> QED BY <1>1, <1>2, <1>3, Zenon DEF CardVerdictRight, VerdictRight, RightVerdict

\* The reader before Read.
LEMMA NoReaderFacts ==
  /\ NoReader \in Readers /\ NoReader.pc = "none" /\ NoReader.pos = 0 /\ NoReader.signed = <<>>
  /\ ~NoReader.sigRead /\ ~NoReader.eof /\ ~NoReader.isSigned /\ ~NoReader.verified
  /\ NoCard.type = "none" /\ NoCard.text = <<>> /\ ~NotWritten.made
  BY DEF NoReader, Readers, NoCard, NotWritten

\* A text is a sequence, and all of it is its part up to its length.
LEMMA TextFacts ==
  ASSUME NEW text \in Texts \cup {<<>>}
  PROVE  /\ text \in Seq(Nat) /\ Len(text) \in Nat
         /\ SubSeq(text, 1, 0) = <<>> /\ SubSeq(text, 1, Len(text)) = text
         /\ \A n \in 0..Len(text) : SubSeq(text, 1, n) \in Seq(Nat)
  <1>1. text \in Seq(Nat)
    <2>1. <<>> \in Seq(Nat)
      OBVIOUS
    <2> QED BY <2>1, TextsAssumption, Zenon
  <1>2. SubSeq(text, 1, 0) = <<>>
    BY <1>1, SubSeqEmpty
  <1>3. SubSeq(text, 1, Len(text)) = text
    BY <1>1, SubSeqFull
  <1>4. \A n \in 0..Len(text) : SubSeq(text, 1, n) \in Seq(Nat)
    BY <1>1
  <1>5. Len(text) \in Nat
    BY <1>1
  <1> QED BY <1>1, <1>2, <1>3, <1>4, <1>5

\* Nothing is read before there is a card.
LEMMA NoReaderInv == reader = NoReader /\ card.text \in Texts \cup {<<>>} => ReaderInv
  <1> SUFFICES ASSUME reader = NoReader, card.text \in Texts \cup {<<>>} PROVE ReaderInv
    OBVIOUS
  <1>1. Len(card.text) \in Nat /\ 0 <= Len(card.text)
    <2>1. Len(card.text) \in Nat /\ \A n \in Nat : 0 <= n
      BY TextFacts
    <2> QED BY <2>1
  <1> QED BY <1>1, NoReaderFacts DEF ReaderInv

\* The start.
LEMMA CardInitInv == UnlockInit /\ CardInit => CardInv
  <1> SUFFICES ASSUME UnlockInit, CardInit PROVE CardInv
    OBVIOUS
  <1>1. MadeInv
    BY NoReaderFacts DEF CardInit, MadeInv
  <1>2. ReaderInv
    BY NoReaderFacts, NoReaderInv DEF CardInit
  <1> QED BY <1>1, <1>2 DEF CardInv, UnlockInit

\* A card comes into being: there was none, and it is not read yet.
LEMMA NewCardInv ==
  ASSUME CardInv, card = NoCard, UNCHANGED <<keyRing, reader>>, card' # NoCard, MadeInv'
  PROVE  CardInv'
  <1>1. reader' = NoReader
    BY DEF CardInv, MadeInv
  <1>2. (card.text \in Texts \cup {<<>>})'
    BY DEF MadeInv
  <1>3. Len(card'.text) \in Nat /\ 0 <= Len(card'.text)
    <2>1. Len(card'.text) \in Nat /\ \A n \in Nat : 0 <= n
      BY <1>2, TextFacts
    <2> QED BY <2>1
  <1>4. ReaderInv'
    BY <1>1, <1>3, NoReaderFacts DEF ReaderInv
  <1> QED BY <1>4 DEF CardInv

\* A step that leaves the card, its reader and the ring alone.
LEMMA CardUnchanged == CardInv /\ UNCHANGED <<keyRing, cardVars>> => CardInv'
  BY DEF CardInv, MadeInv, ReaderInv, RightVerdict, DeliversText, Detached, cardVars

\* NewEncryptedContactCard, NewSignedContactCard and GetContact.
LEMMA MakeCardInv ==
  ASSUME CardInv, UNCHANGED keyRing,
         \/ \E text \in Texts : \E to, signer : NewEncryptedContactCard(text, to, signer)
         \/ \E text \in Texts : \E signer : NewSignedContactCard(text, signer)
         \/ \E type \in CardTypes, text \in Texts : \E to, sig : ReceiveCard(type, text, to, sig)
  PROVE  CardInv'
  <1>1. ASSUME NEW text \in Texts, NEW to, NEW signer, NewEncryptedContactCard(text, to, signer)
        PROVE  CardInv'
    <2>1. /\ card'.type = IF signer = <<>> THEN "Encrypted" ELSE "EncryptedAndSigned"
          /\ card'.text = text
          /\ signer # <<>> => card'.signature = [over |-> text, by |-> signer]
          /\ written'.signer = signer /\ card = NoCard /\ reader' = reader
      BY <1>1 DEF NewEncryptedContactCard
    <2>2. card' # NoCard
      BY <2>1, NoReaderFacts
    <2>3. MadeInv'
      BY <2>1, <2>2 DEF MadeInv, CardTypes
    <2> QED BY <2>1, <2>2, <2>3, NewCardInv
  <1>2. ASSUME NEW text \in Texts, NEW signer, NewSignedContactCard(text, signer)
        PROVE  CardInv'
    <2>1. /\ card'.type = "Signed" /\ card'.text = text /\ card'.to = Clear
          /\ card'.signature = [over |-> text, by |-> signer]
          /\ written'.signer = signer /\ card = NoCard /\ reader' = reader
      BY <1>2 DEF NewSignedContactCard
    <2>2. card' # NoCard
      BY <2>1, NoReaderFacts
    <2>3. MadeInv'
      BY <2>1, <2>2 DEF MadeInv, CardTypes
    <2> QED BY <2>1, <2>2, <2>3, NewCardInv
  <1>3. ASSUME NEW type \in CardTypes, NEW text \in Texts, NEW to, NEW sig,
               ReceiveCard(type, text, to, sig)
        PROVE  CardInv'
    <2>1. /\ card'.type = type /\ card'.text = text
          /\ written' = written /\ card = NoCard /\ reader' = reader
      BY <1>3 DEF ReceiveCard
    <2>2. card' # NoCard
      BY <2>1, NoReaderFacts DEF CardTypes
    <2>3. ~written'.made
      BY <2>1, NoReaderFacts DEF CardInv, MadeInv
    <2>4. MadeInv'
      BY <2>1, <2>2, <2>3 DEF MadeInv
    <2> QED BY <2>1, <2>2, <2>4, NewCardInv
  <1> QED BY <1>1, <1>2, <1>3

\* ContactCard.Read: a cleartext card has its verdict, an encrypted one none.
LEMMA ReadInv == ASSUME CardInv, UNCHANGED keyRing, Read(keyRing) PROVE CardInv'
  <1>1. card # NoCard /\ card' = card /\ written' = written
    BY DEF Read
  <1>2. RightVerdict' <=> RightVerdict
    BY <1>1 DEF RightVerdict, DeliversText
  <1>3. MadeInv'
    BY <1>1 DEF CardInv, MadeInv
  <1>4. Len(card.text) \in Nat /\ 0 <= Len(card.text) /\ SubSeq(card.text, 1, 0) = <<>>
    <2>1. card.text \in Texts \cup {<<>>}
      BY DEF CardInv, MadeInv
    <2>2. Len(card.text) \in Nat /\ SubSeq(card.text, 1, 0) = <<>>
      BY <2>1, TextFacts
    <2>3. \A n \in Nat : 0 <= n
      OBVIOUS
    <2> QED BY <2>2, <2>3
  <1>5. CASE Encrypted(card.type)
    <2>1. reader' = [NoReader EXCEPT !.pc = IF Decrypts(keyRing) THEN "open" ELSE "failed"]
      BY <1>5 DEF Read
    <2>2. /\ reader' \in Readers /\ reader'.pc \in {"open", "failed"}
          /\ reader'.pos = 0 /\ reader'.signed = <<>>
      <3>1. \A r \in Readers, p \in {"open", "failed"} :
              [r EXCEPT !.pc = p] \in Readers /\ [r EXCEPT !.pc = p].pc = p
        BY DEF Readers
      <3>2. reader' \in Readers /\ reader'.pc \in {"open", "failed"}
        BY <2>1, <3>1, NoReaderFacts
      <3> QED BY <2>1, <3>2 DEF NoReader
    <2>3. ~reader'.sigRead /\ ~reader'.eof /\ ~reader'.isSigned /\ ~reader'.verified
      BY <2>1 DEF NoReader
    <2>4. ReaderInv'
      BY <1>1, <1>4, <1>5, <2>2, <2>3 DEF ReaderInv, Detached
    <2> QED BY <1>3, <2>4 DEF CardInv
  <1>6. CASE ~Encrypted(card.type)
    <2>1. reader' = [NoReader EXCEPT !.pc = "open", !.isSigned = Signed(card.type),
                                     !.verified = RightVerdict]
      BY <1>6 DEF Read, RightVerdict
    <2>2. RightVerdict \in BOOLEAN /\ Signed(card.type) \in BOOLEAN
      BY DEF RightVerdict, Signed, DeliversText, Encrypted, Verifies
    <2>3. /\ reader' \in Readers /\ reader'.pc = "open" /\ reader'.pos = 0
      <3>1. \A r \in Readers, a \in BOOLEAN, b \in BOOLEAN :
              [r EXCEPT !.pc = "open", !.isSigned = a, !.verified = b] \in Readers
        BY DEF Readers
      <3>2. reader' \in Readers
        BY <2>1, <2>2, <3>1, NoReaderFacts, Zenon
      <3> QED BY <2>1, <3>2 DEF NoReader
    <2>4. (reader'.isSigned <=> Signed(card.type)) /\ (reader'.verified <=> RightVerdict)
      BY <2>1, <2>2 DEF NoReader
    <2>5. ReaderInv'
      BY <1>1, <1>2, <1>4, <1>6, <2>3, <2>4 DEF ReaderInv
    <2> QED BY <1>3, <2>5 DEF CardInv
  <1> QED BY <1>5, <1>6

\* The end of the body, for a reader r that has returned all of it: the verdict
\* is there, or is made now from the copy.
LEMMA AtEOFInv ==
  ASSUME CardInv, UNCHANGED <<keyRing, card, written>>, NEW r \in Readers, card # NoCard,
         r.pos = Len(card.text),
         ~Encrypted(card.type) =>
           (r.isSigned <=> Signed(card.type)) /\ (r.verified <=> RightVerdict),
         Encrypted(card.type) /\ ~Detached => ~r.isSigned /\ ~r.verified,
         Detached /\ ~r.eof => ~r.sigRead /\ r.signed = card.text,
         Detached /\ r.eof => r.isSigned /\ (r.verified <=> RightVerdict),
         reader' = AtEOF(r, keyRing)
  PROVE  CardInv'
  <1>1. RightVerdict' <=> RightVerdict
    BY DEF RightVerdict, DeliversText
  <1>2. MadeInv'
    BY NoReaderFacts DEF CardInv, MadeInv
  <1>3. Len(card.text) \in Nat /\ Len(card.text) <= Len(card.text)
    <2>1. card.text \in Texts \cup {<<>>}
      BY DEF CardInv, MadeInv
    <2>2. Len(card.text) \in Nat /\ \A n \in Nat : n <= n
      BY <2>1, TextFacts
    <2> QED BY <2>2
  <1>4. CASE ~Detached \/ r.eof
    <2>1. reader' = [r EXCEPT !.pc = "eof"]
      BY <1>4 DEF AtEOF
    <2>2. reader' \in Readers /\ reader'.pc = "eof" /\ reader'.pos = r.pos
      BY <2>1 DEF Readers
    <2>3. (reader'.eof <=> r.eof) /\ (reader'.isSigned <=> r.isSigned)
            /\ (reader'.verified <=> r.verified)
      BY <2>1 DEF Readers
    <2>4. (reader'.isSigned <=> Signed(card.type)) /\ (reader'.verified <=> RightVerdict)
      BY <1>4, <2>3 DEF Detached, RightVerdict
    <2>5. ReaderInv'
      BY <1>1, <1>3, <1>4, <2>2, <2>3, <2>4 DEF ReaderInv, Detached
    <2> QED BY <1>2, <2>5 DEF CardInv
  <1>5. CASE Detached /\ ~r.eof
    <2> DEFINE v == ~r.sigRead /\ Verifies(r.signed, card.signature, keyRing)
    <2>1. reader' = [r EXCEPT !.pc = "eof", !.eof = TRUE, !.sigRead = TRUE, !.isSigned = TRUE,
                              !.verified = v]
      BY <1>5 DEF AtEOF
    <2>2. v \in BOOLEAN /\ (v <=> RightVerdict)
      BY <1>5 DEF RightVerdict, Detached, DeliversText
    <2> HIDE DEF v
    <2>3. reader' \in Readers /\ reader'.pc = "eof" /\ reader'.pos = r.pos
      BY <2>1, <2>2 DEF Readers
    <2>4. reader'.eof /\ reader'.isSigned /\ (reader'.verified <=> v)
      BY <2>1, <2>2 DEF Readers
    <2>5. ReaderInv'
      BY <1>1, <1>3, <1>5, <2>2, <2>3, <2>4 DEF ReaderInv, Detached
    <2> QED BY <1>2, <2>5 DEF CardInv
  <1> QED BY <1>4, <1>5

\* The reader when n chunks were returned, if it was open before.
LEMMA ReturnedFacts ==
  ASSUME CardInv, reader.pc = "open", NEW n \in 0..Len(card.text)
  PROVE  /\ Returned(n) \in Readers /\ Returned(n).pc = "open" /\ Returned(n).pos = n
         /\ Detached => Returned(n).signed = SubSeq(card.text, 1, n)
         /\ Returned(n).eof <=> reader.eof
         /\ Returned(n).sigRead <=> reader.sigRead
         /\ Returned(n).isSigned <=> reader.isSigned
         /\ Returned(n).verified <=> reader.verified
  <1> DEFINE s == IF Detached THEN SubSeq(card.text, 1, n) ELSE <<>>
  <1>1. card.text \in Texts \cup {<<>>}
    BY DEF CardInv, MadeInv
  <1>2. Len(card.text) \in Nat /\ SubSeq(card.text, 1, n) \in Seq(Nat)
    BY <1>1, TextFacts
  <1>3. s \in Seq(Nat)
    <2>1. <<>> \in Seq(Nat)
      OBVIOUS
    <2> QED BY <1>2, <2>1, Zenon
  <1>4. Detached => s = SubSeq(card.text, 1, n)
    OBVIOUS
  <1>5. Returned(n) = [reader EXCEPT !.pos = n, !.signed = s]
    BY DEF Returned
  <1> HIDE DEF s
  <1>6. n \in Nat
    BY <1>2
  <1>7. reader \in Readers
    BY DEF CardInv, ReaderInv
  <1>8. Returned(n) \in Readers /\ Returned(n).pc = "open" /\ Returned(n).pos = n
          /\ Returned(n).signed = s
    BY <1>3, <1>5, <1>6, <1>7 DEF Readers
  <1>9. /\ Returned(n).eof <=> reader.eof
        /\ Returned(n).sigRead <=> reader.sigRead
        /\ Returned(n).isSigned <=> reader.isSigned
        /\ Returned(n).verified <=> reader.verified
    BY <1>5, <1>7 DEF Readers
  <1> QED BY <1>4, <1>8, <1>9

\* detachedSignatureReader.Read and the readers below it: one Read of the body.
LEMMA ReadBodyInv == ASSUME CardInv, UNCHANGED keyRing, ReadBody(keyRing) PROVE CardInv'
  <1>1. card' = card /\ written' = written
    BY DEF ReadBody
  <1>2. reader \in Readers /\ reader.pos \in Nat
    BY DEF CardInv, ReaderInv, Readers
  <1>3. card.text \in Texts \cup {<<>>}
    BY DEF CardInv, MadeInv
  <1>4. Len(card.text) \in Nat /\ SubSeq(card.text, 1, Len(card.text)) = card.text
    BY <1>3, TextFacts
  <1>5. RightVerdict' <=> RightVerdict
    BY <1>1 DEF RightVerdict, DeliversText
  <1>6. card # NoCard /\ MadeInv'
    BY <1>1, NoReaderFacts DEF CardInv, MadeInv, ReadBody
  <1>7. CASE reader.pc = "open" /\ reader.pos < Len(card.text) /\ reader' = Returned(reader.pos + 1)
    <2>1. reader.pos + 1 \in 0..Len(card.text) /\ reader.pos + 1 <= Len(card.text)
      BY <1>2, <1>4, <1>7
    <2>2. reader' \in Readers /\ reader'.pc = "open" /\ reader'.pos = reader.pos + 1
            /\ (Detached => reader'.signed = SubSeq(card.text, 1, reader.pos + 1))
      BY <1>7, <2>1, ReturnedFacts
    <2>3. /\ (reader'.eof <=> reader.eof) /\ (reader'.sigRead <=> reader.sigRead)
          /\ (reader'.isSigned <=> reader.isSigned) /\ (reader'.verified <=> reader.verified)
      BY <1>7, <2>1, ReturnedFacts
    <2>4. ReaderInv'
      BY <1>1, <1>5, <1>7, <2>1, <2>2, <2>3 DEF CardInv, ReaderInv, Detached
    <2> QED BY <1>6, <2>4 DEF CardInv
  <1>8. CASE /\ reader.pc = "open" /\ reader.pos < Len(card.text)
             /\ reader.pos + 1 = Len(card.text)
             /\ reader' = AtEOF(Returned(reader.pos + 1), keyRing)
    <2> DEFINE r == Returned(reader.pos + 1)
    <2>1. reader.pos + 1 \in 0..Len(card.text)
      BY <1>2, <1>4, <1>8
    <2>2. r \in Readers /\ r.pos = Len(card.text) /\ (Detached => r.signed = card.text)
      BY <1>4, <1>8, <2>1, ReturnedFacts
    <2>3. /\ (r.eof <=> reader.eof) /\ (r.sigRead <=> reader.sigRead)
          /\ (r.isSigned <=> reader.isSigned) /\ (r.verified <=> reader.verified)
      BY <1>8, <2>1, ReturnedFacts
    <2> HIDE DEF r
    <2>4. ~Encrypted(card.type) =>
            (r.isSigned <=> Signed(card.type)) /\ (r.verified <=> RightVerdict)
      BY <1>8, <2>3 DEF CardInv, ReaderInv
    <2>5. Encrypted(card.type) => ~r.eof /\ ~r.sigRead /\ ~r.isSigned /\ ~r.verified
      BY <1>8, <2>3 DEF CardInv, ReaderInv
    <2> QED BY <1>1, <1>6, <1>8, <2>2, <2>4, <2>5, AtEOFInv DEF Detached, r
  <1>9. CASE /\ reader.pc \in {"open", "eof"} /\ reader.pos = Len(card.text)
             /\ reader' = AtEOF(reader, keyRing)
    <2>1. ~Encrypted(card.type) =>
            (reader.isSigned <=> Signed(card.type)) /\ (reader.verified <=> RightVerdict)
      BY <1>9 DEF CardInv, ReaderInv
    <2>2. Encrypted(card.type) /\ ~Detached => ~reader.isSigned /\ ~reader.verified
      BY <1>9 DEF CardInv, ReaderInv, Detached, RightVerdict
    <2>3. Detached /\ ~reader.eof => ~reader.sigRead /\ reader.signed = card.text
      BY <1>4, <1>9 DEF CardInv, ReaderInv, Detached
    <2>4. Detached /\ reader.eof => reader.isSigned /\ (reader.verified <=> RightVerdict)
      BY <1>9 DEF CardInv, ReaderInv, Detached
    <2> QED BY <1>1, <1>2, <1>6, <1>9, <2>1, <2>2, <2>3, <2>4, AtEOFInv
  <1>10. CASE /\ reader.pc = "open" /\ Encrypted(card.type)
              /\ reader' = [reader EXCEPT !.pc = "broken"]
    <2>1. reader' \in Readers /\ reader'.pc = "broken" /\ reader'.pos = reader.pos
      BY <1>2, <1>10 DEF Readers
    <2>2. reader'.verified <=> reader.verified
      BY <1>2, <1>10 DEF Readers
    <2>3. ReaderInv'
      BY <1>1, <1>10, <2>1, <2>2 DEF CardInv, ReaderInv
    <2> QED BY <1>6, <2>3 DEF CardInv
  <1> QED BY <1>7, <1>8, <1>9, <1>10 DEF ReadBody

\* Every step on a card.
LEMMA CardNextInv == CardInv /\ UNCHANGED keyRing /\ CardNext(keyRing) => CardInv'
  <1> SUFFICES ASSUME CardInv, UNCHANGED keyRing, CardNext(keyRing) PROVE CardInv'
    OBVIOUS
  <1> DEFINE known == keyRing \cup Strangers
  <1>1. ASSUME NEW text \in Texts, NEW to \in known, NEW signer \in known \cup {<<>>},
               NewEncryptedContactCard(text, to, signer)
        PROVE  CardInv'
    BY <1>1, MakeCardInv
  <1>2. ASSUME NEW text \in Texts, NEW signer \in known, NewSignedContactCard(text, signer)
        PROVE  CardInv'
    BY <1>2, MakeCardInv
  <1>3. ASSUME NEW type \in CardTypes, NEW text \in Texts, NEW to \in known \cup {Clear},
               NEW sig \in [over: Texts, by: known] \cup {NoSignature},
               ReceiveCard(type, text, to, sig)
        PROVE  CardInv'
    BY <1>3, MakeCardInv
  <1>4. ReadBody(keyRing) \/ Read(keyRing) => CardInv'
    BY ReadInv, ReadBodyInv
  <1> QED BY <1>1, <1>2, <1>3, <1>4, Zenon DEF CardNext

\* Unlock runs only while there is no card, and an opened entity is not empty.
LEMMA UnlockCardInv ==
  ASSUME UInv, CardInv, card = NoCard, UnlockNext, UNCHANGED cardVars PROVE CardInv'
  <1>1. <<>> \notin keyRing'
    <2>1. CASE keyRing' = keyRing
      BY <2>1 DEF CardInv
    <2>2. CASE UnlockDone /\ keyRing' = ring
      <3>1. upc = "addr"
        BY <2>2 DEF UnlockDone
      <3>2. SUFFICES ASSUME <<>> \in ring PROVE FALSE
        BY <2>2
      <3>3. PICK a \in 1..Len(addrs) : \E i \in 1..Len(addrs[a]) : Gives(a, i, <<>>)
        BY <3>1, <3>2 DEF UInv, RingInv
      <3>4. PICK i \in 1..Len(addrs[a]) : Gives(a, i, <<>>)
        BY <3>3
      <3> DEFINE e == addrs[a][i].entity
      <3>5. e \in Seq(KeyParts)
        BY <3>1, AddressFacts DEF PrivateKeys
      <3>6. e # <<>> /\ <<>> = Opened(e)
        BY <3>4 DEF Gives, Openable
      <3> HIDE DEF e
      <3>7. Len(e) \in Nat /\ Len(e) # 0
        BY <3>5, <3>6, EmptySeq
      <3>8. DOMAIN Opened(e) = 1..Len(e)
        BY DEF Opened
      <3>9. 1 \in DOMAIN Opened(e) /\ 1 \notin DOMAIN <<>>
        BY <3>7, <3>8
      <3> QED BY <3>6, <3>9
    <2> QED BY <2>1, <2>2 DEF UnlockNext, UnlockStep, StartUnlock, UserKey, UserKeysFail,
          StartAddresses, AddressKey, AddressDone, UnlockDone
  <1>2. card' = card /\ written' = written /\ reader' = reader
    BY DEF cardVars
  <1>3. MadeInv'
    BY <1>2 DEF CardInv, MadeInv
  <1>4. reader = NoReader
    BY DEF CardInv, MadeInv
  <1>5. ReaderInv'
    BY <1>2, <1>4, NoReaderFacts DEF CardInv, ReaderInv
  <1> QED BY <1>1, <1>3, <1>5 DEF CardInv

\* The invariant of the cards.
THEOREM CardInvariant == Spec => []CardInv
  <1>1. Init => CardInv
    BY CardInitInv DEF Init
  <1>2. ASSUME UInv, CardInv, [Next]_vars PROVE CardInv'
    <2>1. CASE card = NoCard /\ UnlockNext /\ UNCHANGED cardVars
      BY <1>2, <2>1, UnlockCardInv
    <2>2. CASE UNCHANGED unlockVars /\ CardNext(keyRing)
      BY <1>2, <2>2, CardNextInv DEF unlockVars
    <2>3. CASE UNCHANGED unlockVars /\ UNCHANGED cardVars
      BY <1>2, <2>3, CardUnchanged DEF unlockVars
    <2> QED BY <1>2, <2>1, <2>2, <2>3 DEF Next, vars
  <1> QED BY <1>1, <1>2, UnlockInvariant, PTL DEF Spec

\* Whatever the text, the account, the signers and the order in which the body is
\* read, the verdict of ContactCard.Read and its reader is right.
THEOREM CardVerdictCorrect == Spec => []CardVerdictRight
  BY CardInvariant, VerdictFromInv, PTL

\* CardTypeOK for every set of texts.
THEOREM CardTypesCorrect == Spec => []CardTypeOK
  <1>1. ASSUME CardInv PROVE CardTypeOK
    <2>1. reader \in Readers /\ reader.pos <= Len(card.text)
      BY <1>1 DEF CardInv, ReaderInv
    <2>2. card.type \in CardTypes \cup {"none"} /\ card.text \in Texts \cup {<<>>}
      BY <1>1 DEF CardInv, MadeInv
    <2>3. Len(card.text) \in Nat
      BY <2>2, TextFacts
    <2>4. reader.pos \in Nat /\ \A m, n \in Nat : m <= n => m \in 0..n
      BY <2>1 DEF Readers
    <2>5. reader.pos \in 0..Len(card.text)
      BY <2>1, <2>3, <2>4, Zenon
    <2>6. /\ reader.pc \in {"none", "open", "eof", "broken", "failed"}
          /\ reader["sigRead"] \in BOOLEAN /\ reader["eof"] \in BOOLEAN
          /\ reader["isSigned"] \in BOOLEAN /\ reader["verified"] \in BOOLEAN
      BY <2>1 DEF Readers
    <2> QED BY <2>2, <2>5, <2>6 DEF CardTypeOK
  <1> QED BY <1>1, CardInvariant, PTL

-----------------------------------------------------------------------------
(* The login                                                               *)

\* The ephemeral of a server that has the verifier.
HonestEphemeral(l) ==
  LET modulus == Atoi(l.modulus)
  IN ((l.hash % modulus) * Exp(Generator, l.registered, modulus)
        + Exp(Generator, l.secret, modulus)) % modulus

\* What AuthInfo leaves behind.
InfoInv ==
  login.pc \in {"info", "proved", "answered"} =>
    /\ Atoi(login.modulus) \in Moduli
    /\ login.typed \in Nat /\ login.registered \in Nat /\ login.secret \in Nat
    /\ login.hash \in Nat
    /\ login.wellFormed => Atoi(login.serverEphemeral) \in Numbers
    /\ login.honest => login.serverEphemeral = Itoa(HonestEphemeral(login), Bits)

\* What generateProofs adds.
ProofsInv ==
  login.pc \in {"proved", "answered"} =>
    Atoi(login.modulus) \in Numbers \ {0} /\ Atoi(login.clientEphemeral) \in Numbers

LoginInv ==
  /\ DOMAIN login = DOMAIN NoLogin
  /\ LoginTypeOK /\ InfoInv /\ ProofsInv /\ SessionsAgree

\* The client recovers the power of the server's secret.
LEMMA Recovers ==
  ASSUME NEW m, m \in Nat \ {0}, NEW w, w \in Int, NEW g, g \in 0..(m - 1)
  PROVE  LET d == ((w + g) % m) - (w % m)
         IN g = IF d < 0 THEN d + m ELSE d
  <1> DEFINE d == ((w + g) % m) - (w % m)
  <1> DEFINE r == w % m
  <1>1. r \in 0..(m - 1)
    BY DivMod
  <1>2. (w + g) % m = (r + g) % m
    <2>1. g \in Int
      OBVIOUS
    <2> QED BY <2>1, ModAdd, Zenon
  <1> HIDE DEF r
  <1>3. d = ((r + g) % m) - r
    BY <1>2 DEF r
  <1>4. CASE r + g < m
    <2>1. r + g \in 0..(m - 1)
      BY <1>1, <1>4
    <2>2. (r + g) % m = r + g
      BY <2>1, ModSmall
    <2> QED BY <1>1, <1>3, <2>2
  <1>5. CASE r + g >= m
    <2>1. (r + g) - m \in 0..(m - 1) /\ r + g = m * 1 + ((r + g) - m)
      BY <1>1, <1>5
    <2>2. (r + g) % m = (r + g) - m
      <3> DEFINE c == (r + g) - m
      <3>1. c \in 0..(m - 1) /\ r + g = m * 1 + c /\ 1 \in Int
        BY <2>1
      <3> HIDE DEF c
      <3>2. (m * 1 + c) % m = c
        BY <3>1, ModUnique, Zenon
      <3>3. (r + g) % m = c
        BY <3>1, <3>2
      <3> QED BY <3>3 DEF c
    <2> QED BY <1>1, <1>3, <2>2
  <1> QED BY <1>1, <1>4, <1>5

\* Both sides raise 2 to the secrets' product with the same exponent, modulo
\* m - 1: here a prime modulus is needed.
LEMMA SamePower ==
  ASSUME NEW m \in Nat, m > 2, Prime(m),
         NEW x \in Nat, NEW a \in Nat, NEW u \in Nat, NEW s \in Nat
  PROVE  Exp(Exp(2, s, m), (u * x + a) % (m - 1), m)
           = Exp(Exp(2, a, m) * Exp(Exp(2, x, m), u, m), s, m)
  <1> DEFINE n == u * x + a
             e == n % (m - 1)
             b == Exp(2, a, m) * Exp(Exp(2, x, m), u, m)
  <1>1. m \in Nat \ {0} /\ m - 1 \in Nat \ {0} /\ n \in Nat /\ x * u \in Nat /\ a + x * u = n
    OBVIOUS
  <1>2. e \in Nat
    <2>1. e \in 0..((m - 1) - 1)
      <3>1. n \in Int
        BY <1>1
      <3> QED BY <1>1, <3>1, DivMod, Zenon
    <2> QED BY <1>1, <2>1
  <1> HIDE DEF n, e
  <1>3. Exp(Exp(2, x, m), u, m) = Exp(2, x * u, m)
    BY <1>1, ExpMul
  <1>4. b % m = Exp(2, n, m)
    <2> DEFINE y == x * u
    <2>1. y \in Nat /\ a + y = n /\ 2 \in Nat
      BY <1>1
    <2>2. b = Exp(2, a, m) * Exp(2, y, m)
      BY <1>3
    <2> HIDE DEF y
    <2>3. Exp(2, a + y, m) = (Exp(2, a, m) * Exp(2, y, m)) % m
      BY <1>1, <2>1, ExpAdd
    <2> QED BY <2>1, <2>2, <2>3
  <1>5. Exp(2, n, m) = Exp(2, e, m)
    BY <1>1, ExpReduce DEF e
  <1>6. b \in Nat
    <2>1. Exp(2, a, m) \in 0..(m - 1) /\ Exp(2, x * u, m) \in 0..(m - 1)
      BY <1>1, ExpType
    <2>2. \A y, z \in 0..(m - 1) : y * z \in Nat
      BY <1>1
    <2> QED BY <1>3, <2>1, <2>2
  <1> HIDE DEF b
  <1>7. Exp(b, s, m) = Exp(Exp(2, e, m), s, m)
    BY <1>1, <1>4, <1>5, <1>6, ExpBase
  <1>8. Exp(Exp(2, e, m), s, m) = Exp(Exp(2, s, m), e, m)
    BY <1>1, <1>2, ExpSwap
  <1>9. Exp(Exp(2, s, m), e, m) = Exp(b, s, m)
    BY <1>7, <1>8
  <1> QED BY <1>9 DEF b, e, n

\* The powers of two that bound the numbers.
LEMMA Bounds ==
  /\ Bits \in Nat /\ Bits + 1 \in Nat /\ 2^Bits \in Nat \ {0} /\ 2^(Bits + 1) = 2 * 2^Bits
  /\ 0 \in Numbers /\ Numbers \subseteq Nat
  /\ \A m \in Moduli : m \in Nat \ {0} /\ m < 2^(Bits + 1) /\ Prime(m)
  <1>1. Bits \in Nat /\ Bits + 1 \in Nat
    BY SRPAssumption
  <1>2. 2^Bits \in Nat \ {0} /\ 2^(Bits + 1) = 2 * 2^Bits
    BY <1>1, PowerOfTwo
  <1>3. 0 \in Numbers /\ Numbers \subseteq Nat
    BY <1>2 DEF Numbers
  <1>4. \A m \in Moduli : m \in Nat \ {0} /\ m < 2^(Bits + 1)
    BY <1>2, SRPAssumption
  <1>5. \A m \in Moduli : Prime(m)
    BY PrimeAssumption DEF Prime
  <1> QED BY <1>1, <1>2, <1>3, <1>4, <1>5

\* No handshake is under way.
LEMMA NoHandshakeInv ==
  ASSUME login' = NoLogin \/ login' = [NoLogin EXCEPT !.pc = "in"]
  PROVE  LoginInv'
  <1>1. /\ login'.pc \in {"out", "in"} /\ login'.modulus = NoBytes
        /\ login'.session = 0 /\ login'.answer = 0 /\ login'.scrambling = 0
        /\ DOMAIN login' = DOMAIN NoLogin
    BY DEF NoLogin
  <1> QED BY <1>1, Bounds DEF LoginInv, LoginTypeOK, InfoInv, ProofsInv, SessionsAgree

\* The handshake as an answer to AuthInfo leaves it: registered and secret are
\* those of an honest server.
InfoLogin(modulus, hash, typed, registered, secret, wellFormed, honest, ephemeral) ==
  [pc |-> "info", typed |-> typed, registered |-> registered, wellFormed |-> wellFormed,
   modulus |-> modulus, serverEphemeral |-> ephemeral, hash |-> hash, honest |-> honest,
   secret |-> secret, clientEphemeral |-> NoBytes, scrambling |-> 0, session |-> 0,
   answer |-> 0]

\* The fields of the handshake after AuthInfo.
LEMMA InfoFields ==
  ASSUME NEW b, NEW hash, NEW typed, NEW registered, NEW secret, NEW wellFormed, NEW honest,
         NEW ephemeral, NEW r,
         r = InfoLogin(b, hash, typed, registered, secret, wellFormed, honest, ephemeral)
  PROVE  /\ r.pc = "info" /\ r.modulus = b /\ r.hash = hash /\ r.typed = typed
         /\ r.registered = registered /\ r.secret = secret /\ r.wellFormed = wellFormed
         /\ r.honest = honest /\ r.serverEphemeral = ephemeral
         /\ r.session = 0 /\ r.answer = 0 /\ r.scrambling = 0
         /\ DOMAIN r = DOMAIN NoLogin
  <1>1. /\ r.pc = "info" /\ r.modulus = b /\ r.hash = hash /\ r.typed = typed
        /\ r.registered = registered /\ r.secret = secret /\ r.wellFormed = wellFormed
        /\ r.honest = honest /\ r.serverEphemeral = ephemeral
        /\ r.session = 0 /\ r.answer = 0 /\ r.scrambling = 0
    BY DEF InfoLogin
  <1>2. DOMAIN r = DOMAIN NoLogin
    BY DEF InfoLogin, NoLogin
  <1> QED BY <1>1, <1>2

\* AuthInfo.
LEMMA AuthInfoInv ==
  ASSUME NEW m \in Moduli, NEW hash \in Numbers, NEW typed \in Hashed,
         NEW registered \in Hashed, NEW secret \in 1..(m - 2),
         AuthInfo(m, hash, typed, registered, secret)
  PROVE  LoginInv'
  <1> DEFINE b == Itoa(m, Bits + 1)
             ephemeral == Itoa(((hash % m) * Exp(Generator, registered, m)
                                  + Exp(Generator, secret, m)) % m, Bits)
             info == [NoLogin EXCEPT !.pc = "info", !.modulus = b, !.hash = hash,
                                     !.typed = typed, !.registered = registered,
                                     !.wellFormed = TRUE, !.secret = secret]
  <1>0. \/ login' = InfoLogin(b, hash, typed, registered, secret, TRUE, TRUE, ephemeral)
        \/ \E i \in Numbers :
             login' = InfoLogin(b, hash, typed, 0, 0, TRUE, FALSE, Itoa(i, Bits))
        \/ login' = InfoLogin(b, hash, typed, 0, 0, FALSE, FALSE, NoBytes)
    <2>1. \/ login' = [info EXCEPT !.honest = TRUE, !.serverEphemeral = ephemeral]
          \/ \E i \in Numbers : login' = [info EXCEPT !.serverEphemeral = Itoa(i, Bits),
                                                      !.registered = 0, !.secret = 0]
          \/ login' = [info EXCEPT !.wellFormed = FALSE, !.registered = 0, !.secret = 0]
      BY Zenon DEF AuthInfo
    <2> HIDE DEF b, ephemeral
    <2>2. info = InfoLogin(b, hash, typed, registered, secret, TRUE, FALSE, NoBytes)
      <3>1. ASSUME NEW r, r = info
            PROVE  r = InfoLogin(b, hash, typed, registered, secret, TRUE, FALSE, NoBytes)
        BY <3>1 DEF NoLogin, InfoLogin
      <3> HIDE DEF info
      <3> QED BY <3>1, Zenon
    <2> HIDE DEF info
    <2>3. ASSUME NEW e, login' = [info EXCEPT !.honest = TRUE, !.serverEphemeral = e]
          PROVE  login' = InfoLogin(b, hash, typed, registered, secret, TRUE, TRUE, e)
      <3>1. login' = [InfoLogin(b, hash, typed, registered, secret, TRUE, FALSE, NoBytes)
                        EXCEPT !.honest = TRUE, !.serverEphemeral = e]
        BY <2>2, <2>3
      <3> QED BY <3>1 DEF InfoLogin
    <2>4. ASSUME NEW e, login' = [info EXCEPT !.serverEphemeral = e, !.registered = 0, !.secret = 0]
          PROVE  login' = InfoLogin(b, hash, typed, 0, 0, TRUE, FALSE, e)
      <3>1. login' = [InfoLogin(b, hash, typed, registered, secret, TRUE, FALSE, NoBytes)
                        EXCEPT !.serverEphemeral = e, !.registered = 0, !.secret = 0]
        BY <2>2, <2>4
      <3> QED BY <3>1 DEF InfoLogin
    <2>5. ASSUME login' = [info EXCEPT !.wellFormed = FALSE, !.registered = 0, !.secret = 0]
          PROVE  login' = InfoLogin(b, hash, typed, 0, 0, FALSE, FALSE, NoBytes)
      <3>1. login' = [InfoLogin(b, hash, typed, registered, secret, TRUE, FALSE, NoBytes)
                        EXCEPT !.wellFormed = FALSE, !.registered = 0, !.secret = 0]
        BY <2>2, <2>5
      <3> QED BY <3>1 DEF InfoLogin
    <2> QED BY <2>1, <2>3, <2>4, <2>5, Zenon
  <1> HIDE DEF b, ephemeral, info
  <1>a. PICK reg \in {registered, 0}, sec \in {secret, 0}, wellFormed \in BOOLEAN,
             honest \in BOOLEAN,
             e \in {ephemeral, NoBytes} \cup {Itoa(i, Bits) : i \in Numbers} :
          /\ login' = InfoLogin(b, hash, typed, reg, sec, wellFormed, honest, e)
          /\ honest => reg = registered /\ sec = secret /\ e = ephemeral
          /\ wellFormed /\ ~honest => \E i \in Numbers : e = Itoa(i, Bits)
    BY <1>0, Zenon
  <1>b. /\ login'.pc = "info" /\ login'.modulus = b /\ login'.hash = hash
        /\ login'.typed = typed /\ login'.registered = reg /\ login'.secret = sec
        /\ login'.wellFormed = wellFormed /\ login'.honest = honest
        /\ login'.serverEphemeral = e
        /\ login'.session = 0 /\ login'.answer = 0 /\ login'.scrambling = 0
        /\ DOMAIN login' = DOMAIN NoLogin
    BY <1>a, InfoFields
  <1>1. /\ login'.pc = "info" /\ login'.modulus = Itoa(m, Bits + 1) /\ login'.hash = hash
        /\ login'.typed = typed /\ login'.registered \in {registered, 0}
        /\ login'.secret \in {secret, 0}
        /\ login'.session = 0 /\ login'.answer = 0 /\ login'.scrambling = 0
        /\ DOMAIN login' = DOMAIN NoLogin
    BY <1>b, Zenon DEF b
  <1>2. Atoi(login'.modulus) = m
    BY <1>1, Bounds, AtoiOfItoa
  <1>3. typed \in Nat /\ registered \in Nat /\ secret \in Nat /\ hash \in Nat
    BY Bounds, SRPAssumption
  <1>4. login'.honest =>
          /\ login'.registered = registered /\ login'.secret = secret
          /\ login'.serverEphemeral = Itoa(((hash % m) * Exp(Generator, registered, m)
                                              + Exp(Generator, secret, m)) % m, Bits)
    BY <1>a, <1>b, Zenon DEF ephemeral
  <1>5. login'.honest => login'.serverEphemeral = Itoa(HonestEphemeral(login)', Bits)
    BY <1>1, <1>2, <1>4 DEF HonestEphemeral
  <1>6. ASSUME login'.wellFormed PROVE \E i \in Nat : login'.serverEphemeral = Itoa(i, Bits)
    <2>1. CASE login'.honest
      <3> DEFINE g == Exp(Generator, registered, m)
                 h == Exp(Generator, secret, m)
                 k == hash % m
      <3>1. m \in Nat \ {0}
        BY Bounds
      <3>2. g \in 0..(m - 1) /\ h \in 0..(m - 1) /\ k \in 0..(m - 1)
        <4>1. Generator \in Nat /\ hash \in Int
          BY <1>3 DEF Generator
        <4> QED BY <1>3, <3>1, <4>1, ExpType, DivMod, Zenon
      <3> HIDE DEF g, h, k
      <3>3. k * g + h \in Int
        BY <3>2
      <3>4. (k * g + h) % m \in 0..(m - 1)
        BY <3>1, <3>3, DivMod
      <3>5. (k * g + h) % m \in Nat
        BY <3>1, <3>4
      <3> QED BY <1>4, <2>1, <3>5 DEF g, h, k
    <2>2. CASE ~login'.honest
      <3>1. \E i \in Numbers : login'.serverEphemeral = Itoa(i, Bits)
        BY <1>a, <1>b, <1>6, <2>2
      <3> QED BY <3>1, Bounds
    <2> QED BY <2>1, <2>2
  <1>7. login'.wellFormed => Atoi(login'.serverEphemeral) \in Numbers
    BY <1>6, Bounds, AtoiOfItoa DEF Numbers
  <1>8. InfoInv'
    BY <1>1, <1>2, <1>3, <1>5, <1>7 DEF InfoInv
  <1> QED BY <1>1, <1>2, <1>8, Bounds DEF LoginInv, LoginTypeOK, ProofsInv, SessionsAgree

\* srp: what it does not refuse.
LEMMA AcceptedFacts ==
  ASSUME LoginInv, login.pc = "info", ~Refuses(login)
  PROVE  LET m == Atoi(login.modulus)
         IN /\ m \in Moduli /\ m \in Numbers \ {0} /\ m > 3 /\ Prime(m)
            /\ login.wellFormed /\ Atoi(login.serverEphemeral) \in Numbers
  <1> DEFINE m == Atoi(login.modulus)
  <1>1. m \in Moduli /\ login.wellFormed /\ ~OutOfBounds(Generator, m)
    BY DEF LoginInv, InfoInv, Refuses
  <1>2. m \in Nat \ {0} /\ Prime(m)
    BY <1>1, Bounds
  <1>3. m > 3
    BY <1>1, <1>2 DEF OutOfBounds, Generator
  <1>4. m <= 2^Bits - 1
    <2>1. m \in 2^(Bits - 1)..(2^Bits - 1)
      BY DEF Refuses
    <2> QED BY <2>1
  <1>5. Atoi(login.serverEphemeral) \in Numbers
    BY <1>1 DEF LoginInv, InfoInv
  <1> QED BY <1>1, <1>2, <1>3, <1>4, <1>5, Bounds DEF Numbers

\* The session that generateProofs derives is the server's.
LEMMA DerivesSession ==
  ASSUME LoginInv, login.pc = "info", ~Refuses(login), login.honest,
         login.typed = login.registered, NEW a \in Nat, NEW u \in Nat
  PROVE  LET m == Atoi(login.modulus)
         IN Exp(Subtracted(login), Exponent(login, a, u), m)
              = Exp(Exp(Generator, a, m) * Exp(Exp(Generator, login.registered, m), u, m),
                    login.secret, m)
  <1> DEFINE m == Atoi(login.modulus)
             x == login.typed
             s == login.secret
             k == login.hash % m
             v == Exp(2, x, m)
             g == Exp(2, s, m)
             B == HonestEphemeral(login)
  <1>1. m \in Nat \ {0} /\ m > 3 /\ Prime(m) /\ m < 2^Bits
    BY AcceptedFacts, Bounds DEF Numbers
  <1>2. x \in Nat /\ s \in Nat /\ login.hash \in Nat
    BY DEF LoginInv, InfoInv
  <1>3. v \in 0..(m - 1) /\ g \in 0..(m - 1) /\ k \in 0..(m - 1)
    <2>1. 2 \in Nat /\ login.hash \in Int
      BY <1>2
    <2> QED BY <1>1, <1>2, <2>1, ExpType, DivMod, Zenon
  <1>4. B = (k * v + g) % m
    BY DEF HonestEphemeral, Generator
  <1>5. login.serverEphemeral = Itoa(B, Bits)
    BY DEF LoginInv, InfoInv
  <1>6. Subtracted(login) = LET d == Atoi(login.serverEphemeral) - ((v * k) % m)
                            IN IF d < 0 THEN d + m ELSE d
    BY DEF Subtracted, Multiplier, Generator
  <1>7. Exponent(login, a, u) = (u * x + a) % (m - 1)
    BY DEF Exponent
  <1> HIDE DEF m, k, v, g, B
  <1>8. k * v + g \in Int /\ v * k \in Int /\ k * v = v * k
    BY <1>3
  <1>9. B \in 0..(m - 1)
    BY <1>1, <1>4, <1>8, DivMod
  <1>10. Atoi(login.serverEphemeral) = B
    BY <1>1, <1>5, <1>9, Bounds, AtoiOfItoa
  <1>11. Subtracted(login) = g
    <2> DEFINE w == v * k
    <2>1. w \in Int /\ B = (w + g) % m
      BY <1>4, <1>8
    <2>2. Subtracted(login) = LET d == B - (w % m) IN IF d < 0 THEN d + m ELSE d
      BY <1>6, <1>10
    <2> HIDE DEF w
    <2>3. LET d == ((w + g) % m) - (w % m) IN g = IF d < 0 THEN d + m ELSE d
      BY <1>1, <1>3, <2>1, Recovers
    <2> QED BY <2>1, <2>2, <2>3
  <1>12. Exp(g, (u * x + a) % (m - 1), m) = Exp(Exp(2, a, m) * Exp(v, u, m), s, m)
    <2>1. m \in Nat /\ m > 2
      BY <1>1
    <2>2. x \in Nat /\ s \in Nat
      BY <1>2
    <2> HIDE DEF x, s
    <2>3. Exp(Exp(2, s, m), (u * x + a) % (m - 1), m)
            = Exp(Exp(2, a, m) * Exp(Exp(2, x, m), u, m), s, m)
      BY <1>1, <2>1, <2>2, SamePower
    <2> QED BY <2>3 DEF g, v
  <1>13. Exp(Subtracted(login), Exponent(login, a, u), m)
           = Exp(Exp(2, a, m) * Exp(Exp(2, login.registered, m), u, m), login.secret, m)
    BY <1>7, <1>11, <1>12 DEF v
  <1> QED BY <1>13 DEF m, Generator

\* generateProofs.
LEMMA GenerateProofsInv ==
  ASSUME LoginInv, NEW a \in Numbers, NEW u \in Numbers, GenerateProofs(a, u)
  PROVE  LoginInv'
  <1> DEFINE m == Atoi(login.modulus)
             c == Exp(Generator, a, m)
             session == Exp(Subtracted(login), Exponent(login, a, u), m)
  <1>1. /\ login.pc = "info" /\ ~Refuses(login)
        /\ login' = [login EXCEPT !.pc = "proved", !.clientEphemeral = Itoa(c, Bits),
                                  !.scrambling = u, !.session = session]
    BY DEF GenerateProofs
  <1>2. /\ m \in Moduli /\ m \in Numbers \ {0} /\ m > 3 /\ login.wellFormed
        /\ Atoi(login.serverEphemeral) \in Numbers
    BY <1>1, AcceptedFacts
  <1>3. m \in Nat \ {0} /\ m - 1 \in Nat \ {0} /\ a \in Nat /\ u \in Nat
    BY <1>2, Bounds
  <1>4. login.typed \in Nat /\ login.hash \in Nat
    BY <1>1 DEF LoginInv, InfoInv
  <1>5. c \in 0..(m - 1)
    <2>1. Generator \in Nat
      BY DEF Generator
    <2> QED BY <1>3, <2>1, ExpType, Zenon
  <1>6. Subtracted(login) \in Nat
    <2> DEFINE e == Exp(Generator, login.typed, m)
               k == login.hash % m
               b == Atoi(login.serverEphemeral)
               r == (e * k) % m
    <2>1. Subtracted(login) = IF b - r < 0 THEN (b - r) + m ELSE b - r
      BY DEF Subtracted, Multiplier
    <2>2. e \in 0..(m - 1) /\ k \in 0..(m - 1)
      <3>1. Generator \in Nat /\ login.hash \in Int
        BY <1>4 DEF Generator
      <3> QED BY <1>3, <1>4, <3>1, ExpType, DivMod, Zenon
    <2> HIDE DEF e, k
    <2>3. e * k \in Int
      BY <2>2
    <2>4. r \in 0..(m - 1)
      BY <1>3, <2>3, DivMod
    <2>5. b \in Nat
      BY <1>2, Bounds
    <2> HIDE DEF r, b, m
    <2> QED BY <1>3, <2>1, <2>4, <2>5
  <1>7. Exponent(login, a, u) \in Nat
    <2> DEFINE n == u * login.typed + a
    <2>1. Exponent(login, a, u) = n % (m - 1)
      BY DEF Exponent
    <2>2. n \in Int
      BY <1>3, <1>4
    <2> HIDE DEF n
    <2>3. n % (m - 1) \in 0..((m - 1) - 1)
      BY <1>3, <2>2, DivMod
    <2> HIDE DEF m
    <2> QED BY <1>3, <2>1, <2>3
  <1>8. session \in 0..(m - 1)
    BY <1>3, <1>6, <1>7, ExpType
  <1>9. m < 2^Bits
    BY <1>2, Bounds DEF Numbers
  <1>10. c \in Numbers /\ session \in Numbers
    <2> HIDE DEF c, session, m
    <2> QED BY <1>3, <1>5, <1>8, <1>9, Bounds DEF Numbers
  <1>11. Atoi(Itoa(c, Bits)) = c
    BY <1>10, Bounds, AtoiOfItoa DEF Numbers
  <1>12. /\ login'.pc = "proved" /\ login'.clientEphemeral = Itoa(c, Bits)
         /\ login'.scrambling = u /\ login'.session = session
         /\ login'.modulus = login.modulus /\ login'.hash = login.hash
         /\ login'.typed = login.typed /\ login'.registered = login.registered
         /\ login'.secret = login.secret /\ login'.honest = login.honest
         /\ login'.wellFormed = login.wellFormed
         /\ login'.serverEphemeral = login.serverEphemeral /\ login'.answer = login.answer
         /\ DOMAIN login' = DOMAIN NoLogin
    <2> HIDE DEF c, session, m
    <2>1. DOMAIN login = DOMAIN NoLogin
      BY DEF LoginInv
    <2> QED BY <1>1, <2>1 DEF NoLogin
  <1>13. LoginTypeOK'
    <2> HIDE DEF c, session
    <2> QED BY <1>10, <1>12 DEF LoginInv, LoginTypeOK
  <1>14. InfoInv'
    <2>1. HonestEphemeral(login)' = HonestEphemeral(login)
      BY <1>12 DEF HonestEphemeral
    <2> HIDE DEF c, session
    <2> QED BY <1>1, <1>12, <2>1 DEF LoginInv, InfoInv
  <1>15. ProofsInv'
    <2> HIDE DEF c, session
    <2> QED BY <1>2, <1>10, <1>11, <1>12 DEF ProofsInv, m
  <1>16. ASSUME login.honest, login.typed = login.registered
         PROVE  ServerSession(login)' = login'.session
    <2>1. ServerSession(login)'
            = Exp(c * Exp(Exp(Generator, login.registered, m), u, m), login.secret, m)
      <3> HIDE DEF c
      <3> QED BY <1>11, <1>12 DEF ServerSession
    <2>2. session = Exp(c * Exp(Exp(Generator, login.registered, m), u, m), login.secret, m)
      BY <1>1, <1>3, <1>16, DerivesSession
    <2> HIDE DEF c, session, m
    <2> QED BY <1>12, <2>1, <2>2
  <1>17. SessionsAgree'
    <2> HIDE DEF c, session, m
    <2> QED BY <1>12, <1>16 DEF SessionsAgree
  <1> QED BY <1>12, <1>13, <1>14, <1>15, <1>17 DEF LoginInv

\* The server's answer.
LEMMA ServerAnswersInv ==
  ASSUME LoginInv, ServerAnswers
  PROVE  LoginInv'
  <1>1. CASE login' = NoLogin
    BY <1>1, NoHandshakeInv
  <1>2. ASSUME NEW i \in {0, login.session, ServerSession(login)},
               login' = [login EXCEPT !.pc = "answered", !.answer = i]
        PROVE  LoginInv'
    <2>1. login.pc = "proved"
      BY DEF ServerAnswers
    <2>2. /\ login'.pc = "answered" /\ login'.answer = i
          /\ login'.clientEphemeral = login.clientEphemeral
          /\ login'.scrambling = login.scrambling /\ login'.session = login.session
          /\ login'.modulus = login.modulus /\ login'.hash = login.hash
          /\ login'.typed = login.typed /\ login'.registered = login.registered
          /\ login'.secret = login.secret /\ login'.honest = login.honest
          /\ login'.wellFormed = login.wellFormed
          /\ login'.serverEphemeral = login.serverEphemeral
          /\ DOMAIN login' = DOMAIN NoLogin
      BY <1>2 DEF LoginInv, NoLogin
    <2>3. ServerSession(login) \in Numbers
      <3> DEFINE m == Atoi(login.modulus)
                 v == Exp(Generator, login.registered, m)
                 e == Exp(v, login.scrambling, m)
                 c == Atoi(login.clientEphemeral)
      <3>1. m \in Numbers \ {0} /\ c \in Numbers
        BY <2>1 DEF LoginInv, ProofsInv
      <3>2. m \in Nat \ {0} /\ m < 2^Bits /\ c \in Nat
        BY <3>1, Bounds DEF Numbers
      <3>3. /\ login.registered \in Nat /\ login.secret \in Nat /\ login.scrambling \in Nat
            /\ Generator \in Nat
        BY <2>1, Bounds DEF LoginInv, InfoInv, LoginTypeOK, Generator
      <3>4. v \in 0..(m - 1)
        BY <3>2, <3>3, ExpType, Zenon
      <3>5. v \in Nat
        <4> HIDE DEF v, m
        <4> QED BY <3>2, <3>4
      <3>6. e \in 0..(m - 1)
        <4> HIDE DEF v, m
        <4> QED BY <3>2, <3>3, <3>5, ExpType
      <3>7. c * e \in Nat
        <4> HIDE DEF c, e, m
        <4> QED BY <3>2, <3>6
      <3>8. Exp(c * e, login.secret, m) \in 0..(m - 1)
        <4> DEFINE b == c * e
        <4>1. b \in Nat
          BY <3>7
        <4> HIDE DEF b, m
        <4>2. Exp(b, login.secret, m) \in 0..(m - 1)
          BY <3>2, <3>3, <4>1, ExpType
        <4> QED BY <4>2 DEF b
      <3>9. ServerSession(login) = Exp(c * e, login.secret, m)
        BY DEF ServerSession
      <3>10. \A y \in 0..(m - 1) : y \in Numbers
        <4> HIDE DEF m
        <4> QED BY <3>2, Bounds DEF Numbers
      <3> HIDE DEF c, e, m
      <3> QED BY <3>8, <3>9, <3>10
    <2>4. i \in Numbers
      BY <1>2, <2>3, Bounds DEF LoginInv, LoginTypeOK
    <2>5. LoginTypeOK' /\ ProofsInv' /\ SessionsAgree'
      BY <2>1, <2>2, <2>4 DEF LoginInv, LoginTypeOK, ProofsInv, SessionsAgree
    <2>6. HonestEphemeral(login)' = HonestEphemeral(login)
      BY <2>2 DEF HonestEphemeral
    <2>7. InfoInv'
      BY <2>1, <2>2, <2>6 DEF LoginInv, InfoInv
    <2> QED BY <2>2, <2>5, <2>7 DEF LoginInv
  <1> QED BY <1>1, <1>2 DEF ServerAnswers

\* Nobody has logged in.
LEMMA LoginInit0 == LoginInit => LoginInv
  <1> SUFFICES ASSUME LoginInit PROVE LoginInv
    OBVIOUS
  <1>1. /\ login.pc = "out" /\ login.modulus = NoBytes
        /\ login.session = 0 /\ login.answer = 0 /\ login.scrambling = 0
        /\ DOMAIN login = DOMAIN NoLogin
    BY DEF LoginInit, NoLogin
  <1> QED BY <1>1, Bounds DEF LoginInv, LoginTypeOK, InfoInv, ProofsInv, SessionsAgree

\* The rest of the application leaves the handshake alone.
LEMMA LoginUnchanged ==
  ASSUME LoginInv, UNCHANGED loginVars
  PROVE  LoginInv'
  BY DEF loginVars, LoginInv, LoginTypeOK, InfoInv, ProofsInv, SessionsAgree, HonestEphemeral,
         ServerSession

\* Every step of Auth and of the server keeps the invariant.
LEMMA LoginStep ==
  ASSUME LoginInv, LoginNext
  PROVE  LoginInv'
  <1>1. CASE \E m \in Moduli, hash \in Numbers, typed \in Hashed, registered \in Hashed :
               \E secret \in 1..(m - 2) : AuthInfo(m, hash, typed, registered, secret)
    BY <1>1, AuthInfoInv
  <1>2. CASE SRPFails
    BY <1>2, NoHandshakeInv DEF SRPFails
  <1>3. CASE \E clientSecret \in Numbers, scrambling \in Numbers :
               GenerateProofs(clientSecret, scrambling)
    BY <1>3, GenerateProofsInv
  <1>4. CASE ServerAnswers
    BY <1>4, ServerAnswersInv
  <1>5. CASE VerifyServerProof
    BY <1>5, NoHandshakeInv DEF VerifyServerProof
  <1> QED BY <1>1, <1>2, <1>3, <1>4, <1>5 DEF LoginNext

\* The invariant of the login: the handshake is Auth's alone.
THEOREM LoginInvariant == Spec => []LoginInv
  <1>1. Init => LoginInv
    BY LoginInit0 DEF Init
  <1>2. ASSUME LoginInv, [Next]_vars PROVE LoginInv'
    <2>1. LoginNext \/ UNCHANGED loginVars
      BY <1>2 DEF Next, vars
    <2> QED BY <1>2, <2>1, LoginStep, LoginUnchanged
  <1> QED BY <1>1, <1>2, PTL DEF Spec

\* For every length of modulus, every prime modulus, every secret, hash value and
\* password: generateProofs (srp.go) derives the session of a server that has the
\* verifier of the typed password, so the right password is never refused.
THEOREM SessionsAgreeCorrect == Spec => []SessionsAgree
  <1>1. LoginInv => SessionsAgree
    BY DEF LoginInv
  <1> QED BY <1>1, LoginInvariant, PTL

-----------------------------------------------------------------------------
\* Every variable of the login, the key ring, the packages and the cards has its
\* type, for every value of the constants.
THEOREM TypesCorrect == Spec => []TypeOK
  <1>1. LoginInv => LoginTypeOK
    BY DEF LoginInv
  <1> QED BY <1>1, LoginInvariant, UnlockTypesCorrect, PackageTypesCorrect, CardTypesCorrect,
             PTL DEF TypeOK
=============================================================================
