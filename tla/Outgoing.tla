------------------------------ MODULE Outgoing ------------------------------
(***************************************************************************)
(* What an application does with its password and its keys: it logs in;    *)
(* Unlock fills the Client's key ring; then the application composes a     *)
(* message, signs it with a key of the ring, or with one that was never    *)
(* unlocked, and adds the recipients; or it writes and reads contact cards *)
(* with the ring.                                                          *)
(***************************************************************************)
EXTENDS SRP, KeyUnlock, PackageSet, ContactCards

vars == <<loginVars, unlockVars, packageVars, cardVars>>

Init == LoginInit /\ UnlockInit /\ PackageInit /\ CardInit

Composing == made \/ attKey # 0

\* One goroutine: it logs in, then unlocks its keys.  Composing a message and
\* handling a card share nothing but the ring, so a behaviour does one or the
\* other.
Next ==
  \/ login.pc # "in" /\ LoginNext /\ UNCHANGED <<unlockVars, packageVars, cardVars>>
  \/ /\ login.pc = "in" /\ ~Composing /\ card = NoCard
     /\ UnlockNext
     /\ UNCHANGED <<loginVars, packageVars, cardVars>>
  \/ /\ login.pc = "in" /\ upc = "idle" /\ card = NoCard
     /\ PackageNext(keyRing \cup Recipients)
     /\ UNCHANGED <<loginVars, unlockVars, cardVars>>
  \/ /\ login.pc = "in" /\ upc = "idle" /\ ~Composing
     /\ CardNext(keyRing)
     /\ UNCHANGED <<loginVars, unlockVars, packageVars>>

Spec == Init /\ [][Next]_vars

-----------------------------------------------------------------------------
\* Every variable of the four components has its type.
TypeOK == LoginTypeOK /\ UnlockTypeOK /\ PackageTypeOK /\ CardTypeOK

\* The verdict on a contact card's signature (ContactCard.Read and its reader) is
\* right, with the ring of Unlock.
CardVerdictRight == VerdictRight(keyRing)
=============================================================================
