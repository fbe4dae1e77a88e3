------------------------------ MODULE Account -------------------------------
(***************************************************************************)
(* What an application may rely on about the credentials of its Client,    *)
(* whatever requests, retries and callbacks go on inside: it is out, in a  *)
(* session with a token, or in a session whose token was given up; within  *)
(* a session tokens only get newer, also across a time without a token, in *)
(* another session or out; keys are there only within a session and go     *)
(* only when the session is left.                                          *)
(***************************************************************************)
EXTENDS Naturals

CONSTANTS Sessions, NoSession, MaxGen

VARIABLES
  uid, token, unlocked,
  newest   \* for each session a generation: no older token of it is taken up again

vars == <<uid, token, unlocked, newest>>

NoToken == [sid |-> NoSession, gen |-> 0]

Init ==
  /\ uid = NoSession /\ token = NoToken /\ unlocked = FALSE
  /\ newest = [s \in Sessions |-> 0]

\* newest rises, or stays as it is, in every session.
Grows ==
  /\ newest' \in [Sessions -> 0..MaxGen]
  /\ \A s \in Sessions : newest[s] <= newest'[s]

\* Take up a session, or a token of the present one: never a token older than
\* one that was taken up in the same session before.
Adopt ==
  \E s \in Sessions, g \in 1..MaxGen :
    /\ newest[s] <= g
    /\ newest'[s] = g /\ Grows
    /\ uid' = s /\ token' = [sid |-> s, gen |-> g]
    /\ UNCHANGED unlocked

\* Newer tokens are issued, the one in use stays.
Renew == Grows /\ UNCHANGED <<uid, token, unlocked>>

\* Give up the token and stay in the session.
Suspend ==
  /\ token' = NoToken
  /\ UNCHANGED <<uid, unlocked, newest>>

UnlockKeys ==
  /\ uid # NoSession
  /\ unlocked' = TRUE
  /\ UNCHANGED <<uid, token, newest>>

Leave ==
  /\ uid' = NoSession /\ token' = NoToken /\ unlocked' = FALSE
  /\ UNCHANGED newest

Next == Adopt \/ Renew \/ Suspend \/ UnlockKeys \/ Leave

Spec == Init /\ [][Next]_vars
=============================================================================
