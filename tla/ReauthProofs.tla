---------------------------- MODULE ReauthProofs ----------------------------
(***************************************************************************)
(* What Session promises about re-authentication and about the calls of    *)
(* the application: how a rejection is reported, that no token is rejected *)
(* twice, that no usable token is dropped, that Logout ends the session,   *)
(* and that the Client's credentials implement Account.                    *)
(*                                                                         *)
(* Each promise is proved from the invariant of SessionProofs and a small  *)
(* one of its own.  Some hold only for callbacks that behave: the theorem  *)
(* then names the condition on the callback's script.                      *)
(***************************************************************************)
EXTENDS SessionProofs

ScriptOps == {Script[i] : i \in 1..Len(Script)}

-----------------------------------------------------------------------------
(* How the three kinds of steps change the stack                           *)

\* A call pushes a request that carries the Client's token.
LEMMA PushFacts ==
  ASSUME Inv, NEW op \in Ops, NEW step \in 1..2, Begin(op, step)
  PROVE  /\ depth' = depth + 1 /\ depth \in 0..MaxDepth /\ depth' \in 1..MaxDepth
         /\ \A i \in 1..depth : frame'[i] = frame[i]
         /\ Top' = frame'[depth']
         /\ Top'.op = op /\ Top'.step = step /\ Top'.pc = "send" /\ Top'.tok = accessToken'
         /\ Top'.cb = 0 /\ (op = "AuthRefresh" => Top'.uid = saved.sid)
         /\ op \in {"AuthRefresh", "Unlock"} =>
              saved \in Tokens /\ Top'.arg = saved /\ saved.sid \in Sessions
         /\ op = "Unlock" => uid' = saved.sid /\ accessToken' = saved
         /\ op # "Unlock" => uid' = uid /\ accessToken' = accessToken
         /\ UNCHANGED <<keyRing, cur, expired, revoked, saved>>
  <1> DEFINE arg == IF op \in {"AuthRefresh", "Unlock"} THEN saved ELSE NoToken
             u   == IF op = "Unlock" THEN saved.sid ELSE uid
             t   == IF op = "Unlock" THEN saved ELSE accessToken
             g   == NewRequest(op, step, arg, u, t)
  <1>1. /\ depth < MaxDepth
        /\ uid' = u /\ accessToken' = t /\ depth' = depth + 1
        /\ frame' = [frame EXCEPT ![depth + 1] = g]
        /\ UNCHANGED <<keyRing, cur, expired, revoked, saved>>
        /\ op \in {"AuthRefresh", "Unlock"} => saved # NoToken
    BY DEF Begin, serverVars
  <1>2. /\ arg \in Token0 /\ u \in Uid0 /\ t \in Token0
        /\ op \in {"AuthRefresh", "Unlock"} => saved \in Tokens /\ saved.sid \in Sessions
        /\ op \in {"AuthRefresh", "Unlock"} => arg \in Tokens /\ arg.sid \in proven
        /\ t # NoToken => u = t.sid
        /\ op = "AuthRefresh" /\ t # NoToken => arg.sid = t.sid
    BY <1>1, TokenFacts DEF Inv, TypeOK, CredentialsOK
  <1>3. g.tok = t
    <2> HIDE DEF arg, u, t
    <2> QED BY <1>2, NewRequestOK
  <1>4. /\ g.op = op /\ g.step = step /\ g.pc = "send" /\ g.arg = arg /\ g.cb = 0
        /\ op = "AuthRefresh" => g.uid = saved.sid
    BY DEF NewRequest, Idle
  <1>5. /\ depth \in 0..MaxDepth /\ depth + 1 \in 1..MaxDepth
        /\ \A i \in 1..depth : i \in 1..MaxDepth /\ i # depth + 1
        /\ frame \in [1..MaxDepth -> Frames]
    BY <1>1, BoundsAssumption DEF Inv, TypeOK
  <1> HIDE DEF g
  <1>6. Top' = frame'[depth'] /\ frame'[depth'] = g /\ \A i \in 1..depth : frame'[i] = frame[i]
    BY <1>1, <1>5 DEF Top
  <1> QED BY <1>1, <1>2, <1>3, <1>4, <1>5, <1>6

\* A step within a call changes the top frame only.
LEMMA ReplaceFacts ==
  ASSUME Inv, depth > 0, NEW g, frame' = [frame EXCEPT ![depth] = g], UNCHANGED depth
  PROVE  /\ depth \in 1..MaxDepth /\ Top' = frame'[depth] /\ Top' = g
         /\ \A i \in 1..(depth - 1) : i \in 1..depth /\ frame'[i] = frame[i]
  <1>1. /\ depth \in 1..MaxDepth /\ frame \in [1..MaxDepth -> Frames]
        /\ \A i \in 1..(depth - 1) : i \in 1..depth /\ i \in 1..MaxDepth /\ i # depth
    BY BoundsAssumption DEF Inv, TypeOK
  <1> QED BY <1>1 DEF Top

\* A return uncovers the frame below, which learns how the call ended.
LEMMA PopFacts ==
  ASSUME Inv, depth > 0, NEW err, Return(err)
  PROVE  /\ depth' = depth - 1 /\ depth \in 1..MaxDepth
         /\ \A i \in 1..(depth - 2) : frame'[i] = frame[i]
         /\ \A i \in 1..(depth - 1) :
              /\ frame'[i].op = frame[i].op /\ frame'[i].step = frame[i].step
              /\ frame'[i].pc = frame[i].pc /\ frame'[i].tok = frame[i].tok
              /\ frame'[i].arg = frame[i].arg /\ frame'[i].uid = frame[i].uid
              /\ frame[i].pc = "reauth" /\ frame[i].err = Nil
         /\ depth > 1 => frame'[depth - 1].cb = frame[depth - 1].cb + 1 /\ Top'.err = err
         /\ depth > 1 => Top' = frame'[depth - 1]
  <1>1. /\ depth \in 1..MaxDepth /\ frame \in [1..MaxDepth -> Frames]
        /\ depth' = depth - 1 /\ frame' = Popped(depth, frame, err)
    BY BoundsAssumption DEF Inv, TypeOK, Return
  <1>2. \A i \in 1..(depth - 1) : i \in 1..MaxDepth /\ i # depth /\ i \in 1..depth /\ i < depth
    BY <1>1, BoundsAssumption
  <1>3. \A i \in 1..(depth - 1) : frame[i].pc = "reauth" /\ frame[i].err = Nil
    BY <1>2 DEF Inv, StackOK
  <1>4. \A i \in 1..(depth - 2) : i \in 1..(depth - 1) /\ i # depth - 1
    BY <1>1
  <1>5. \A i \in 1..(depth - 2) : frame'[i] = frame[i]
    BY <1>1, <1>2, <1>4 DEF Popped
  <1>6. ASSUME depth > 1
        PROVE  LET f == frame[depth - 1]
                   g == frame'[depth - 1]
               IN /\ g.op = f.op /\ g.step = f.step /\ g.pc = f.pc /\ g.tok = f.tok
                  /\ g.arg = f.arg /\ g.uid = f.uid /\ g.cb = f.cb + 1 /\ g.err = err
    <2>1. depth - 1 \in 1..(depth - 1) /\ depth - 1 \in 1..MaxDepth
      BY <1>1, <1>6, BoundsAssumption
    <2>2. frame'[depth - 1] = [frame[depth - 1] EXCEPT !.cb = @ + 1, !.err = err]
      BY <1>1, <1>2, <2>1 DEF Popped
    <2>3. frame[depth - 1] \in Frames
      BY <1>1, <2>1
    <2> QED BY <2>2, <2>3 DEF Frames
  <1>7. \A i \in 1..(depth - 1) : (i = depth - 1 /\ depth > 1) \/ i \in 1..(depth - 2)
    BY <1>1
  <1>8. depth > 1 => Top' = frame'[depth - 1]
    BY <1>1 DEF Top
  <1> QED BY <1>1, <1>3, <1>5, <1>6, <1>7, <1>8

-----------------------------------------------------------------------------
(* The kinds of steps                                                      *)

\* An operation that has its response returns err.
Ends(err) ==
  /\ depth > 0 /\ Top.pc = "got" /\ ~Retries(Top)
  /\ Return(err)
  /\ Failure(Top) # Nil => err = Failure(Top)
  /\ UNCHANGED serverVars

EndsLogin ==
  /\ Ends(Nil) /\ Failure(Top) = Nil /\ IsLogin(Top)
  /\ uid' = Top.auth.sid /\ accessToken' = Top.auth /\ saved' = Top.auth
  /\ UNCHANGED keyRing

EndsRefresh ==
  /\ Ends(Nil) /\ Failure(Top) = Nil /\ Top.op = "AuthRefresh"
  /\ saved' = Top.auth
  /\ UNCHANGED <<uid, accessToken, keyRing>>

EndsLogout ==
  /\ Ends(Nil) /\ Failure(Top) = Nil /\ Top.op = "Logout"
  /\ uid' = NoSession /\ accessToken' = NoToken /\ keyRing' = FALSE
  /\ UNCHANGED saved

EndsOtherwise(err) ==
  /\ Ends(err)
  /\ err = Nil => Top.op \notin {"Auth", "AuthRefresh", "Logout"}
  /\ UNCHANGED keyRing \/ (Top.op = "Unlock" /\ keyRing' = TRUE)
  /\ UNCHANGED <<uid, accessToken, saved>>

\* An operation that has its response sends its second request.
GoesOn ==
  /\ depth > 0 /\ Top.pc = "got" /\ Failure(Top) = Nil
  /\ Top.op \in {"Auth", "Unlock"}
  /\ \E arg \in Token0 :
       frame' = [frame EXCEPT ![depth] = NewRequest(Top.op, 2, arg, uid, accessToken)]
  /\ UNCHANGED <<uid, accessToken, keyRing, depth, cur, expired, revoked, saved, last>>

\* A step outside the call under way.
Outside ==
  /\ UNCHANGED <<uid, accessToken, keyRing, depth, frame, cur, revoked, saved, last>>
  /\ UNCHANGED expired \/ \E s \in Sessions : Expire(s)

\* The errors of the operations themselves are not nil.
LEMMA PlainNotNil ==
  /\ Plain("decode") # Nil /\ Plain("transport") # Nil /\ Plain("srp") # Nil
  /\ Plain("proof") # Nil /\ Plain("keys") # Nil
  BY DEF Plain, Nil

\* Every step of Session is of one of these kinds.
LEMMA StepKinds ==
  ASSUME Inv, [Next]_vars
  PROVE  \/ \E op \in AppOps, step \in 1..2 : AppCall(op, step)
         \/ \E step \in 1..2 : CallbackCall(step)
         \/ \E r \in Replies, applied \in BOOLEAN, a \in Token0 : Respond(r, applied, a)
         \/ \E applied \in BOOLEAN, a \in Token0 : TransportFail(applied, a)
         \/ StartReauth \/ Retry \/ CallbackFailed
         \/ EndsLogin \/ EndsRefresh \/ EndsLogout \/ \E err : EndsOtherwise(err)
         \/ GoesOn \/ Outside
  <1> USE DEF clientVars, serverVars
  <1>1. UNCHANGED vars => Outside
    BY DEF vars, stackVars, Outside
  <1>2. CloseAttachment => Outside
    BY DEF CloseAttachment, stackVars, Outside
  <1>3. (\E s \in Sessions : Expire(s)) => Outside
    BY DEF Expire, stackVars, Outside
  <1>4. Fail => EndsOtherwise(Failure(Top))
    BY DEF Fail, Got, EndsOtherwise, Ends
  <1>5. FinishPlain => \E err : EndsOtherwise(err)
    <2> SUFFICES ASSUME FinishPlain PROVE \E err : EndsOtherwise(err)
      OBVIOUS
    <2>1. Top.op \notin {"Auth", "AuthRefresh", "Logout"}
      BY DEF FinishPlain, PlainOps, GetOps, PostOps, UploadOps, MessageGets, MessagePosts,
        SendOps, ContactGets, ContactPosts, CalendarGets, AddressGets, LabelGets, UserGets,
        ConversationGets, EventGets, KeyGets, SaltGets, TOTPOps, InfoOps
    <2>2. PICK err : Return(err)
      BY DEF FinishPlain
    <2>3. EndsOtherwise(err)
      BY <2>1, <2>2 DEF FinishPlain, Got, EndsOtherwise, Ends
    <2> QED BY <2>3
  <1>6. FinishDownload => EndsOtherwise(Nil)
    BY DEF FinishDownload, Got, EndsOtherwise, Ends, DownloadOps
  <1>7. FinishAuthInfo => EndsOtherwise(Plain("srp")) \/ GoesOn
    BY PlainNotNil, TokenFacts DEF FinishAuthInfo, Got, EndsOtherwise, Ends, GoesOn
  <1>8. FinishAuth => EndsOtherwise(Plain("proof")) \/ EndsLogin
    BY PlainNotNil DEF FinishAuth, Got, EndsOtherwise, Ends, EndsLogin
  <1>9. FinishRefresh => EndsRefresh
    BY DEF FinishRefresh, Got, Ends, EndsRefresh
  <1>10. FinishUnlockUser => EndsOtherwise(Plain("keys")) \/ GoesOn
    <2> SUFFICES ASSUME FinishUnlockUser PROVE EndsOtherwise(Plain("keys")) \/ GoesOn
      OBVIOUS
    <2>1. Top.arg \in Token0
      BY TopFacts DEF FinishUnlockUser, Got, Frames
    <2> QED BY <2>1, PlainNotNil DEF FinishUnlockUser, Got, EndsOtherwise, Ends, GoesOn
  <1>11. FinishUnlockAddresses => EndsOtherwise(Plain("keys")) \/ EndsOtherwise(Nil)
    BY DEF FinishUnlockAddresses, Got, EndsOtherwise, Ends
  <1>12. FinishLogout => EndsLogout
    BY DEF FinishLogout, Got, Ends, EndsLogout
  <1> QED
    BY <1>1, <1>2, <1>3, <1>4, <1>5, <1>6, <1>7, <1>8, <1>9, <1>10, <1>11, <1>12
    DEF Next, Work
-----------------------------------------------------------------------------
(* How a rejection is reported                                             *)

\* What the application's record of its call says of the stack.
CallInv ==
  /\ last.done <=> depth = 0
  /\ depth > 0 => frame[1].op = last.op
  /\ depth > 1 => last.reauths # 0
  /\ (depth = 1 /\ last.reauths = 0) =>
       /\ Top.pc # "reauth"
       /\ last.rejected => Top.pc = "got" /\ Top.reply.status = StatusUnauthorized
  /\ UnauthorizedReported

\* A 401 is a failure, and errors.Is finds ErrUnauthorized in its error.
LEMMA UnauthorizedFailure ==
  ASSUME NEW f, f.reply \in Replies, f.reply.status = StatusUnauthorized
  PROVE  Failure(f) # Nil /\ ErrorsIs(Failure(f), "ErrUnauthorized")
  <1>1. ~Success(f.reply)
    BY DEF Success, StatusUnauthorized
  <1>2. CASE Failure(f) = HTTPError(401)
    BY <1>2 DEF HTTPError, Nil, ErrorsIs, HTTPErrorIs, StatusUnauthorized
  <1>3. CASE Failure(f) = APIError(f.reply.code, 401)
    <2>1. /\ Failure(f).kind = "api" /\ Failure(f).status = 401
          /\ Nil.kind = "nil"
      BY <1>3 DEF APIError, Nil
    <2>2. Unwrap(Failure(f)) = HTTPError(401)
      BY <2>1 DEF Unwrap
    <2>3. Unwrap(Failure(f)).kind = "http" /\ Unwrap(Failure(f)).status = 401
      BY <2>2 DEF HTTPError
    <2> QED BY <2>1, <2>3 DEF ErrorsIs, HTTPErrorIs, StatusUnauthorized
  <1> QED BY <1>1, <1>2, <1>3 DEF Failure, RawErr, DoJSONErr, StatusUnauthorized

\* A call that returns keeps CallInv if it reports a rejection that it has met.
LEMMA ReturnCallInv ==
  ASSUME Inv, CallInv, depth > 0, NEW err, Return(err),
         (depth = 1 /\ last.rejected /\ last.reauths = 0) => ErrorsIs(err, "ErrUnauthorized")
  PROVE  CallInv'
  <1>1. /\ depth' = depth - 1 /\ depth \in 1..MaxDepth
        /\ \A i \in 1..(depth - 1) : frame'[i].op = frame[i].op
        /\ depth > 1 => Top' = frame'[depth - 1] /\ depth - 1 \in 1..(depth - 1)
    BY PopFacts, BoundsAssumption
  <1>2. last \in Calls
    BY DEF Inv, TypeOK
  <1>3. CASE depth = 1
    <2>1. last' = [last EXCEPT !.done = TRUE, !.err = err]
      BY <1>3 DEF Return
    <2>2. /\ last'.done /\ last'.err = err /\ last'.rejected = last.rejected
          /\ last'.reauths = last.reauths
      BY <1>2, <2>1 DEF Calls
    <2> QED BY <1>1, <1>3, <2>2 DEF CallInv, UnauthorizedReported
  <1>4. CASE depth > 1
    <2>1. last' = last /\ ~last.done /\ last.reauths # 0 /\ depth' > 0 /\ 1 \in 1..(depth - 1)
      BY <1>1, <1>4 DEF Return, CallInv
    <2> QED BY <1>1, <1>4, <2>1 DEF CallInv, UnauthorizedReported
  <1> QED BY <1>1, <1>3, <1>4, BoundsAssumption

\* Every step keeps CallInv.
LEMMA NextCallInv == ASSUME Inv, CallInv, [Next]_vars PROVE CallInv'
  <1> USE DEF CallInv
  <1>0. last \in Calls /\ depth \in 0..MaxDepth /\ MaxDepth \in Nat
    BY BoundsAssumption DEF Inv, TypeOK
  <1>1. ASSUME NEW op \in AppOps, NEW step \in 1..2, AppCall(op, step) PROVE CallInv'
    <2>1. op \in Ops /\ Begin(op, step) /\ depth = 0
      BY <1>1, ScriptAssumption DEF AppCall
    <2>2. depth' = 1 /\ Top' = frame'[1] /\ Top'.op = op /\ Top'.pc = "send"
      BY <2>1, PushFacts
    <2>3. last' = [NoCall EXCEPT !.done = FALSE, !.op = op, !.uid = uid, !.tok = accessToken]
      BY <1>1 DEF AppCall
    <2>4. last'.done = FALSE /\ last'.op = op /\ last'.rejected = FALSE
      BY <2>3 DEF NoCall
    <2> QED BY <2>2, <2>4 DEF UnauthorizedReported
  <1>2. ASSUME NEW step \in 1..2, CallbackCall(step) PROVE CallInv'
    <2>1. Script[Top.cb + 1] \in Ops
      <3>1. Top.cb \in Nat /\ Top.cb + 1 \in 1..Len(Script)
        BY <1>2, TopFacts, ScriptAssumption DEF Frames, CallbackCall
      <3> QED BY <3>1, ScriptAssumption
    <2>2. /\ depth > 0 /\ Top.pc = "reauth" /\ last' = last
          /\ Begin(Script[Top.cb + 1], step)
      BY <1>2 DEF CallbackCall
    <2>3. depth' = depth + 1 /\ \A i \in 1..depth : frame'[i] = frame[i]
      BY <2>1, <2>2, PushFacts
    <2>4. frame'[1] = frame[1] /\ depth' > 1 /\ last.reauths # 0
      BY <1>0, <2>2, <2>3
    <2> QED BY <1>0, <2>2, <2>3, <2>4 DEF UnauthorizedReported
  <1>3. ASSUME NEW r \in Replies, NEW applied \in BOOLEAN, NEW a \in Token0,
               Respond(r, applied, a)
        PROVE  CallInv'
    <2> DEFINE g == Answered(Top, r, applied, a)
    <2>1. /\ depth > 0 /\ depth' = depth /\ frame' = [frame EXCEPT ![depth] = g]
          /\ last' = IF depth = 1
                     THEN [last EXCEPT !.rejected = (r.status = StatusUnauthorized)] ELSE last
      BY <1>3 DEF Respond
    <2>2. g.op = Top.op /\ g.pc = "got" /\ g.reply = r
      <3>1. Top \in Frames /\ Top.applied = 0
        BY <1>3, TopFacts DEF FrameOK, Respond
      <3> QED BY <3>1, AnsweredFacts
    <2> HIDE DEF g
    <2>3. Top' = g /\ Top' = frame'[depth] /\ \A i \in 1..(depth - 1) : frame'[i] = frame[i]
      BY <2>1, ReplaceFacts
    <2>4. frame'[1].op = frame[1].op
      BY <1>0, <2>1, <2>2, <2>3 DEF Top
    <2>5. /\ last'.done = last.done /\ last'.op = last.op /\ last'.reauths = last.reauths
          /\ depth = 1 => last'.rejected = (r.status = StatusUnauthorized)
      BY <1>0, <2>1 DEF Calls
    <2> QED BY <1>0, <2>1, <2>2, <2>3, <2>4, <2>5 DEF UnauthorizedReported
  <1>4. ASSUME NEW applied \in BOOLEAN, NEW a \in Token0, TransportFail(applied, a)
        PROVE  CallInv'
    <2>1. depth > 0 /\ Top.pc = "send" /\ Return(Plain("transport"))
      BY <1>4 DEF TransportFail
    <2> QED BY <2>1, ReturnCallInv
  <1>5. ASSUME StartReauth PROVE CallInv'
    <2> DEFINE g == Waiting(Top)
               n == IF last.reauths < 2 THEN last.reauths + 1 ELSE 2
    <2>1. /\ depth > 0 /\ depth' = depth /\ frame' = [frame EXCEPT ![depth] = g]
          /\ last' = IF depth = 1 THEN [last EXCEPT !.reauths = n] ELSE last
      BY <1>0, <1>5 DEF StartReauth, Calls
    <2>2. g.op = Top.op
      BY <2>1, TopFacts DEF Waiting, Frames
    <2>3. n # 0
      BY <1>0 DEF Calls
    <2> HIDE DEF g, n
    <2>4. Top' = g /\ Top' = frame'[depth] /\ \A i \in 1..(depth - 1) : frame'[i] = frame[i]
      BY <2>1, ReplaceFacts
    <2>5. frame'[1].op = frame[1].op
      BY <1>0, <2>1, <2>2, <2>4 DEF Top
    <2>6. /\ last'.done = last.done /\ last'.op = last.op
          /\ IF depth = 1 THEN last'.reauths = n ELSE last'.reauths = last.reauths
      BY <1>0, <2>1 DEF Calls
    <2>7. last'.reauths # 0
      BY <1>0, <2>1, <2>3, <2>6
    <2> QED BY <1>0, <2>1, <2>5, <2>6, <2>7 DEF UnauthorizedReported
  <1>6. ASSUME Retry PROVE CallInv'
    <2> DEFINE g == RetriedRequest(Top)
    <2>1. /\ depth > 0 /\ depth' = depth /\ frame' = [frame EXCEPT ![depth] = g]
          /\ last' = last /\ Top.pc = "reauth"
      BY <1>6 DEF Retry
    <2>2. g.op = Top.op
      BY <2>1, TopFacts DEF RetriedRequest, Frames
    <2> HIDE DEF g
    <2>4. Top' = g /\ Top' = frame'[depth] /\ \A i \in 1..(depth - 1) : frame'[i] = frame[i]
      BY <2>1, ReplaceFacts
    <2>5. frame'[1].op = frame[1].op
      BY <1>0, <2>1, <2>2, <2>4 DEF Top
    <2> QED BY <1>0, <2>1, <2>5 DEF UnauthorizedReported
  <1>7. ASSUME CallbackFailed PROVE CallInv'
    <2>1. depth > 0 /\ Top.pc = "reauth" /\ Return(Top.err)
      BY <1>7 DEF CallbackFailed
    <2> QED BY <2>1, ReturnCallInv
  <1>8. ASSUME NEW err, Ends(err) PROVE CallInv'
    <2>1. depth > 0 /\ Top.pc = "got" /\ Return(err) /\ (Failure(Top) # Nil => err = Failure(Top))
      BY <1>8 DEF Ends
    <2>2. Top.reply \in Replies
      BY <2>1, TopFacts DEF FrameOK
    <2> QED BY <2>1, <2>2, ReturnCallInv, UnauthorizedFailure
  <1>9. ASSUME GoesOn PROVE CallInv'
    <2>1. depth > 0 /\ Top.pc = "got" /\ Failure(Top) = Nil /\ depth' = depth /\ last' = last
      BY <1>9 DEF GoesOn
    <2>2. PICK arg : frame' = [frame EXCEPT ![depth] = NewRequest(Top.op, 2, arg, uid, accessToken)]
      BY <1>9 DEF GoesOn
    <2> DEFINE g == NewRequest(Top.op, 2, arg, uid, accessToken)
    <2>3. g.op = Top.op /\ g.pc = "send"
      BY DEF NewRequest, Idle
    <2> HIDE DEF g
    <2>4. Top' = g /\ Top' = frame'[depth] /\ \A i \in 1..(depth - 1) : frame'[i] = frame[i]
      BY <2>1, <2>2, ReplaceFacts DEF g
    <2>5. frame'[1].op = frame[1].op
      BY <1>0, <2>1, <2>3, <2>4 DEF Top
    <2>6. Top.reply \in Replies /\ Top.reply.status # StatusUnauthorized
      BY <2>1, TopFacts, UnauthorizedFailure DEF FrameOK
    <2>7. ~(depth = 1 /\ last.reauths = 0 /\ last.rejected)
      BY <2>6
    <2> QED BY <1>0, <2>1, <2>3, <2>4, <2>5, <2>7 DEF UnauthorizedReported
  <1>10. ASSUME Outside PROVE CallInv'
    BY <1>10 DEF Outside, UnauthorizedReported, Top
  <1> QED
    BY <1>1, <1>2, <1>3, <1>4, <1>5, <1>6, <1>7, <1>8, <1>9, <1>10, StepKinds
    DEF EndsLogin, EndsRefresh, EndsLogout, EndsOtherwise

\* A rejection that no callback could mend is reported as ErrUnauthorized, by
\* every operation and for every response, whatever the callback does.
THEOREM RejectionReported == Spec => []UnauthorizedReported
  <1>1. Init => CallInv
    BY DEF Init, CallInv, NoCall, UnauthorizedReported
  <1>2. Inv /\ CallInv /\ [Next]_vars => CallInv'
    BY NextCallInv
  <1>3. CallInv => UnauthorizedReported
    BY DEF CallInv
  <1> QED BY <1>1, <1>2, <1>3, Invariance, PTL DEF Spec

-----------------------------------------------------------------------------
(* What each step within a call does to the top frame                      *)

\* The server's answer.
LEMMA RespondFacts ==
  ASSUME Inv, NEW r \in Replies, NEW applied \in BOOLEAN, NEW a \in Token0,
         Respond(r, applied, a)
  PROVE  /\ depth \in 1..MaxDepth /\ depth' = depth /\ Top.pc = "send"
         /\ \A i \in 1..(depth - 1) : i \in 1..depth /\ frame'[i] = frame[i]
         /\ Top' = frame'[depth] /\ Top = frame[depth]
         /\ Top'.op = Top.op /\ Top'.step = Top.step /\ Top'.uid = Top.uid
         /\ Top'.tok = Top.tok /\ Top'.arg = Top.arg /\ Top'.pc = "got"
         /\ Top'.reply = r /\ Top'.auth = a
         /\ Answers(Top, r, applied) /\ (applied => Accepts(Top))
         /\ a \in Issues(Top, applied) /\ ServerStep(Top, applied, a)
         /\ UNCHANGED <<uid, accessToken, keyRing, saved>>
  <1> DEFINE g == Answered(Top, r, applied, a)
  <1>1. /\ depth > 0 /\ depth' = depth /\ frame' = [frame EXCEPT ![depth] = g]
        /\ Top.pc = "send" /\ Answers(Top, r, applied) /\ (applied => Accepts(Top))
        /\ a \in Issues(Top, applied) /\ ServerStep(Top, applied, a)
        /\ UNCHANGED <<uid, accessToken, keyRing, saved>>
    BY DEF Respond, Answers, clientVars
  <1>2. /\ g.op = Top.op /\ g.step = Top.step /\ g.uid = Top.uid /\ g.tok = Top.tok
        /\ g.arg = Top.arg /\ g.pc = "got" /\ g.reply = r /\ g.auth = a
    <2>1. Top \in Frames /\ Top.applied = 0
      BY <1>1, TopFacts DEF FrameOK
    <2> QED BY <2>1, AnsweredFacts
  <1> HIDE DEF g
  <1>3. /\ depth \in 1..MaxDepth /\ Top' = g /\ Top' = frame'[depth]
        /\ \A i \in 1..(depth - 1) : i \in 1..depth /\ frame'[i] = frame[i]
    BY <1>1, ReplaceFacts
  <1> QED BY <1>1, <1>2, <1>3 DEF Top

\* do's 401 branch.
LEMMA StartReauthFacts ==
  ASSUME Inv, StartReauth
  PROVE  /\ depth \in 1..MaxDepth /\ depth' = depth /\ Top.pc = "got"
         /\ Top.reply \in Replies /\ Top.reply.status = StatusUnauthorized /\ Top.tok # NoToken
         /\ \A i \in 1..(depth - 1) : i \in 1..depth /\ frame'[i] = frame[i]
         /\ Top' = frame'[depth] /\ Top = frame[depth]
         /\ Top'.op = Top.op /\ Top'.tok = Top.tok /\ Top'.arg = Top.arg /\ Top'.uid = Top.uid
         /\ Top'.pc = "reauth" /\ Top'.cb = 0 /\ Top'.err = Nil
         /\ accessToken' = NoToken
         /\ UNCHANGED <<uid, keyRing, cur, expired, revoked, saved>>
  <1> DEFINE g == Waiting(Top)
  <1>1. /\ depth > 0 /\ depth' = depth /\ frame' = [frame EXCEPT ![depth] = g]
        /\ Top.pc = "got" /\ Top.reply.status = StatusUnauthorized /\ Top.tok # NoToken
        /\ accessToken' = NoToken
        /\ UNCHANGED <<uid, keyRing, cur, expired, revoked, saved>>
    BY DEF StartReauth, Retries, serverVars
  <1>2. Top \in Frames /\ Top.reply \in Replies
    BY <1>1, TopFacts DEF FrameOK
  <1>3. /\ g.op = Top.op /\ g.tok = Top.tok /\ g.arg = Top.arg /\ g.uid = Top.uid
        /\ g.pc = "reauth" /\ g.cb = 0 /\ g.err = Nil
    BY <1>2 DEF Waiting, Frames
  <1> HIDE DEF g
  <1>4. /\ depth \in 1..MaxDepth /\ Top' = g /\ Top' = frame'[depth]
        /\ \A i \in 1..(depth - 1) : i \in 1..depth /\ frame'[i] = frame[i]
    BY <1>1, ReplaceFacts
  <1> QED BY <1>1, <1>2, <1>3, <1>4 DEF Top

\* do's retry, with the token that the callback has left in the Client, if any.
LEMMA RetryFacts ==
  ASSUME Inv, Retry
  PROVE  /\ depth \in 1..MaxDepth /\ depth' = depth /\ Top.pc = "reauth" /\ Top.err = Nil
         /\ Top.cb = Len(Script)
         /\ \A i \in 1..(depth - 1) : i \in 1..depth /\ frame'[i] = frame[i]
         /\ Top' = frame'[depth] /\ Top = frame[depth]
         /\ Top'.op = Top.op /\ Top'.arg = Top.arg /\ Top'.pc = "send"
         /\ Top'.tok = IF accessToken # NoToken THEN accessToken ELSE Top.tok
         /\ Top'.uid = IF accessToken # NoToken THEN uid ELSE Top.uid
         /\ UNCHANGED <<uid, accessToken, keyRing, cur, expired, revoked, saved>>
  <1> DEFINE g == RetriedRequest(Top)
  <1>1. /\ depth > 0 /\ depth' = depth /\ frame' = [frame EXCEPT ![depth] = g]
        /\ Top.pc = "reauth" /\ Top.err = Nil /\ Top.cb = Len(Script)
        /\ UNCHANGED <<uid, accessToken, keyRing, cur, expired, revoked, saved>>
    BY DEF Retry, serverVars, clientVars
  <1>2. Top \in Frames
    BY <1>1, TopFacts
  <1>3. HasCredentials(uid, accessToken) <=> accessToken # NoToken
    BY TokenFacts, SessionsAssumption DEF Inv, TypeOK, CredentialsOK, HasCredentials
  <1>4. /\ g.op = Top.op /\ g.arg = Top.arg /\ g.pc = "send"
        /\ g.tok = IF accessToken # NoToken THEN accessToken ELSE Top.tok
        /\ g.uid = IF accessToken # NoToken THEN uid ELSE Top.uid
    BY <1>2, <1>3 DEF RetriedRequest, Frames
  <1> HIDE DEF g
  <1>5. /\ depth \in 1..MaxDepth /\ Top' = g /\ Top' = frame'[depth]
        /\ \A i \in 1..(depth - 1) : i \in 1..depth /\ frame'[i] = frame[i]
    BY <1>1, ReplaceFacts
  <1> QED BY <1>1, <1>4, <1>5 DEF Top

\* The second request of Auth and of Unlock.
LEMMA GoesOnFacts ==
  ASSUME Inv, GoesOn
  PROVE  /\ depth \in 1..MaxDepth /\ depth' = depth /\ Top.pc = "got"
         /\ \A i \in 1..(depth - 1) : i \in 1..depth /\ frame'[i] = frame[i]
         /\ Top' = frame'[depth] /\ Top = frame[depth]
         /\ Top.op \in {"Auth", "Unlock"} /\ Top'.op = Top.op /\ Top'.pc = "send"
         /\ Top'.tok = accessToken
         /\ UNCHANGED <<uid, accessToken, keyRing, cur, expired, revoked, saved>>
  <1>1. /\ depth > 0 /\ Top.pc = "got" /\ depth' = depth /\ Top.op \in {"Auth", "Unlock"}
        /\ UNCHANGED <<uid, accessToken, keyRing, cur, expired, revoked, saved>>
    BY DEF GoesOn
  <1>2. PICK arg : frame' = [frame EXCEPT ![depth] = NewRequest(Top.op, 2, arg, uid, accessToken)]
    BY DEF GoesOn
  <1> DEFINE g == NewRequest(Top.op, 2, arg, uid, accessToken)
  <1>3. HasCredentials(uid, accessToken) <=> accessToken # NoToken
    BY TokenFacts, SessionsAssumption DEF Inv, TypeOK, CredentialsOK, HasCredentials
  <1>4. g.op = Top.op /\ g.pc = "send" /\ g.tok = accessToken
    BY <1>3 DEF NewRequest, Idle
  <1> HIDE DEF g
  <1>5. /\ depth \in 1..MaxDepth /\ Top' = g /\ Top' = frame'[depth]
        /\ \A i \in 1..(depth - 1) : i \in 1..depth /\ frame'[i] = frame[i]
    BY <1>1, <1>2, ReplaceFacts DEF g
  <1> QED BY <1>1, <1>4, <1>5 DEF Top

\* A call of the callback is the next operation of its script.
LEMMA CallbackFacts ==
  ASSUME Inv, NEW step \in 1..2, CallbackCall(step)
  PROVE  /\ depth \in 1..MaxDepth /\ Top.pc = "reauth" /\ Top.err = Nil
         /\ Top = frame[depth]
         /\ Top.cb \in Nat /\ Top.cb + 1 \in 1..Len(Script)
         /\ Script[Top.cb + 1] \in Ops /\ Script[Top.cb + 1] \in ScriptOps
         /\ Begin(Script[Top.cb + 1], step) /\ last' = last
  <1>1. /\ depth > 0 /\ Top.pc = "reauth" /\ Top.err = Nil /\ Top.cb < Len(Script)
        /\ Begin(Script[Top.cb + 1], step) /\ last' = last
    BY DEF CallbackCall
  <1>2. Top.cb \in Nat /\ Top.cb + 1 \in 1..Len(Script)
    BY <1>1, TopFacts, ScriptAssumption DEF Frames
  <1>3. Script[Top.cb + 1] \in Ops /\ Script[Top.cb + 1] \in ScriptOps
    BY <1>2, ScriptAssumption DEF ScriptOps
  <1> QED BY <1>1, <1>2, <1>3, TopFacts

\* Which operations are on the stack: the application's, and above each frame
\* the one that its callback has come to.
OpsInv ==
  \A i \in 1..depth :
    /\ i = 1 => frame[i].op \in AppOps
    /\ i > 1 => frame[i].op = Script[frame[i - 1].cb + 1] /\ frame[i].op \in ScriptOps

\* Every step keeps OpsInv.
LEMMA NextOpsInv == ASSUME Inv, OpsInv, [Next]_vars PROVE OpsInv'
  <1>0. depth \in 0..MaxDepth /\ MaxDepth \in Nat
    BY BoundsAssumption DEF Inv, TypeOK
  <1>1. ASSUME NEW op \in AppOps, NEW step \in 1..2, AppCall(op, step) PROVE OpsInv'
    <2>1. op \in Ops /\ Begin(op, step) /\ depth = 0
      BY <1>1, ScriptAssumption DEF AppCall
    <2>2. depth' = 1 /\ frame'[1].op = op
      BY <2>1, PushFacts
    <2> QED BY <2>2 DEF OpsInv
  <1>2. ASSUME NEW step \in 1..2, CallbackCall(step) PROVE OpsInv'
    <2>1. /\ Begin(Script[Top.cb + 1], step) /\ depth \in 1..MaxDepth /\ Top = frame[depth]
          /\ Script[Top.cb + 1] \in Ops /\ Script[Top.cb + 1] \in ScriptOps
      BY <1>2, CallbackFacts
    <2>2. /\ depth' = depth + 1 /\ \A i \in 1..depth : frame'[i] = frame[i]
          /\ frame'[depth + 1].op = Script[Top.cb + 1]
      BY <2>1, PushFacts
    <2>3. \A i \in 1..depth' : (i = depth + 1 /\ i - 1 = depth /\ i > 1)
                                 \/ (i \in 1..depth /\ (i > 1 => i - 1 \in 1..depth))
      BY <1>0, <2>1, <2>2
    <2>4. depth \in 1..depth
      BY <2>1, <1>0
    <2> QED BY <2>1, <2>2, <2>3, <2>4 DEF OpsInv
  <1>3. ASSUME depth \in 1..MaxDepth, depth' = depth, frame'[depth].op = frame[depth].op,
               \A i \in 1..(depth - 1) : frame'[i] = frame[i]
        PROVE  OpsInv'
    <2>1. \A i \in 1..depth : (i = depth \/ i \in 1..(depth - 1)) /\ (i > 1 => i - 1 \in 1..(depth - 1))
      BY <1>0, <1>3
    <2> QED BY <1>3, <2>1 DEF OpsInv
  <1>4. ASSUME NEW err, depth > 0, Return(err) PROVE OpsInv'
    <2>1. /\ depth' = depth - 1 /\ depth \in 1..MaxDepth
          /\ \A i \in 1..(depth - 2) : frame'[i] = frame[i]
          /\ \A i \in 1..(depth - 1) : frame'[i].op = frame[i].op
      BY <1>4, PopFacts
    <2>2. \A i \in 1..(depth - 1) : i \in 1..depth /\ (i > 1 => i - 1 \in 1..(depth - 2))
      BY <1>0, <2>1
    <2> QED BY <2>1, <2>2 DEF OpsInv
  <1>5. ASSUME NEW r \in Replies, NEW applied \in BOOLEAN, NEW a \in Token0,
               Respond(r, applied, a)
        PROVE  OpsInv'
    BY <1>3, <1>5, RespondFacts
  <1>6. StartReauth \/ Retry \/ GoesOn => OpsInv'
    BY <1>3, StartReauthFacts, RetryFacts, GoesOnFacts
  <1>7. CallbackFailed \/ (\E err : Ends(err)) => OpsInv'
    BY <1>4 DEF CallbackFailed, Ends
  <1>8. (\E applied \in BOOLEAN, a \in Token0 : TransportFail(applied, a)) => OpsInv'
    BY <1>4 DEF TransportFail
  <1>9. Outside => OpsInv'
    BY DEF Outside, OpsInv
  <1> QED
    BY <1>1, <1>2, <1>5, <1>6, <1>7, <1>8, <1>9, StepKinds
    DEF EndsLogin, EndsRefresh, EndsLogout, EndsOtherwise

-----------------------------------------------------------------------------
(* The refinement of Account                                               *)

\* The callback does not log out.
NoLogoutInCallback == "Logout" \notin ScriptOps

\* Unlock sets the UID, and nobody logs out while it is on the stack.
UnlockInv == \A i \in 1..depth : frame[i].op = "Unlock" => uid # NoSession

\* What NewestKnown is in each session, and its bounds.
NewestInv ==
  /\ NewestKnown \in [Sessions -> 0..MaxGen]
  /\ \A s \in Sessions : /\ cur[s] \in Nat /\ NewestKnown[s] \in Nat
                         /\ NewestKnown[s] <= cur[s]
                         /\ saved.sid = s => NewestKnown[s] = saved.gen
                         /\ saved.sid # s => NewestKnown[s] = cur[s]

\* It holds wherever the invariant does.
LEMMA NewestFacts == Inv => NewestInv
  <1> SUFFICES ASSUME Inv PROVE NewestInv
    OBVIOUS
  <1>1. /\ saved.gen \in 0..MaxGen /\ saved.gen \in Nat
        /\ cur \in [Sessions -> 0..MaxGen] /\ \A s \in Sessions : cur[s] \in 0..MaxGen /\ cur[s] \in Nat
    BY TokenFacts, BoundsAssumption DEF Inv, TypeOK
  <1>2. \A s \in Sessions : saved.sid = s => saved.gen <= cur[s]
    BY SessionsAssumption DEF Inv, CredentialsOK, NoToken
  <1>3. \A s \in Sessions : NewestKnown[s] = IF saved.sid = s THEN saved.gen ELSE cur[s]
    BY DEF NewestKnown
  <1>4. NewestKnown \in [Sessions -> 0..MaxGen]
    BY <1>1 DEF NewestKnown
  <1> QED BY <1>1, <1>2, <1>3, <1>4 DEF NewestInv

\* In the next state too.
LEMMA NewestFactsNext == Inv' => NewestInv'
  BY NewestFacts, PTL

\* NewestKnown only grows: as the server issues tokens, and when the application
\* is given one that is the last one issued.
LEMMA NewestGrows ==
  ASSUME Inv, Inv', \A s \in Sessions : cur[s] <= cur'[s],
         UNCHANGED saved \/ (saved' \in Tokens /\ saved'.gen = cur[saved'.sid] /\ UNCHANGED cur)
  PROVE  Abstract!Grows
  <1>1. NewestKnown' \in [Sessions -> 0..MaxGen]
    BY NewestFactsNext DEF NewestInv
  <1>2. ASSUME NEW s \in Sessions PROVE NewestKnown[s] <= NewestKnown'[s]
    <2>1. /\ cur[s] \in Nat /\ NewestKnown[s] \in Nat /\ NewestKnown[s] <= cur[s]
          /\ saved.sid = s => NewestKnown[s] = saved.gen
          /\ saved.sid # s => NewestKnown[s] = cur[s]
      BY NewestFacts DEF NewestInv
    <2>2. /\ cur'[s] \in Nat /\ NewestKnown'[s] \in Nat
          /\ saved'.sid = s => NewestKnown'[s] = saved'.gen
          /\ saved'.sid # s => NewestKnown'[s] = cur'[s]
      BY NewestFactsNext DEF NewestInv
    <2>3. CASE UNCHANGED saved
      BY <2>1, <2>2, <2>3
    <2>4. CASE saved' \in Tokens /\ saved'.gen = cur[saved'.sid] /\ UNCHANGED cur
      BY <2>1, <2>2, <2>4
    <2> QED BY <2>3, <2>4
  <1> QED BY <1>1, <1>2 DEF Abstract!Grows

\* A step that keeps the Client's fields while NewestKnown grows is one of Account.
LEMMA OnlyRenews ==
  ASSUME Abstract!Grows, UNCHANGED <<uid, accessToken, keyRing>> PROVE Abstract!Next
  BY DEF Abstract!Next, Abstract!Renew

\* Every step keeps UnlockInv and is a step of Account or leaves its variables.
LEMMA NextAccount ==
  ASSUME NoLogoutInCallback, Inv, OpsInv, UnlockInv, [Next]_vars
  PROVE  UnlockInv' /\ [Abstract!Next]_(Abstract!vars)
  <1>0. depth \in 0..MaxDepth /\ MaxDepth \in Nat
    BY BoundsAssumption DEF Inv, TypeOK
  <1> Inv'
    BY NextInv
  <1>kept. UNCHANGED <<cur, saved>> => UNCHANGED NewestKnown
    BY DEF NewestKnown
  <1>issued. ASSUME NEW applied \in BOOLEAN, NEW a \in Token0, depth > 0, Top.pc = "send",
                    applied => Accepts(Top), a \in Issues(Top, applied),
                    ServerStep(Top, applied, a), UNCHANGED <<saved, uid, accessToken, keyRing>>
             PROVE  Abstract!Next
    <2>1. \A s \in Sessions : cur[s] <= cur'[s]
      BY <1>issued, ServerFacts
    <2> QED BY <1>issued, <2>1, NewestGrows, OnlyRenews
  <1>1. ASSUME NEW op \in Ops, NEW step \in 1..2, Begin(op, step)
        PROVE  UnlockInv' /\ [Abstract!Next]_(Abstract!vars)
    <2>1. /\ depth' = depth + 1 /\ \A i \in 1..depth : frame'[i] = frame[i]
          /\ frame'[depth + 1].op = op /\ UNCHANGED <<keyRing, NewestKnown>>
          /\ op = "Unlock" => /\ saved \in Tokens /\ saved.sid \in Sessions
                              /\ uid' = saved.sid /\ accessToken' = saved
          /\ op # "Unlock" => uid' = uid /\ accessToken' = accessToken
      BY <1>1, <1>kept, PushFacts
    <2>2. \A i \in 1..depth' : i = depth + 1 \/ i \in 1..depth
      BY <1>0, <2>1
    <2>3. UnlockInv'
      BY <2>1, <2>2, SessionsAssumption DEF UnlockInv
    <2>4. CASE op = "Unlock"
      <3>1. saved = [sid |-> saved.sid, gen |-> saved.gen] /\ saved.gen \in 1..MaxGen
        BY <2>1, <2>4 DEF Tokens
      <3>2. /\ NewestKnown[saved.sid] = saved.gen /\ NewestKnown'[saved.sid] = saved.gen
            /\ saved.gen \in Nat
        BY <2>1, <2>4, NewestFacts DEF NewestInv
      <3>3. Abstract!Grows
        BY <2>1, NewestFacts DEF NewestInv, Abstract!Grows
      <3>4. Abstract!Adopt
        BY <2>1, <2>4, <3>1, <3>2, <3>3 DEF Abstract!Adopt
      <3> QED BY <2>3, <3>4 DEF Abstract!Next
    <2>5. CASE op # "Unlock"
      BY <2>1, <2>3, <2>5 DEF Abstract!vars
    <2> QED BY <2>4, <2>5
  <1>2. ASSUME depth \in 1..MaxDepth, depth' = depth, frame'[depth].op = frame[depth].op,
               \A i \in 1..(depth - 1) : frame'[i] = frame[i], UNCHANGED uid
        PROVE  UnlockInv'
    <2>1. \A i \in 1..depth : i = depth \/ i \in 1..(depth - 1)
      BY <1>0, <1>2
    <2> QED BY <1>2, <2>1 DEF UnlockInv
  <1>3. ASSUME NEW err, depth > 0, Return(err), UNCHANGED uid \/ uid' # NoSession PROVE UnlockInv'
    <2>1. /\ depth' = depth - 1 /\ depth \in 1..MaxDepth
          /\ \A i \in 1..(depth - 1) : frame'[i].op = frame[i].op
      BY <1>3, PopFacts
    <2>2. \A i \in 1..(depth - 1) : i \in 1..depth
      BY <1>0, <2>1
    <2> QED BY <1>3, <2>1, <2>2 DEF UnlockInv
  <1>4. ASSUME NEW op \in AppOps, NEW step \in 1..2, AppCall(op, step)
        PROVE  UnlockInv' /\ [Abstract!Next]_(Abstract!vars)
    BY <1>1, <1>4, ScriptAssumption DEF AppCall
  <1>5. ASSUME NEW step \in 1..2, CallbackCall(step)
        PROVE  UnlockInv' /\ [Abstract!Next]_(Abstract!vars)
    BY <1>1, <1>5, CallbackFacts
  <1>6. ASSUME NEW r \in Replies, NEW applied \in BOOLEAN, NEW a \in Token0,
               Respond(r, applied, a)
        PROVE  UnlockInv' /\ [Abstract!Next]_(Abstract!vars)
    <2>1. UnlockInv'
      BY <1>2, <1>6, RespondFacts
    <2>2. Abstract!Next
      BY <1>6, <1>issued, RespondFacts
    <2> QED BY <2>1, <2>2
  <1>7. Retry \/ GoesOn => UnlockInv' /\ [Abstract!Next]_(Abstract!vars)
    BY <1>2, <1>kept, RetryFacts, GoesOnFacts DEF Abstract!vars
  <1>8. ASSUME StartReauth PROVE UnlockInv' /\ [Abstract!Next]_(Abstract!vars)
    <2>1. UnlockInv'
      BY <1>2, <1>8, StartReauthFacts
    <2>2. Abstract!Suspend
      BY <1>8, <1>kept, StartReauthFacts DEF Abstract!Suspend, Abstract!NoToken, NoToken
    <2> QED BY <2>1, <2>2 DEF Abstract!Next
  <1>9. CallbackFailed => UnlockInv' /\ [Abstract!Next]_(Abstract!vars)
    BY <1>3, <1>kept DEF CallbackFailed, clientVars, serverVars, Abstract!vars
  <1>10. (\E applied \in BOOLEAN, a \in Token0 : TransportFail(applied, a))
           => UnlockInv' /\ [Abstract!Next]_(Abstract!vars)
    <2> SUFFICES ASSUME NEW applied \in BOOLEAN, NEW a \in Token0, TransportFail(applied, a)
                 PROVE  UnlockInv' /\ [Abstract!Next]_(Abstract!vars)
      OBVIOUS
    <2>1. UnlockInv'
      BY <1>3 DEF TransportFail, clientVars
    <2>2. Abstract!Next
      BY <1>issued DEF TransportFail, clientVars
    <2> QED BY <2>1, <2>2
  <1>11. ASSUME EndsLogin PROVE UnlockInv' /\ [Abstract!Next]_(Abstract!vars)
    <2>1. /\ depth > 0 /\ Top.pc = "got" /\ Failure(Top) = Nil /\ IsLogin(Top) /\ Return(Nil)
          /\ uid' = Top.auth.sid /\ accessToken' = Top.auth /\ saved' = Top.auth
          /\ UNCHANGED <<keyRing, cur>>
      BY <1>11 DEF EndsLogin, Ends, serverVars
    <2>2. Top.auth \in Tokens /\ Top.auth.gen = cur[Top.auth.sid]
      BY <2>1, TopFacts DEF FrameOK
    <2>3. /\ Top.auth = [sid |-> Top.auth.sid, gen |-> Top.auth.gen]
          /\ Top.auth.sid \in Sessions /\ Top.auth.gen \in 1..MaxGen
      BY <2>2 DEF Tokens
    <2>4. /\ NewestKnown[Top.auth.sid] <= Top.auth.gen /\ NewestKnown'[Top.auth.sid] = Top.auth.gen
          /\ Abstract!Grows
      <3>1. NewestKnown[Top.auth.sid] <= Top.auth.gen
        BY <2>2, <2>3, NewestFacts DEF NewestInv
      <3>2. NewestKnown'[Top.auth.sid] = Top.auth.gen
        BY <2>1, <2>3, NewestFactsNext DEF NewestInv
      <3>3. \A s \in Sessions : cur[s] <= cur'[s]
        BY <2>1, NewestFacts DEF NewestInv
      <3>4. Abstract!Grows
        BY <2>1, <2>2, <3>3, NewestGrows
      <3> QED BY <3>1, <3>2, <3>4
    <2>5. Abstract!Adopt
      BY <2>1, <2>3, <2>4 DEF Abstract!Adopt
    <2>6. UnlockInv'
      BY <1>3, <2>1, <2>3, SessionsAssumption
    <2> QED BY <2>5, <2>6 DEF Abstract!Next
  <1>12. ASSUME EndsRefresh PROVE UnlockInv' /\ [Abstract!Next]_(Abstract!vars)
    <2>1. /\ depth > 0 /\ Top.pc = "got" /\ Failure(Top) = Nil /\ Top.op = "AuthRefresh" /\ Return(Nil)
          /\ saved' = Top.auth /\ UNCHANGED <<uid, accessToken, keyRing, cur>>
      BY <1>12 DEF EndsRefresh, Ends, serverVars
    <2>2. Top.auth \in Tokens /\ Top.auth.gen = cur[Top.auth.sid]
      BY <2>1, TopFacts DEF FrameOK
    <2>3. \A s \in Sessions : cur[s] <= cur'[s]
      BY <2>1, NewestFacts DEF NewestInv
    <2>4. Abstract!Next
      BY <2>1, <2>2, <2>3, NewestGrows, OnlyRenews
    <2>5. UnlockInv'
      BY <1>3, <2>1
    <2> QED BY <2>4, <2>5
  <1>13. ASSUME EndsLogout PROVE UnlockInv' /\ [Abstract!Next]_(Abstract!vars)
    <2>1. depth > 0 /\ Top.op = "Logout" /\ Return(Nil) /\ Top = frame[depth]
      BY <1>13 DEF EndsLogout, Ends, Top
    <2>2. depth = 1
      BY <1>0, <2>1 DEF OpsInv, NoLogoutInCallback
    <2>3. depth' = 0
      BY <2>1, <2>2 DEF Return
    <2>4. Abstract!Leave
      BY <1>13, <1>kept DEF EndsLogout, Ends, serverVars, Abstract!Leave, Abstract!NoToken, NoToken
    <2> QED BY <2>3, <2>4 DEF UnlockInv, Abstract!Next
  <1>14. ASSUME NEW err, EndsOtherwise(err) PROVE UnlockInv' /\ [Abstract!Next]_(Abstract!vars)
    <2>1. /\ depth > 0 /\ Return(err) /\ UNCHANGED <<uid, accessToken, NewestKnown>> /\ Top = frame[depth]
          /\ UNCHANGED keyRing \/ (Top.op = "Unlock" /\ keyRing' = TRUE)
      BY <1>14, <1>kept DEF EndsOtherwise, Ends, Top, serverVars
    <2>2. UnlockInv'
      BY <1>3, <2>1
    <2>3. CASE UNCHANGED keyRing
      BY <2>1, <2>2, <2>3 DEF Abstract!vars
    <2>4. CASE Top.op = "Unlock" /\ keyRing' = TRUE
      <3>1. uid # NoSession
        BY <1>0, <2>1, <2>4 DEF UnlockInv
      <3>2. Abstract!UnlockKeys
        BY <2>1, <2>4, <3>1 DEF Abstract!UnlockKeys
      <3> QED BY <2>2, <3>2 DEF Abstract!Next
    <2> QED BY <2>1, <2>3, <2>4
  <1>15. Outside => UnlockInv' /\ [Abstract!Next]_(Abstract!vars)
    BY <1>kept DEF Outside, UnlockInv, Abstract!vars
  <1> QED
    BY <1>4, <1>5, <1>6, <1>7, <1>8, <1>9, <1>10, <1>11, <1>12, <1>13, <1>14, <1>15, StepKinds

\* Session implements Account: through every nesting of calls, callbacks and
\* retries the Client's credentials change only as Account allows.
THEOREM AccountRefinement == ASSUME NoLogoutInCallback PROVE Spec => ImplementsAccount
  <1>1. Init => OpsInv /\ UnlockInv /\ Abstract!Init
    BY SessionsAssumption DEF Init, OpsInv, UnlockInv, NewestKnown, Abstract!Init, Abstract!NoToken, NoToken
  <1>2. Inv /\ OpsInv /\ [Next]_vars => OpsInv'
    BY NextOpsInv
  <1>3. Inv /\ OpsInv /\ UnlockInv /\ [Next]_vars => UnlockInv' /\ [Abstract!Next]_(Abstract!vars)
    BY NextAccount
  <1> QED BY <1>1, <1>2, <1>3, Invariance, PTL DEF Spec, ImplementsAccount, Abstract!Spec
-----------------------------------------------------------------------------
(* What an answer says of the server                                       *)

\* Between the answer and what the client does with it: a request that was
\* rejected is still one the server would reject, and a session that Logout
\* was told has ended is over.
AnswerInv ==
  (depth > 0 /\ Top.pc = "got") =>
    /\ (Top.reply.status = StatusUnauthorized /\ ~NamesUser(Top)) => ~Accepts(Top)
    /\ (Top.op = "Logout" /\ Failure(Top) = Nil) => Top.tok # NoToken /\ revoked[Top.tok.sid]

\* A session that is revoked stays so.
LEMMA RevokedStays ==
  ASSUME Inv, NEW f, NEW applied, NEW a, ServerStep(f, applied, a)
  PROVE  \A s \in Sessions : revoked[s] => revoked'[s]
  <1>1. revoked \in [Sessions -> BOOLEAN]
    BY DEF Inv, TypeOK
  <1> QED BY <1>1 DEF ServerStep

\* What the server does when it does nothing.
LEMMA RejectedUnchanged ==
  ASSUME NEW f, NEW a \in Issues(f, FALSE), ServerStep(f, FALSE, a)
  PROVE  UNCHANGED <<cur, expired, revoked>>
  BY DEF Issues, ServerStep

\* Every step keeps AnswerInv.
LEMMA NextAnswerInv == ASSUME Inv, AnswerInv, [Next]_vars PROVE AnswerInv'
  <1>0. depth \in 0..MaxDepth /\ MaxDepth \in Nat
    BY BoundsAssumption DEF Inv, TypeOK
  <1>1. ASSUME NEW op \in AppOps, NEW step \in 1..2, AppCall(op, step) PROVE AnswerInv'
    BY <1>1, PushFacts, ScriptAssumption DEF AppCall, AnswerInv
  <1>2. ASSUME NEW step \in 1..2, CallbackCall(step) PROVE AnswerInv'
    BY <1>2, CallbackFacts, PushFacts DEF AnswerInv
  <1>3. ASSUME NEW r \in Replies, NEW applied \in BOOLEAN, NEW a \in Token0,
               Respond(r, applied, a)
        PROVE  AnswerInv'
    <2>1. /\ Top'.op = Top.op /\ Top'.step = Top.step /\ Top'.uid = Top.uid
          /\ Top'.tok = Top.tok /\ Top'.arg = Top.arg /\ Top'.reply = r
          /\ depth \in 1..MaxDepth
          /\ Answers(Top, r, applied) /\ (applied => Accepts(Top))
          /\ a \in Issues(Top, applied) /\ ServerStep(Top, applied, a)
      BY <1>3, RespondFacts
    <2>2. ASSUME r.status = StatusUnauthorized, ~NamesUser(Top)' PROVE ~Accepts(Top)'
      <3>1. ~NamesUser(Top)
        BY <2>1, <2>2 DEF NamesUser
      <3>2. applied = FALSE /\ ~Accepts(Top)
        BY <2>1, <2>2, <3>1 DEF Answers
      <3>3. UNCHANGED <<cur, expired, revoked>>
        BY <2>1, <3>2, RejectedUnchanged
      <3> QED BY <2>1, <3>2, <3>3 DEF Accepts, IsLogin, Live
    <2>3. ASSUME Top'.op = "Logout", Failure(Top') = Nil
          PROVE  Top'.tok # NoToken /\ revoked'[Top'.tok.sid]
      <3>1. Success(r) /\ r.error = "absent"
        BY <2>1, <2>3, FailureFacts DEF DownloadOps
      <3>2. applied /\ Accepts(Top)
        BY <2>1, <3>1 DEF Answers
      <3>3. Top.tok # NoToken
        BY <2>1, <2>3, <3>2 DEF Accepts, IsLogin, Live, PublicOps, InfoOps
      <3>4. Top.tok.sid \in Sessions
        BY <2>1, <3>3, TopFacts, TokenFacts DEF Frames
      <3> QED BY <2>1, <2>3, <3>2, <3>3, <3>4 DEF ServerStep, Inv, TypeOK
    <2> QED BY <2>1, <2>2, <2>3 DEF AnswerInv, Failure
  <1>4. StartReauth \/ Retry \/ GoesOn => AnswerInv'
    BY StartReauthFacts, RetryFacts, GoesOnFacts DEF AnswerInv
  <1>5. ASSUME NEW err, depth > 0, Return(err) PROVE AnswerInv'
    <2>1. /\ depth' = depth - 1 /\ depth \in 1..MaxDepth
          /\ depth > 1 => Top' = frame'[depth - 1]
          /\ \A i \in 1..(depth - 1) : frame'[i].pc = frame[i].pc /\ frame[i].pc = "reauth"
      BY <1>5, PopFacts
    <2>2. depth' > 0 => Top'.pc = "reauth"
      BY <1>0, <2>1
    <2> QED BY <2>2 DEF AnswerInv
  <1>6. CallbackFailed \/ (\E err : Ends(err)) => AnswerInv'
    BY <1>5 DEF CallbackFailed, Ends
  <1>7. (\E applied \in BOOLEAN, a \in Token0 : TransportFail(applied, a)) => AnswerInv'
    BY <1>5 DEF TransportFail
  <1>8. ASSUME Outside PROVE AnswerInv'
    <2>1. UNCHANGED <<depth, frame, cur, revoked>> /\ Top' = Top
      BY <1>8 DEF Outside, Top
    <2>2. \A s \in Sessions : expired[s] => expired'[s]
      BY <1>8 DEF Outside, Expire, Inv, TypeOK
    <2>3. ASSUME depth > 0, Accepts(Top)' PROVE Accepts(Top)
      <3>1. Top.tok # NoToken => Top.tok.sid \in Sessions
        BY <2>3, TopFacts, TokenFacts DEF Frames
      <3> QED BY <2>1, <2>2, <2>3, <3>1 DEF Accepts, IsLogin, Live
    <2> QED BY <2>1, <2>3 DEF AnswerInv, NamesUser, Failure
  <1> QED
    BY <1>1, <1>2, <1>3, <1>4, <1>6, <1>7, <1>8, StepKinds
    DEF EndsLogin, EndsRefresh, EndsLogout, EndsOtherwise
-----------------------------------------------------------------------------
(* Logout                                                                  *)

\* The callback neither logs in anew nor logs out: it renews the session.
KeepsAccount == "Auth" \notin ScriptOps /\ "Logout" \notin ScriptOps

\* While Logout is under way: without a token nothing nests in it; with one,
\* every refresh is of the session that the application was in, and so are the
\* Auth it keeps and the token that Logout sends.
LogoutInv ==
  (depth > 0 /\ last.op = "Logout") =>
    IF last.tok = NoToken
    THEN depth = 1 /\ frame[1].tok = NoToken
    ELSE /\ saved.sid = last.tok.sid
         /\ frame[1].tok.sid = last.tok.sid
         /\ \A i \in 1..depth : frame[i].op = "AuthRefresh" => frame[i].arg.sid = last.tok.sid

\* A step within a call keeps the record of what the application called.
LEMMA RecordKept ==
  ASSUME Inv, CallInv,
         \/ \E r \in Replies, applied \in BOOLEAN, a \in Token0 : Respond(r, applied, a)
         \/ StartReauth \/ Retry \/ GoesOn \/ Outside
  PROVE  last'.op = last.op /\ last'.tok = last.tok /\ last'.done = last.done /\ last'.err = last.err
  <1>1. last \in Calls
    BY DEF Inv, TypeOK
  <1>2. \/ last' = last
        \/ \E x : last' = [last EXCEPT !.rejected = x]
        \/ \E x : last' = [last EXCEPT !.reauths = x]
    BY <1>1 DEF Respond, StartReauth, Retry, GoesOn, Outside, Calls
  <1> QED BY <1>1, <1>2 DEF Calls

\* So does a return, which adds the error.
LEMMA RecordReturned ==
  ASSUME Inv, CallInv, depth > 0, NEW err, Return(err)
  PROVE  /\ last'.op = last.op /\ last'.tok = last.tok
         /\ last'.done <=> depth = 1
         /\ depth = 1 => last'.err = err
  <1>1. last \in Calls
    BY DEF Inv, TypeOK
  <1> QED BY <1>1 DEF Calls, Return, CallInv

\* Logout, once it has returned, keeps its promise until the next call.
LEMMA NextLogoutInv ==
  ASSUME KeepsAccount, Inv, CallInv, OpsInv, AnswerInv, LogoutInv, LogoutEndsSession, [Next]_vars
  PROVE  LogoutInv' /\ LogoutEndsSession'
  <1>0. /\ depth \in 0..MaxDepth /\ MaxDepth \in Nat
        /\ last.tok \in Token0 /\ last.tok # NoToken => last.tok.sid \in Sessions
        /\ accessToken \in Token0
    BY BoundsAssumption, TokenFacts DEF Inv, TypeOK, Calls
  <1>1. ASSUME NEW op \in AppOps, NEW step \in 1..2, AppCall(op, step)
        PROVE  LogoutInv' /\ LogoutEndsSession'
    <2>1. op \in Ops /\ Begin(op, step) /\ depth = 0
      BY <1>1, ScriptAssumption DEF AppCall
    <2>2. /\ depth' = 1 /\ frame'[1].op = op /\ frame'[1].tok = accessToken'
          /\ op # "Unlock" => accessToken' = accessToken
          /\ saved' = saved
      BY <2>1, PushFacts
    <2>3. last'.done = FALSE /\ last'.op = op /\ last'.tok = accessToken
      BY <1>1 DEF AppCall, NoCall
    <2>4. accessToken # NoToken => saved.sid = accessToken.sid
      BY DEF Inv, CredentialsOK
    <2> QED BY <2>2, <2>3, <2>4 DEF LogoutInv, LogoutEndsSession
  <1>2. ASSUME NEW step \in 1..2, CallbackCall(step) PROVE LogoutInv' /\ LogoutEndsSession'
    <2>1. /\ Begin(Script[Top.cb + 1], step) /\ depth \in 1..MaxDepth /\ last' = last
          /\ Top.pc = "reauth" /\ Top = frame[depth] /\ Script[Top.cb + 1] \in Ops
      BY <1>2, CallbackFacts
    <2>2. /\ depth' = depth + 1 /\ \A i \in 1..depth : frame'[i] = frame[i]
          /\ frame'[depth + 1].op = "AuthRefresh" => frame'[depth + 1].arg = saved
          /\ saved' = saved
      BY <2>1, PushFacts
    <2>3. \A i \in 1..depth' : i = depth + 1 \/ i \in 1..depth
      BY <1>0, <2>2
    <2>4. Top.tok # NoToken
      BY <2>1, TopFacts DEF FrameOK
    <2>5. 1 \in 1..depth /\ (depth = 1 => Top = frame[1])
      BY <2>1
    <2> QED BY <2>1, <2>2, <2>3, <2>4, <2>5 DEF LogoutInv, LogoutEndsSession, CallInv
  <1>3. ASSUME depth \in 1..MaxDepth, depth' = depth,
               \A i \in 1..(depth - 1) : frame'[i] = frame[i],
               Top = frame[depth], Top' = frame'[depth],
               Top'.op = Top.op, Top'.op = "AuthRefresh" => Top'.arg = Top.arg,
               \/ Top'.tok = Top.tok \/ Top.op # "Logout"
               \/ Top.tok # NoToken /\ accessToken # NoToken /\ Top'.tok = accessToken,
               saved' = saved, last'.op = last.op, last'.tok = last.tok, last'.done = last.done
        PROVE  LogoutInv' /\ LogoutEndsSession'
    <2>1. \A i \in 1..depth : i = depth \/ i \in 1..(depth - 1)
      BY <1>0, <1>3
    <2>2. 1 \in 1..depth /\ (depth = 1 => Top = frame[1] /\ Top.op = last.op)
      BY <1>3 DEF CallInv
    <2>3. accessToken # NoToken => saved.sid = accessToken.sid
      BY DEF Inv, CredentialsOK
    <2>4. ~last'.done
      BY <1>3 DEF CallInv
    <2>5. CASE ~(last.op = "Logout")
      BY <1>3, <2>4, <2>5 DEF LogoutInv, LogoutEndsSession
    <2>6. CASE last.op = "Logout" /\ last.tok = NoToken
      BY <1>3, <2>2, <2>4, <2>6 DEF LogoutInv, LogoutEndsSession
    <2>7. CASE last.op = "Logout" /\ last.tok # NoToken
      <3>1. frame'[1].tok.sid = last.tok.sid
        BY <1>3, <2>1, <2>2, <2>3, <2>7 DEF LogoutInv
      <3>2. \A i \in 1..depth : frame'[i].op = "AuthRefresh" => frame'[i].arg.sid = last.tok.sid
        BY <1>3, <2>1, <2>2, <2>7 DEF LogoutInv
      <3> QED BY <1>3, <2>4, <2>7, <3>1, <3>2 DEF LogoutInv, LogoutEndsSession
    <2> QED BY <2>5, <2>6, <2>7
  <1>4. ASSUME NEW err, depth > 0, Return(err),
               saved' = saved \/ (depth > 1 /\ last.op = "Logout" /\ last.tok # NoToken => saved'.sid = last.tok.sid),
               (depth = 1 /\ last.op = "Logout" /\ err = Nil) =>
                 Top.tok # NoToken /\ revoked'[Top.tok.sid]
        PROVE  LogoutInv' /\ LogoutEndsSession'
    <2>1. /\ depth' = depth - 1 /\ depth \in 1..MaxDepth
          /\ \A i \in 1..(depth - 1) : /\ frame'[i].op = frame[i].op
                                       /\ frame'[i].tok = frame[i].tok
                                       /\ frame'[i].arg = frame[i].arg
      BY <1>4, PopFacts
    <2>2. /\ last'.op = last.op /\ last'.tok = last.tok
          /\ last'.done <=> depth = 1
          /\ depth = 1 => last'.err = err
      BY <1>4, RecordReturned
    <2>3. \A i \in 1..(depth - 1) : i \in 1..depth
      BY <1>0
    <2>4. CASE depth = 1
      <3>1. Top = frame[1]
        BY <2>4 DEF Top
      <3> QED BY <1>0, <1>4, <2>1, <2>2, <2>4, <3>1 DEF LogoutInv, LogoutEndsSession
    <2>5. CASE depth > 1
      <3>1. depth' > 0 /\ 1 \in 1..(depth - 1) /\ ~last'.done
        BY <2>1, <2>2, <2>5
      <3> QED BY <1>4, <2>1, <2>2, <2>3, <2>5, <3>1 DEF LogoutInv, LogoutEndsSession
    <2> QED BY <1>0, <1>4, <2>4, <2>5
  <1>5. ASSUME NEW r \in Replies, NEW applied \in BOOLEAN, NEW a \in Token0,
               Respond(r, applied, a)
        PROVE  LogoutInv' /\ LogoutEndsSession'
    BY <1>3, <1>5, RespondFacts, RecordKept
  <1>6. StartReauth => LogoutInv' /\ LogoutEndsSession'
    BY <1>3, StartReauthFacts, RecordKept
  <1>7. ASSUME Retry PROVE LogoutInv' /\ LogoutEndsSession'
    <2>1. Top.tok # NoToken
      BY <1>7, RetryFacts, TopFacts DEF FrameOK
    <2> QED BY <1>3, <1>7, <2>1, RetryFacts, RecordKept
  <1>8. GoesOn => LogoutInv' /\ LogoutEndsSession'
    BY <1>3, GoesOnFacts, RecordKept
  <1>9. CallbackFailed => LogoutInv' /\ LogoutEndsSession'
    BY <1>4 DEF CallbackFailed
  <1>10. (\E applied \in BOOLEAN, a \in Token0 : TransportFail(applied, a))
           => LogoutInv' /\ LogoutEndsSession'
    BY <1>4, PlainNotNil DEF TransportFail
  <1>11. ASSUME EndsLogin PROVE LogoutInv' /\ LogoutEndsSession'
    <2>1. depth > 0 /\ Return(Nil) /\ Top.op = "Auth" /\ Top = frame[depth]
      BY <1>11 DEF EndsLogin, Ends, IsLogin, Top
    <2>2. depth = 1
      BY <1>0, <2>1 DEF OpsInv, KeepsAccount
    <2>3. last.op = "Auth"
      BY <2>1, <2>2 DEF CallInv
    <2> QED BY <1>4, <2>1, <2>2, <2>3
  <1>12. ASSUME EndsRefresh PROVE LogoutInv' /\ LogoutEndsSession'
    <2>1. /\ depth > 0 /\ Return(Nil) /\ Top.op = "AuthRefresh" /\ Top = frame[depth]
          /\ Top.pc = "got" /\ Failure(Top) = Nil /\ saved' = Top.auth
      BY <1>12 DEF EndsRefresh, Ends, Top
    <2>2. Top.auth.sid = Top.arg.sid
      BY <2>1, TopFacts DEF FrameOK
    <2>3. last.op = "Logout" => depth > 1
      BY <1>0, <2>1 DEF CallInv
    <2>4. (last.op = "Logout" /\ last.tok # NoToken) => saved'.sid = last.tok.sid
      BY <1>0, <2>1, <2>2 DEF LogoutInv
    <2> QED BY <1>0, <1>4, <2>1, <2>3, <2>4
  <1>13. ASSUME EndsLogout PROVE LogoutInv' /\ LogoutEndsSession'
    <2>1. /\ depth > 0 /\ Return(Nil) /\ Top.op = "Logout"
          /\ Top.pc = "got" /\ Failure(Top) = Nil /\ saved' = saved /\ revoked' = revoked
      BY <1>13 DEF EndsLogout, Ends, serverVars
    <2>2. Top.tok # NoToken /\ revoked[Top.tok.sid]
      BY <2>1 DEF AnswerInv
    <2> QED BY <1>4, <2>1, <2>2
  <1>14. ASSUME NEW err, EndsOtherwise(err) PROVE LogoutInv' /\ LogoutEndsSession'
    <2>1. /\ depth > 0 /\ Return(err) /\ (err = Nil => Top.op # "Logout") /\ saved' = saved
          /\ Top = frame[depth]
      BY <1>14 DEF EndsOtherwise, Ends, Top
    <2>2. (depth = 1 /\ last.op = "Logout") => err # Nil
      BY <2>1 DEF CallInv
    <2> QED BY <1>4, <2>1, <2>2
  <1>15. ASSUME Outside PROVE LogoutInv' /\ LogoutEndsSession'
    BY <1>15 DEF Outside, LogoutInv, LogoutEndsSession
  <1> QED
    BY <1>1, <1>2, <1>5, <1>6, <1>7, <1>8, <1>9, <1>10, <1>11, <1>12, <1>13, <1>14, <1>15, StepKinds

\* When Logout returns nil the server has ended the session that the application
\* was in, however often the callback has renewed it meanwhile.
THEOREM LogoutEnds == ASSUME KeepsAccount PROVE Spec => []LogoutEndsSession
  <1> DEFINE I == CallInv /\ OpsInv /\ AnswerInv /\ LogoutInv /\ LogoutEndsSession
  <1>1. Init => I
    BY DEF Init, CallInv, OpsInv, AnswerInv, LogoutInv, LogoutEndsSession, NoCall,
      UnauthorizedReported
  <1>2. Inv /\ I /\ [Next]_vars => I'
    BY NextCallInv, NextOpsInv, NextAnswerInv, NextLogoutInv
  <1> QED BY <1>1, <1>2, Invariance, PTL DEF Spec
-----------------------------------------------------------------------------
(* No usable token is dropped                                              *)

\* The callback of an application that uses refresh tokens does not log in
\* anew: a login inside a refresh would replace the Auth being refreshed.
RefreshOrLogin == "AuthRefresh" \in AppOps \cup ScriptOps => "Auth" \notin ScriptOps

\* The server takes the application's refresh token no more.
Spent == cur[saved.sid] # saved.gen \/ revoked[saved.sid]

\* Every refresh on the stack is of the application's Auth; one that waits was
\* rejected, so no refresh nested in it succeeds.
RefreshInv ==
  /\ \A i \in 1..depth : frame[i].op = "AuthRefresh" =>
       /\ frame[i].arg = saved /\ frame[i].uid = saved.sid
       /\ frame[i].pc = "reauth" => Spent
  /\ (depth > 0 /\ Top.pc = "got" /\ Top.op = "AuthRefresh" /\ Failure(Top) = Nil)
       => \A i \in 1..(depth - 1) : frame[i].op # "AuthRefresh"

\* A spent refresh token stays spent, whatever the server does.
LEMMA SpentStays ==
  ASSUME Inv, saved # NoToken, Spent, saved' = saved, depth > 0,
         NEW applied \in BOOLEAN, NEW a \in Token0, applied => Accepts(Top),
         a \in Issues(Top, applied), ServerStep(Top, applied, a)
  PROVE  Spent'
  <1>1. saved \in Tokens /\ saved.sid \in Sessions /\ saved.gen \in Nat /\ saved.gen <= cur[saved.sid]
    BY TokenFacts, BoundsAssumption DEF Inv, TypeOK, CredentialsOK
  <1>2. \A s \in Sessions : cur[s] \in Nat /\ cur'[s] \in Nat /\ cur[s] <= cur'[s]
    BY ServerFacts, BoundsAssumption DEF Inv, TypeOK
  <1>3. \A s \in Sessions : revoked[s] => revoked'[s]
    BY RevokedStays
  <1> QED BY <1>1, <1>2, <1>3 DEF Spent

\* A return keeps the refreshes below if their Auth is still the application's.
LEMMA ReturnRefreshInv ==
  ASSUME Inv, RefreshInv, depth > 0, NEW err, Return(err),
         \/ saved' = saved /\ (saved # NoToken /\ Spent => Spent')
         \/ \A i \in 1..(depth - 1) : frame[i].op # "AuthRefresh"
  PROVE  RefreshInv'
  <1>1. /\ depth' = depth - 1 /\ depth \in 1..MaxDepth
        /\ \A i \in 1..(depth - 1) :
             /\ frame'[i].op = frame[i].op /\ frame'[i].pc = frame[i].pc
             /\ frame'[i].arg = frame[i].arg /\ frame'[i].uid = frame[i].uid
             /\ frame[i].pc = "reauth"
        /\ depth > 1 => Top' = frame'[depth - 1]
    BY PopFacts
  <1>2. \A i \in 1..(depth - 1) : i \in 1..depth
    BY <1>1, BoundsAssumption
  <1>3. depth' > 0 => Top'.pc = "reauth"
    BY <1>1, BoundsAssumption
  <1>4. \A i \in 1..depth : frame[i].op = "AuthRefresh" => frame[i].arg # NoToken
    BY TokenFacts DEF Inv, StackOK, FrameOK
  <1> QED BY <1>1, <1>2, <1>3, <1>4 DEF RefreshInv

\* Every step keeps RefreshInv.
LEMMA NextRefreshInv ==
  ASSUME RefreshOrLogin, Inv, OpsInv, AnswerInv, RefreshInv, [Next]_vars
  PROVE  RefreshInv'
  <1>0. depth \in 0..MaxDepth /\ MaxDepth \in Nat
    BY BoundsAssumption DEF Inv, TypeOK
  <1>1. ASSUME NEW op \in Ops, NEW step \in 1..2, Begin(op, step) PROVE RefreshInv'
    <2>1. /\ depth' = depth + 1 /\ \A i \in 1..depth : frame'[i] = frame[i]
          /\ Top' = frame'[depth + 1] /\ Top'.op = op /\ Top'.pc = "send"
          /\ op = "AuthRefresh" => Top'.arg = saved /\ Top'.uid = saved.sid
          /\ UNCHANGED <<cur, revoked, saved>>
      BY <1>1, PushFacts
    <2>2. \A i \in 1..depth' : i = depth + 1 \/ i \in 1..depth
      BY <1>0, <2>1
    <2> QED BY <2>1, <2>2 DEF RefreshInv, Spent
  <1>2. ASSUME NEW op \in AppOps, NEW step \in 1..2, AppCall(op, step) PROVE RefreshInv'
    BY <1>1, <1>2, ScriptAssumption DEF AppCall
  <1>3. ASSUME NEW step \in 1..2, CallbackCall(step) PROVE RefreshInv'
    BY <1>1, <1>3, CallbackFacts
  <1>4. \A i \in 1..depth : i = depth \/ i \in 1..(depth - 1)
    BY <1>0
  <1>5. ASSUME NEW r \in Replies, NEW applied \in BOOLEAN, NEW a \in Token0,
               Respond(r, applied, a)
        PROVE  RefreshInv'
    <2>1. /\ depth \in 1..MaxDepth /\ depth' = depth
          /\ \A i \in 1..(depth - 1) : i \in 1..depth /\ frame'[i] = frame[i]
          /\ Top' = frame'[depth] /\ Top = frame[depth]
          /\ Top'.op = Top.op /\ Top'.arg = Top.arg /\ Top'.uid = Top.uid /\ Top'.pc = "got"
          /\ Top'.reply = r /\ Answers(Top, r, applied) /\ (applied => Accepts(Top))
          /\ a \in Issues(Top, applied) /\ ServerStep(Top, applied, a)
          /\ saved' = saved
      BY <1>5, RespondFacts
    <2>2. \A i \in 1..depth : frame[i].op = "AuthRefresh" =>
             frame[i].arg = saved /\ frame[i].uid = saved.sid /\ saved # NoToken
      BY TokenFacts DEF RefreshInv, Inv, StackOK, FrameOK
    <2>3. \A i \in 1..(depth - 1) : frame[i].op = "AuthRefresh" => Spent
      BY <1>0, <2>1 DEF RefreshInv, Inv, StackOK
    <2>4. saved # NoToken /\ Spent => Spent'
      BY <2>1, SpentStays
    <2>5. ASSUME Top.op = "AuthRefresh", Failure(Top') = Nil
          PROVE  \A i \in 1..(depth - 1) : frame[i].op # "AuthRefresh"
      <3>1. Success(r) /\ r.error = "absent"
        BY <2>1, <2>5, FailureFacts DEF DownloadOps
      <3>2. Accepts(Top)
        BY <2>1, <3>1 DEF Answers
      <3>3. ~Spent
        BY <2>1, <2>2, <2>5, <3>2 DEF Accepts, IsLogin, Spent
      <3> QED BY <2>3, <3>3
    <2> QED BY <1>4, <2>1, <2>2, <2>3, <2>4, <2>5 DEF RefreshInv, Failure
  <1>6. ASSUME depth \in 1..MaxDepth, depth' = depth, Top' = frame'[depth], Top = frame[depth],
               \A i \in 1..(depth - 1) : i \in 1..depth /\ frame'[i] = frame[i],
               UNCHANGED <<cur, revoked, saved>>, Top'.op = Top.op, Top'.pc # "got",
               Top.op = "AuthRefresh" =>
                 /\ Top'.arg = Top.arg /\ Top'.uid = saved.sid
                 /\ Top'.pc = "reauth" => Spent
        PROVE  RefreshInv'
    BY <1>4, <1>6 DEF RefreshInv, Spent
  <1>7. ASSUME StartReauth PROVE RefreshInv'
    <2>1. /\ depth \in 1..MaxDepth /\ Top = frame[depth]
          /\ Top.pc = "got" /\ Top.reply.status = StatusUnauthorized /\ Top'.uid = Top.uid
      BY <1>7, StartReauthFacts
    <2>2. Top.op = "AuthRefresh" => Top.uid = saved.sid /\ Top.arg = saved
      BY <1>0, <2>1 DEF RefreshInv
    <2>3. Top.op = "AuthRefresh" => Spent
      BY <2>1, <2>2 DEF AnswerInv, NamesUser, InfoOps, Accepts, IsLogin, Spent
    <2> QED BY <1>6, <1>7, <2>1, <2>2, <2>3, StartReauthFacts
  <1>8. ASSUME Retry PROVE RefreshInv'
    <2>1. Top = frame[depth] /\ depth \in 1..depth
      BY <1>8, RetryFacts
    <2>2. accessToken # NoToken => uid = saved.sid
      BY DEF Inv, CredentialsOK
    <2>3. Top.op = "AuthRefresh" => Top'.uid = saved.sid
      BY <1>8, <2>1, <2>2, RetryFacts DEF RefreshInv
    <2> QED BY <1>6, <1>8, <2>3, RetryFacts
  <1>9. GoesOn => RefreshInv'
    BY <1>6, GoesOnFacts
  <1>10. CallbackFailed => RefreshInv'
    BY ReturnRefreshInv DEF CallbackFailed, serverVars, Spent
  <1>11. ASSUME NEW applied \in BOOLEAN, NEW a \in Token0, TransportFail(applied, a)
         PROVE  RefreshInv'
    <2>1. /\ depth > 0 /\ (applied => Accepts(Top)) /\ a \in Issues(Top, applied)
          /\ ServerStep(Top, applied, a) /\ Return(Plain("transport")) /\ saved' = saved
      BY <1>11 DEF TransportFail
    <2>2. saved # NoToken /\ Spent => Spent'
      BY <2>1, SpentStays
    <2> QED BY <2>1, <2>2, ReturnRefreshInv
  <1>12. ASSUME EndsLogin PROVE RefreshInv'
    <2>1. depth > 0 /\ Return(Nil) /\ Top.op = "Auth" /\ Top = frame[depth]
      BY <1>12 DEF EndsLogin, Ends, IsLogin, Top
    <2>2. CASE depth = 1
      BY <2>1, <2>2, ReturnRefreshInv
    <2>3. CASE depth > 1
      <3>1. "Auth" \in ScriptOps
        BY <1>0, <2>1, <2>3 DEF OpsInv
      <3>2. \A i \in 1..(depth - 1) : frame[i].op \in AppOps \cup ScriptOps
        BY <1>0 DEF OpsInv
      <3> QED BY <2>1, <3>1, <3>2, ReturnRefreshInv DEF RefreshOrLogin
    <2> QED BY <1>0, <2>1, <2>2, <2>3
  <1>13. EndsRefresh => RefreshInv'
    BY ReturnRefreshInv DEF EndsRefresh, Ends, RefreshInv
  <1>14. EndsLogout \/ (\E err : EndsOtherwise(err)) => RefreshInv'
    BY ReturnRefreshInv DEF EndsLogout, EndsOtherwise, Ends, serverVars, Spent
  <1>15. Outside => RefreshInv'
    BY DEF Outside, RefreshInv, Spent, Top, Failure
  <1> QED
    BY <1>2, <1>3, <1>5, <1>7, <1>8, <1>9, <1>10, <1>11, <1>12, <1>13, <1>14, <1>15, StepKinds

\* The Client drops its token only when the server has ended its life, or when
\* it refused the user name or password of the call.
LEMMA NextKeepsLiveToken ==
  ASSUME Inv, AnswerInv, RefreshInv, [Next]_vars,
         accessToken # NoToken, accessToken' = NoToken
  PROVE  ~Live(uid, accessToken) \/ NamesUser(Top)
  <1>0. depth \in 0..MaxDepth /\ MaxDepth \in Nat
    BY BoundsAssumption DEF Inv, TypeOK
  <1>1. \A op \in Ops, step \in 1..2 : ~Begin(op, step)
    BY PushFacts, TokenFacts
  <1>2. ~(\E op \in AppOps, step \in 1..2 : AppCall(op, step))
    BY <1>1, ScriptAssumption DEF AppCall
  <1>3. ~(\E step \in 1..2 : CallbackCall(step))
    BY <1>1, CallbackFacts
  <1>4. ~EndsLogin
    BY TopFacts, TokenFacts DEF EndsLogin, Ends, FrameOK
  <1>5. StartReauth \/ EndsLogout
    BY <1>2, <1>3, <1>4, StepKinds
    DEF Respond, TransportFail, Retry, CallbackFailed, EndsRefresh, EndsOtherwise, GoesOn,
      Outside, clientVars
  <1>6. /\ depth > 0 /\ Top.pc = "got" /\ Top = frame[depth]
        /\ depth \in 1..depth
    BY <1>0, <1>5 DEF StartReauth, EndsLogout, Ends, Top
  <1>7. /\ Top.tok = accessToken /\ uid = accessToken.sid
        /\ saved.sid = accessToken.sid /\ accessToken.gen <= saved.gen
        /\ Top.uid = uid
    BY <1>6, TopFacts DEF Inv, HeaderIsCurrent, CredentialsOK, FrameOK
  <1>8. ASSUME StartReauth, ~NamesUser(Top) PROVE ~Live(uid, accessToken)
    <2>1. ~Accepts(Top)
      BY <1>6, <1>8 DEF StartReauth, Retries, AnswerInv
    <2>2. CASE Top.op = "AuthRefresh"
      <3>1. Spent
        BY <1>6, <2>1, <2>2 DEF Accepts, IsLogin, RefreshInv, Spent
      <3>2. saved # NoToken /\ saved.sid \in Sessions
        BY <1>7, TokenFacts, SessionsAssumption DEF Inv, TypeOK, NoToken
      <3>3. /\ saved.gen <= cur[saved.sid] /\ saved.gen \in Nat /\ accessToken.gen \in Nat
            /\ cur[saved.sid] \in Nat
        BY <3>2, TokenFacts, BoundsAssumption DEF Inv, TypeOK, CredentialsOK
      <3> QED BY <1>7, <3>1, <3>3 DEF Spent, Live
    <2>3. CASE Top.op # "AuthRefresh"
      BY <1>7, <1>8, <2>1, <2>3 DEF Accepts, IsLogin, NamesUser
    <2> QED BY <2>2, <2>3
  <1>9. EndsLogout => ~Live(uid, accessToken)
    BY <1>6, <1>7 DEF EndsLogout, AnswerInv, Live
  <1> QED BY <1>5, <1>8, <1>9

\* do's 401 branch and Logout never throw away a token that the server still
\* takes, also when the rejected request is a refresh inside a refresh.
THEOREM LiveTokenKept == ASSUME RefreshOrLogin PROVE Spec => NoLiveTokenDropped
  <1> DEFINE I == OpsInv /\ AnswerInv /\ RefreshInv
             A == (accessToken # NoToken /\ accessToken' = NoToken)
                    => ~Live(uid, accessToken) \/ NamesUser(Top)
  <1>1. Init => I
    BY DEF Init, OpsInv, AnswerInv, RefreshInv
  <1>2. Inv /\ I /\ [Next]_vars => I'
    BY NextOpsInv, NextAnswerInv, NextRefreshInv
  <1>3. Inv /\ I /\ [Next]_vars => [A]_vars
    BY NextKeepsLiveToken
  <1> QED BY <1>1, <1>2, <1>3, Invariance, PTL DEF Spec, NoLiveTokenDropped
-----------------------------------------------------------------------------
(* No token is rejected twice                                              *)

\* The callback first renews the credentials, by a refresh or a login, and then
\* only uses them.
RenewsFirst ==
  Script # <<>> =>
    /\ Script[1] \in {"Auth", "AuthRefresh"}
    /\ \A k \in 2..Len(Script) : Script[k] \notin PublicOps /\ Script[k] # "Logout"

\* A token of the last generation that MaxGen allows: the server keeps it.
Lasting(t) ==
  t.gen = MaxGen /\ cur[t.sid] = MaxGen /\ ~expired[t.sid] /\ ~revoked[t.sid]

\* A request with token t is not rejected for the reason one with token u was.
Renewed(t, u) == t # u \/ Lasting(t)

\* No frame has a token that the server has not issued.
IssuedInv ==
  \A i \in 1..depth : frame[i].tok # NoToken => frame[i].tok.gen <= cur[frame[i].tok.sid]

\* The request in flight has a token other than the rejected ones below it.
FlightInv ==
  (depth > 0 /\ Top.pc # "reauth") =>
    \A i \in 1..(depth - 1) :
      /\ Renewed(Top.tok, frame[i].tok)
      /\ (Top.pc = "got" /\ Top.reply.status = StatusUnauthorized) => Top.tok # frame[i].tok

\* While a call waits, its rejected token is gone from the Client, and from the
\* application once the first operation of the callback has succeeded.  That
\* operation has no token, so nothing nests in it.
WaitInv ==
  \A i \in 1..depth : frame[i].pc = "reauth" =>
    /\ Renewed(accessToken, frame[i].tok)
    /\ (frame[i].cb # 0 /\ frame[i].err = Nil) => Renewed(saved, frame[i].tok)
    /\ frame[i].cb = 0 => /\ accessToken = NoToken
                          /\ i < depth => i = depth - 1 /\ Top.tok = NoToken

\* A token that a login or a refresh brings is new to every call that waits.
NewTokenInv ==
  (depth > 0 /\ Top.pc = "got" /\ Failure(Top) = Nil) =>
    \A i \in 1..(depth - 1) :
      /\ IsLogin(Top) => Top.auth.sid # frame[i].tok.sid
      /\ Top.op = "AuthRefresh" => Renewed(Top.auth, frame[i].tok)

ChainInv == IssuedInv /\ RejectedOnce /\ FlightInv /\ WaitInv /\ NewTokenInv

\* The frames below the top one.
LEMMA BelowTop ==
  ASSUME Inv
  PROVE  /\ depth \in 0..MaxDepth /\ MaxDepth \in Nat /\ MaxGen \in Nat /\ MaxGen > 0
         /\ accessToken \in Token0 /\ saved \in Token0
         /\ \A i \in 1..depth : /\ frame[i].tok \in Token0 /\ frame[i].cb \in Nat
                                /\ frame[i].pc = "reauth" => frame[i].tok \in Tokens
                                /\ i = depth \/ i \in 1..(depth - 1)
         /\ \A i \in 1..(depth - 1) : /\ i \in 1..depth /\ i < depth
                                      /\ frame[i].tok \in Tokens /\ frame[i].cb < Len(Script)
                                      /\ frame[i].pc = "reauth" /\ frame[i].err = Nil
         /\ \A s \in Sessions : cur[s] \in Nat
  <1>1. depth \in 0..MaxDepth /\ MaxDepth \in Nat /\ MaxGen \in Nat /\ MaxGen > 0
    BY BoundsAssumption DEF Inv, TypeOK
  <1>2. \A i \in 1..depth : /\ frame[i].tok \in Token0 /\ frame[i].cb \in Nat
                            /\ frame[i].pc = "reauth" => frame[i].tok \in Tokens
    <2> TAKE i \in 1..depth
    <2>1. frame[i] \in Frames /\ FrameOK(frame[i], cur, proven)
      BY <1>1 DEF Inv, StackOK
    <2> QED BY <2>1, TokenFacts, ScriptAssumption DEF Frames, FrameOK
  <1>3. \A i \in 1..depth : i = depth \/ i \in 1..(depth - 1)
    BY <1>1
  <1>4. \A i \in 1..(depth - 1) : i \in 1..depth /\ i < depth
    BY <1>1
  <1>5. \A i \in 1..(depth - 1) : /\ frame[i].cb < Len(Script)
                                  /\ frame[i].pc = "reauth" /\ frame[i].err = Nil
    BY <1>4 DEF Inv, StackOK
  <1>6. \A s \in Sessions : cur[s] \in Nat
    BY <1>1 DEF Inv, TypeOK
  <1> QED BY <1>1, <1>2, <1>3, <1>4, <1>5, <1>6 DEF Inv, TypeOK

\* The Client's token is one that the server has issued.
LEMMA CurrentIssued ==
  ASSUME Inv, accessToken # NoToken
  PROVE  accessToken.gen <= cur[accessToken.sid]
  <1>1. saved.sid = accessToken.sid /\ accessToken.gen <= saved.gen
    BY DEF Inv, CredentialsOK
  <1>2. accessToken.sid \in Sessions
    BY BelowTop, TokenFacts
  <1>3. saved # NoToken
    BY <1>1, <1>2, SessionsAssumption DEF NoToken
  <1>4. saved.gen <= cur[saved.sid]
    BY <1>3 DEF Inv, CredentialsOK
  <1>5. accessToken.gen \in Nat /\ saved.gen \in Nat /\ cur[accessToken.sid] \in Nat
    BY <1>2, BelowTop, TokenFacts
  <1> QED BY <1>1, <1>4, <1>5

\* A lasting token lasts until Logout.
LEMMA RenewedStays ==
  ASSUME Inv, depth > 0, NEW applied \in BOOLEAN, NEW a \in Token0, applied => Accepts(Top),
         a \in Issues(Top, applied), ServerStep(Top, applied, a), ~(applied /\ Top.op = "Logout")
  PROVE  \A t \in Token0, u \in Tokens : Renewed(t, u) => Renewed(t, u)'
  <1>1. /\ cur \in [Sessions -> 0..MaxGen] /\ expired \in [Sessions -> BOOLEAN]
        /\ MaxGen \in Nat /\ MaxGen > 0
    BY BelowTop DEF Inv, TypeOK
  <1>2. revoked' = revoked
    BY DEF ServerStep
  <1>3. ASSUME NEW t \in Tokens, Lasting(t) PROVE Lasting(t)'
    <2>1. t.sid \in Sessions
      BY TokenFacts
    <2>2. CASE a = NoToken
      BY <1>2, <1>3, <2>2 DEF ServerStep, Lasting
    <2>3. CASE a # NoToken
      <3>1. /\ cur' = [cur EXCEPT ![a.sid] = a.gen]
            /\ expired' = [expired EXCEPT ![a.sid] = FALSE]
        BY <2>3 DEF ServerStep
      <3>2. \/ cur[a.sid] = 0
            \/ a.gen = NextGen(cur[a.sid])
        BY <2>3 DEF Issues
      <3>3. a.sid = t.sid => a.gen = MaxGen
        BY <1>1, <1>3, <3>2 DEF Lasting, NextGen
      <3> QED BY <1>1, <1>2, <1>3, <2>1, <3>1, <3>3 DEF Lasting
    <2> QED BY <2>2, <2>3
  <1>4. \A t \in Token0 : t \in Tokens \/ t = NoToken
    BY DEF Token0
  <1> QED BY <1>3, <1>4, TokenFacts DEF Renewed

\* A return keeps ChainInv if what the Client and the application hold then
\* differs from the rejected tokens below.
LEMMA ReturnChain ==
  ASSUME Inv, ChainInv, depth > 0, NEW err, Return(err),
         \A s \in Sessions : cur'[s] \in Nat /\ cur[s] <= cur'[s],
         \A i \in 1..(depth - 1) : Renewed(accessToken, frame[i].tok)',
         \A i \in 1..(depth - 1) : (err = Nil \/ i < depth - 1) => Renewed(saved, frame[i].tok)'
  PROVE  ChainInv'
  <1> USE DEF ChainInv
  <1>1. /\ depth' = depth - 1 /\ depth \in 1..MaxDepth
        /\ \A i \in 1..(depth - 2) : frame'[i] = frame[i]
        /\ \A i \in 1..(depth - 1) : frame'[i].pc = frame[i].pc /\ frame'[i].tok = frame[i].tok
        /\ depth > 1 => frame'[depth - 1].cb = frame[depth - 1].cb + 1 /\ Top'.err = err
        /\ depth > 1 => Top' = frame'[depth - 1]
    BY PopFacts
  <1>2. \A i \in 1..(depth - 1) : /\ i \in 1..depth /\ i < depth /\ frame[i].pc = "reauth"
                                  /\ frame[i].tok \in Tokens /\ frame[i].cb \in Nat
                                  /\ i = depth - 1 \/ (i \in 1..(depth - 2) /\ i < depth - 1)
    BY <1>1, BelowTop
  <1>3. depth' > 0 => depth > 1 /\ Top'.pc = "reauth"
    BY <1>1, <1>2
  <1>4. IssuedInv'
    <2> SUFFICES ASSUME NEW i \in 1..(depth - 1)
                 PROVE  frame'[i].tok.gen <= cur'[frame'[i].tok.sid]
      BY <1>1 DEF IssuedInv
    <2>1. /\ frame[i].tok.sid \in Sessions /\ frame[i].tok.gen \in Nat
          /\ frame[i].tok # NoToken
      BY <1>2, TokenFacts, BoundsAssumption
    <2>2. frame[i].tok.gen <= cur[frame[i].tok.sid] /\ cur[frame[i].tok.sid] \in Nat
      BY <1>2, <2>1, BelowTop DEF IssuedInv
    <2> QED BY <1>1, <2>1, <2>2
  <1>5. RejectedOnce'
    BY <1>1, <1>2 DEF RejectedOnce
  <1>6. FlightInv' /\ NewTokenInv'
    BY <1>3 DEF FlightInv, NewTokenInv
  <1>7. ASSUME NEW i \in 1..(depth - 1)
        PROVE  /\ frame'[i].cb # 0
               /\ frame'[i].err = Nil => Renewed(saved, frame[i].tok)'
    <2>1. CASE i = depth - 1
      BY <1>1, <1>2, <2>1
    <2>2. CASE i \in 1..(depth - 2) /\ i < depth - 1
      BY <1>1, <1>2, <2>2 DEF WaitInv
    <2> QED BY <1>2, <2>1, <2>2
  <1>8. WaitInv'
    BY <1>1, <1>7 DEF WaitInv
  <1> QED BY <1>4, <1>5, <1>6, <1>8

\* A return that leaves the Client, the application and the server alone keeps
\* ChainInv, unless the callback's first operation ends well without renewing.
LEMMA PlainReturnChain ==
  ASSUME Inv, ChainInv, depth > 0, NEW err, Return(err),
         UNCHANGED <<accessToken, saved, cur, expired, revoked>>,
         err = Nil /\ depth > 1 => frame[depth - 1].cb # 0
  PROVE  ChainInv'
  <1>1. \A i \in 1..(depth - 1) : frame'[i].tok = frame[i].tok
    BY PopFacts
  <1>2. \A i \in 1..(depth - 1) : Renewed(accessToken, frame[i].tok)
    BY BelowTop DEF ChainInv, WaitInv
  <1>3. \A i \in 1..(depth - 1) : (err = Nil \/ i < depth - 1) => Renewed(saved, frame[i].tok)
    <2> SUFFICES ASSUME NEW i \in 1..(depth - 1), err = Nil \/ i < depth - 1
                 PROVE  Renewed(saved, frame[i].tok)
      OBVIOUS
    <2>1. i \in 1..depth /\ i < depth /\ frame[i].pc = "reauth" /\ frame[i].err = Nil
      BY BelowTop
    <2>2. frame[i].cb # 0
      BY <2>1, BelowTop DEF ChainInv, WaitInv
    <2> QED BY <2>1, <2>2 DEF ChainInv, WaitInv
  <1>4. \A s \in Sessions : cur'[s] \in Nat /\ cur[s] <= cur'[s]
    BY BelowTop
  <1>5. \A i \in 1..(depth - 1) : Renewed(accessToken, frame[i].tok)'
    BY <1>1, <1>2 DEF Renewed, Lasting
  <1>6. \A i \in 1..(depth - 1) : (err = Nil \/ i < depth - 1) => Renewed(saved, frame[i].tok)'
    BY <1>1, <1>3 DEF Renewed, Lasting
  <1> QED BY <1>4, <1>5, <1>6, ReturnChain

\* What the script's conditions say of the operation of a nested call.
LEMMA NestedOp ==
  ASSUME RenewsFirst, Inv, OpsInv, depth > 1
  PROVE  /\ depth - 1 \in 1..(depth - 1) /\ Top.op # "Logout"
         /\ frame[depth - 1].cb = 0 => Top.op \in {"Auth", "AuthRefresh"}
         /\ frame[depth - 1].cb # 0 => Top.op \notin PublicOps
  <1>1. /\ depth - 1 \in 1..(depth - 1) /\ depth \in 1..depth /\ Top = frame[depth]
    BY BelowTop DEF Top
  <1>2. /\ Top.op = Script[frame[depth - 1].cb + 1]
        /\ frame[depth - 1].cb \in Nat /\ frame[depth - 1].cb < Len(Script)
    BY <1>1, BelowTop DEF OpsInv
  <1>3. Script # <<>> /\ Len(Script) \in Nat
    BY <1>2, ScriptAssumption
  <1>4. frame[depth - 1].cb # 0 => frame[depth - 1].cb + 1 \in 2..Len(Script)
    BY <1>2, <1>3
  <1> QED BY <1>1, <1>2, <1>3, <1>4 DEF RenewsFirst

\* A call keeps ChainInv: Unlock takes the renewed Auth, every other operation
\* the token that the Client holds.
LEMMA BeginChain ==
  ASSUME RenewsFirst, Inv, ChainInv, NEW op \in Ops, NEW step \in 1..2, Begin(op, step),
         depth > 0 => /\ Top.pc = "reauth" /\ Top.err = Nil /\ Top.cb < Len(Script)
                      /\ op = Script[Top.cb + 1]
  PROVE  ChainInv'
  <1> USE DEF ChainInv
  <1>0. depth \in 0..MaxDepth /\ MaxDepth \in Nat /\ accessToken \in Token0 /\ saved \in Token0
    BY BelowTop
  <1>1. /\ depth' = depth + 1 /\ \A i \in 1..depth : frame'[i] = frame[i]
        /\ Top' = frame'[depth + 1] /\ Top'.pc = "send" /\ Top'.tok = accessToken'
        /\ op = "Unlock" => accessToken' = saved /\ saved \in Tokens
        /\ op # "Unlock" => accessToken' = accessToken
        /\ UNCHANGED <<cur, expired, revoked, saved>>
    BY PushFacts
  <1>2. \A i \in 1..depth : /\ frame[i].pc = "reauth" /\ frame[i].err = Nil
                            /\ frame[i].tok \in Tokens /\ frame[i].cb \in Nat
    BY BelowTop DEF Top
  <1>3. \A i \in 1..depth' : i = depth + 1 \/ i \in 1..depth
    BY <1>0, <1>1
  <1>4. ASSUME op = "Unlock" PROVE \A i \in 1..depth : frame[i].cb # 0
    <2> SUFFICES ASSUME NEW i \in 1..depth, frame[i].cb = 0 PROVE FALSE
      OBVIOUS
    <2>1. i < depth => Top.tok = NoToken
      BY <1>2 DEF WaitInv
    <2>2. Top.tok \in Tokens
      BY <1>0, <1>2 DEF Top
    <2>3. i = depth /\ Top.cb = 0
      BY <1>0, <2>1, <2>2, TokenFacts DEF Top
    <2>4. Script # <<>>
      BY <2>3, ScriptAssumption
    <2> QED BY <1>0, <1>4, <2>3, <2>4 DEF RenewsFirst
  <1>5. \A i \in 1..depth : Renewed(accessToken', frame[i].tok)
    BY <1>1, <1>2, <1>4 DEF WaitInv
  <1>6. \A i \in 1..depth : Renewed(accessToken, frame[i].tok)'
    BY <1>1, <1>5 DEF Renewed, Lasting
  <1>7. IssuedInv'
    <2>1. accessToken' # NoToken => accessToken'.gen <= cur[accessToken'.sid]
      <3>1. saved # NoToken => saved.gen <= cur[saved.sid]
        BY DEF Inv, CredentialsOK
      <3>2. accessToken # NoToken => accessToken.gen <= cur[accessToken.sid]
        BY CurrentIssued
      <3> QED BY <1>1, <3>1, <3>2
    <2> QED BY <1>1, <1>3, <2>1 DEF IssuedInv
  <1>8. RejectedOnce'
    BY <1>1, <1>3 DEF RejectedOnce
  <1>9. FlightInv' /\ NewTokenInv'
    <2>1. \A i \in 1..(depth' - 1) : i \in 1..depth
      BY <1>0, <1>1
    <2> QED BY <1>1, <1>6, <2>1 DEF FlightInv, NewTokenInv
  <1>10. WaitInv'
    <2> SUFFICES ASSUME NEW i \in 1..depth'
                 PROVE  WaitInv!(i)'
      BY DEF WaitInv
    <2>1. CASE i = depth + 1
      BY <1>1, <2>1
    <2>2. CASE i \in 1..depth
      <3>1. frame'[i] = frame[i] /\ saved' = saved
        BY <1>1, <2>2
      <3>2. frame[i].cb # 0 => Renewed(saved, frame[i].tok)
        BY <1>2, <2>2 DEF WaitInv
      <3>3. ASSUME frame[i].cb = 0
            PROVE  accessToken' = NoToken /\ (i < depth' => i = depth' - 1 /\ Top'.tok = NoToken)
        <4>1. op # "Unlock" /\ accessToken = NoToken
          BY <1>2, <1>4, <2>2, <3>3 DEF WaitInv
        <4>2. i = depth
          <5>1. i < depth => Top.tok = NoToken
            BY <1>2, <2>2, <3>3 DEF WaitInv
          <5>2. Top.tok \in Tokens
            BY <1>0, <1>2, <2>2 DEF Top
          <5> QED BY <1>0, <2>2, <5>1, <5>2, TokenFacts
        <4> QED BY <1>0, <1>1, <4>1, <4>2
      <3> QED BY <1>1, <1>6, <2>2, <3>1, <3>2, <3>3 DEF Renewed, Lasting
    <2> QED BY <1>3, <2>1, <2>2
  <1> QED BY <1>7, <1>8, <1>9, <1>10

\* The server's answer keeps ChainInv: it rejects no lasting token, and a token
\* that it issues is new.
LEMMA RespondChain ==
  ASSUME RenewsFirst, Inv, OpsInv, ChainInv,
         NEW r \in Replies, NEW applied \in BOOLEAN, NEW a \in Token0, Respond(r, applied, a)
  PROVE  ChainInv'
  <1> USE DEF ChainInv
  <1>1. /\ depth \in 1..MaxDepth /\ depth' = depth /\ Top.pc = "send" /\ depth > 0
        /\ \A i \in 1..(depth - 1) : i \in 1..depth /\ frame'[i] = frame[i]
        /\ Top' = frame'[depth] /\ Top = frame[depth]
        /\ Top'.op = Top.op /\ Top'.step = Top.step /\ Top'.uid = Top.uid
        /\ Top'.tok = Top.tok /\ Top'.arg = Top.arg /\ Top'.pc = "got"
        /\ Top'.reply = r /\ Top'.auth = a
        /\ Answers(Top, r, applied) /\ (applied => Accepts(Top))
        /\ a \in Issues(Top, applied) /\ ServerStep(Top, applied, a)
        /\ UNCHANGED <<accessToken, saved>>
    BY RespondFacts
  <1>2. /\ accessToken \in Token0 /\ saved \in Token0 /\ Top.tok \in Token0
        /\ \A i \in 1..depth : i = depth \/ i \in 1..(depth - 1)
        /\ \A i \in 1..(depth - 1) : /\ i < depth /\ frame[i].pc = "reauth" /\ frame[i].err = Nil
                                     /\ frame[i].tok \in Tokens /\ frame[i].tok # NoToken
    BY <1>1, BelowTop, TokenFacts
  <1>3. /\ \A s \in Sessions : cur[s] \in Nat /\ cur'[s] \in Nat /\ cur[s] <= cur'[s]
        /\ MaxGen \in Nat /\ MaxGen > 0
    BY <1>1, ServerFacts, BelowTop
  <1>4. ASSUME NEW i \in 1..(depth - 1)
        PROVE  \A t \in Token0 : Renewed(t, frame[i].tok) => t # frame[i].tok \/ Lasting(t)'
    <2>1. Top.op # "Logout"
      BY <1>1, NestedOp
    <2> QED BY <1>1, <1>2, <2>1, RenewedStays DEF Renewed
  <1>5. IssuedInv'
    <2> SUFFICES ASSUME NEW i \in 1..depth, frame'[i].tok # NoToken
                 PROVE  frame'[i].tok.gen <= cur'[frame'[i].tok.sid]
      BY <1>1 DEF IssuedInv
    <2>1. frame'[i].tok = frame[i].tok /\ frame[i].tok \in Tokens
      BY <1>1, <1>2, TokenFacts
    <2>2. frame[i].tok.gen <= cur[frame[i].tok.sid]
      BY <2>1 DEF IssuedInv
    <2>3. frame[i].tok.sid \in Sessions /\ frame[i].tok.gen \in Nat
      BY <2>1, TokenFacts, BoundsAssumption
    <2> QED BY <1>3, <2>1, <2>2, <2>3
  <1>6. RejectedOnce'
    BY <1>1, <1>2 DEF RejectedOnce
  <1>7. ASSUME NEW i \in 1..(depth - 1), r.status = StatusUnauthorized PROVE Top.tok # frame[i].tok
    <2>1. depth > 1 /\ depth - 1 \in 1..(depth - 1)
      BY <1>1
    <2>2. CASE frame[depth - 1].cb = 0
      <3>1. Top.tok = NoToken
        BY <1>1, <1>2, <2>1, <2>2 DEF WaitInv
      <3> QED BY <1>2, <3>1
    <2>3. CASE frame[depth - 1].cb # 0
      <3>1. Top.op \notin PublicOps
        BY <2>1, <2>3, NestedOp
      <3>2. ~Live(Top.uid, Top.tok)
        BY <1>1, <1>7, <3>1 DEF Answers, Accepts, IsLogin, NamesUser, PublicOps
      <3>3. Renewed(Top.tok, frame[i].tok)
        BY <1>1 DEF FlightInv
      <3>4. Top.tok # NoToken => Top.uid = Top.tok.sid
        BY <1>1, TopFacts DEF FrameOK
      <3> QED BY <1>2, <3>2, <3>3, <3>4 DEF Renewed, Lasting, Live
    <2> QED BY <2>2, <2>3
  <1>8. FlightInv'
    BY <1>1, <1>2, <1>4, <1>7 DEF FlightInv, Renewed, Lasting
  <1>9. WaitInv'
    BY <1>1, <1>2, <1>4 DEF WaitInv, Renewed, Lasting
  <1>10. ASSUME NEW i \in 1..(depth - 1), Failure(Top') = Nil, Top.op \notin DownloadOps
         PROVE  /\ IsLogin(Top) => a.sid # frame[i].tok.sid
                /\ Top.op = "AuthRefresh" => a # frame[i].tok \/ Lasting(a)'
    <2>1. applied
      BY <1>1, <1>10, FailureFacts DEF Answers
    <2>2. /\ frame[i].tok.gen <= cur[frame[i].tok.sid]
          /\ frame[i].tok.gen \in 1..MaxGen /\ frame[i].tok.sid \in Sessions
      BY <1>1, <1>2, TokenFacts DEF IssuedInv
    <2>3. ASSUME IsLogin(Top) PROVE a.sid # frame[i].tok.sid
      BY <1>1, <1>3, <2>1, <2>2, <2>3 DEF Issues
    <2>4. ASSUME Top.op = "AuthRefresh", a = frame[i].tok PROVE Lasting(a)'
      <3>1. a.gen = NextGen(cur[a.sid]) /\ a.sid = Top.arg.sid /\ ~revoked[a.sid]
        BY <1>1, <2>1, <2>4 DEF Issues, IsLogin, Accepts
      <3>2. a.gen = MaxGen
        BY <1>3, <2>2, <2>4, <3>1 DEF NextGen
      <3>3. cur' = [cur EXCEPT ![a.sid] = a.gen] /\ expired' = [expired EXCEPT ![a.sid] = FALSE]
            /\ revoked' = revoked
        BY <1>1, <1>2, <2>4 DEF ServerStep
      <3> QED BY <2>2, <2>4, <3>1, <3>2, <3>3 DEF Lasting, Inv, TypeOK
    <2> QED BY <2>3, <2>4
  <1>11. NewTokenInv'
    <2> SUFFICES ASSUME NEW i \in 1..(depth - 1), Failure(Top') = Nil
                 PROVE  /\ IsLogin(Top') => Top'.auth.sid # frame'[i].tok.sid
                        /\ Top'.op = "AuthRefresh" => Renewed(Top.auth, frame[i].tok)'
      BY <1>1 DEF NewTokenInv, Failure, IsLogin
    <2>1. IsLogin(Top') \/ Top'.op = "AuthRefresh" => Top.op \notin DownloadOps
      BY <1>1 DEF IsLogin, DownloadOps
    <2>2. IsLogin(Top') <=> IsLogin(Top)
      BY <1>1 DEF IsLogin
    <2> QED BY <1>1, <1>10, <2>1, <2>2 DEF Renewed, Lasting
  <1> QED BY <1>5, <1>6, <1>8, <1>9, <1>11

\* The steps of do and of the operations within a call keep ChainInv.
LEMMA WithinChain ==
  ASSUME Inv, ChainInv, StartReauth \/ Retry \/ GoesOn
  PROVE  ChainInv'
  <1> USE DEF ChainInv
  <1>1. /\ depth \in 1..MaxDepth /\ depth' = depth
        /\ \A i \in 1..(depth - 1) : i \in 1..depth /\ frame'[i] = frame[i]
        /\ Top' = frame'[depth] /\ Top = frame[depth]
        /\ UNCHANGED <<cur, expired, revoked, saved>>
    BY StartReauthFacts, RetryFacts, GoesOnFacts
  <1>2. /\ accessToken \in Token0 /\ saved \in Token0 /\ depth \in 1..depth
        /\ \A i \in 1..depth : i = depth \/ i \in 1..(depth - 1)
        /\ \A i \in 1..(depth - 1) : /\ i < depth /\ frame[i].pc = "reauth" /\ frame[i].err = Nil
                                     /\ frame[i].tok \in Tokens /\ frame[i].tok # NoToken
        /\ Top.pc = "reauth" => Top.tok # NoToken
    BY <1>1, BelowTop, TokenFacts
  <1>3. accessToken # NoToken => accessToken.gen <= cur[accessToken.sid]
    BY CurrentIssued
  <1>4. ASSUME StartReauth PROVE ChainInv'
    <2>1. /\ Top'.tok = Top.tok /\ Top'.pc = "reauth" /\ Top'.cb = 0 /\ accessToken' = NoToken
          /\ Top.pc = "got" /\ Top.reply.status = StatusUnauthorized /\ Top.tok # NoToken
      BY <1>4, StartReauthFacts
    <2>2. \A i \in 1..(depth - 1) : frame[i].cb # 0
      BY <1>1, <1>2, <2>1 DEF WaitInv
    <2>3. IssuedInv'
      BY <1>1, <1>2, <2>1 DEF IssuedInv
    <2>4. RejectedOnce'
      <3>1. \A i \in 1..(depth - 1) : Top.tok # frame[i].tok
        BY <1>1, <2>1 DEF FlightInv
      <3>2. \A i, j \in 1..(depth - 1) : i < j => frame[i].tok # frame[j].tok
        BY <1>1, <1>2 DEF RejectedOnce
      <3>3. \A i, j \in 1..depth : i < j => i \in 1..(depth - 1) /\ (j = depth \/ j \in 1..(depth - 1))
        BY <1>1
      <3> QED BY <1>1, <2>1, <3>1, <3>2, <3>3 DEF RejectedOnce
    <2>5. FlightInv' /\ NewTokenInv'
      BY <2>1 DEF FlightInv, NewTokenInv
    <2>6. WaitInv'
      BY <1>1, <1>2, <2>1, <2>2 DEF WaitInv, Renewed, Lasting
    <2> QED BY <2>3, <2>4, <2>5, <2>6
  <1>5. ASSUME Top'.pc = "send", accessToken' = accessToken,
               Top'.tok = accessToken \/ (Top'.tok = Top.tok /\ Top.pc = "reauth"),
               Top.tok = NoToken => Top'.tok = NoToken \/ accessToken # NoToken
        PROVE  ChainInv'
    <2>1. IssuedInv'
      BY <1>1, <1>2, <1>3, <1>5 DEF IssuedInv
    <2>2. RejectedOnce'
      BY <1>1, <1>2, <1>5 DEF RejectedOnce
    <2>3. FlightInv' /\ NewTokenInv'
      <3>1. \A i \in 1..(depth - 1) : Renewed(Top'.tok, frame[i].tok)
        BY <1>1, <1>2, <1>5 DEF WaitInv, RejectedOnce, Renewed
      <3> QED BY <1>1, <1>5, <3>1 DEF FlightInv, NewTokenInv, Renewed, Lasting
    <2>4. WaitInv'
      BY <1>1, <1>2, <1>5 DEF WaitInv, Renewed, Lasting
    <2> QED BY <2>1, <2>2, <2>3, <2>4
  <1>6. Retry => ChainInv'
    BY <1>2, <1>5, RetryFacts
  <1>7. GoesOn => ChainInv'
    BY <1>5, GoesOnFacts
  <1> QED BY <1>4, <1>6, <1>7

\* Every step keeps ChainInv.
LEMMA NextChain ==
  ASSUME RenewsFirst, Inv, OpsInv, ChainInv, [Next]_vars
  PROVE  ChainInv'
  <1>0. depth \in 0..MaxDepth /\ MaxDepth \in Nat
    BY BelowTop
  <1>1. ASSUME NEW op \in AppOps, NEW step \in 1..2, AppCall(op, step) PROVE ChainInv'
    BY <1>1, BeginChain, ScriptAssumption DEF AppCall
  <1>2. ASSUME NEW step \in 1..2, CallbackCall(step) PROVE ChainInv'
    BY <1>2, BeginChain, CallbackFacts DEF CallbackCall
  <1>3. ASSUME NEW r \in Replies, NEW applied \in BOOLEAN, NEW a \in Token0,
               Respond(r, applied, a)
        PROVE  ChainInv'
    BY <1>3, RespondChain
  <1>4. StartReauth \/ Retry \/ GoesOn => ChainInv'
    BY WithinChain
  <1>5. CallbackFailed => ChainInv'
    BY PlainReturnChain DEF CallbackFailed, clientVars, serverVars
  <1>6. ASSUME NEW applied \in BOOLEAN, NEW a \in Token0, TransportFail(applied, a)
        PROVE  ChainInv'
    <2>1. /\ depth > 0 /\ (applied => Accepts(Top)) /\ a \in Issues(Top, applied)
          /\ ServerStep(Top, applied, a) /\ Return(Plain("transport"))
          /\ UNCHANGED <<accessToken, saved>>
      BY <1>6 DEF TransportFail, clientVars
    <2>2. \A s \in Sessions : cur'[s] \in Nat /\ cur[s] <= cur'[s]
      BY <2>1, ServerFacts, BoundsAssumption
    <2>3. \A i \in 1..(depth - 1) : frame'[i].tok = frame[i].tok
      BY <2>1, PopFacts
    <2>4. ASSUME NEW i \in 1..(depth - 1)
          PROVE  /\ Renewed(accessToken, frame[i].tok)'
                 /\ i < depth - 1 => Renewed(saved, frame[i].tok)'
      <3>1. /\ i \in 1..depth /\ i < depth /\ frame[i].pc = "reauth" /\ frame[i].err = Nil
            /\ frame[i].tok \in Tokens /\ accessToken \in Token0 /\ saved \in Token0
        BY BelowTop
      <3>2. Top.op # "Logout"
        BY <1>0, NestedOp
      <3>3. Renewed(accessToken, frame[i].tok) /\ (i < depth - 1 => Renewed(saved, frame[i].tok))
        BY <3>1 DEF ChainInv, WaitInv
      <3> QED BY <2>1, <2>3, <3>1, <3>2, <3>3, RenewedStays DEF Renewed, Lasting
    <2> QED BY <2>1, <2>2, <2>4, PlainNotNil, ReturnChain
  <1>7. \A i \in 1..(depth - 1) : frame[i].tok \in Tokens /\ i \in 1..depth /\ frame[i].pc = "reauth"
    BY BelowTop
  <1>8. ASSUME EndsLogin \/ EndsRefresh PROVE ChainInv'
    <2>1. /\ depth > 0 /\ Return(Nil) /\ Top.pc = "got" /\ Failure(Top) = Nil
          /\ UNCHANGED <<cur, expired, revoked>> /\ saved' = Top.auth
          /\ \/ IsLogin(Top) /\ accessToken' = Top.auth
             \/ Top.op = "AuthRefresh" /\ accessToken' = accessToken
      BY <1>8 DEF EndsLogin, EndsRefresh, Ends, serverVars
    <2>2. \A s \in Sessions : cur'[s] \in Nat /\ cur[s] <= cur'[s]
      BY <2>1, BelowTop
    <2>3. \A i \in 1..(depth - 1) : frame'[i].tok = frame[i].tok
      BY <2>1, PopFacts
    <2>4. \A i \in 1..(depth - 1) : Renewed(Top.auth, frame[i].tok) /\ Renewed(accessToken', frame[i].tok)
      BY <1>7, <2>1 DEF ChainInv, NewTokenInv, WaitInv, Renewed
    <2>5. \A i \in 1..(depth - 1) : Renewed(saved, frame[i].tok)' /\ Renewed(accessToken, frame[i].tok)'
      BY <2>1, <2>3, <2>4 DEF Renewed, Lasting
    <2> QED BY <2>1, <2>2, <2>5, ReturnChain
  <1>9. ASSUME EndsLogout PROVE ChainInv'
    <2>1. depth > 0 /\ Return(Nil) /\ Top.op = "Logout" /\ UNCHANGED cur
      BY <1>9 DEF EndsLogout, Ends, serverVars
    <2>2. depth = 1
      BY <1>0, <2>1, NestedOp
    <2> QED BY <2>1, <2>2, BelowTop, ReturnChain
  <1>10. ASSUME NEW err, EndsOtherwise(err) PROVE ChainInv'
    <2>1. /\ depth > 0 /\ Return(err) /\ UNCHANGED <<accessToken, saved, cur, expired, revoked>>
          /\ err = Nil => Top.op \notin {"Auth", "AuthRefresh"}
      BY <1>10 DEF EndsOtherwise, Ends, serverVars
    <2> QED BY <2>1, NestedOp, PlainReturnChain
  <1>11. ASSUME Outside PROVE ChainInv'
    <2>1. UNCHANGED <<accessToken, depth, frame, cur, revoked, saved>> /\ Top' = Top
      BY <1>11 DEF Outside, Top
    <2>2. \A s \in Sessions : cur[s] = MaxGen /\ ~expired[s] => ~expired'[s]
      BY <1>11, BoundsAssumption DEF Outside, Expire, Inv, TypeOK
    <2>3. ASSUME NEW t \in Token0, NEW u \in Tokens, Renewed(t, u) PROVE Renewed(t, u)'
      <3>1. t \in Tokens \/ t # u
        BY TokenFacts
      <3> QED BY <2>1, <2>2, <2>3, <3>1, TokenFacts DEF Renewed, Lasting
    <2>4. depth > 0 => Top.tok \in Token0 /\ Top.auth \in Token0
      BY TopFacts DEF Frames
    <2>5. /\ accessToken \in Token0 /\ saved \in Token0
          /\ \A i \in 1..depth : frame[i].pc = "reauth" => frame[i].tok \in Tokens
      BY BelowTop
    <2>6. FlightInv' /\ WaitInv' /\ NewTokenInv'
      BY <1>7, <2>1, <2>3, <2>4, <2>5 DEF ChainInv, FlightInv, WaitInv, NewTokenInv, Failure, IsLogin
    <2>7. IssuedInv' /\ RejectedOnce'
      BY <2>1 DEF ChainInv, IssuedInv, RejectedOnce
    <2> QED BY <2>6, <2>7 DEF ChainInv
  <1> QED
    BY <1>1, <1>2, <1>3, <1>4, <1>5, <1>6, <1>8, <1>9, <1>10, <1>11, StepKinds

\* No token is rejected twice on one stack of callbacks: what the callback sends
\* after it has renewed the credentials is not rejected for the old reason, so
\* the recursion of do through the callback ends with the tokens that expire.
THEOREM NoTokenRejectedTwice == ASSUME RenewsFirst PROVE Spec => []RejectedOnce
  <1>1. Init => OpsInv /\ ChainInv
    BY DEF Init, OpsInv, ChainInv, IssuedInv, RejectedOnce, FlightInv, WaitInv, NewTokenInv
  <1>2. Inv /\ OpsInv /\ ChainInv /\ [Next]_vars => (OpsInv /\ ChainInv)'
    BY NextOpsInv, NextChain
  <1>3. ChainInv => RejectedOnce
    BY DEF ChainInv
  <1> QED BY <1>1, <1>2, <1>3, Invariance, PTL DEF Spec
=============================================================================
