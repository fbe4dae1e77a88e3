--------------------------- MODULE SessionProofs ----------------------------
(***************************************************************************)
(* Proofs about Session, for every set of sessions, every callback script, *)
(* every set of responses and every bound.                                 *)
(*                                                                         *)
(* The inductive invariant Inv says, besides the types: every frame below  *)
(* the top one waits for its callback; a frame that waits or is about to   *)
(* be sent has not been acted upon and can be (re)built; the answer of a   *)
(* login or a refresh carries a token of the session that was asked for;   *)
(* and the Client, the application and the request in flight agree on the  *)
(* session.                                                                *)
(***************************************************************************)
EXTENDS Session, TLAPS

\* What holds of a frame in use, given the server's generations c and the
\* verified sessions p.
FrameOK(f, c, p) ==
  /\ f.pc \in {"send", "got", "reauth"}
  /\ f.op \in Ops
  /\ f.tok # NoToken => f.uid = f.tok.sid
  /\ f.op \in {"AuthRefresh", "Unlock"} => f.arg \in Tokens /\ f.arg.sid \in p
  /\ f.body = "none" <=> BodyKind(f.op) = "none"
  /\ f.pc = "send" => f.body = FreshBody(f.op)
  /\ f.pc = "reauth" => CanRetry(f.op) /\ f.tok # NoToken
  /\ f.pc # "got" => f.applied = 0
  /\ f.applied <= 1
  /\ f.pc = "got" =>
       /\ f.reply \in Replies
       /\ f.reply.status = StatusUnauthorized => f.applied = 0
       /\ Failure(f) = Nil /\ IsLogin(f) => f.auth \in Tokens /\ f.auth.gen = c[f.auth.sid]
       /\ Failure(f) = Nil /\ f.op = "AuthRefresh" =>
            /\ f.auth \in Tokens
            /\ f.auth.sid = f.arg.sid
            /\ f.uid = f.arg.sid
            /\ f.auth.gen = c[f.auth.sid]

\* The stack d, fr: frames in use are well formed, those below the top wait.
StackOK(d, fr, c, p) ==
  /\ d \in 0..MaxDepth
  /\ fr \in [1..MaxDepth -> Frames]
  /\ \A i \in 1..d : FrameOK(fr[i], c, p)
  /\ \A i \in 1..d : i < d => fr[i].pc = "reauth" /\ fr[i].err = Nil /\ fr[i].cb < Len(Script)

\* The Client and the application agree on the session and its newest token.
CredentialsOK ==
  /\ accessToken # NoToken =>
       /\ uid = accessToken.sid
       /\ saved.sid = accessToken.sid
       /\ accessToken.gen <= saved.gen
  /\ saved # NoToken => saved.sid \in proven /\ saved.gen <= cur[saved.sid]

Inv ==
  /\ TypeOK
  /\ StackOK(depth, frame, cur, proven)
  /\ CredentialsOK
  /\ HeaderIsCurrent
  /\ BodiesClosed

-----------------------------------------------------------------------------
(* Values                                                                  *)

\* A token is not the empty token.
LEMMA TokenFacts ==
  /\ NoToken \in Token0
  /\ \A t \in Tokens : t \in Token0 /\ t # NoToken /\ t.sid \in Sessions /\ t.gen \in 1..MaxGen
  /\ \A t \in Token0 : t # NoToken => t \in Tokens
  /\ \A t \in Token0 : t.sid \in Uid0 /\ t.gen \in 0..MaxGen
  BY SessionsAssumption, BoundsAssumption DEF Tokens, NoToken, Token0, Uid0

\* The unused frame has its type.
LEMMA IdleType == Idle \in Frames
  BY TokenFacts, ScriptAssumption DEF Idle, Frames, Token0, Uid0, ErrorValues

\* So has the record of the application's call before the first one.
LEMMA NoCallType == NoCall \in Calls
  BY TokenFacts DEF NoCall, Calls, Token0, Uid0, ErrorValues

\* doJSON's and GetAttachment's errors are error values; a successful
\* operation other than a download got a 2xx answer without an Error key.
LEMMA FailureFacts ==
  ASSUME NEW f, f.reply \in Replies
  PROVE  /\ Failure(f) \in ErrorValues
         /\ (Failure(f) = Nil /\ f.op \notin DownloadOps)
              => Success(f.reply) /\ f.reply.error = "absent"
  BY RepliesAssumption
  DEF Failure, RawErr, DoJSONErr, RespErr, ErrorValues, Nil, HTTPError, APIError,
      Plain, Reply, Success
-----------------------------------------------------------------------------
(* Requests                                                                *)

\* A new request is a well-formed frame, built from paired credentials.
LEMMA NewRequestOK ==
  ASSUME NEW op \in Ops, NEW step \in 1..2, NEW arg \in Token0,
         NEW u \in Uid0, NEW t \in Token0, NEW c, NEW p,
         t # NoToken => u = t.sid,
         op \in {"AuthRefresh", "Unlock"} => arg \in Tokens /\ arg.sid \in p,
         op = "AuthRefresh" /\ t # NoToken => arg.sid = t.sid
  PROVE  /\ NewRequest(op, step, arg, u, t) \in Frames
         /\ FrameOK(NewRequest(op, step, arg, u, t), c, p)
         /\ NewRequest(op, step, arg, u, t).pc = "send"
         /\ NewRequest(op, step, arg, u, t).tok = t
  <1> DEFINE r == NewRequest(op, step, arg, u, t)
  <1>1. t # NoToken => HasCredentials(u, t)
    BY TokenFacts, SessionsAssumption DEF HasCredentials
  <1>2. /\ r.op = op /\ r.pc = "send" /\ r.arg = arg /\ r.applied = 0
        /\ r.body = FreshBody(op) /\ r.tok = t
        /\ r.uid = IF op = "AuthRefresh" THEN arg.sid
                   ELSE IF HasCredentials(u, t) THEN u ELSE NoSession
    BY <1>1 DEF NewRequest, Idle, HasCredentials
  <1>3. r \in Frames
    <2>1. /\ (IF op = "AuthRefresh" THEN arg.sid
              ELSE IF HasCredentials(u, t) THEN u ELSE NoSession) \in Uid0
          /\ (IF HasCredentials(u, t) THEN t ELSE NoToken) \in Token0
          /\ FreshBody(op) \in {"none", "full", "consumed"}
      BY TokenFacts DEF Uid0, FreshBody
    <2> QED BY <2>1, IdleType DEF NewRequest, Frames
  <1>4. FrameOK(r, c, p)
    BY <1>1, <1>2 DEF FrameOK, FreshBody
  <1> QED BY <1>2, <1>3, <1>4

\* An answer changes only what arrives with it.
LEMMA AnsweredFacts ==
  ASSUME NEW f \in Frames, NEW r \in Replies, NEW applied \in BOOLEAN, NEW a \in Token0,
         f.applied = 0
  PROVE  /\ Answered(f, r, applied, a) \in Frames
         /\ Answered(f, r, applied, a).op = f.op
         /\ Answered(f, r, applied, a).step = f.step
         /\ Answered(f, r, applied, a).pc = "got"
         /\ Answered(f, r, applied, a).uid = f.uid
         /\ Answered(f, r, applied, a).tok = f.tok
         /\ Answered(f, r, applied, a).body = ReadBody(f.body)
         /\ Answered(f, r, applied, a).arg = f.arg
         /\ Answered(f, r, applied, a).reply = r
         /\ Answered(f, r, applied, a).auth = a
         /\ Answered(f, r, applied, a).applied = IF applied THEN 1 ELSE 0
  <1> DEFINE n == IF applied THEN 1 ELSE 0
             b == ReadBody(f.body)
  <1>1. n \in 0..2 /\ b \in {"none", "full", "consumed"}
    BY DEF ReadBody
  <1>2. Answered(f, r, applied, a) =
          [f EXCEPT !.pc = "got", !.body = b, !.reply = r, !.auth = a, !.applied = n]
    BY DEF Answered
  <1> HIDE DEF n, b
  <1>3. /\ Answered(f, r, applied, a) \in Frames
        /\ Answered(f, r, applied, a).applied = n
        /\ Answered(f, r, applied, a).body = b
    BY <1>1, <1>2 DEF Frames
  <1> QED BY <1>2, <1>3 DEF Frames, n, b

-----------------------------------------------------------------------------
(* The stack                                                               *)

\* A waiting frame stays well formed when sessions are verified and tokens
\* are issued.
LEMMA WaitingFrameOK ==
  ASSUME NEW f, NEW c, NEW p, NEW c2, NEW p2, FrameOK(f, c, p), f.pc = "reauth", p \subseteq p2
  PROVE  FrameOK(f, c2, p2)
  BY DEF FrameOK

\* A call pushes a frame on a stack whose top waits for its callback.
LEMMA PushOK ==
  ASSUME NEW d, NEW fr, NEW c, NEW p, NEW g \in Frames,
         StackOK(d, fr, c, p), d < MaxDepth, FrameOK(g, c, p),
         d > 0 => fr[d].pc = "reauth" /\ fr[d].err = Nil /\ fr[d].cb < Len(Script)
  PROVE  StackOK(d + 1, [fr EXCEPT ![d + 1] = g], c, p)
  <1> DEFINE fr2 == [fr EXCEPT ![d + 1] = g]
  <1>1. d \in Nat /\ d + 1 \in 1..MaxDepth
    BY BoundsAssumption DEF StackOK
  <1>2. fr2 \in [1..MaxDepth -> Frames] /\ fr2[d + 1] = g
    BY <1>1 DEF StackOK
  <1>3. \A i \in 1..d : i \in 1..MaxDepth /\ fr2[i] = fr[i]
    BY <1>1, BoundsAssumption DEF StackOK
  <1>4. \A i \in 1..(d + 1) : i = d + 1 \/ i \in 1..d
    BY <1>1
  <1>5. \A i \in 1..(d + 1) : FrameOK(fr2[i], c, p)
    BY <1>2, <1>3, <1>4 DEF StackOK
  <1>6. \A i \in 1..(d + 1) : i < d + 1 =>
           fr2[i].pc = "reauth" /\ fr2[i].err = Nil /\ fr2[i].cb < Len(Script)
    BY <1>1, <1>3, <1>4 DEF StackOK
  <1>7. d + 1 \in 0..MaxDepth
    BY <1>1
  <1> QED BY <1>2, <1>5, <1>6, <1>7 DEF StackOK

\* The top frame may become any well-formed frame.
LEMMA ReplaceOK ==
  ASSUME NEW d, NEW fr, NEW c, NEW p, NEW c2, NEW p2, NEW g \in Frames,
         StackOK(d, fr, c, p), d > 0, FrameOK(g, c2, p2), p \subseteq p2
  PROVE  StackOK(d, [fr EXCEPT ![d] = g], c2, p2)
  <1> DEFINE fr2 == [fr EXCEPT ![d] = g]
  <1>1. d \in 1..MaxDepth
    BY BoundsAssumption DEF StackOK
  <1>2. fr2 \in [1..MaxDepth -> Frames] /\ fr2[d] = g
    BY <1>1 DEF StackOK
  <1>3. \A i \in 1..d : i < d => i \in 1..MaxDepth /\ fr2[i] = fr[i] /\ fr[i].pc = "reauth"
    BY <1>1, BoundsAssumption DEF StackOK
  <1>4. \A i \in 1..d : i = d \/ i < d
    BY <1>1
  <1>5. \A i \in 1..d : FrameOK(fr2[i], c2, p2)
    <2> TAKE i \in 1..d
    <2>1. CASE i = d BY <2>1, <1>2
    <2>2. CASE i < d
      <3>1. FrameOK(fr[i], c, p) BY DEF StackOK
      <3> QED BY <3>1, <2>2, <1>3, WaitingFrameOK
    <2> QED BY <1>4, <2>1, <2>2
  <1>6. \A i \in 1..d : i < d =>
           fr2[i].pc = "reauth" /\ fr2[i].err = Nil /\ fr2[i].cb < Len(Script)
    BY <1>3 DEF StackOK
  <1> QED BY <1>1, <1>2, <1>5, <1>6 DEF StackOK

\* The callback's bookkeeping of a returned call touches nothing else.
LEMMA NotedReturn ==
  ASSUME NEW f \in Frames, NEW e \in ErrorValues, f.cb + 1 \in 0..Len(Script)
  PROVE  LET g == [f EXCEPT !.cb = @ + 1, !.err = e]
         IN  /\ g \in Frames
             /\ g.op = f.op /\ g.step = f.step /\ g.pc = f.pc /\ g.uid = f.uid
             /\ g.tok = f.tok /\ g.body = f.body /\ g.arg = f.arg
             /\ g.reply = f.reply /\ g.auth = f.auth /\ g.applied = f.applied
  BY DEF Frames

\* A return pops the top frame; the one below, if any, still waits.
LEMMA PopOK ==
  ASSUME NEW d, NEW fr, NEW c, NEW p, NEW c2, NEW p2, NEW err \in ErrorValues,
         StackOK(d, fr, c, p), d > 0, p \subseteq p2
  PROVE  /\ StackOK(d - 1, Popped(d, fr, err), c2, p2)
         /\ d - 1 > 0 => Popped(d, fr, err)[d - 1].pc = "reauth"
  <1> DEFINE fr2 == Popped(d, fr, err)
  <1>1. d \in 1..MaxDepth /\ d - 1 \in 0..MaxDepth /\ d \in Nat /\ MaxDepth \in Nat
    BY BoundsAssumption DEF StackOK
  <1>2. \A i \in 1..(d - 1) :
           /\ i \in 1..d /\ i < d /\ i \in 1..MaxDepth
           /\ i = d - 1 \/ i < d - 1
    BY <1>1
  <1>3. \A i \in 1..(d - 1) :
           /\ FrameOK(fr[i], c, p)
           /\ fr[i].pc = "reauth" /\ fr[i].err = Nil /\ fr[i].cb < Len(Script)
           /\ fr[i] \in Frames
    BY <1>2 DEF StackOK
  <1>4. ASSUME NEW i \in 1..(d - 1), i = d - 1
        PROVE  fr2[i] \in Frames /\ FrameOK(fr2[i], c2, p2) /\ fr2[i].pc = "reauth"
    <2>1. fr2[i] = [fr[i] EXCEPT !.cb = @ + 1, !.err = err]
      BY <1>1, <1>2, <1>4 DEF Popped
    <2>2. FrameOK(fr[i], c2, p2)
      BY <1>3, WaitingFrameOK
    <2>3. fr[i].cb + 1 \in 0..Len(Script)
      BY <1>3, ScriptAssumption DEF Frames
    <2> DEFINE f == fr[i]
               g == fr2[i]
    <2>4. f \in Frames /\ f.pc = "reauth"
      BY <1>3
    <2> HIDE DEF f
    <2>5. /\ g \in Frames
          /\ g.op = f.op /\ g.step = f.step /\ g.pc = f.pc /\ g.uid = f.uid
          /\ g.tok = f.tok /\ g.body = f.body /\ g.arg = f.arg
          /\ g.reply = f.reply /\ g.auth = f.auth /\ g.applied = f.applied
      <3>1. g = [f EXCEPT !.cb = @ + 1, !.err = err]
        BY <2>1 DEF f
      <3>2. f.cb + 1 \in 0..Len(Script)
        BY <2>3 DEF f
      <3> HIDE DEF g
      <3> QED BY <3>1, <3>2, <2>4, NotedReturn
    <2> HIDE DEF g
    <2>6. FrameOK(f, c2, p2)
      BY <2>2 DEF f
    <2>7. FrameOK(g, c2, p2)
      BY <2>4, <2>5, <2>6 DEF FrameOK
    <2> QED BY <2>4, <2>5, <2>7 DEF g
  <1>5. ASSUME NEW i \in 1..(d - 1), i < d - 1
        PROVE  fr2[i] = fr[i] /\ FrameOK(fr2[i], c2, p2)
    <2>1. i \in 1..MaxDepth /\ i # d /\ i # d - 1
      BY <1>1, <1>5
    <2>2. fr2[i] = fr[i]
      BY <2>1 DEF Popped
    <2>3. FrameOK(fr[i], c2, p2)
      BY <1>3, WaitingFrameOK
    <2> QED BY <2>2, <2>3
  <1>6. fr2 \in [1..MaxDepth -> Frames]
    <2>1. ASSUME NEW i \in 1..MaxDepth PROVE fr2[i] \in Frames
      <3>1. CASE i = d BY <3>1, IdleType DEF Popped
      <3>2. CASE i = d - 1
        <4>1. i \in 1..(d - 1) BY <3>2, <1>1
        <4> QED BY <4>1, <3>2, <1>4
      <3>3. CASE i # d /\ i # d - 1
        <4>1. fr2[i] = fr[i] BY <3>3 DEF Popped
        <4> QED BY <4>1 DEF StackOK
      <3> QED BY <3>1, <3>2, <3>3
    <2>2. fr2 = [i \in 1..MaxDepth |-> fr2[i]]
      BY DEF Popped
    <2> HIDE DEF fr2
    <2> QED BY <2>1, <2>2
  <1>7. \A i \in 1..(d - 1) : FrameOK(fr2[i], c2, p2)
    BY <1>2, <1>4, <1>5
  <1>8. \A i \in 1..(d - 1) : i < d - 1 =>
           fr2[i].pc = "reauth" /\ fr2[i].err = Nil /\ fr2[i].cb < Len(Script)
    <2>1. \A i \in 1..(d - 1) : i < d - 1 => fr2[i] = fr[i]
      BY <1>5
    <2> QED BY <2>1, <1>3
  <1>9. d - 1 > 0 => fr2[d - 1].pc = "reauth"
    <2>1. d - 1 > 0 => d - 1 \in 1..(d - 1) BY <1>1
    <2> QED BY <2>1, <1>4
  <1> QED BY <1>1, <1>6, <1>7, <1>8, <1>9 DEF StackOK
-----------------------------------------------------------------------------
(* Steps shared by the actions                                             *)

\* The top frame of a call under way.
LEMMA TopFacts ==
  ASSUME Inv, depth > 0
  PROVE  /\ depth \in 1..MaxDepth
         /\ Top \in Frames
         /\ FrameOK(Top, cur, proven)
         /\ Top = frame[depth]
  BY BoundsAssumption DEF Inv, TypeOK, StackOK, Top

\* An operation that returns leaves a well-formed stack whose top waits.
LEMMA ReturnFacts ==
  ASSUME Inv, depth > 0, NEW err \in ErrorValues, Return(err), proven \subseteq proven'
  PROVE  /\ depth' \in 0..MaxDepth
         /\ frame' \in [1..MaxDepth -> Frames]
         /\ StackOK(depth', frame', cur', proven')
         /\ depth' > 0 => Top'.pc = "reauth"
         /\ HeaderIsCurrent'
         /\ last' \in Calls
  <1>1. StackOK(depth, frame, cur, proven)
    BY DEF Inv
  <1>2. /\ StackOK(depth - 1, frame', cur', proven')
        /\ depth - 1 > 0 => frame'[depth - 1].pc = "reauth"
    <2>1. frame' = Popped(depth, frame, err)
      BY DEF Return
    <2> QED BY <1>1, <2>1, PopOK
  <1>3. depth' = depth - 1 BY DEF Return
  <1>4. StackOK(depth', frame', cur', proven') /\ (depth' > 0 => Top'.pc = "reauth")
    BY <1>2, <1>3 DEF Top
  <1>5. HeaderIsCurrent'
    BY <1>4 DEF HeaderIsCurrent
  <1>6. last' \in Calls
    BY DEF Inv, TypeOK, Return, Calls
  <1>7. depth' \in 0..MaxDepth /\ frame' \in [1..MaxDepth -> Frames]
    BY <1>4 DEF StackOK
  <1> QED BY <1>4, <1>5, <1>6, <1>7

\* What the server's step does to its own state, and which token it issues.
LEMMA ServerFacts ==
  ASSUME Inv, depth > 0, NEW applied \in BOOLEAN, NEW a,
         applied => Accepts(Top), a \in Issues(Top, applied), ServerStep(Top, applied, a)
  PROVE  /\ a \in Token0
         /\ cur' \in [Sessions -> 0..MaxGen]
         /\ expired' \in [Sessions -> BOOLEAN]
         /\ revoked' \in [Sessions -> BOOLEAN]
         /\ \A s \in Sessions : cur[s] <= cur'[s]
         /\ applied /\ IsLogin(Top) => a \in Tokens /\ cur'[a.sid] = a.gen
         /\ applied /\ Top.op = "AuthRefresh" =>
              /\ a \in Tokens /\ cur'[a.sid] = a.gen
              /\ a.sid = Top.arg.sid /\ Top.uid = Top.arg.sid
  <1>1. cur \in [Sessions -> 0..MaxGen] /\ MaxGen \in Nat \ {0}
    BY BoundsAssumption DEF Inv, TypeOK
  <1>2. Top.op = "AuthRefresh" => Top.arg \in Tokens /\ Top.arg.sid \in Sessions
    BY TopFacts, TokenFacts DEF FrameOK
  <1>3. CASE applied /\ IsLogin(Top)
    <2>1. PICK s \in Sessions : cur[s] = 0 /\ a = [sid |-> s, gen |-> 1]
      BY <1>3 DEF Issues
    <2>2. a \in Tokens /\ a # NoToken
      BY <2>1, <1>1, TokenFacts DEF Tokens
    <2>3. cur' = [cur EXCEPT ![s] = 1] /\ expired' = [expired EXCEPT ![s] = FALSE]
      BY <2>1, <2>2 DEF ServerStep
    <2>4. revoked' = revoked
      BY <1>3 DEF ServerStep, IsLogin
    <2>5. /\ cur' \in [Sessions -> 0..MaxGen]
          /\ \A x \in Sessions : cur[x] <= cur'[x]
          /\ cur'[a.sid] = a.gen
      BY <2>1, <2>3, <1>1
    <2>6. Top.op # "AuthRefresh" BY <1>3 DEF IsLogin
    <2> QED BY <2>2, <2>3, <2>4, <2>5, <2>6, TokenFacts DEF Inv, TypeOK
  <1>4. CASE applied /\ Top.op = "AuthRefresh"
    <2>1. /\ ~IsLogin(Top) /\ Top.uid = Top.arg.sid
          /\ cur[Top.arg.sid] = Top.arg.gen
      BY <1>4 DEF IsLogin, Accepts
    <2>2. a = [sid |-> Top.arg.sid, gen |-> NextGen(cur[Top.arg.sid])]
      BY <1>4, <2>1 DEF Issues
    <2>3. cur[Top.arg.sid] \in 1..MaxGen
      BY <1>2, <1>4, <2>1, TokenFacts
    <2>4. /\ NextGen(cur[Top.arg.sid]) \in 1..MaxGen
          /\ cur[Top.arg.sid] <= NextGen(cur[Top.arg.sid])
      BY <2>3, <1>1 DEF NextGen
    <2>5. a \in Tokens /\ a # NoToken
      BY <1>2, <1>4, <2>2, <2>4, TokenFacts DEF Tokens
    <2>6. /\ cur' = [cur EXCEPT ![Top.arg.sid] = NextGen(cur[Top.arg.sid])]
          /\ expired' = [expired EXCEPT ![Top.arg.sid] = FALSE]
          /\ revoked' = revoked
      BY <1>4, <2>2, <2>5 DEF ServerStep
    <2>7. /\ cur' \in [Sessions -> 0..MaxGen]
          /\ \A x \in Sessions : cur[x] <= cur'[x]
          /\ cur'[a.sid] = a.gen
      BY <2>2, <2>4, <2>6, <1>1, <1>2, <1>4
    <2> QED BY <2>1, <2>2, <2>5, <2>6, <2>7, TokenFacts DEF Inv, TypeOK
  <1>5. CASE ~(applied /\ IsLogin(Top)) /\ ~(applied /\ Top.op = "AuthRefresh")
    <2>1. a = NoToken BY <1>5 DEF Issues
    <2>2. cur' = cur /\ expired' = expired BY <2>1 DEF ServerStep
    <2>3. revoked' \in [Sessions -> BOOLEAN] BY DEF ServerStep, Inv, TypeOK
    <2>4. \A x \in Sessions : cur[x] <= cur'[x] BY <2>2, <1>1
    <2> QED BY <1>1, <1>5, <2>1, <2>2, <2>3, <2>4, TokenFacts DEF Inv, TypeOK
  <1> QED BY <1>3, <1>4, <1>5

\* Tokens only age: what Inv says of the credentials survives a server step.
LEMMA CredentialsKept ==
  ASSUME Inv, UNCHANGED <<uid, accessToken, saved, proven>>,
         cur' \in [Sessions -> 0..MaxGen], \A s \in Sessions : cur[s] <= cur'[s]
  PROVE  CredentialsOK'
  <1>1. saved # NoToken => saved.sid \in Sessions /\ saved.gen \in 0..MaxGen
    BY TokenFacts DEF Inv, TypeOK
  <1>2. saved # NoToken => saved.gen <= cur'[saved.sid]
    <2>1. SUFFICES ASSUME saved # NoToken PROVE saved.gen <= cur'[saved.sid]
      OBVIOUS
    <2>2. saved.gen <= cur[saved.sid] /\ cur[saved.sid] <= cur'[saved.sid]
      BY <1>1, <2>1 DEF Inv, CredentialsOK
    <2>3. cur[saved.sid] \in Nat /\ cur'[saved.sid] \in Nat /\ saved.gen \in Nat
      BY <1>1, <2>1, BoundsAssumption DEF Inv, TypeOK
    <2> QED BY <2>2, <2>3
  <1> QED BY <1>2 DEF Inv, CredentialsOK
-----------------------------------------------------------------------------
(* One lemma per action                                                    *)

\* Init establishes the invariant.
LEMMA InitInv == Init => Inv
  <1> SUFFICES ASSUME Init PROVE Inv
    OBVIOUS
  <1>1. TypeOK
    <2>1. frame \in [1..MaxDepth -> Frames]
      BY IdleType DEF Init
    <2>2. uid \in Uid0 /\ accessToken \in Token0 /\ saved \in Token0 /\ last \in Calls
      BY NoCallType, TokenFacts DEF Init, Uid0
    <2>3. /\ cur \in [Sessions -> 0..MaxGen]
          /\ expired \in [Sessions -> BOOLEAN] /\ revoked \in [Sessions -> BOOLEAN]
      BY BoundsAssumption DEF Init
    <2>4. depth \in 0..MaxDepth /\ open \in Nat /\ handed \in Nat
      BY BoundsAssumption DEF Init
    <2>5. keyRing \in BOOLEAN /\ proven \subseteq Sessions
      BY DEF Init
    <2> QED BY <2>1, <2>2, <2>3, <2>4, <2>5 DEF TypeOK
  <1>2. StackOK(depth, frame, cur, proven)
    BY IdleType, BoundsAssumption DEF Init, StackOK
  <1>3. CredentialsOK /\ HeaderIsCurrent /\ BodiesClosed
    BY DEF Init, CredentialsOK, HeaderIsCurrent, BodiesClosed
  <1> QED BY <1>1, <1>2, <1>3 DEF Inv

\* A call of the application or of the callback.
LEMMA BeginInv ==
  ASSUME Inv, NEW op \in Ops, NEW step \in 1..2, Begin(op, step), last' \in Calls,
         depth > 0 => Top.pc = "reauth" /\ Top.err = Nil /\ Top.cb < Len(Script)
  PROVE  Inv'
  <1> DEFINE arg == IF op \in {"AuthRefresh", "Unlock"} THEN saved ELSE NoToken
             u   == IF op = "Unlock" THEN saved.sid ELSE uid
             t   == IF op = "Unlock" THEN saved ELSE accessToken
             g   == NewRequest(op, step, arg, u, t)
  <1>1. /\ depth < MaxDepth
        /\ uid' = u /\ accessToken' = t /\ depth' = depth + 1
        /\ frame' = [frame EXCEPT ![depth + 1] = g]
        /\ UNCHANGED <<keyRing, cur, expired, revoked, saved, open, handed, proven>>
        /\ op \in {"AuthRefresh", "Unlock"} => saved # NoToken
    BY DEF Begin, serverVars
  <1>2. /\ arg \in Token0 /\ u \in Uid0 /\ t \in Token0
        /\ op \in {"AuthRefresh", "Unlock"} => arg \in Tokens /\ arg.sid \in proven
        /\ t # NoToken => u = t.sid
        /\ op = "AuthRefresh" /\ t # NoToken => arg.sid = t.sid
    BY <1>1, TokenFacts DEF Inv, TypeOK, CredentialsOK
  <1>3. CredentialsOK'
    BY <1>1, <1>2, TokenFacts DEF Inv, TypeOK, CredentialsOK
  <1>4. g \in Frames /\ FrameOK(g, cur, proven) /\ g.pc = "send" /\ g.tok = t
    <2> HIDE DEF arg, u, t
    <2> QED BY <1>2, NewRequestOK
  <1>5. u \in Uid0 /\ t \in Token0
    BY <1>2
  <1> HIDE DEF g, u, t
  <1>6. StackOK(depth', frame', cur', proven')
    <2>1. StackOK(depth + 1, [frame EXCEPT ![depth + 1] = g], cur, proven)
      BY <1>1, <1>4, PushOK DEF Inv, Top
    <2> QED BY <1>1, <2>1
  <1>7. Top' = g
    BY <1>1, BoundsAssumption DEF Inv, TypeOK, Top
  <1>8. TypeOK'
    BY <1>1, <1>5, <1>6 DEF Inv, TypeOK, StackOK
  <1>9. HeaderIsCurrent'
    BY <1>1, <1>4, <1>7 DEF HeaderIsCurrent
  <1>10. BodiesClosed'
    BY <1>1, <1>4, <1>7 DEF Inv, BodiesClosed
  <1> QED BY <1>3, <1>6, <1>8, <1>9, <1>10 DEF Inv

\* A call of the application starts the stack with a fresh request.
LEMMA AppCallInv ==
  ASSUME Inv, NEW op \in AppOps, NEW step \in 1..2, AppCall(op, step)
  PROVE  Inv'
  <1>1. op \in Ops BY ScriptAssumption
  <1>2. last' \in Calls
    <2>1. last' = [NoCall EXCEPT !.done = FALSE, !.op = op, !.uid = uid, !.tok = accessToken]
      BY DEF AppCall
    <2>2. uid \in Uid0 /\ accessToken \in Token0
      BY DEF Inv, TypeOK
    <2> QED BY <1>1, <2>1, <2>2, NoCallType DEF Calls
  <1>3. ~(depth > 0) BY DEF AppCall
  <1> QED BY <1>1, <1>2, <1>3, BeginInv DEF AppCall

\* A call of the callback builds its request from what the Client holds now.
LEMMA CallbackCallInv ==
  ASSUME Inv, NEW step \in 1..2, CallbackCall(step)
  PROVE  Inv'
  <1>1. depth > 0 /\ Top.pc = "reauth" /\ Top.err = Nil /\ Top.cb < Len(Script)
    BY DEF CallbackCall
  <1>2. Script[Top.cb + 1] \in Ops
    <2>1. Top.cb \in Nat /\ Top.cb + 1 \in 1..Len(Script)
      BY <1>1, TopFacts, ScriptAssumption DEF Frames
    <2> QED BY <2>1, ScriptAssumption
  <1>3. last' \in Calls BY DEF CallbackCall, Inv, TypeOK
  <1> QED BY <1>1, <1>2, <1>3, BeginInv DEF CallbackCall
\* The server answers.
LEMMA RespondInv ==
  ASSUME Inv, NEW r \in Replies, NEW applied \in BOOLEAN, NEW a \in Token0,
         Respond(r, applied, a)
  PROVE  Inv'
  <1> DEFINE f == Top
             n == IF applied THEN 1 ELSE 0
             g == Answered(f, r, applied, a)
  <1>1. /\ depth > 0 /\ f.pc = "send" /\ Answers(f, r, applied)
        /\ a \in Issues(f, applied) /\ ServerStep(f, applied, a)
        /\ open' = open + 1
        /\ UNCHANGED <<uid, accessToken, keyRing, depth, saved, handed, proven>>
    BY DEF Respond, clientVars
  <1>2. f \in Frames /\ FrameOK(f, cur, proven) /\ depth \in 1..MaxDepth
    BY <1>1, TopFacts
  <1>3. /\ cur' \in [Sessions -> 0..MaxGen]
        /\ expired' \in [Sessions -> BOOLEAN] /\ revoked' \in [Sessions -> BOOLEAN]
        /\ \A s \in Sessions : cur[s] <= cur'[s]
        /\ applied /\ IsLogin(f) => a \in Tokens /\ cur'[a.sid] = a.gen
        /\ applied /\ f.op = "AuthRefresh" =>
             /\ a \in Tokens /\ cur'[a.sid] = a.gen
             /\ a.sid = f.arg.sid /\ f.uid = f.arg.sid
    BY <1>1, ServerFacts DEF Answers
  <1>4. frame' = [frame EXCEPT ![depth] = g]
    BY DEF Respond
  <1>5. f.applied = 0
    BY <1>1, <1>2 DEF FrameOK
  <1>6. ReadBody(f.body) \in {"none", "consumed"} /\ (ReadBody(f.body) = "none" <=> f.body = "none")
    BY DEF ReadBody
  <1> HIDE DEF f
  <1>7. /\ g \in Frames
        /\ g.op = f.op /\ g.step = f.step /\ g.pc = "got" /\ g.uid = f.uid
        /\ g.tok = f.tok /\ g.body = ReadBody(f.body) /\ g.arg = f.arg
        /\ g.reply = r /\ g.auth = a /\ g.applied = n
    BY <1>2, <1>5, AnsweredFacts
  <1> HIDE DEF g
  <1>8. Failure(g) = Nil /\ g.op \notin DownloadOps => applied
    BY <1>1, <1>7, FailureFacts DEF Answers
  <1>9. r.status = StatusUnauthorized => n = 0
    BY <1>1 DEF Answers
  <1>10. Failure(g) = Nil /\ IsLogin(g) => a \in Tokens /\ a.gen = cur'[a.sid]
    <2>1. IsLogin(g) => IsLogin(f) /\ g.op \notin DownloadOps
      BY <1>7 DEF IsLogin, DownloadOps
    <2> QED BY <1>3, <1>8, <2>1
  <1>11. Failure(g) = Nil /\ g.op = "AuthRefresh" =>
           a \in Tokens /\ a.sid = f.arg.sid /\ f.uid = f.arg.sid /\ a.gen = cur'[a.sid]
    <2>1. g.op = "AuthRefresh" => f.op = "AuthRefresh" /\ g.op \notin DownloadOps
      BY <1>7 DEF DownloadOps
    <2> QED BY <1>3, <1>8, <2>1
  <1>12. FrameOK(g, cur', proven)
    BY <1>1, <1>2, <1>5, <1>6, <1>7, <1>9, <1>10, <1>11 DEF FrameOK
  <1>13. StackOK(depth', frame', cur', proven')
    <2>1. StackOK(depth, [frame EXCEPT ![depth] = g], cur', proven)
      BY <1>1, <1>7, <1>12, ReplaceOK DEF Inv
    <2> QED BY <1>1, <1>4, <2>1
  <1>14. Top' = g
    BY <1>1, <1>2, <1>4 DEF Inv, TypeOK, Top
  <1>15. last' \in Calls
    BY DEF Respond, Inv, TypeOK, Calls
  <1>16. TypeOK'
    BY <1>1, <1>3, <1>13, <1>15 DEF Inv, TypeOK, StackOK
  <1>17. HeaderIsCurrent'
    BY <1>1, <1>7, <1>14 DEF Inv, HeaderIsCurrent, f
  <1>18. BodiesClosed'
    BY <1>1, <1>7, <1>14 DEF Inv, TypeOK, BodiesClosed, f
  <1>19. CredentialsOK'
    BY <1>1, <1>3, CredentialsKept
  <1> QED BY <1>13, <1>16, <1>17, <1>18, <1>19 DEF Inv

\* The transport fails, before or after the server acted.
LEMMA TransportFailInv ==
  ASSUME Inv, NEW applied \in BOOLEAN, NEW a \in Token0, TransportFail(applied, a)
  PROVE  Inv'
  <1>1. /\ depth > 0 /\ Top.pc = "send"
        /\ Return(Plain("transport"))
        /\ UNCHANGED <<uid, accessToken, keyRing, saved, open, handed, proven>>
    BY DEF TransportFail, clientVars
  <1>2. Plain("transport") \in ErrorValues BY DEF ErrorValues
  <1>3. /\ cur' \in [Sessions -> 0..MaxGen]
        /\ expired' \in [Sessions -> BOOLEAN] /\ revoked' \in [Sessions -> BOOLEAN]
        /\ \A s \in Sessions : cur[s] <= cur'[s]
    BY <1>1, ServerFacts DEF TransportFail
  <1>4. /\ depth' \in 0..MaxDepth /\ frame' \in [1..MaxDepth -> Frames]
        /\ StackOK(depth', frame', cur', proven')
        /\ depth' > 0 => Top'.pc = "reauth"
        /\ HeaderIsCurrent' /\ last' \in Calls
    BY <1>1, <1>2, ReturnFacts
  <1>5. TypeOK' BY <1>1, <1>3, <1>4 DEF Inv, TypeOK
  <1>6. BodiesClosed' BY <1>1, <1>4 DEF Inv, BodiesClosed
  <1>7. CredentialsOK' BY <1>1, <1>3, CredentialsKept
  <1> QED BY <1>4, <1>5, <1>6, <1>7 DEF Inv
\* do's 401 branch.
LEMMA StartReauthInv == ASSUME Inv, StartReauth PROVE Inv'
  <1> DEFINE f == Top
             g == Waiting(f)
  <1>1. /\ depth > 0 /\ f.pc = "got" /\ Retries(f)
        /\ open' = open - 1 /\ accessToken' = NoToken
        /\ frame' = [frame EXCEPT ![depth] = g]
        /\ UNCHANGED <<uid, keyRing, depth, cur, expired, revoked, saved, handed, proven>>
    BY DEF StartReauth, serverVars
  <1>2. f \in Frames /\ FrameOK(f, cur, proven) /\ depth \in 1..MaxDepth
    BY <1>1, TopFacts
  <1>3. open = handed + 1 /\ handed \in Nat
    BY <1>1 DEF Inv, TypeOK, BodiesClosed
  <1> HIDE DEF f
  <1>4. /\ g \in Frames
        /\ g.op = f.op /\ g.step = f.step /\ g.pc = "reauth" /\ g.uid = f.uid
        /\ g.tok = f.tok /\ g.body = f.body /\ g.arg = f.arg /\ g.applied = f.applied
    <2>1. Nil \in ErrorValues /\ 0 \in 0..Len(Script)
      BY ScriptAssumption DEF ErrorValues
    <2> QED BY <1>2, <2>1 DEF Waiting, Frames
  <1> HIDE DEF g
  <1>5. FrameOK(g, cur, proven)
    BY <1>1, <1>2, <1>4 DEF FrameOK, Retries
  <1>6. StackOK(depth', frame', cur', proven')
    <2>1. StackOK(depth, [frame EXCEPT ![depth] = g], cur, proven)
      BY <1>1, <1>4, <1>5, ReplaceOK DEF Inv
    <2> QED BY <1>1, <2>1
  <1>7. Top' = g
    BY <1>1, <1>2 DEF Inv, TypeOK, Top
  <1>8. last' \in Calls
    <2> DEFINE n == IF last.reauths < 2 THEN last.reauths + 1 ELSE 2
    <2>1. last \in Calls BY DEF Inv, TypeOK
    <2>2. n \in 0..2 BY <2>1 DEF Calls
    <2>3. last' = IF depth = 1 THEN [last EXCEPT !.reauths = n] ELSE last
      BY <2>1 DEF StartReauth, Calls
    <2> HIDE DEF n
    <2> QED BY <2>1, <2>2, <2>3 DEF Calls
  <1>9. TypeOK'
    BY <1>1, <1>3, <1>6, <1>8, TokenFacts DEF Inv, TypeOK, StackOK
  <1>10. HeaderIsCurrent' /\ CredentialsOK'
    BY <1>1 DEF Inv, HeaderIsCurrent, CredentialsOK
  <1>11. BodiesClosed'
    BY <1>1, <1>3, <1>4, <1>7 DEF BodiesClosed
  <1> QED BY <1>6, <1>9, <1>10, <1>11 DEF Inv

\* The callback returns nil.
LEMMA RetryInv == ASSUME Inv, Retry PROVE Inv'
  <1> DEFINE f == Top
             g == RetriedRequest(f)
  <1>1. /\ depth > 0 /\ f.pc = "reauth"
        /\ frame' = [frame EXCEPT ![depth] = g]
        /\ UNCHANGED <<uid, accessToken, keyRing, depth, cur, expired, revoked, saved,
                       open, handed, proven, last>>
    BY DEF Retry, serverVars, clientVars
  <1>2. f \in Frames /\ FrameOK(f, cur, proven) /\ depth \in 1..MaxDepth
    BY <1>1, TopFacts
  <1>3. accessToken # NoToken => HasCredentials(uid, accessToken) /\ uid = accessToken.sid
    BY TokenFacts, SessionsAssumption DEF Inv, TypeOK, CredentialsOK, HasCredentials
  <1>4. BodiesClosed /\ Top.pc # "got"
    BY <1>1 DEF Inv
  <1> HIDE DEF f
  <1>5. /\ g \in Frames
        /\ g.op = f.op /\ g.step = f.step /\ g.pc = "send" /\ g.arg = f.arg
        /\ g.applied = f.applied
        /\ g.uid = IF HasCredentials(uid, accessToken) THEN uid ELSE f.uid
        /\ g.tok = IF HasCredentials(uid, accessToken) THEN accessToken ELSE f.tok
        /\ g.body = IF BodyKind(f.op) = "json" THEN "full" ELSE f.body
    BY <1>2 DEF RetriedRequest, Frames, Inv, TypeOK
  <1> HIDE DEF g
  <1>6. g.body = FreshBody(g.op) /\ (g.body = "none" <=> BodyKind(g.op) = "none")
    BY <1>1, <1>2, <1>5 DEF FrameOK, CanRetry, FreshBody
  <1>7. g.tok # NoToken => g.uid = g.tok.sid
    BY <1>2, <1>3, <1>5 DEF FrameOK, HasCredentials
  <1>8. FrameOK(g, cur, proven)
    BY <1>1, <1>2, <1>5, <1>6, <1>7 DEF FrameOK
  <1>9. StackOK(depth', frame', cur', proven')
    <2>1. StackOK(depth, [frame EXCEPT ![depth] = g], cur, proven)
      BY <1>1, <1>5, <1>8, ReplaceOK DEF Inv
    <2> QED BY <1>1, <2>1
  <1>10. Top' = g
    BY <1>1, <1>2 DEF Inv, TypeOK, Top
  <1>11. TypeOK'
    BY <1>1, <1>9 DEF Inv, TypeOK, StackOK
  <1>12. HeaderIsCurrent'
    BY <1>1, <1>3, <1>5, <1>10 DEF HeaderIsCurrent
  <1>13. BodiesClosed'
    BY <1>1, <1>4, <1>5, <1>10 DEF BodiesClosed
  <1>14. CredentialsOK'
    BY <1>1 DEF Inv, CredentialsOK
  <1> QED BY <1>9, <1>11, <1>12, <1>13, <1>14 DEF Inv

\* The callback returns an error.
LEMMA CallbackFailedInv == ASSUME Inv, CallbackFailed PROVE Inv'
  <1>1. /\ depth > 0 /\ Top.pc = "reauth" /\ Return(Top.err)
        /\ UNCHANGED <<uid, accessToken, keyRing, cur, expired, revoked, saved, open,
                       handed, proven>>
    BY DEF CallbackFailed, clientVars, serverVars
  <1>2. Top.err \in ErrorValues BY <1>1, TopFacts DEF Frames
  <1>3. /\ depth' \in 0..MaxDepth /\ frame' \in [1..MaxDepth -> Frames]
        /\ StackOK(depth', frame', cur', proven')
        /\ depth' > 0 => Top'.pc = "reauth"
        /\ HeaderIsCurrent' /\ last' \in Calls
    BY <1>1, <1>2, ReturnFacts
  <1>4. TypeOK' BY <1>1, <1>3 DEF Inv, TypeOK
  <1>5. BodiesClosed' BY <1>1, <1>3 DEF Inv, BodiesClosed
  <1>6. CredentialsOK' BY <1>1 DEF Inv, CredentialsOK
  <1> QED BY <1>3, <1>4, <1>5, <1>6 DEF Inv

\* An operation that has its response closes the body and returns; what it
\* does to the credentials is for its own lemma to show.
LEMMA CloseAndReturn ==
  ASSUME Inv, depth > 0, Top.pc = "got", NEW err \in ErrorValues, Return(err),
         open' = open - 1, UNCHANGED <<cur, expired, revoked, handed>>,
         proven \subseteq proven', proven' \subseteq Sessions,
         uid' \in Uid0, accessToken' \in Token0, saved' \in Token0, keyRing' \in BOOLEAN,
         CredentialsOK'
  PROVE  Inv'
  <1>1. open = handed + 1 /\ handed \in Nat
    BY DEF Inv, TypeOK, BodiesClosed
  <1>2. /\ depth' \in 0..MaxDepth /\ frame' \in [1..MaxDepth -> Frames]
        /\ StackOK(depth', frame', cur', proven')
        /\ depth' > 0 => Top'.pc = "reauth"
        /\ HeaderIsCurrent' /\ last' \in Calls
    BY ReturnFacts
  <1>3. open' \in Nat /\ open' = handed'
    BY <1>1
  <1>4. TypeOK' BY <1>2, <1>3 DEF Inv, TypeOK
  <1>5. BodiesClosed' BY <1>2, <1>3 DEF BodiesClosed
  <1> QED BY <1>2, <1>4, <1>5 DEF Inv

\* As above, for the operations that leave the credentials alone.
LEMMA CloseAndReturnOnly ==
  ASSUME Inv, depth > 0, Top.pc = "got", NEW err \in ErrorValues, Return(err),
         open' = open - 1,
         UNCHANGED <<uid, accessToken, cur, expired, revoked, saved, handed, proven>>,
         keyRing' \in BOOLEAN
  PROVE  Inv'
  <1>1. CredentialsOK' BY DEF Inv, CredentialsOK
  <1>2. /\ proven \subseteq proven' /\ proven' \subseteq Sessions
        /\ uid' \in Uid0 /\ accessToken' \in Token0 /\ saved' \in Token0
    BY DEF Inv, TypeOK
  <1> QED BY <1>1, <1>2, CloseAndReturn

\* A failure closes the body and returns; the Client is left alone.
LEMMA FailInv == ASSUME Inv, Fail PROVE Inv'
  <1>1. /\ depth > 0 /\ Top.pc = "got" /\ Return(Failure(Top)) /\ open' = open - 1
        /\ UNCHANGED <<uid, accessToken, keyRing, cur, expired, revoked, saved, handed, proven>>
    BY DEF Fail, Got, clientVars, serverVars
  <1>2. Failure(Top) \in ErrorValues BY <1>1, TopFacts, FailureFacts DEF FrameOK
  <1>3. keyRing' \in BOOLEAN BY <1>1 DEF Inv, TypeOK
  <1> QED BY <1>1, <1>2, <1>3, CloseAndReturnOnly
\* A plain operation closes the body and returns.
LEMMA FinishPlainInv == ASSUME Inv, FinishPlain PROVE Inv'
  <1>1. /\ depth > 0 /\ Top.pc = "got" /\ open' = open - 1
        /\ Return(Nil) \/ Return(Plain("decode"))
        /\ UNCHANGED <<uid, accessToken, keyRing, cur, expired, revoked, saved, handed, proven>>
    BY DEF FinishPlain, Got, clientVars, serverVars
  <1>2. Nil \in ErrorValues /\ Plain("decode") \in ErrorValues BY DEF ErrorValues
  <1>3. keyRing' \in BOOLEAN BY <1>1 DEF Inv, TypeOK
  <1> QED BY <1>1, <1>2, <1>3, CloseAndReturnOnly

\* GetAttachment: the body stays open and is the caller's.
LEMMA FinishDownloadInv == ASSUME Inv, FinishDownload PROVE Inv'
  <1>1. /\ depth > 0 /\ Top.pc = "got" /\ handed' = handed + 1 /\ Return(Nil)
        /\ UNCHANGED <<uid, accessToken, keyRing, cur, expired, revoked, saved, open, proven>>
    BY DEF FinishDownload, Got, clientVars, serverVars
  <1>2. Nil \in ErrorValues BY DEF ErrorValues
  <1>3. /\ depth' \in 0..MaxDepth /\ frame' \in [1..MaxDepth -> Frames]
        /\ StackOK(depth', frame', cur', proven')
        /\ depth' > 0 => Top'.pc = "reauth"
        /\ HeaderIsCurrent' /\ last' \in Calls
    BY <1>1, <1>2, ReturnFacts
  <1>4. open = handed + 1 /\ handed \in Nat /\ handed' \in Nat
    BY <1>1 DEF Inv, TypeOK, BodiesClosed
  <1>5. TypeOK' BY <1>1, <1>3, <1>4 DEF Inv, TypeOK
  <1>6. BodiesClosed' BY <1>1, <1>3, <1>4 DEF BodiesClosed
  <1>7. CredentialsOK' BY <1>1 DEF Inv, CredentialsOK
  <1> QED BY <1>3, <1>5, <1>6, <1>7 DEF Inv

\* The application closes a body it was handed.
LEMMA CloseAttachmentInv == ASSUME Inv, CloseAttachment PROVE Inv'
  <1>1. /\ depth = 0 /\ handed > 0 /\ handed' = handed - 1 /\ open' = open - 1
        /\ UNCHANGED <<uid, accessToken, keyRing, depth, frame, cur, expired, revoked,
                       saved, proven, last>>
    BY DEF CloseAttachment, clientVars, serverVars, stackVars
  <1>2. open = handed /\ handed \in Nat \ {0}
    BY <1>1 DEF Inv, TypeOK, BodiesClosed
  <1>3. open' \in Nat /\ handed' \in Nat /\ open' = handed'
    BY <1>1, <1>2, BoundsAssumption
  <1>4. TypeOK' BY <1>1, <1>3 DEF Inv, TypeOK
  <1>5. BodiesClosed' BY <1>1, <1>3 DEF BodiesClosed
  <1> QED BY <1>1, <1>4, <1>5 DEF Inv, CredentialsOK, HeaderIsCurrent

\* An operation that goes on to its second request.
LEMMA NextRequestInv ==
  ASSUME Inv, depth > 0, Top.pc = "got", NEW op \in Ops, NEW arg \in Token0,
         op # "AuthRefresh",
         op = "Unlock" => arg \in Tokens /\ arg.sid \in proven,
         frame' = [frame EXCEPT ![depth] = NewRequest(op, 2, arg, uid, accessToken)],
         open' = open - 1,
         UNCHANGED <<uid, accessToken, keyRing, depth, cur, expired, revoked, saved,
                     handed, proven, last>>
  PROVE  Inv'
  <1> DEFINE g == NewRequest(op, 2, arg, uid, accessToken)
  <1>1. g \in Frames /\ FrameOK(g, cur, proven) /\ g.pc = "send" /\ g.tok = accessToken
    <2>1. /\ uid \in Uid0 /\ accessToken \in Token0 /\ 2 \in 1..2
          /\ accessToken # NoToken => uid = accessToken.sid
      BY DEF Inv, TypeOK, CredentialsOK
    <2> QED BY <2>1, NewRequestOK
  <1>2. open = handed + 1 /\ handed \in Nat
    BY DEF Inv, TypeOK, BodiesClosed
  <1> HIDE DEF g
  <1>3. frame' = [frame EXCEPT ![depth] = g] BY DEF g
  <1>4. StackOK(depth', frame', cur', proven')
    <2>1. StackOK(depth, [frame EXCEPT ![depth] = g], cur, proven)
      BY <1>1, ReplaceOK DEF Inv
    <2> QED BY <1>3, <2>1
  <1>5. Top' = g
    BY <1>3, TopFacts DEF Inv, TypeOK, Top
  <1>6. TypeOK' BY <1>2, <1>4 DEF Inv, TypeOK, StackOK
  <1>7. HeaderIsCurrent' BY <1>1, <1>5 DEF HeaderIsCurrent
  <1>8. BodiesClosed' BY <1>1, <1>2, <1>5 DEF BodiesClosed
  <1>9. CredentialsOK' BY DEF Inv, CredentialsOK
  <1> QED BY <1>4, <1>6, <1>7, <1>8, <1>9 DEF Inv

\* The second request of Auth is built from the Client's fields.
LEMMA FinishAuthInfoInv == ASSUME Inv, FinishAuthInfo PROVE Inv'
  <1>1. /\ depth > 0 /\ Top.pc = "got" /\ open' = open - 1
        /\ UNCHANGED <<uid, accessToken, keyRing, cur, expired, revoked, saved, handed, proven>>
    BY DEF FinishAuthInfo, Got, clientVars, serverVars
  <1>2. CASE Return(Plain("srp"))
    <2>1. Plain("srp") \in ErrorValues /\ keyRing' \in BOOLEAN
      BY <1>1 DEF ErrorValues, Inv, TypeOK
    <2> QED BY <1>1, <1>2, <2>1, CloseAndReturnOnly
  <1>3. CASE /\ frame' = [frame EXCEPT ![depth] = NewRequest("Auth", 2, NoToken, uid, accessToken)]
             /\ UNCHANGED <<depth, last>>
    <2>1. "Auth" \in Ops /\ NoToken \in Token0
      BY TokenFacts DEF Ops, CredentialOps
    <2> QED BY <1>1, <1>3, <2>1, NextRequestInv
  <1> QED BY <1>2, <1>3 DEF FinishAuthInfo

\* The second request of Unlock is built from the Client's fields.
LEMMA FinishUnlockUserInv == ASSUME Inv, FinishUnlockUser PROVE Inv'
  <1>1. /\ depth > 0 /\ Top.pc = "got" /\ open' = open - 1 /\ Top.op = "Unlock"
        /\ UNCHANGED <<uid, accessToken, keyRing, cur, expired, revoked, saved, handed, proven>>
    BY DEF FinishUnlockUser, Got, clientVars, serverVars
  <1>2. CASE Return(Plain("keys"))
    <2>1. Plain("keys") \in ErrorValues /\ keyRing' \in BOOLEAN
      BY <1>1 DEF ErrorValues, Inv, TypeOK
    <2> QED BY <1>1, <1>2, <2>1, CloseAndReturnOnly
  <1>3. CASE /\ frame' = [frame EXCEPT ![depth] = NewRequest("Unlock", 2, Top.arg, uid, accessToken)]
             /\ UNCHANGED <<depth, last>>
    <2>1. "Unlock" \in Ops BY DEF Ops, CredentialOps
    <2>2. Top.arg \in Tokens /\ Top.arg \in Token0 /\ Top.arg.sid \in proven
      BY <1>1, TopFacts, TokenFacts DEF FrameOK
    <2> QED BY <1>1, <1>3, <2>1, <2>2, NextRequestInv
  <1> QED BY <1>2, <1>3 DEF FinishUnlockUser

\* The end of Unlock only sets the key ring.
LEMMA FinishUnlockAddressesInv == ASSUME Inv, FinishUnlockAddresses PROVE Inv'
  <1>1. /\ depth > 0 /\ Top.pc = "got" /\ open' = open - 1
        /\ UNCHANGED <<uid, accessToken, cur, expired, revoked, saved, handed, proven>>
        /\ \/ Return(Plain("keys")) /\ keyRing' = keyRing
           \/ Return(Nil) /\ keyRing' = TRUE
    BY DEF FinishUnlockAddresses, Got, serverVars
  <1>2. Nil \in ErrorValues /\ Plain("keys") \in ErrorValues BY DEF ErrorValues
  <1>3. keyRing' \in BOOLEAN BY <1>1 DEF Inv, TypeOK
  <1> QED BY <1>1, <1>2, <1>3, CloseAndReturnOnly

\* Auth adopts the session of the token the server has just issued.
LEMMA FinishAuthInv == ASSUME Inv, FinishAuth PROVE Inv'
  <1>1. /\ depth > 0 /\ Top.pc = "got" /\ open' = open - 1
        /\ Failure(Top) = Nil /\ IsLogin(Top)
        /\ UNCHANGED <<keyRing, cur, expired, revoked, handed>>
    BY DEF FinishAuth, Got, serverVars
  <1>2. Nil \in ErrorValues /\ Plain("proof") \in ErrorValues BY DEF ErrorValues
  <1>3. keyRing' \in BOOLEAN BY <1>1 DEF Inv, TypeOK
  <1>4. CASE Return(Plain("proof")) /\ UNCHANGED <<uid, accessToken, saved, proven>>
    BY <1>1, <1>2, <1>3, <1>4, CloseAndReturnOnly
  <1>5. CASE /\ uid' = Top.auth.sid /\ accessToken' = Top.auth /\ saved' = Top.auth
             /\ proven' = proven \cup {Top.auth.sid} /\ Return(Nil)
    <2>1. Top.auth \in Tokens /\ Top.auth.gen <= cur[Top.auth.sid]
      BY <1>1, TopFacts, TokenFacts, BoundsAssumption DEF FrameOK
    <2>2. /\ Top.auth \in Token0 /\ Top.auth.sid \in Sessions /\ Top.auth.sid \in Uid0
          /\ Top.auth.gen <= Top.auth.gen
      BY <2>1, TokenFacts, BoundsAssumption DEF Uid0
    <2>3. CredentialsOK'
      BY <1>1, <1>5, <2>1, <2>2 DEF CredentialsOK
    <2>4. proven \subseteq proven' /\ proven' \subseteq Sessions
      BY <1>5, <2>2 DEF Inv, TypeOK
    <2>5. uid' \in Uid0 /\ accessToken' \in Token0 /\ saved' \in Token0
      BY <1>5, <2>2
    <2> QED BY <1>1, <1>2, <1>3, <1>5, <2>3, <2>4, <2>5, CloseAndReturn
  <1> QED BY <1>4, <1>5 DEF FinishAuth

\* AuthRefresh gives the application the newest token of its session.
LEMMA FinishRefreshInv == ASSUME Inv, FinishRefresh PROVE Inv'
  <1>1. /\ depth > 0 /\ Top.pc = "got" /\ open' = open - 1
        /\ Failure(Top) = Nil /\ Top.op = "AuthRefresh" /\ saved' = Top.auth /\ Return(Nil)
        /\ UNCHANGED <<uid, accessToken, keyRing, cur, expired, revoked, handed, proven>>
    BY DEF FinishRefresh, Got, clientVars, serverVars
  <1>2. Nil \in ErrorValues BY DEF ErrorValues
  <1>3. keyRing' \in BOOLEAN /\ uid' \in Uid0 /\ accessToken' \in Token0
    BY <1>1 DEF Inv, TypeOK
  <1>4. /\ Top.auth \in Tokens /\ Top.auth.sid = Top.arg.sid /\ Top.uid = Top.arg.sid
        /\ Top.auth.gen = cur[Top.auth.sid] /\ Top.arg.sid \in proven
        /\ Top.tok # NoToken => Top.uid = Top.tok.sid
    BY <1>1, TopFacts DEF FrameOK
  <1>5. Top.auth \in Token0 /\ Top.auth.sid \in Sessions /\ Top.auth.gen \in Nat
    BY <1>4, TokenFacts, BoundsAssumption
  <1>6. accessToken # NoToken =>
           /\ uid = accessToken.sid
           /\ accessToken.sid = Top.auth.sid
           /\ accessToken.gen <= Top.auth.gen
    <2> SUFFICES ASSUME accessToken # NoToken
                 PROVE  /\ uid = accessToken.sid
                        /\ accessToken.sid = Top.auth.sid
                        /\ accessToken.gen <= Top.auth.gen
      OBVIOUS
    <2>1. Top.tok = accessToken
      BY <1>1 DEF Inv, HeaderIsCurrent
    <2>2. accessToken.sid = Top.auth.sid
      BY <1>4, <2>1
    <2>3. /\ uid = accessToken.sid /\ saved.sid = accessToken.sid
          /\ accessToken.gen <= saved.gen
      BY DEF Inv, CredentialsOK
    <2>4. accessToken \in Tokens /\ saved # NoToken
      BY <2>3, TokenFacts, SessionsAssumption DEF Inv, TypeOK, NoToken
    <2>5. saved.gen <= cur[saved.sid]
      BY <2>4 DEF Inv, CredentialsOK
    <2>6. saved.gen \in Nat /\ accessToken.gen \in Nat
      BY <2>4, TokenFacts, BoundsAssumption DEF Inv, TypeOK
    <2> QED BY <1>4, <1>5, <2>2, <2>3, <2>5, <2>6
  <1>7. CredentialsOK'
    <2>1. Top.auth.gen <= cur[Top.auth.sid] BY <1>4, <1>5
    <2> QED BY <1>1, <1>4, <1>6, <2>1 DEF CredentialsOK
  <1>8. proven \subseteq proven' /\ proven' \subseteq Sessions /\ saved' \in Token0
    BY <1>1, <1>5 DEF Inv, TypeOK
  <1> QED BY <1>1, <1>2, <1>3, <1>7, <1>8, CloseAndReturn

\* Logout gives up the token, so nothing is claimed about it any more.
LEMMA FinishLogoutInv == ASSUME Inv, FinishLogout PROVE Inv'
  <1>1. /\ depth > 0 /\ Top.pc = "got" /\ open' = open - 1 /\ Return(Nil)
        /\ uid' = NoSession /\ accessToken' = NoToken /\ keyRing' = FALSE
        /\ UNCHANGED <<cur, expired, revoked, saved, handed, proven>>
    BY DEF FinishLogout, Got, serverVars
  <1>2. Nil \in ErrorValues BY DEF ErrorValues
  <1>3. CredentialsOK' BY <1>1 DEF Inv, CredentialsOK
  <1>4. /\ uid' \in Uid0 /\ accessToken' \in Token0 /\ saved' \in Token0
        /\ proven \subseteq proven' /\ proven' \subseteq Sessions
    BY <1>1, TokenFacts DEF Inv, TypeOK, Uid0
  <1>5. keyRing' \in BOOLEAN BY <1>1
  <1> QED BY <1>1, <1>2, <1>3, <1>4, <1>5, CloseAndReturn

\* An expiry changes a server flag that the invariant does not read.
LEMMA ExpireInv == ASSUME Inv, NEW s \in Sessions, Expire(s) PROVE Inv'
  <1>1. /\ expired' = [expired EXCEPT ![s] = TRUE]
        /\ UNCHANGED <<uid, accessToken, keyRing, depth, frame, cur, revoked, saved, open,
                       handed, proven, last>>
    BY DEF Expire, clientVars, stackVars
  <1>2. TypeOK' BY <1>1 DEF Inv, TypeOK
  <1>3. Top' = Top BY <1>1 DEF Top
  <1> QED BY <1>1, <1>2, <1>3 DEF Inv, CredentialsOK, HeaderIsCurrent, BodiesClosed
-----------------------------------------------------------------------------
(* Theorems                                                                *)

\* Every step of the specification preserves the invariant.
LEMMA NextInv == Inv /\ [Next]_vars => Inv'
  <1> SUFFICES ASSUME Inv, [Next]_vars PROVE Inv'
    OBVIOUS
  <1>1. CASE UNCHANGED vars
    <2>1. UNCHANGED <<uid, accessToken, keyRing, depth, frame, cur, expired, revoked, saved,
                      open, handed, proven, last>>
      BY <1>1 DEF vars, clientVars, stackVars, serverVars
    <2>2. Top' = Top BY <2>1 DEF Top
    <2> QED BY <2>1, <2>2 DEF Inv, TypeOK, CredentialsOK, HeaderIsCurrent, BodiesClosed
  <1>2. CASE \E op \in AppOps, step \in 1..2 : AppCall(op, step)
    BY <1>2, AppCallInv
  <1>3. CASE CloseAttachment
    BY <1>3, CloseAttachmentInv
  <1>4. CASE \E s \in Sessions : Expire(s)
    BY <1>4, ExpireInv
  <1>5. CASE \E step \in 1..2 : CallbackCall(step)
    BY <1>5, CallbackCallInv
  <1>6. CASE \E r \in Replies, applied \in BOOLEAN, a \in Token0 : Respond(r, applied, a)
    BY <1>6, RespondInv
  <1>7. CASE \E applied \in BOOLEAN, a \in Token0 : TransportFail(applied, a)
    BY <1>7, TransportFailInv
  <1>8. CASE StartReauth BY <1>8, StartReauthInv
  <1>9. CASE Retry BY <1>9, RetryInv
  <1>10. CASE CallbackFailed BY <1>10, CallbackFailedInv
  <1>11. CASE Fail BY <1>11, FailInv
  <1>12. CASE FinishPlain BY <1>12, FinishPlainInv
  <1>13. CASE FinishDownload BY <1>13, FinishDownloadInv
  <1>14. CASE FinishAuthInfo BY <1>14, FinishAuthInfoInv
  <1>15. CASE FinishAuth BY <1>15, FinishAuthInv
  <1>16. CASE FinishRefresh BY <1>16, FinishRefreshInv
  <1>17. CASE FinishUnlockUser BY <1>17, FinishUnlockUserInv
  <1>18. CASE FinishUnlockAddresses BY <1>18, FinishUnlockAddressesInv
  <1>19. CASE FinishLogout BY <1>19, FinishLogoutInv
  <1> QED
    BY <1>1, <1>2, <1>3, <1>4, <1>5, <1>6, <1>7, <1>8, <1>9, <1>10, <1>11, <1>12, <1>13,
       <1>14, <1>15, <1>16, <1>17, <1>18, <1>19
    DEF Next, Work

\* The invariant holds throughout every behaviour.
THEOREM Invariance == Spec => []Inv
  <1>1. Init => Inv BY InitInv
  <1>2. Inv /\ [Next]_vars => Inv' BY NextInv
  <1> QED BY <1>1, <1>2, PTL DEF Spec

\* Type correctness of the Client, the stack and the server.
THEOREM TypeCorrect == Spec => []TypeOK
  <1>1. Inv => TypeOK BY DEF Inv
  <1> QED BY <1>1, Invariance, PTL

\* UID and token are never mixed across sessions, in the Client or in the
\* headers of any request on the stack, whatever the callback does.
THEOREM CredentialsStayPaired == Spec => []CredentialsPaired
  <1>1. Inv => CredentialsPaired
    BY DEF Inv, CredentialsOK, StackOK, FrameOK, CredentialsPaired
  <1> QED BY <1>1, Invariance, PTL

\* The request in flight carries the Client's current token.
THEOREM HeaderStaysCurrent == Spec => []HeaderIsCurrent
  <1>1. Inv => HeaderIsCurrent BY DEF Inv
  <1> QED BY <1>1, Invariance, PTL

\* No request is ever sent with a body that was already read.
THEOREM BodyStaysIntact == Spec => []BodyIntact
  <1>1. Inv => BodyIntact
    BY TopFacts DEF FrameOK, BodyIntact
  <1> QED BY <1>1, Invariance, PTL

\* No response body leaks: when no call is under way, only bodies handed to
\* the application are open.
THEOREM NoBodyLeaks == Spec => []BodiesClosed
  <1>1. Inv => BodiesClosed BY DEF Inv
  <1> QED BY <1>1, Invariance, PTL

\* A retry never makes the server act twice on a request.
THEOREM AtMostOnce == Spec => []AppliedAtMostOnce
  <1>1. Inv => AppliedAtMostOnce
    BY DEF Inv, StackOK, FrameOK, AppliedAtMostOnce
  <1> QED BY <1>1, Invariance, PTL

\* The Client uses and the application keeps only tokens of sessions whose
\* server proof was verified.
THEOREM OnlyVerifiedSessions == Spec => []VerifiedSessionsOnly
  <1>1. Inv => VerifiedSessionsOnly
    <2> SUFFICES ASSUME Inv PROVE VerifiedSessionsOnly
      OBVIOUS
    <2>1. saved # NoToken => saved.sid \in proven
      BY DEF Inv, CredentialsOK
    <2>2. accessToken # NoToken => saved # NoToken /\ saved.sid = accessToken.sid
      BY TokenFacts, SessionsAssumption DEF Inv, TypeOK, CredentialsOK, NoToken
    <2> QED BY <2>1, <2>2 DEF VerifiedSessionsOnly
  <1> QED BY <1>1, Invariance, PTL

\* The application's Auth is never older than the Client's token.
THEOREM SavedStaysNewest == Spec => []SavedIsNewest
  <1>1. Inv => SavedIsNewest
    <2> SUFFICES ASSUME Inv, accessToken # NoToken
                 PROVE  saved.sid = accessToken.sid /\ saved.gen >= accessToken.gen
      BY DEF SavedIsNewest
    <2>1. saved.sid = accessToken.sid /\ accessToken.gen <= saved.gen
      BY DEF Inv, CredentialsOK
    <2>2. saved.gen \in Nat /\ accessToken.gen \in Nat
      BY TokenFacts, BoundsAssumption DEF Inv, TypeOK
    <2> QED BY <2>1, <2>2
  <1> QED BY <1>1, Invariance, PTL
=============================================================================
