------------------------------ MODULE Session -------------------------------
(***************************************************************************)
(* The credentials of one Client and everything that reads or writes them: *)
(* the request path newRequest -> do -> doJSON, its 401 branch that calls  *)
(* the ReAuth callback and retries, and the operations of auth.go.         *)
(*                                                                         *)
(* The callback runs inside do and calls the same Client again, so a call  *)
(* is a stack of frames: frame[1] is the call the application made,        *)
(* frame[i+1] a call its callback made while frame[i] waits for it.  One   *)
(* goroutine uses the Client (it has no lock); the server expires tokens   *)
(* at any time, and the transport may lose a request or its answer.        *)
(***************************************************************************)
EXTENDS Errors, Sequences

CONSTANTS
  Sessions,     \* session ids (UIDs) the server can hand out
  NoSession,    \* the empty UID
  MaxGen,       \* bound: token generations per session
  MaxDepth,     \* bound: frames on the call stack
  MaxHanded,    \* bound: attachment bodies the application holds open
  Replies,      \* the responses the server chooses from
  HasReauth,    \* is a WithReAuth callback installed
  Script,       \* the operations the callback performs, in order
  AppOps,       \* the operations the application calls
  LoginMay401   \* may the server refuse a user name or password with HTTP 401

VARIABLES
  uid, accessToken, keyRing,   \* the Client's fields; keyRing: is it set
  depth, frame,                \* the call stack
  cur, expired, revoked,       \* the server: newest generation, its flags
  saved,                       \* the newest Auth the application has
  open, handed,                \* response bodies not closed; those given to the application
  proven,                      \* sessions whose server proof was verified
  last                         \* the application's current or latest call

clientVars == <<uid, accessToken, keyRing>>
stackVars  == <<depth, frame>>
serverVars == <<cur, expired, revoked>>
vars == <<clientVars, stackVars, serverVars, saved, open, handed, proven, last>>

-----------------------------------------------------------------------------
(* The operations of the package, by the way they build their request.     *)

MessageGets  == {"ListMessages", "CountMessages", "GetMessage"}
MessagePosts == {"CreateDraftMessage", "UpdateDraftMessage", "MarkMessagesRead",
                 "MarkMessagesUnread", "DeleteMessages", "UndeleteMessages",
                 "LabelMessages", "UnlabelMessages"}
SendOps      == {"SendMessage"}
ContactGets  == {"ListContacts", "ListContactsEmails", "ListContactsExport",
                 "GetContact", "DeleteAllContacts"}
ContactPosts == {"CreateContacts", "UpdateContact", "DeleteContacts"}
CalendarGets == {"ListCalendars", "ListCalendarEvents"}
AddressGets  == {"ListAddresses"}
LabelGets    == {"ListLabels"}
UserGets     == {"GetCurrentUser"}
ConversationGets == {"GetConversation"}
EventGets    == {"GetEvent"}
KeyGets      == {"GetPublicKeys"}
SaltGets     == {"ListKeySalts"}
DownloadOps  == {"GetAttachment"}
UploadOps    == {"CreateAttachment", "Import"}
TOTPOps      == {"AuthTOTP"}
InfoOps      == {"AuthInfo"}
CredentialOps == {"Auth", "AuthRefresh", "Unlock", "Logout"}

GetOps  == MessageGets \cup ContactGets \cup CalendarGets \cup AddressGets
             \cup LabelGets \cup UserGets \cup ConversationGets \cup EventGets
             \cup KeyGets \cup SaltGets
PostOps == MessagePosts \cup SendOps \cup ContactPosts \cup TOTPOps \cup InfoOps
Ops     == GetOps \cup PostOps \cup DownloadOps \cup UploadOps \cup CredentialOps

\* newRequest with a nil body, newJSONRequest (GetBody set), or a pipe's reader.
BodyKind(op) ==
  IF op \in PostOps \cup {"Auth", "AuthRefresh"} THEN "json"
  ELSE IF op \in UploadOps THEN "pipe" ELSE "none"

\* Operations that return as soon as doJSON succeeds.
PlainOps == GetOps \cup PostOps \cup UploadOps

\* Operations the server answers without an access token.
PublicOps == InfoOps \cup {"Auth", "AuthRefresh"}

-----------------------------------------------------------------------------
(* Values                                                                  *)

Tokens  == [sid: Sessions, gen: 1..MaxGen]
NoToken == [sid |-> NoSession, gen |-> 0]
Token0  == Tokens \cup {NoToken}
Uid0    == Sessions \cup {NoSession}

NoReply == [status |-> 0, json |-> FALSE, error |-> "absent", code |-> 0]

ErrorValues ==
  {Nil} \cup {Plain(k) : k \in {"decode", "transport", "srp", "proof", "keys"}}
    \cup {HTTPError(r.status) : r \in Replies}
    \cup {APIError(r.code, r.status) : r \in Replies}
    \cup {APIError(r.code, 0) : r \in Replies}

Frames ==
  [op: Ops \cup {"idle"}, step: 1..2, pc: {"idle", "send", "got", "reauth"},
   uid: Uid0, tok: Token0, body: {"none", "full", "consumed"}, arg: Token0,
   reply: Replies \cup {NoReply}, auth: Token0, cb: 0..Len(Script),
   err: ErrorValues, applied: 0..2]

Idle ==
  [op |-> "idle", step |-> 1, pc |-> "idle", uid |-> NoSession, tok |-> NoToken,
   body |-> "none", arg |-> NoToken, reply |-> NoReply, auth |-> NoToken,
   cb |-> 0, err |-> Nil, applied |-> 0]

Calls ==
  [done: BOOLEAN, op: Ops \cup {"idle"}, err: ErrorValues, uid: Uid0,
   tok: Token0, reauths: 0..2, rejected: BOOLEAN]

NoCall ==
  [done |-> TRUE, op |-> "idle", err |-> Nil, uid |-> NoSession,
   tok |-> NoToken, reauths |-> 0, rejected |-> FALSE]

ASSUME SessionsAssumption == NoSession \notin Sessions
ASSUME BoundsAssumption   == MaxGen \in Nat \ {0} /\ MaxDepth \in Nat \ {0}
                               /\ MaxHanded \in Nat
ASSUME RepliesAssumption  == Replies \subseteq Reply(Nat \ {0}, Nat)
ASSUME ScriptAssumption   == Script \in Seq(Ops) /\ AppOps \subseteq Ops
ASSUME FlagsAssumption    == HasReauth \in BOOLEAN /\ LoginMay401 \in BOOLEAN

-----------------------------------------------------------------------------
(* newRequest, setRequestAuthorization, GetBody                            *)

\* Both headers are set, or neither.
HasCredentials(u, t) == u # NoSession /\ t # NoToken

FreshBody(op) == IF BodyKind(op) = "none" THEN "none" ELSE "full"

\* What is left of a body after the transport has read it.
ReadBody(b) == IF b = "none" THEN "none" ELSE "consumed"

\* The request of an operation's given step, built from credentials u and t.
\* AuthRefresh then sets the UID header to that of the expired Auth.
NewRequest(op, step, arg, u, t) ==
  [Idle EXCEPT !.op   = op,
               !.step = step,
               !.pc   = "send",
               !.uid  = IF op = "AuthRefresh" THEN arg.sid
                        ELSE IF HasCredentials(u, t) THEN u ELSE NoSession,
               !.tok  = IF HasCredentials(u, t) THEN t ELSE NoToken,
               !.body = FreshBody(op),
               !.arg  = arg]

\* Mutant: the retry goes out with the headers of the rejected request.
MutRetriedStaleHeader(f) == [f EXCEPT !.pc = "send", !.body = FreshBody(f.op)]

\* The retried request: headers replaced if there are credentials, the body
\* obtained again from GetBody.
RetriedRequest(f) ==
  [f EXCEPT !.pc   = "send",
            !.uid  = IF HasCredentials(uid, accessToken) THEN uid ELSE f.uid,
            !.tok  = IF HasCredentials(uid, accessToken) THEN accessToken ELSE f.tok,
            !.body = IF BodyKind(f.op) = "json" THEN "full" ELSE f.body]

\* Mutant: a request is retried whether or not its body can be replayed.
MutCanRetryAny(op) == TRUE

\* A request without a body, or with GetBody.
CanRetry(op) == BodyKind(op) \in {"none", "json"}

\* Mutant: any failure status enters the 401 branch.
MutRetriesAnyFailure(f) ==
  ~Success(f.reply) /\ f.tok # NoToken /\ HasReauth /\ CanRetry(f.op)

\* The condition of do's 401 branch.
Retries(f) ==
  /\ f.reply.status = StatusUnauthorized
  /\ f.tok # NoToken
  /\ HasReauth
  /\ CanRetry(f.op)

-----------------------------------------------------------------------------
(* The server (external)                                                   *)

Live(u, t) ==
  /\ t # NoToken
  /\ u = t.sid
  /\ cur[t.sid] = t.gen
  /\ ~expired[t.sid]
  /\ ~revoked[t.sid]

IsLogin(f) == f.op = "Auth" /\ f.step = 2

\* Requests the server may refuse for the user name or password in them.
NamesUser(f) == f.op \in InfoOps \cup {"Auth"}

Accepts(f) ==
  IF IsLogin(f) THEN \E s \in Sessions : cur[s] = 0
  ELSE IF f.op = "AuthRefresh"
       THEN f.uid = f.arg.sid /\ cur[f.arg.sid] = f.arg.gen /\ ~revoked[f.arg.sid]
       ELSE f.op \in PublicOps \/ Live(f.uid, f.tok)

NextGen(g) == IF g < MaxGen THEN g + 1 ELSE g

\* The Auths the server may issue for f when it does what f asks.
Issues(f, applied) ==
  IF applied /\ IsLogin(f)
  THEN {[sid |-> s, gen |-> 1] : s \in {x \in Sessions : cur[x] = 0}}
  ELSE IF applied /\ f.op = "AuthRefresh"
       THEN {[sid |-> f.arg.sid, gen |-> NextGen(cur[f.arg.sid])]}
       ELSE {NoToken}

\* A request is done or not whatever the answer says, except that success is
\* claimed only of a request that was done, and that a 401 means rejection (a
\* wrong name or password is one of the other failures unless LoginMay401).
Answers(f, r, applied) ==
  /\ applied => Accepts(f)
  /\ (Success(r) /\ r.error = "absent") => applied
  /\ r.status = StatusUnauthorized =>
       ~applied /\ IF NamesUser(f) THEN LoginMay401 ELSE ~Accepts(f)

ServerStep(f, applied, a) ==
  /\ cur'     = IF a = NoToken THEN cur ELSE [cur EXCEPT ![a.sid] = a.gen]
  /\ expired' = IF a = NoToken THEN expired ELSE [expired EXCEPT ![a.sid] = FALSE]
  /\ revoked' = IF applied /\ f.op = "Logout"
                THEN [revoked EXCEPT ![f.tok.sid] = TRUE] ELSE revoked

-----------------------------------------------------------------------------
(* The call stack                                                          *)

Top == frame[depth]

\* The stack without its top frame d: the caller of a returning operation is
\* the application, or the callback that the frame below waits for.
Popped(d, fr, err) ==
  [i \in 1..MaxDepth |->
     IF i = d THEN Idle
     ELSE IF i = d - 1 THEN [fr[i] EXCEPT !.cb = @ + 1, !.err = err]
          ELSE fr[i]]

Return(err) ==
  /\ depth' = depth - 1
  /\ frame' = Popped(depth, frame, err)
  /\ last'  = IF depth = 1 THEN [last EXCEPT !.done = TRUE, !.err = err] ELSE last

\* An operation starts: Unlock stores the Auth it is given before anything else.
\* The code takes any Auth; the application is assumed to pass its newest one
\* (saved) to AuthRefresh and Unlock.
Begin(op, step) ==
  LET arg == IF op \in {"AuthRefresh", "Unlock"} THEN saved ELSE NoToken
      u   == IF op = "Unlock" THEN saved.sid ELSE uid
      t   == IF op = "Unlock" THEN saved ELSE accessToken
  IN /\ depth < MaxDepth
     /\ op \in {"AuthRefresh", "Unlock"} => saved # NoToken
     /\ step = 2 => op = "Auth"      \* Auth is given the AuthInfo it needs
     /\ op = "GetAttachment" => handed < MaxHanded
     /\ uid' = u
     /\ accessToken' = t
     /\ depth' = depth + 1
     /\ frame' = [frame EXCEPT ![depth + 1] = NewRequest(op, step, arg, u, t)]
     /\ UNCHANGED <<keyRing, serverVars, saved, open, handed, proven>>

AppCall(op, step) ==
  /\ depth = 0
  /\ Begin(op, step)
  /\ last' = [NoCall EXCEPT !.done = FALSE, !.op = op, !.uid = uid, !.tok = accessToken]

CallbackCall(step) ==
  /\ depth > 0 /\ Top.pc = "reauth" /\ Top.err = Nil
  /\ Top.cb < Len(Script)
  /\ Begin(Script[Top.cb + 1], step)
  /\ UNCHANGED last

-----------------------------------------------------------------------------
(* One request                                                             *)

\* Frame f with the answer r, the token a it carries, and one more request
\* that the server acted upon.
Answered(f, r, applied, a) ==
  [f EXCEPT !.pc = "got", !.body = ReadBody(f.body), !.reply = r, !.auth = a,
            !.applied = IF applied /\ f.applied < 2 THEN f.applied + 1 ELSE f.applied]

\* The server answers; the application-level call notes a rejection.
Respond(r, applied, a) ==
  /\ depth > 0 /\ Top.pc = "send"
  /\ Answers(Top, r, applied)
  /\ a \in Issues(Top, applied)
  /\ ServerStep(Top, applied, a)
  /\ frame' = [frame EXCEPT ![depth] = Answered(Top, r, applied, a)]
  /\ open' = open + 1
  /\ last' = IF depth = 1
             THEN [last EXCEPT !.rejected = (r.status = StatusUnauthorized)] ELSE last
  /\ UNCHANGED <<clientVars, depth, saved, handed, proven>>

\* No response: the request could not be built or sent, or its context was
\* cancelled, or the answer was lost after the server had acted on it.
TransportFail(applied, a) ==
  /\ depth > 0 /\ Top.pc = "send"
  /\ applied => Accepts(Top)
  /\ a \in Issues(Top, applied)
  /\ ServerStep(Top, applied, a)
  /\ Return(Plain("transport"))
  /\ UNCHANGED <<clientVars, saved, open, handed, proven>>

\* Frame f while it waits for the callback.
Waiting(f) == [f EXCEPT !.pc = "reauth", !.reply = NoReply, !.cb = 0, !.err = Nil]

\* Mutant: the rejected token is kept while the callback runs.
MutStartReauthKeepsToken ==
  /\ depth > 0 /\ Top.pc = "got" /\ Retries(Top)
  /\ open' = open - 1
  /\ frame' = [frame EXCEPT ![depth] = Waiting(Top)]
  /\ last' = IF depth = 1
             THEN [last EXCEPT !.reauths = IF @ < 2 THEN @ + 1 ELSE 2] ELSE last
  /\ UNCHANGED <<uid, accessToken, keyRing, depth, serverVars, saved, handed, proven>>

\* do's 401 branch: the body is closed, the token dropped, the callback entered.
StartReauth ==
  /\ depth > 0 /\ Top.pc = "got" /\ Retries(Top)
  /\ open' = open - 1
  /\ accessToken' = NoToken
  /\ frame' = [frame EXCEPT ![depth] = Waiting(Top)]
  /\ last' = IF depth = 1
             THEN [last EXCEPT !.reauths = IF @ < 2 THEN @ + 1 ELSE 2] ELSE last
  /\ UNCHANGED <<uid, keyRing, depth, serverVars, saved, handed, proven>>

\* The callback returns nil: do sends the request again.  The code calls do
\* recursively here; the frame stands for all calls of do for one request, so
\* depth counts nested callbacks and not the retries of a request.
Retry ==
  /\ depth > 0 /\ Top.pc = "reauth" /\ Top.err = Nil
  /\ Top.cb = Len(Script)
  /\ frame' = [frame EXCEPT ![depth] = RetriedRequest(Top)]
  /\ UNCHANGED <<clientVars, depth, serverVars, saved, open, handed, proven, last>>

\* Mutant: a failed callback puts the token of the rejected request back.
MutCallbackFailedRestores ==
  /\ depth > 0 /\ Top.pc = "reauth" /\ Top.err # Nil
  /\ accessToken' = Top.tok
  /\ Return(Top.err)
  /\ UNCHANGED <<uid, keyRing, serverVars, saved, open, handed, proven>>

\* The callback returns an error: do returns it as it is.
CallbackFailed ==
  /\ depth > 0 /\ Top.pc = "reauth" /\ Top.err # Nil
  /\ Return(Top.err)
  /\ UNCHANGED <<clientVars, serverVars, saved, open, handed, proven>>

Failure(f) ==
  IF f.op \in DownloadOps THEN RawErr(f.reply) ELSE DoJSONErr(f.reply)

\* do has returned a response to its caller.
Got(err) == depth > 0 /\ Top.pc = "got" /\ ~Retries(Top) /\ (Failure(Top) # Nil <=> err)

\* Mutant: the body of a failed response is not closed.
MutFailLeaksBody ==
  Got(TRUE) /\ Return(Failure(Top))
    /\ UNCHANGED <<clientVars, serverVars, saved, open, handed, proven>>

\* Mutant: Logout clears the local state before it looks at the error.
MutFailForgetsOnLogout ==
  /\ Got(TRUE)
  /\ open' = open - 1
  /\ accessToken' = IF Top.op = "Logout" THEN NoToken ELSE accessToken
  /\ Return(Failure(Top))
  /\ UNCHANGED <<uid, keyRing, serverVars, saved, handed, proven>>

\* Every operation returns doJSON's error as it is and leaves the Client alone.
Fail ==
  /\ Got(TRUE)
  /\ open' = open - 1
  /\ Return(Failure(Top))
  /\ UNCHANGED <<clientVars, serverVars, saved, handed, proven>>

-----------------------------------------------------------------------------
(* What each operation does with a successful response                     *)

FinishPlain ==
  /\ Got(FALSE) /\ Top.op \in PlainOps
  /\ open' = open - 1
  /\ \/ Return(Nil)
     \/ Top.op \in SaltGets /\ Return(Plain("decode"))
  /\ UNCHANGED <<clientVars, serverVars, saved, handed, proven>>

\* Mutant: GetAttachment closes the body that it returns.
MutFinishDownloadCloses ==
  /\ Got(FALSE) /\ Top.op \in DownloadOps
  /\ handed' = handed + 1
  /\ open' = open - 1
  /\ Return(Nil)
  /\ UNCHANGED <<clientVars, serverVars, saved, proven>>

\* GetAttachment gives the open body to its caller.
FinishDownload ==
  /\ Got(FALSE) /\ Top.op \in DownloadOps
  /\ handed' = handed + 1
  /\ Return(Nil)
  /\ UNCHANGED <<clientVars, serverVars, saved, open, proven>>

CloseAttachment ==
  /\ depth = 0 /\ handed > 0
  /\ handed' = handed - 1
  /\ open' = open - 1
  /\ UNCHANGED <<clientVars, stackVars, serverVars, saved, proven, last>>

\* Auth has its AuthInfo: srp may refuse it, else the proofs are sent.
FinishAuthInfo ==
  /\ Got(FALSE) /\ Top.op = "Auth" /\ Top.step = 1
  /\ open' = open - 1
  /\ \/ Return(Plain("srp"))
     \/ /\ frame' = [frame EXCEPT ![depth] =
                       NewRequest("Auth", 2, NoToken, uid, accessToken)]
        /\ UNCHANGED <<depth, last>>
  /\ UNCHANGED <<clientVars, serverVars, saved, handed, proven>>

\* Mutant: the token is stored without its UID.
MutFinishAuthKeepsUID ==
  /\ Got(FALSE) /\ IsLogin(Top)
  /\ open' = open - 1
  /\ accessToken' = Top.auth /\ saved' = Top.auth
  /\ proven' = proven \cup {Top.auth.sid}
  /\ Return(Nil)
  /\ UNCHANGED <<uid, keyRing, serverVars, handed>>

\* Mutant: the session is adopted before the server proof is verified.
MutFinishAuthUnverified ==
  /\ Got(FALSE) /\ IsLogin(Top)
  /\ open' = open - 1
  /\ uid' = Top.auth.sid /\ accessToken' = Top.auth
  /\ \/ Return(Plain("proof")) /\ UNCHANGED <<saved, proven>>
     \/ Return(Nil) /\ saved' = Top.auth /\ proven' = proven \cup {Top.auth.sid}
  /\ UNCHANGED <<keyRing, serverVars, handed>>

\* The server proof is verified before the session is adopted.
FinishAuth ==
  /\ Got(FALSE) /\ IsLogin(Top)
  /\ open' = open - 1
  /\ \/ /\ Return(Plain("proof"))
        /\ UNCHANGED <<uid, accessToken, saved, proven>>
     \/ /\ uid' = Top.auth.sid
        /\ accessToken' = Top.auth
        /\ saved' = Top.auth
        /\ proven' = proven \cup {Top.auth.sid}
        /\ Return(Nil)
  /\ UNCHANGED <<keyRing, serverVars, handed>>

\* Mutant: the Client takes the new token, the caller is given the expired Auth.
MutFinishRefreshReturnsOld ==
  /\ Got(FALSE) /\ Top.op = "AuthRefresh"
  /\ open' = open - 1
  /\ uid' = Top.auth.sid /\ accessToken' = Top.auth
  /\ Return(Nil)
  /\ UNCHANGED <<keyRing, serverVars, saved, handed, proven>>

\* AuthRefresh only returns the new Auth: the application keeps it, the
\* Client does not.
FinishRefresh ==
  /\ Got(FALSE) /\ Top.op = "AuthRefresh"
  /\ open' = open - 1
  /\ saved' = Top.auth
  /\ Return(Nil)
  /\ UNCHANGED <<clientVars, serverVars, handed, proven>>

\* Unlock has the user: its keys unlock, or Unlock gives up; then the addresses.
FinishUnlockUser ==
  /\ Got(FALSE) /\ Top.op = "Unlock" /\ Top.step = 1
  /\ open' = open - 1
  /\ \/ Return(Plain("keys"))
     \/ /\ frame' = [frame EXCEPT ![depth] =
                       NewRequest("Unlock", 2, Top.arg, uid, accessToken)]
        /\ UNCHANGED <<depth, last>>
  /\ UNCHANGED <<clientVars, serverVars, saved, handed, proven>>

\* Unlock has the addresses: the ring is stored if any of their keys unlocks.
FinishUnlockAddresses ==
  /\ Got(FALSE) /\ Top.op = "Unlock" /\ Top.step = 2
  /\ open' = open - 1
  /\ \/ Return(Plain("keys")) /\ UNCHANGED keyRing
     \/ Return(Nil) /\ keyRing' = TRUE
  /\ UNCHANGED <<uid, accessToken, serverVars, saved, handed, proven>>

\* Logout clears the local state once the server has confirmed.
FinishLogout ==
  /\ Got(FALSE) /\ Top.op = "Logout"
  /\ open' = open - 1
  /\ uid' = NoSession
  /\ accessToken' = NoToken
  /\ keyRing' = FALSE
  /\ Return(Nil)
  /\ UNCHANGED <<serverVars, saved, handed, proven>>

-----------------------------------------------------------------------------
\* The server ends the life of a session's newest access token.
Expire(s) ==
  /\ cur[s] \in 1..(MaxGen - 1) /\ ~expired[s]
  /\ expired' = [expired EXCEPT ![s] = TRUE]
  /\ UNCHANGED <<clientVars, stackVars, cur, revoked, saved, open, handed, proven, last>>

Init ==
  /\ uid = NoSession /\ accessToken = NoToken /\ keyRing = FALSE
  /\ depth = 0 /\ frame = [i \in 1..MaxDepth |-> Idle]
  /\ cur = [s \in Sessions |-> 0]
  /\ expired = [s \in Sessions |-> FALSE] /\ revoked = [s \in Sessions |-> FALSE]
  /\ saved = NoToken /\ open = 0 /\ handed = 0 /\ proven = {}
  /\ last = NoCall

\* Steps the client, the transport and the server owe a call under way.
Work ==
  \/ \E step \in 1..2 : CallbackCall(step)
  \/ \E r \in Replies, applied \in BOOLEAN, a \in Token0 : Respond(r, applied, a)
  \/ \E applied \in BOOLEAN, a \in Token0 : TransportFail(applied, a)
  \/ StartReauth
  \/ Retry
  \/ CallbackFailed
  \/ Fail
  \/ FinishPlain
  \/ FinishDownload
  \/ FinishAuthInfo
  \/ FinishAuth
  \/ FinishRefresh
  \/ FinishUnlockUser
  \/ FinishUnlockAddresses
  \/ FinishLogout

Next ==
  \/ \E op \in AppOps, step \in 1..2 : AppCall(op, step)
  \/ CloseAttachment
  \/ \E s \in Sessions : Expire(s)
  \/ Work

Spec == Init /\ [][Next]_vars

FairSpec == Spec /\ WF_vars(Work)
-----------------------------------------------------------------------------
(* Properties                                                              *)

\* Every variable has its type.
TypeOK ==
  /\ uid \in Uid0 /\ accessToken \in Token0 /\ keyRing \in BOOLEAN
  /\ depth \in 0..MaxDepth /\ frame \in [1..MaxDepth -> Frames]
  /\ cur \in [Sessions -> 0..MaxGen]
  /\ expired \in [Sessions -> BOOLEAN] /\ revoked \in [Sessions -> BOOLEAN]
  /\ saved \in Token0 /\ open \in Nat /\ handed \in Nat
  /\ proven \subseteq Sessions
  /\ last \in Calls

\* The Client's UID and token belong to the same session, and so do the two
\* headers of every request on the stack, whatever the callback has replaced
\* in between (setRequestAuthorization, AuthRefresh, Unlock, Auth).
CredentialsPaired ==
  /\ accessToken # NoToken => uid = accessToken.sid
  /\ \A i \in 1..depth : frame[i].tok # NoToken => frame[i].uid = frame[i].tok.sid

\* The request in flight carries the token the Client holds now, if it holds
\* one: do never answers a 401 to an old token by dropping a newer one.
HeaderIsCurrent ==
  (depth > 0 /\ Top.pc \in {"send", "got"} /\ accessToken # NoToken)
    => Top.tok = accessToken

\* A request is never sent with a body that was already read: do retries only
\* what it can replay and refills it from GetBody.
BodyIntact ==
  (depth > 0 /\ Top.pc = "send") => Top.body = FreshBody(Top.op)

\* Every response body is closed on every path through do, doJSON and
\* GetAttachment: what is open is being read or was handed to the caller.
BodiesClosed ==
  open = handed + IF depth > 0 /\ Top.pc = "got" THEN 1 ELSE 0

\* The server acts at most once on a request, however often do sends it.
AppliedAtMostOnce == \A i \in 1..depth : frame[i].applied <= 1

\* No token is rejected twice along one stack of callbacks: the callbacks nested
\* inside one another are bounded by the tokens that expire meanwhile.
RejectedOnce ==
  \A i, j \in 1..depth :
    (i < j /\ frame[i].pc = "reauth" /\ frame[j].pc = "reauth")
      => frame[i].tok # frame[j].tok

\* The Client only ever holds tokens of sessions whose server proof Auth has
\* verified, whether they come from Auth, a refresh or Unlock.
VerifiedSessionsOnly ==
  /\ accessToken # NoToken => accessToken.sid \in proven
  /\ saved # NoToken => saved.sid \in proven

\* The application's Auth is never older than the token the Client uses, so a
\* refresh by the callback starts from the newest refresh token known.
SavedIsNewest ==
  accessToken # NoToken => saved.sid = accessToken.sid /\ saved.gen >= accessToken.gen

\* When Logout returns nil the server has ended the session the application
\* was in when it called, even if a re-auth happened inside.
LogoutEndsSession ==
  (last.done /\ last.op = "Logout" /\ last.err = Nil)
    => last.tok # NoToken /\ revoked[last.tok.sid]

\* A call whose request the server finally rejected with 401 returns an error
\* that errors.Is matches with ErrUnauthorized, when no callback came between.
UnauthorizedReported ==
  (last.done /\ last.rejected /\ last.reauths = 0) => ErrorsIs(last.err, "ErrUnauthorized")

\* A Logout that fails leaves the Client able to try again: the credentials it
\* had are still there.
LogoutFailureKeepsAuth ==
  (last.done /\ last.op = "Logout" /\ last.err # Nil /\ last.tok # NoToken)
    => uid = last.uid /\ accessToken # NoToken

\* The Client gives a token up only when the server no longer accepts it: do's
\* 401 branch and Logout never throw a usable session away.  The exception is a
\* user name or password that the server refuses with 401.
NoLiveTokenDropped ==
  [][(accessToken # NoToken /\ accessToken' = NoToken)
       => ~Live(uid, accessToken) \/ NamesUser(Top)]_vars

\* The generation below which no token of a session is taken up any more: that
\* of the application's Auth, or in another session the last one issued.
NewestKnown == [s \in Sessions |-> IF saved.sid = s THEN saved.gen ELSE cur[s]]

\* The Client's credentials live the life that Account allows, through every
\* nesting of calls and callbacks: a token dropped by do's 401 branch is never
\* followed by an older one of its session.
Abstract ==
  INSTANCE Account WITH token <- accessToken, unlocked <- keyRing, newest <- NewestKnown
ImplementsAccount == Abstract!Spec

\* Every call the application makes returns.
EveryCallReturns == depth > 0 ~> depth = 0
=============================================================================
