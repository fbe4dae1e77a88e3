------------------------------- MODULE Errors -------------------------------
(***************************************************************************)
(* How one HTTP response becomes a Go error, and which of the package's    *)
(* sentinels errors.Is then recognises in it (errors.go, and the two       *)
(* readers of responses: doJSON in protonmail.go and GetAttachment in      *)
(* attachments.go).                                                        *)
(*                                                                         *)
(* A response is abstracted to its status, whether its body is JSON, what  *)
(* its "Error" key holds and its "Code".  Message texts are left out:      *)
(* the code only asks whether the message is empty.                        *)
(***************************************************************************)
EXTENDS Naturals

StatusUnauthorized    == 401
StatusNotFound        == 404
StatusTooManyRequests == 429

\* The "Code" values that APIError.Is recognises.
apiCodeInvalidCredentials == 8002
apiCodeAuthRequired       == StatusUnauthorized

Sentinels == {"ErrUnauthorized", "ErrNotFound", "ErrRateLimited",
              "ErrNoUnlockableKeys", "ErrImporterClosed"}

\* A response: json says that the body decodes, error what its Error key holds.
Reply(statuses, codes) ==
  [status: statuses, json: BOOLEAN, error: {"absent", "empty", "set"}, code: codes]

-----------------------------------------------------------------------------
(* Error values.  status # 0 stands for a wrapped *HTTPError.              *)

ErrKinds == {"nil", "api", "http", "decode", "transport", "srp", "proof", "keys"}

Nil               == [kind |-> "nil",  code |-> 0, status |-> 0]
HTTPError(status) == [kind |-> "http", code |-> 0, status |-> status]
APIError(code, status) ==
  [kind |-> "api", code |-> code, status |-> status]
\* Errors that carry nothing errors.Is looks at, but for the keys sentinel.
Plain(kind)       == [kind |-> kind, code |-> 0, status |-> 0]

Success(r) == r.status \div 100 = 2

\* Mutant: an empty message is taken for no error.
MutRespErrNonEmpty(r) == IF r.error = "set" THEN APIError(r.code, 0) ELSE Nil

\* resp.Err: the pointer to RawAPIError is set as soon as the key is present.
RespErr(r) == IF r.error # "absent" THEN APIError(r.code, 0) ELSE Nil

\* doJSON from the status check on.
DoJSONErr(r) ==
  IF ~Success(r)
  THEN IF r.json /\ r.error = "set"
       THEN APIError(r.code, r.status)
       ELSE HTTPError(r.status)
  ELSE IF ~r.json THEN Plain("decode") ELSE RespErr(r)

\* GetAttachment looks at the status only and hands a 2xx body to its caller.
RawErr(r) == IF Success(r) THEN Nil ELSE HTTPError(r.status)

-----------------------------------------------------------------------------
(* errors.Is                                                               *)

HTTPErrorIs(status, target) ==
  \/ target = "ErrUnauthorized" /\ status = StatusUnauthorized
  \/ target = "ErrNotFound"     /\ status = StatusNotFound
  \/ target = "ErrRateLimited"  /\ status = StatusTooManyRequests

APIErrorIs(code, target) ==
  /\ target = "ErrUnauthorized"
  /\ code \in {apiCodeInvalidCredentials, apiCodeAuthRequired}

\* Mutant: an APIError hides the HTTPError it wraps.
MutUnwrapNothing(e) == Nil

\* APIError.Unwrap: the chain ends at an APIError that wraps no HTTPError.
Unwrap(e) == IF e.kind = "api" /\ e.status # 0 THEN HTTPError(e.status) ELSE Nil

\* errors.Is walks the chain: the value itself, then what it unwraps to.
ErrorsIs(e, target) ==
  \/ e.kind = "api"  /\ APIErrorIs(e.code, target)
  \/ e.kind = "http" /\ HTTPErrorIs(e.status, target)
  \/ e.kind = "keys" /\ target = "ErrNoUnlockableKeys"
  \/ Unwrap(e).kind = "http" /\ HTTPErrorIs(Unwrap(e).status, target)
=============================================================================
