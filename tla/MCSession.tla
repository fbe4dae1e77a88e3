----------------------------- MODULE MCSession ------------------------------
(* Instances of Session for TLC.                                           *)
EXTENDS Session, TLC

\* One response of each kind the code tells apart.
OkReply     == [status |-> 200, json |-> TRUE,  error |-> "absent", code |-> 1000]
Rejected    == [status |-> 401, json |-> TRUE,  error |-> "set",    code |-> 10013]
RejectedRaw == [status |-> 401, json |-> FALSE, error |-> "absent", code |-> 0]
WrongPass   == [status |-> 422, json |-> TRUE,  error |-> "set",    code |-> 8002]
Broken      == [status |-> 502, json |-> FALSE, error |-> "absent", code |-> 0]
Soft        == [status |-> 200, json |-> TRUE,  error |-> "empty",  code |-> 2001]
Garbled     == [status |-> 200, json |-> FALSE, error |-> "absent", code |-> 0]

AllReplies == {OkReply, Rejected, RejectedRaw, WrongPass, Broken, Soft, Garbled}
FewReplies == {OkReply, Rejected, Broken}

RefreshThenUnlock == <<"AuthRefresh", "Unlock">>
LoginAgain        == <<"Auth", "Unlock">>
RefreshOnly       == <<"AuthRefresh">>

\* One operation per way of building, sending and finishing a request.
EveryKind == {"AuthInfo", "GetMessage", "SendMessage", "ListKeySalts", "GetAttachment",
              "CreateAttachment", "Auth", "AuthRefresh", "Unlock", "Logout"}
\* An application whose callback logs in again has no use for refresh tokens.
LoginKinds == EveryKind \ {"AuthRefresh"}
CoreKinds == {"SendMessage", "Auth", "AuthRefresh", "Unlock", "Logout"}

SessionSymmetry == Permutations(Sessions)
=============================================================================
