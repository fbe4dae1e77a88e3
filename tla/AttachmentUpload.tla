-------------------------- MODULE AttachmentUpload --------------------------
(***************************************************************************)
(* CreateAttachment (attachments.go): a goroutine writes the multipart body *)
(* into an unbuffered io.Pipe while the caller builds the request and      *)
(* doJSON sends it.  The transport (external) reads the pipe's other end   *)
(* and closes it some time after the outcome of the request is known; the  *)
(* server may answer before the body has ended.                            *)
(*                                                                         *)
(* A pipe write carries one chunk: a part's header (with the value, for a  *)
(* form field), some bytes of a file part, or the closing boundary.  The   *)
(* bytes come from two readers: the base64 decoder of att.KeyPackets and   *)
(* the caller's r; each ends, or fails.                                    *)
(***************************************************************************)
EXTENDS Naturals

CONSTANTS
  MaxBytes,      \* bound: chunks a reader yields
  BuildMayFail   \* can newRequest fail (a nil context)

ASSUME UploadAssumption == MaxBytes \in Nat /\ BuildMayFail \in BOOLEAN

VARIABLES
  contentID,          \* does the attachment have a ContentID
  gpc, part,          \* the goroutine: what it does, and in which part
  copied, ended,      \* per reader: chunks taken from it, how it ended
  late,               \* reads of r after the transport closed the pipe
  pending, wclosed, rclosed,   \* the pipe: is a chunk offered, its two ends
  cpc, ret,           \* the caller and what CreateAttachment returned
  outcome, eof,       \* transport: answer, end of the body seen
  seen, got           \* server: part it is in, chunks of each file it has

gVars    == <<gpc, part, copied, ended, late>>
pipeVars == <<pending, wclosed, rclosed>>
cVars    == <<cpc, ret>>
netVars  == <<outcome, eof, seen, got>>
vars == <<contentID, gVars, pipeVars, cVars, netVars>>

-----------------------------------------------------------------------------
\* The parts in order: Filename, MessageID, MIMEType, ContentID, then the two
\* files, then the closing boundary.
Files      == {"KeyPackets", "DataPacket"}
KeyPackets == 5
DataPacket == 6
Boundary   == 7

File(p) == IF p = KeyPackets THEN "KeyPackets" ELSE "DataPacket"

\* ContentID is left out if it is empty.
NextPart(p) == IF p = 3 /\ ~contentID THEN KeyPackets ELSE p + 1

-----------------------------------------------------------------------------
(* The goroutine                                                           *)

\* A chunk is offered to the pipe's reader: the header of part p, or bytes.
Offer(p, what) == gpc' = what /\ part' = p /\ pending' = TRUE

Written == pending = FALSE
Refused == pending /\ rclosed

GStart ==
  /\ gpc = "start"
  /\ Offer(1, "header")
  /\ UNCHANGED <<contentID, copied, ended, late, wclosed, rclosed, cVars, netVars>>

\* Mutant: every part is treated as a form field.
MutGFieldAny ==
  /\ gpc = "header" /\ Written
  /\ Offer(NextPart(part), "header")
  /\ UNCHANGED <<contentID, copied, ended, late, wclosed, rclosed, cVars, netVars>>

\* A form field is written: the next part begins.
GField ==
  /\ gpc = "header" /\ part < KeyPackets /\ Written
  /\ Offer(NextPart(part), "header")
  /\ UNCHANGED <<contentID, copied, ended, late, wclosed, rclosed, cVars, netVars>>

\* A file's header is written: io.Copy reads its first bytes.
GFile ==
  /\ gpc = "header" /\ part \in {KeyPackets, DataPacket} /\ Written
  /\ gpc' = "copy"
  /\ UNCHANGED <<contentID, part, copied, ended, late, pipeVars, cVars, netVars>>

\* One read of io.Copy: r may be used although the pipe is already closed.
Reads == late' = IF part = DataPacket /\ rclosed /\ late < 2 THEN late + 1 ELSE late

\* io.Copy takes a chunk from its reader and writes it.
GCopy ==
  /\ gpc = "copy" /\ copied[File(part)] < MaxBytes
  /\ copied' = [copied EXCEPT ![File(part)] = @ + 1]
  /\ Offer(part, "bytes")
  /\ Reads
  /\ UNCHANGED <<contentID, ended, wclosed, rclosed, cVars, netVars>>

GCopied ==
  /\ gpc = "bytes" /\ Written
  /\ gpc' = "copy"
  /\ UNCHANGED <<contentID, part, copied, ended, late, pipeVars, cVars, netVars>>

\* The reader has ended: the next part, or mw.Close, follows.
GFileEnd ==
  /\ gpc = "copy"
  /\ ended' = [ended EXCEPT ![File(part)] = "eof"]
  /\ Offer(NextPart(part), "header")
  /\ Reads
  /\ UNCHANGED <<contentID, copied, wclosed, rclosed, cVars, netVars>>

\* Mutant: the error of io.Copy is not looked at.
MutGReadErrorIgnored ==
  /\ gpc = "copy"
  /\ ended' = [ended EXCEPT ![File(part)] = "error"]
  /\ Offer(NextPart(part), "header")
  /\ Reads
  /\ UNCHANGED <<contentID, copied, wclosed, rclosed, cVars, netVars>>

\* Mutant: the goroutine returns without closing its end of the pipe.
MutGReadErrorReturns ==
  /\ gpc = "copy"
  /\ ended' = [ended EXCEPT ![File(part)] = "error"]
  /\ gpc' = "done"
  /\ Reads
  /\ UNCHANGED <<contentID, part, copied, pipeVars, cVars, netVars>>

\* The reader fails: pw.CloseWithError(err), and the goroutine is done.
GReadError ==
  /\ gpc = "copy"
  /\ ended' = [ended EXCEPT ![File(part)] = "error"]
  /\ wclosed' = "error" /\ gpc' = "done"
  /\ Reads
  /\ UNCHANGED <<contentID, part, copied, pending, rclosed, cVars, netVars>>

\* Mutant: a write that fails in io.Copy is taken for a short one and repeated.
MutGWriteErrorGoesOn ==
  /\ Refused
  /\ pending' = FALSE
  /\ \/ gpc = "bytes" /\ gpc' = "copy" /\ UNCHANGED wclosed
     \/ gpc = "header" /\ gpc' = "done" /\ wclosed' = "error"
  /\ UNCHANGED <<contentID, part, copied, ended, late, rclosed, cVars, netVars>>

\* Mutant: the goroutine is left waiting when a write is refused.
MutGWriteErrorStays ==
  /\ Refused /\ wclosed = "open" /\ wclosed' = "error"
  /\ UNCHANGED <<contentID, gVars, pending, rclosed, cVars, netVars>>

\* A write fails because the transport closed the pipe: pw.CloseWithError.
GWriteError ==
  /\ Refused
  /\ pending' = FALSE
  /\ wclosed' = "error" /\ gpc' = "done"
  /\ UNCHANGED <<contentID, part, copied, ended, late, rclosed, cVars, netVars>>

\* mw.Close has written the boundary: pw.CloseWithError(nil) ends the body.
GClose ==
  /\ gpc = "header" /\ part = Boundary /\ Written
  /\ wclosed' = "eof" /\ gpc' = "done"
  /\ UNCHANGED <<contentID, part, copied, ended, late, pending, rclosed, cVars, netVars>>

-----------------------------------------------------------------------------
(* The caller                                                              *)

\* newRequest; if it fails CreateAttachment returns and nobody reads the pipe.
CBuild ==
  /\ cpc = "build"
  /\ \/ cpc' = "doing" /\ UNCHANGED ret
     \/ BuildMayFail /\ cpc' = "unbuilt" /\ ret' = "error"
  /\ UNCHANGED <<contentID, gVars, pipeVars, netVars>>

\* Mutant: CreateAttachment does not wait for the answer.
MutCReturnEarly ==
  /\ cpc = "doing"
  /\ cpc' = "returned"
  /\ ret' = IF outcome = "fail" THEN "error" ELSE "ok"
  /\ UNCHANGED <<contentID, gVars, pipeVars, netVars>>

\* doJSON returns; it may still fail to decode a success.
CReturn ==
  /\ cpc = "doing" /\ outcome # "none"
  /\ cpc' = "returned"
  /\ ret' \in IF outcome = "ok" THEN {"ok", "error"} ELSE {"error"}
  /\ UNCHANGED <<contentID, gVars, pipeVars, netVars>>

-----------------------------------------------------------------------------
(* Transport and server (external)                                         *)

Sending == cpc \in {"doing", "returned"}   \* the request was built

\* The transport passes one chunk on.
TRead ==
  /\ Sending /\ ~rclosed /\ eof = "no" /\ wclosed = "open" /\ pending
  /\ pending' = FALSE
  /\ seen' = part
  /\ got' = IF gpc = "bytes" THEN [got EXCEPT ![File(part)] = @ + 1] ELSE got
  /\ UNCHANGED <<contentID, gVars, wclosed, rclosed, cVars, outcome, eof>>

TEOF ==
  /\ Sending /\ ~rclosed /\ eof = "no" /\ wclosed # "open"
  /\ eof' = wclosed
  /\ UNCHANGED <<contentID, gVars, pipeVars, cVars, outcome, seen, got>>

\* Success is answered to a body only that ended well.
Accept ==
  /\ outcome = "none" /\ eof = "eof" /\ seen = Boundary
  /\ outcome' = "ok"
  /\ UNCHANGED <<contentID, gVars, pipeVars, cVars, eof, seen, got>>

\* An error response, early or late, a broken connection, a cancelled context,
\* or the error the goroutine closed the pipe with.
Reject ==
  /\ cpc = "doing" /\ outcome = "none"
  /\ outcome' = "fail"
  /\ UNCHANGED <<contentID, gVars, pipeVars, cVars, eof, seen, got>>

TClose ==
  /\ outcome # "none" /\ ~rclosed
  /\ rclosed' = TRUE
  /\ UNCHANGED <<contentID, gVars, pending, wclosed, cVars, netVars>>

-----------------------------------------------------------------------------
Init ==
  /\ contentID \in BOOLEAN
  /\ gpc = "start" /\ part = 0 /\ late = 0
  /\ copied = [f \in Files |-> 0] /\ ended = [f \in Files |-> "no"]
  /\ pending = FALSE /\ wclosed = "open" /\ rclosed = FALSE
  /\ cpc = "build" /\ ret = "none"
  /\ outcome = "none" /\ eof = "no" /\ seen = 0 /\ got = [f \in Files |-> 0]

GStep ==
  \/ GStart \/ GField \/ GFile \/ GCopy \/ GCopied \/ GFileEnd
  \/ GReadError \/ GWriteError \/ GClose

CStep == CBuild \/ CReturn

TransportStep == TRead \/ TEOF \/ TClose

Answer == Accept \/ Reject

Next == GStep \/ CStep \/ TransportStep \/ Answer

Spec == Init /\ [][Next]_vars

\* Goroutines run and readers return; the transport reads and closes the pipe;
\* a request whose body has ended is answered, or its connection fails.
FairSpec ==
  /\ Spec
  /\ WF_vars(GStep) /\ WF_vars(CStep) /\ WF_vars(TransportStep)
  /\ WF_vars(eof # "no" /\ Answer)

-----------------------------------------------------------------------------
(* Properties                                                              *)

\* Every variable has its type.
TypeOK ==
  /\ contentID \in BOOLEAN
  /\ gpc \in {"start", "header", "copy", "bytes", "done"} /\ part \in 0..Boundary
  /\ copied \in [Files -> Nat] /\ ended \in [Files -> {"no", "eof", "error"}]
  /\ late \in 0..2
  /\ pending \in BOOLEAN /\ wclosed \in {"open", "eof", "error"} /\ rclosed \in BOOLEAN
  /\ cpc \in {"build", "doing", "returned", "unbuilt"} /\ ret \in {"none", "ok", "error"}
  /\ outcome \in {"none", "ok", "fail"} /\ eof \in {"no", "eof", "error"}
  /\ seen \in 0..Boundary /\ got \in [Files -> Nat]

\* An attachment the server accepts is whole: both files were read to their
\* end and every chunk of them arrived.  A failing reader, a key packet that
\* is not base64 or an aborted write never looks like the end of the body.
AcceptedIsWhole ==
  outcome = "ok" => \A f \in Files : ended[f] = "eof" /\ got[f] = copied[f]

\* Once the transport has closed the pipe the goroutine reads the caller's r at
\* most once more: it is still reading it after CreateAttachment returned, but
\* it does not drain it.
ReadsStopAfterClose == late <= 1

\* CreateAttachment implements a streamed upload: a body that was broken off
\* is never stored, success is reported only of one that is.
Abstract == INSTANCE Upload WITH producer <- wclosed, stored <- (outcome = "ok"), told <- ret
ImplementsUpload == Abstract!Spec

\* CreateAttachment returns, whatever the readers do and whenever the server
\* answers.
CallerReturns == <>(ret # "none")

\* Its goroutine ends, unless the request could not be built: then it waits for
\* ever for a reader of the pipe.
GoroutineEnds == <>(gpc = "done" \/ cpc = "unbuilt")
=============================================================================
