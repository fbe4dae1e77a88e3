---------------------------- MODULE UploadProofs ----------------------------
(***************************************************************************)
(* Proofs about AttachmentUpload, for readers of every length: what the    *)
(* server accepts is whole, r is not drained after the pipe was closed, and *)
(* CreateAttachment implements Upload.                                     *)
(*                                                                         *)
(* The inductive invariant relates the goroutine's position to the pipe    *)
(* (a chunk is offered only while it writes; its end is closed exactly if  *)
(* it is done), to its readers (those of the parts before have ended) and  *)
(* to the server (it has every chunk but the one that is being offered).   *)
(***************************************************************************)
EXTENDS AttachmentUpload, TLAPS

\* The goroutine and its end of the pipe.
PipeInv ==
  /\ gpc = "done" <=> wclosed # "open"
  /\ pending => gpc \in {"header", "bytes"}
  /\ gpc \in {"bytes", "copy"} => part \in {KeyPackets, DataPacket}
  /\ wclosed = "eof" => part = Boundary

\* The readers of the parts before the present one have ended well.
ReadersInv ==
  wclosed # "error" =>
    /\ part > KeyPackets => ended["KeyPackets"] = "eof"
    /\ part > DataPacket => ended["DataPacket"] = "eof"

\* Is the chunk that is being offered one of file f.
InFlight(f) == gpc = "bytes" /\ pending /\ File(part) = f

\* The server has all chunks but the one in flight.
ChunksInv ==
  wclosed # "error" =>
    \A f \in Files : IF InFlight(f) THEN copied[f] = got[f] + 1 ELSE copied[f] = got[f]

\* What the transport and the server know of the end of the body.
AnswerInv ==
  /\ eof = "eof" => wclosed = "eof"
  /\ outcome = "ok" => eof = "eof"

\* After a late read the goroutine is at a write that will be refused.
LateInv == late = 0 \/ (late = 1 /\ rclosed /\ (pending \/ gpc = "done"))

IInv == TypeOK /\ PipeInv /\ ReadersInv /\ ChunksInv /\ AnswerInv /\ LateInv

-----------------------------------------------------------------------------
\* The parts and their files.
LEMMA PartFacts ==
  /\ \A p : File(p) \in Files
  /\ File(KeyPackets) = "KeyPackets" /\ File(DataPacket) = "DataPacket"
  /\ KeyPackets = 5 /\ DataPacket = 6 /\ Boundary = 7
  /\ Files = {"KeyPackets", "DataPacket"}
  BY DEF File, Files, KeyPackets, DataPacket, Boundary

\* The part after p.
LEMMA NextPartFacts ==
  ASSUME NEW p \in 0..6
  PROVE  /\ NextPart(p) \in 0..7
         /\ NextPart(p) > p
         /\ p < 5 => NextPart(p) <= 5
         /\ p >= 5 => NextPart(p) = p + 1
  BY PartFacts DEF NextPart

\* The invariant holds when CreateAttachment is called.
LEMMA InitInv == Init => IInv
  <1> SUFFICES ASSUME Init PROVE IInv
    OBVIOUS
  <1>1. TypeOK
    <2>1. contentID \in BOOLEAN /\ pending \in BOOLEAN /\ rclosed \in BOOLEAN
      BY DEF Init
    <2>2. /\ copied \in [Files -> Nat] /\ got \in [Files -> Nat]
          /\ ended \in [Files -> {"no", "eof", "error"}]
      BY DEF Init
    <2>3. part \in 0..Boundary /\ seen \in 0..Boundary /\ late \in 0..2
      BY PartFacts DEF Init
    <2>4. /\ gpc = "start" /\ wclosed = "open" /\ cpc = "build" /\ ret = "none"
          /\ outcome = "none" /\ eof = "no"
      BY DEF Init
    <2> QED BY <2>1, <2>2, <2>3, <2>4 DEF TypeOK
  <1>2. PipeInv BY DEF Init, PipeInv
  <1>3. ReadersInv BY PartFacts DEF Init, ReadersInv
  <1>4. ChunksInv BY DEF Init, ChunksInv, InFlight
  <1>5. AnswerInv BY DEF Init, AnswerInv
  <1>6. LateInv BY DEF Init, LateInv
  <1> QED BY <1>1, <1>2, <1>3, <1>4, <1>5, <1>6 DEF IInv

-----------------------------------------------------------------------------
(* The goroutine                                                           *)

\* The first part is offered.
LEMMA GStartInv == ASSUME IInv, GStart PROVE IInv'
  <1>1. /\ gpc = "start" /\ gpc' = "header" /\ part' = 1 /\ pending' = TRUE
        /\ UNCHANGED <<contentID, copied, ended, late, wclosed, rclosed, cpc, ret, outcome, eof,
                       seen, got>>
    BY DEF GStart, Offer, cVars, netVars
  <1>2. wclosed = "open" /\ ~pending
    BY <1>1 DEF IInv, PipeInv, TypeOK
  <1>3. TypeOK' BY <1>1, PartFacts DEF IInv, TypeOK
  <1>4. PipeInv' BY <1>1, <1>2, PartFacts DEF PipeInv
  <1>5. ReadersInv' BY <1>1, PartFacts DEF ReadersInv
  <1>6. ChunksInv' BY <1>1, <1>2 DEF IInv, ChunksInv, InFlight
  <1> QED BY <1>1, <1>3, <1>4, <1>5, <1>6 DEF IInv, AnswerInv, LateInv

\* The next part is offered after a field.
LEMMA GFieldInv == ASSUME IInv, GField PROVE IInv'
  <1>1. /\ gpc = "header" /\ gpc' = "header" /\ part < KeyPackets /\ pending = FALSE
        /\ part' = NextPart(part) /\ pending' = TRUE
        /\ UNCHANGED <<contentID, copied, ended, late, wclosed, rclosed, cpc, ret, outcome, eof,
                       seen, got>>
    BY DEF GField, Offer, Written, cVars, netVars
  <1>2. wclosed = "open" /\ part \in 0..6 /\ part' \in 0..7 /\ part' <= 5
    <2>1. wclosed = "open" BY <1>1 DEF IInv, PipeInv, TypeOK
    <2>2. part \in 0..6 /\ part < 5 BY <1>1, PartFacts DEF IInv, TypeOK
    <2> QED BY <1>1, <2>1, <2>2, NextPartFacts
  <1>3. TypeOK' BY <1>1, <1>2, PartFacts DEF IInv, TypeOK
  <1>4. PipeInv' BY <1>1, <1>2, PartFacts DEF PipeInv
  <1>5. ReadersInv' BY <1>1, <1>2, PartFacts DEF ReadersInv
  <1>6. ChunksInv' BY <1>1, <1>2 DEF IInv, ChunksInv, InFlight
  <1> QED BY <1>1, <1>3, <1>4, <1>5, <1>6 DEF IInv, AnswerInv, LateInv

\* The header of a file is written.
LEMMA GFileInv == ASSUME IInv, GFile PROVE IInv'
  <1>1. /\ gpc = "header" /\ part \in {KeyPackets, DataPacket} /\ pending = FALSE
        /\ gpc' = "copy"
        /\ UNCHANGED <<contentID, part, copied, ended, late, pending, wclosed, rclosed, cpc, ret,
                       outcome, eof, seen, got>>
    BY DEF GFile, Written, pipeVars, cVars, netVars
  <1>2. wclosed = "open" BY <1>1 DEF IInv, PipeInv, TypeOK
  <1>3. TypeOK' BY <1>1 DEF IInv, TypeOK
  <1>4. PipeInv' BY <1>1, <1>2 DEF PipeInv
  <1>5. ReadersInv' BY <1>1 DEF IInv, ReadersInv
  <1>6. ChunksInv' BY <1>1 DEF IInv, ChunksInv, InFlight
  <1> QED BY <1>1, <1>3, <1>4, <1>5, <1>6 DEF IInv, AnswerInv, LateInv

\* What a read of r adds to late.
LEMMA ReadsFacts ==
  ASSUME IInv, gpc = "copy", Reads
  PROVE  late' = 0 \/ (late' = 1 /\ rclosed)
  BY DEF IInv, PipeInv, LateInv, Reads

\* io.Copy offers a chunk.
LEMMA GCopyInv == ASSUME IInv, GCopy PROVE IInv'
  <1>1. /\ gpc = "copy" /\ gpc' = "bytes" /\ part' = part /\ pending' = TRUE
        /\ copied' = [copied EXCEPT ![File(part)] = @ + 1]
        /\ Reads
        /\ UNCHANGED <<contentID, ended, wclosed, rclosed, cpc, ret, outcome, eof, seen, got>>
    BY DEF GCopy, Offer, cVars, netVars
  <1>2. /\ wclosed = "open" /\ ~pending /\ part \in {KeyPackets, DataPacket}
        /\ copied \in [Files -> Nat]
    BY <1>1 DEF IInv, PipeInv, TypeOK
  <1>3. late' = 0 \/ (late' = 1 /\ rclosed)
    BY <1>1, ReadsFacts
  <1>4. copied' \in [Files -> Nat]
    BY <1>1, <1>2, PartFacts
  <1>5. TypeOK' BY <1>1, <1>3, <1>4 DEF IInv, TypeOK
  <1>6. PipeInv' BY <1>1, <1>2 DEF PipeInv
  <1>7. ReadersInv' BY <1>1 DEF IInv, ReadersInv
  <1>8. ChunksInv'
    <2>1. \A f \in Files : copied[f] = got[f] /\ copied[f] \in Nat
      BY <1>1, <1>2 DEF IInv, ChunksInv, InFlight
    <2>2. \A f \in Files : copied'[f] = IF File(part) = f THEN got[f] + 1 ELSE got[f]
      BY <1>1, <1>2, <2>1, PartFacts
    <2>3. \A f \in Files : InFlight(f)' <=> File(part) = f
      BY <1>1 DEF InFlight, File
    <2> QED BY <1>1, <2>2, <2>3 DEF ChunksInv
  <1>9. LateInv' BY <1>1, <1>3 DEF LateInv
  <1> QED BY <1>1, <1>5, <1>6, <1>7, <1>8, <1>9 DEF IInv, AnswerInv

\* The chunk was taken.
LEMMA GCopiedInv == ASSUME IInv, GCopied PROVE IInv'
  <1>1. /\ gpc = "bytes" /\ pending = FALSE /\ gpc' = "copy"
        /\ UNCHANGED <<contentID, part, copied, ended, late, pending, wclosed, rclosed, cpc, ret,
                       outcome, eof, seen, got>>
    BY DEF GCopied, Written, pipeVars, cVars, netVars
  <1>2. wclosed = "open" /\ part \in {KeyPackets, DataPacket}
    BY <1>1 DEF IInv, PipeInv, TypeOK
  <1>3. TypeOK' BY <1>1 DEF IInv, TypeOK
  <1>4. PipeInv' BY <1>1, <1>2 DEF PipeInv
  <1>5. ReadersInv' BY <1>1 DEF IInv, ReadersInv
  <1>6. ChunksInv' BY <1>1 DEF IInv, ChunksInv, InFlight
  <1> QED BY <1>1, <1>3, <1>4, <1>5, <1>6 DEF IInv, AnswerInv, LateInv

\* A reader has ended: the part after its file is offered.
LEMMA GFileEndInv == ASSUME IInv, GFileEnd PROVE IInv'
  <1>1. /\ gpc = "copy" /\ gpc' = "header" /\ part' = NextPart(part) /\ pending' = TRUE
        /\ ended' = [ended EXCEPT ![File(part)] = "eof"]
        /\ Reads
        /\ UNCHANGED <<contentID, copied, wclosed, rclosed, cpc, ret, outcome, eof, seen, got>>
    BY DEF GFileEnd, Offer, cVars, netVars
  <1>2. /\ wclosed = "open" /\ ~pending /\ part \in {5, 6}
        /\ ended \in [Files -> {"no", "eof", "error"}]
    BY <1>1, PartFacts DEF IInv, PipeInv, TypeOK
  <1>3. part' = part + 1 /\ part' \in 0..7
    BY <1>1, <1>2, NextPartFacts
  <1>4. late' = 0 \/ (late' = 1 /\ rclosed)
    BY <1>1, ReadsFacts
  <1>5. ended' \in [Files -> {"no", "eof", "error"}]
    BY <1>1, <1>2, PartFacts
  <1>6. TypeOK' BY <1>1, <1>3, <1>4, <1>5, PartFacts DEF IInv, TypeOK
  <1>7. PipeInv' BY <1>1, <1>2 DEF PipeInv
  <1>8. ReadersInv'
    <2>1. part = 6 => ended["KeyPackets"] = "eof"
      BY <1>2, PartFacts DEF IInv, ReadersInv
    <2>2. /\ part = 5 => ended'["KeyPackets"] = "eof"
          /\ part = 6 => ended'["DataPacket"] = "eof" /\ ended'["KeyPackets"] = "eof"
      BY <1>1, <1>2, <2>1, PartFacts
    <2> QED BY <1>2, <1>3, <2>2, PartFacts DEF ReadersInv
  <1>9. ChunksInv' BY <1>1, <1>2 DEF IInv, ChunksInv, InFlight
  <1>10. LateInv' BY <1>1, <1>4 DEF LateInv
  <1> QED BY <1>1, <1>6, <1>7, <1>8, <1>9, <1>10 DEF IInv, AnswerInv

\* A reader has failed: the body is broken off.
LEMMA GReadErrorInv == ASSUME IInv, GReadError PROVE IInv'
  <1>1. /\ gpc = "copy" /\ gpc' = "done" /\ wclosed' = "error"
        /\ ended' = [ended EXCEPT ![File(part)] = "error"]
        /\ Reads
        /\ UNCHANGED <<contentID, part, copied, pending, rclosed, cpc, ret, outcome, eof, seen, got>>
    BY DEF GReadError, cVars, netVars
  <1>2. wclosed = "open" /\ ~pending BY <1>1 DEF IInv, PipeInv, TypeOK
  <1>3. late' = 0 \/ (late' = 1 /\ rclosed)
    BY <1>1, ReadsFacts
  <1>4. ended' \in [Files -> {"no", "eof", "error"}]
    BY <1>1, PartFacts DEF IInv, TypeOK
  <1>5. TypeOK' BY <1>1, <1>3, <1>4 DEF IInv, TypeOK
  <1>6. AnswerInv' BY <1>1, <1>2 DEF IInv, AnswerInv
  <1>7. PipeInv' BY <1>1, <1>2 DEF PipeInv
  <1>8. ReadersInv' /\ ChunksInv' BY <1>1 DEF ReadersInv, ChunksInv
  <1>9. LateInv' BY <1>1, <1>3 DEF LateInv
  <1> QED BY <1>5, <1>6, <1>7, <1>8, <1>9 DEF IInv

\* A write was refused: the body is broken off.
LEMMA GWriteErrorInv == ASSUME IInv, GWriteError PROVE IInv'
  <1>1. /\ pending /\ rclosed /\ pending' = FALSE /\ gpc' = "done" /\ wclosed' = "error"
        /\ UNCHANGED <<contentID, part, copied, ended, late, rclosed, cpc, ret, outcome, eof, seen,
                       got>>
    BY DEF GWriteError, Refused, cVars, netVars
  <1>2. wclosed = "open" BY <1>1 DEF IInv, PipeInv, TypeOK
  <1>3. TypeOK' BY <1>1 DEF IInv, TypeOK
  <1>4. AnswerInv' BY <1>1, <1>2 DEF IInv, AnswerInv
  <1>5. PipeInv' BY <1>1, <1>2 DEF PipeInv
  <1>6. ReadersInv' /\ ChunksInv' BY <1>1 DEF ReadersInv, ChunksInv
  <1>7. LateInv' BY <1>1 DEF IInv, LateInv
  <1> QED BY <1>3, <1>4, <1>5, <1>6, <1>7 DEF IInv

\* The boundary was written: the body is ended.
LEMMA GCloseInv == ASSUME IInv, GClose PROVE IInv'
  <1>1. /\ gpc = "header" /\ part = Boundary /\ pending = FALSE
        /\ gpc' = "done" /\ wclosed' = "eof"
        /\ UNCHANGED <<contentID, part, copied, ended, late, pending, rclosed, cpc, ret, outcome,
                       eof, seen, got>>
    BY DEF GClose, Written, cVars, netVars
  <1>2. wclosed = "open" BY <1>1 DEF IInv, PipeInv, TypeOK
  <1>3. TypeOK' BY <1>1 DEF IInv, TypeOK
  <1>4. AnswerInv' BY <1>1, <1>2 DEF IInv, AnswerInv
  <1>5. PipeInv' BY <1>1, <1>2 DEF PipeInv
  <1>6. ReadersInv' BY <1>1, <1>2 DEF IInv, ReadersInv
  <1>7. ChunksInv' BY <1>1, <1>2 DEF IInv, ChunksInv, InFlight
  <1>8. LateInv' BY <1>1 DEF IInv, LateInv
  <1> QED BY <1>3, <1>4, <1>5, <1>6, <1>7, <1>8 DEF IInv

-----------------------------------------------------------------------------
(* The caller, the transport and the server                                *)

\* The caller touches nothing the invariant relates.
LEMMA CallerInv == ASSUME IInv, CStep PROVE IInv'
  <1>1. UNCHANGED <<contentID, gpc, part, copied, ended, late, pending, wclosed, rclosed, outcome,
                    eof, seen, got>>
    BY DEF CStep, CBuild, CReturn, gVars, pipeVars, netVars
  <1>2. cpc' \in {"build", "doing", "returned", "unbuilt"} /\ ret' \in {"none", "ok", "error"}
    BY DEF CStep, CBuild, CReturn, IInv, TypeOK
  <1>3. TypeOK' BY <1>1, <1>2 DEF IInv, TypeOK
  <1> QED BY <1>1, <1>3 DEF IInv, PipeInv, ReadersInv, ChunksInv, InFlight, File, AnswerInv, LateInv

\* The server gets the chunk in flight.
LEMMA TReadInv == ASSUME IInv, TRead PROVE IInv'
  <1>1. /\ ~rclosed /\ wclosed = "open" /\ pending /\ pending' = FALSE /\ seen' = part
        /\ got' = IF gpc = "bytes" THEN [got EXCEPT ![File(part)] = @ + 1] ELSE got
        /\ UNCHANGED <<contentID, gpc, part, copied, ended, late, wclosed, rclosed, cpc, ret,
                       outcome, eof>>
    BY DEF TRead, gVars, cVars
  <1>2. got \in [Files -> Nat] /\ copied \in [Files -> Nat]
    BY DEF IInv, TypeOK
  <1>3. got' \in [Files -> Nat]
    BY <1>1, <1>2, PartFacts
  <1>4. TypeOK' BY <1>1, <1>3 DEF IInv, TypeOK
  <1>5. PipeInv' BY <1>1 DEF IInv, PipeInv
  <1>6. ReadersInv' BY <1>1 DEF IInv, ReadersInv
  <1>7. ChunksInv'
    <2>1. \A f \in Files : ~InFlight(f)' BY <1>1 DEF InFlight
    <2>2. \A f \in Files : copied[f] = IF gpc = "bytes" /\ File(part) = f THEN got[f] + 1 ELSE got[f]
      BY <1>1 DEF IInv, ChunksInv, InFlight
    <2>3. \A f \in Files : got'[f] = IF gpc = "bytes" /\ File(part) = f THEN got[f] + 1 ELSE got[f]
      BY <1>1, <1>2, PartFacts
    <2> QED BY <1>1, <2>1, <2>2, <2>3 DEF ChunksInv
  <1>8. LateInv' BY <1>1 DEF IInv, LateInv
  <1> QED BY <1>1, <1>4, <1>5, <1>6, <1>7, <1>8 DEF IInv, AnswerInv

\* The transport meets the end of the body.
LEMMA TEOFInv == ASSUME IInv, TEOF PROVE IInv'
  <1>1. /\ wclosed # "open" /\ eof' = wclosed /\ eof = "no"
        /\ UNCHANGED <<contentID, gpc, part, copied, ended, late, pending, wclosed, rclosed, cpc,
                       ret, outcome, seen, got>>
    BY DEF TEOF, gVars, pipeVars, cVars
  <1>2. TypeOK' BY <1>1 DEF IInv, TypeOK
  <1>3. AnswerInv' BY <1>1 DEF IInv, AnswerInv
  <1> QED BY <1>1, <1>2, <1>3 DEF IInv, PipeInv, ReadersInv, ChunksInv, InFlight, File, LateInv

\* The transport closes its end.
LEMMA TCloseInv == ASSUME IInv, TClose PROVE IInv'
  <1>1. /\ rclosed' = TRUE
        /\ UNCHANGED <<contentID, gpc, part, copied, ended, late, pending, wclosed, cpc, ret,
                       outcome, eof, seen, got>>
    BY DEF TClose, gVars, cVars, netVars
  <1>2. TypeOK' BY <1>1 DEF IInv, TypeOK
  <1> QED BY <1>1, <1>2 DEF IInv, PipeInv, ReadersInv, ChunksInv, InFlight, File, AnswerInv, LateInv

\* The request is answered.
LEMMA AnswerStepInv == ASSUME IInv, Answer PROVE IInv'
  <1>1. /\ outcome' \in {"ok", "fail"} /\ (outcome' = "ok" => eof = "eof")
        /\ UNCHANGED <<contentID, gpc, part, copied, ended, late, pending, wclosed, rclosed, cpc,
                       ret, eof, seen, got>>
    BY DEF Answer, Accept, Reject, gVars, pipeVars, cVars
  <1>2. TypeOK' BY <1>1 DEF IInv, TypeOK
  <1>3. AnswerInv' BY <1>1 DEF IInv, AnswerInv
  <1> QED BY <1>1, <1>2, <1>3 DEF IInv, PipeInv, ReadersInv, ChunksInv, InFlight, File, LateInv

\* Every step preserves the invariant.
LEMMA NextInv == IInv /\ [Next]_vars => IInv'
  <1> SUFFICES ASSUME IInv, [Next]_vars PROVE IInv'
    OBVIOUS
  <1>1. CASE UNCHANGED vars
    <2>1. UNCHANGED <<contentID, gpc, part, copied, ended, late, pending, wclosed, rclosed, cpc,
                      ret, outcome, eof, seen, got>>
      BY <1>1 DEF vars, gVars, pipeVars, cVars, netVars
    <2>2. TypeOK' BY <2>1 DEF IInv, TypeOK
    <2> QED BY <2>1, <2>2
        DEF IInv, PipeInv, ReadersInv, ChunksInv, InFlight, File, AnswerInv, LateInv
  <1>2. CASE GStep
    BY <1>2, GStartInv, GFieldInv, GFileInv, GCopyInv, GCopiedInv, GFileEndInv, GReadErrorInv,
       GWriteErrorInv, GCloseInv
    DEF GStep
  <1>3. CASE CStep BY <1>3, CallerInv
  <1>4. CASE TransportStep BY <1>4, TReadInv, TEOFInv, TCloseInv DEF TransportStep
  <1>5. CASE Answer BY <1>5, AnswerStepInv
  <1> QED BY <1>1, <1>2, <1>3, <1>4, <1>5 DEF Next

-----------------------------------------------------------------------------
(* Theorems                                                                *)

\* The invariant holds throughout every behaviour of CreateAttachment.
THEOREM Invariance == Spec => []IInv
  BY InitInv, NextInv, PTL DEF Spec

\* Type correctness of the goroutine, the pipe, the caller and the server.
THEOREM TypeCorrect == Spec => []TypeOK
  <1>1. IInv => TypeOK BY DEF IInv
  <1> QED BY <1>1, Invariance, PTL

\* An attachment that the server accepts has all of both files, however long
\* they are and wherever a reader, a write or the connection fails.
THEOREM AcceptedStaysWhole == Spec => []AcceptedIsWhole
  <1>1. IInv => AcceptedIsWhole
    <2> SUFFICES ASSUME IInv, outcome = "ok", NEW f \in Files
                 PROVE  ended[f] = "eof" /\ got[f] = copied[f]
      BY DEF AcceptedIsWhole
    <2>1. wclosed = "eof" /\ gpc = "done" /\ part = 7
      BY PartFacts DEF IInv, AnswerInv, PipeInv
    <2>2. ended["KeyPackets"] = "eof" /\ ended["DataPacket"] = "eof"
      BY <2>1, PartFacts DEF IInv, ReadersInv
    <2>3. copied[f] = got[f]
      BY <2>1 DEF IInv, ChunksInv, InFlight
    <2> QED BY <2>2, <2>3, PartFacts
  <1> QED BY <1>1, Invariance, PTL

\* After the transport has closed the pipe, r is read at most once more.
THEOREM ReadsDoStop == Spec => []ReadsStopAfterClose
  <1>1. IInv => ReadsStopAfterClose BY DEF IInv, LateInv, ReadsStopAfterClose
  <1> QED BY <1>1, Invariance, PTL

\* Every step of CreateAttachment, its goroutine, the transport and the server
\* is a step of Upload or leaves it alone.
LEMMA StepSimulation == IInv /\ [Next]_vars => [Abstract!Next]_Abstract!vars
  <1> SUFFICES ASSUME IInv, [Next]_vars PROVE [Abstract!Next]_Abstract!vars
    OBVIOUS
  <1>1. CASE UNCHANGED <<wclosed, outcome, ret>>
    BY <1>1 DEF Abstract!vars
  <1>2. CASE GStep /\ wclosed' # wclosed
    <2>1. wclosed' \in {"eof", "error"} /\ UNCHANGED <<outcome, ret>>
      BY <1>2 DEF GStep, GStart, GField, GFile, GCopy, GCopied, GFileEnd, GReadError, GWriteError,
                  GClose, Offer, pipeVars, cVars, netVars
    <2>2. wclosed = "open"
      BY <1>2 DEF GStep, GStart, GField, GFile, GCopy, GCopied, GFileEnd, GReadError, GWriteError,
                  GClose, Refused, pipeVars, IInv, PipeInv, TypeOK
    <2> QED BY <2>1, <2>2 DEF Abstract!Next, Abstract!EndBody
  <1>3. CASE CStep
    <2>1. UNCHANGED <<wclosed, outcome>> /\ (ret' = ret \/ ret' = "error" \/ (ret' = "ok" /\ outcome = "ok"))
      BY <1>3 DEF CStep, CBuild, CReturn, pipeVars, netVars
    <2> QED BY <2>1 DEF Abstract!Next, Abstract!Tell, Abstract!vars
  <1>4. CASE Answer
    <2>1. UNCHANGED <<wclosed, ret>> BY <1>4 DEF Answer, Accept, Reject, pipeVars, cVars
    <2>2. CASE Accept
      <3>1. wclosed = "eof" /\ outcome' = "ok" BY <2>2 DEF Accept, IInv, AnswerInv
      <3> QED BY <2>1, <3>1 DEF Abstract!Next, Abstract!Store
    <2>3. CASE Reject
      <3>1. outcome = "none" /\ outcome' = "fail" BY <2>3 DEF Reject
      <3> QED BY <2>1, <3>1 DEF Abstract!vars
    <2> QED BY <1>4, <2>2, <2>3 DEF Answer
  <1>5. CASE GStep /\ wclosed' = wclosed
    <2>1. UNCHANGED <<outcome, ret>>
      BY <1>5 DEF GStep, GStart, GField, GFile, GCopy, GCopied, GFileEnd, GReadError, GWriteError,
                  GClose, cVars, netVars
    <2> QED BY <1>1, <1>5, <2>1
  <1>6. CASE TransportStep
    <2>1. UNCHANGED <<wclosed, outcome, ret>>
      BY <1>6 DEF TransportStep, TRead, TEOF, TClose, pipeVars, cVars, netVars
    <2> QED BY <1>1, <2>1
  <1>7. CASE UNCHANGED vars
    <2>1. UNCHANGED <<wclosed, outcome, ret>> BY <1>7 DEF vars, pipeVars, cVars, netVars
    <2> QED BY <1>1, <2>1
  <1> QED BY <1>2, <1>3, <1>4, <1>5, <1>6, <1>7 DEF Next

\* CreateAttachment implements the streamed upload of Upload.
THEOREM Refinement == Spec => ImplementsUpload
  <1>1. Init => Abstract!Init
    BY DEF Init, Abstract!Init
  <1>2. IInv /\ [Next]_vars => [Abstract!Next]_Abstract!vars
    BY StepSimulation
  <1> QED BY <1>1, <1>2, Invariance, PTL DEF Spec, Abstract!Spec, ImplementsUpload
=============================================================================
