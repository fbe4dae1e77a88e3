--------------------------- MODULE ImporterProofs ---------------------------
(***************************************************************************)
(* Proofs about Importer for every set of keys.  The invariant IInv says   *)
(* where the application, the pipe, the goroutine and the server are with  *)
(* respect to each other; the properties follow from it.                   *)
(***************************************************************************)
EXTENDS Importer, TLAPS

\* The stages of Import, and what the server has seen of the metadata.
ImportStage ==
  /\ imp = "none" => /\ pc = "idle" /\ pending = NoChunk /\ wclosed = "open"
                     /\ body.stage = "start"
  /\ imp = "importing" =>
       /\ wclosed = "open"
       /\ \/ pc = "metaHeader" /\ pending = Chunk("metaHeader", None) /\ body.stage = "start"
          \/ pc = "metaHeader" /\ pending = NoChunk /\ body.stage = "meta"
          \/ pc = "metaJSON" /\ pending = Chunk("metaJSON", None) /\ body.stage = "meta"
          \/ pc = "metaJSON" /\ pending = NoChunk /\ body.stage = "parts"
  /\ imp = "failed" => pc = "idle" /\ pending = NoChunk /\ wclosed = "error"
  /\ imp # "ready" => writers = {} /\ ~closed /\ body.stage # "end" /\ body.seen = {}
  /\ imp = "ready" => pc \notin {"metaHeader", "metaJSON"} /\ body.stage \in {"parts", "end"}
  /\ body.stage # "bad"

\* The message part being written is the one the server is in.
PartStage ==
  /\ pc = "header" => /\ imp = "ready" /\ key \in Keys /\ uploaded[key] /\ ~partOpen
                      /\ \/ pending = Chunk("header", key) /\ key \notin body.seen
                         \/ pending = NoChunk /\ key \in body.seen /\ body.part = key
  /\ pc = "bytes" => /\ imp = "ready" /\ ~closed /\ partOpen /\ key \in Keys /\ lastpart = key
                     /\ pending \in {NoChunk, Chunk("bytes", key)}
  /\ (partOpen /\ lastpart \in Keys) => lastpart = body.part
  /\ pc = "idle" => pending = NoChunk
  /\ partErr => rclosed

\* A message marked as imported reached the server, unless the pipe broke.
MarkedStage ==
  /\ \A k \in body.seen : imp = "ready" /\ uploaded[k]
  /\ \A k \in Keys : (imp = "ready" /\ uploaded[k] /\ k \notin body.seen)
       => rclosed \/ wclosed = "eof" \/ (pc = "header" /\ key = k)

\* The stages of Commit.
CommitStage ==
  /\ (imp = "ready" /\ ~closed) => body.stage = "parts" /\ wclosed = "open"
  /\ pc \in {"closing", "waitDone", "waitResult"} => imp = "ready" /\ closed
  /\ pc = "closing" =>
       /\ wclosed = "open"
       /\ \/ pending = Chunk("end", None) /\ body.stage = "parts"
          \/ /\ pending = NoChunk /\ body.stage = "end"
             /\ \A k \in Keys : uploaded[k] => k \in body.seen
  /\ (closed /\ pc # "closing") =>
       \/ wclosed = "eof" /\ body.stage = "end"
       \/ wclosed = "open" /\ rclosed /\ body.stage = "parts"
  /\ closed => ~partOpen /\ (pc = "header" => pending # NoChunk)
  /\ pc \in {"waitDone", "waitResult"} =>
       pending = NoChunk /\ wclosed = "eof" /\ body.seen = Keys
  /\ commit = "ok" => closed /\ pc # "closing" /\ wclosed = "eof" /\ body.seen = Keys
  /\ imp = "ready" => wclosed # "error"

\* What the goroutine has put in the channels, until Commit takes it.
ChannelStage ==
  /\ pc = "waitResult" => \/ gpc = "result" /\ result = "empty" /\ ~chClosed
                          \/ gpc = "exit" /\ result = "full"
  /\ (~closed \/ pc \in {"closing", "waitDone"}) =>
       \/ gpc \in {"unstarted", "new", "doing"} /\ done = "empty" /\ result = "empty" /\ ~chClosed
       \/ gpc = "result" /\ done = "nil" /\ result = "empty" /\ ~chClosed
       \/ gpc = "exit" /\ (done = "err" \/ (done = "nil" /\ result = "full"))
       \/ gpc = "unbuilt" /\ done = "err"
  /\ commit # "lost"

\* The transport acts only on a request that was built.
TransportStage ==
  /\ gpc = "unstarted" <=> imp = "none"
  /\ (body.stage # "start" \/ outcome # "none" \/ eof # "no" \/ rclosed
        \/ wclosed # "open")
       => gpc \notin {"unstarted", "new"}
  /\ rclosed => outcome # "none"
  /\ eof # "no" => eof = wclosed

IInv == TypeOK /\ ImportStage /\ PartStage /\ MarkedStage /\ CommitStage
          /\ ChannelStage /\ TransportStage

-----------------------------------------------------------------------------
(* Invariance, one lemma per action                                        *)

USE DEF Writing, vars, appVars, mwVars, pipeVars, gVars, netVars, calls

\* Every chunk that is written has a chunk's type.
LEMMA ChunkType ==
  ASSUME NEW kind \in {"metaHeader", "metaJSON", "header", "bytes", "end"},
         NEW k \in Keys \cup {None}
  PROVE  Chunk(kind, k) \in Chunks
  BY DEF Chunk, Chunks

USE DEF Chunk, NoChunk

\* Import starts: the metadata's header is offered to the pipe.
LEMMA StartImportInv == ASSUME IInv, StartImport PROVE IInv'
<1>1. TypeOK'
  BY DEF IInv, TypeOK, StartImport, WriteChunk, Chunks
<1>2. ChannelStage'
  BY DEF IInv, ChannelStage, TransportStage, StartImport, WriteChunk
<1>3. ImportStage' /\ PartStage' /\ MarkedStage' /\ CommitStage' /\ TransportStage'
  BY DEF IInv, ImportStage, PartStage, MarkedStage, CommitStage, TransportStage,
       StartImport, WriteChunk
<1> QED BY <1>1, <1>2, <1>3 DEF IInv

\* The server has the header: the JSON follows, or the pipe is closed.
LEMMA ImportEncodeInv == ASSUME IInv, ImportEncode PROVE IInv'
<1>1. TypeOK'
  <2>1. pending' \in Chunks \cup {NoChunk}
    BY ChunkType DEF IInv, TypeOK, ImportEncode, WriteOK, WriteChunk, DropChunk
  <2>2. uploaded' \in [Keys -> BOOLEAN] /\ closed' \in BOOLEAN /\ rclosed' \in BOOLEAN
          /\ partOpen' \in BOOLEAN /\ partErr' \in BOOLEAN /\ cancelled' \in BOOLEAN
    BY DEF IInv, TypeOK, ImportEncode, WriteOK, WriteChunk, DropChunk
  <2>3. commits' \in 0..MaxCommits /\ body' \in Bodies
    BY CommitsAssumption DEF IInv, TypeOK, ImportEncode, WriteOK, WriteChunk, DropChunk
  <2> QED BY <2>1, <2>2, <2>3 DEF IInv, TypeOK, ImportEncode, WriteOK, WriteChunk, DropChunk
<1>2. PartStage'
  BY KeysAssumption DEF IInv, PartStage, ImportEncode, WriteOK, WriteChunk, DropChunk
<1>3. MarkedStage'
  BY DEF IInv, ImportStage, MarkedStage, ImportEncode, WriteOK, WriteChunk, DropChunk
<1>4. CommitStage'
  BY DEF IInv, ImportStage, CommitStage, ImportEncode, WriteOK, WriteChunk, DropChunk
<1>5. TransportStage'
  BY DEF IInv, TypeOK, ImportStage, TransportStage, ImportEncode, WriteOK, WriteChunk,
       DropChunk
<1>6. ImportStage' /\ ChannelStage'
  BY DEF IInv, ImportStage, ChannelStage, ImportEncode, WriteOK, WriteChunk, DropChunk
<1> QED BY <1>1, <1>2, <1>3, <1>4, <1>5, <1>6 DEF IInv

\* The server has the metadata and waits for the parts.
LEMMA ImportReadyInv == ASSUME IInv, ImportReady PROVE IInv'
<1>1. ImportStage'
  BY DEF IInv, TypeOK, ImportStage, ImportReady, WriteOK
<1>2. MarkedStage'
  BY DEF IInv, ImportStage, MarkedStage, ImportReady, WriteOK
<1>3. CommitStage'
  BY DEF IInv, TypeOK, ImportStage, CommitStage, ImportReady, WriteOK
<1>4. TransportStage'
  BY DEF IInv, ImportStage, TransportStage, ImportReady, WriteOK
<1>5. TypeOK' /\ PartStage' /\ ChannelStage'
  BY DEF IInv, TypeOK, PartStage, ChannelStage, ImportReady, WriteOK
<1> QED BY <1>1, <1>2, <1>3, <1>4, <1>5 DEF IInv

\* Only the transport can break the pipe under Import, after an outcome.
LEMMA ImportFailsInv == ASSUME IInv, ImportFails PROVE IInv'
<1>1. ImportStage'
  BY DEF IInv, TypeOK, ImportStage, ImportFails, WriteErr, DropChunk
<1>2. MarkedStage'
  BY DEF IInv, ImportStage, MarkedStage, ImportFails, WriteErr, DropChunk
<1>3. CommitStage'
  BY DEF IInv, ImportStage, CommitStage, ImportFails, WriteErr, DropChunk
<1>4. TransportStage'
  BY DEF IInv, TypeOK, ImportStage, TransportStage, ImportFails, WriteErr, DropChunk
<1>5. TypeOK' /\ PartStage' /\ ChannelStage'
  BY DEF IInv, TypeOK, PartStage, ChannelStage, ImportFails, WriteErr, DropChunk
<1> QED BY <1>1, <1>2, <1>3, <1>4, <1>5 DEF IInv

\* The key is marked and its header offered, or the last part's error returned.
LEMMA ImportMessageInv == ASSUME NEW k \in Keys, IInv, ImportMessage(k) PROVE IInv'
<1>1. TypeOK'
  <2>1. pending' \in Chunks \cup {NoChunk}
    BY ChunkType DEF IInv, TypeOK, ImportMessage, WriteChunk
  <2>2. uploaded' \in [Keys -> BOOLEAN] /\ closed' \in BOOLEAN /\ rclosed' \in BOOLEAN
          /\ partOpen' \in BOOLEAN /\ partErr' \in BOOLEAN /\ cancelled' \in BOOLEAN
    BY DEF IInv, TypeOK, ImportMessage, WriteChunk
  <2>3. commits' \in 0..MaxCommits /\ body' \in Bodies
    BY CommitsAssumption DEF IInv, TypeOK, ImportMessage, WriteChunk
  <2> QED BY <2>1, <2>2, <2>3 DEF IInv, TypeOK, ImportMessage, WriteChunk
<1>2. PartStage'
  BY DEF IInv, TypeOK, PartStage, MarkedStage, ImportMessage, WriteChunk
<1>3. MarkedStage'
  BY DEF IInv, PartStage, MarkedStage, ImportMessage, WriteChunk
<1>4. ImportStage' /\ CommitStage' /\ ChannelStage' /\ TransportStage'
  BY DEF IInv, ImportStage, CommitStage, ChannelStage, TransportStage, ImportMessage,
       WriteChunk
<1> QED BY <1>1, <1>2, <1>3, <1>4 DEF IInv

\* The part whose header was read is the server's current part.
LEMMA PartCreatedInv == ASSUME IInv, PartCreated PROVE IInv'
<1>1. TypeOK'
  <2>1. key \in Keys
    BY DEF IInv, PartStage, PartCreated, WriteOK
  <2>2. lastpart' \in Keys /\ key' = None /\ writers' \subseteq Keys
    BY <2>1 DEF IInv, TypeOK, PartCreated
  <2>3. partOpen' \in BOOLEAN /\ partErr' \in BOOLEAN /\ body' \in Bodies
          /\ pending' \in Chunks \cup {NoChunk}
    BY DEF IInv, TypeOK, PartCreated
  <2> QED BY <2>2, <2>3 DEF IInv, TypeOK, PartCreated
<1>2. ImportStage'
  BY DEF IInv, ImportStage, PartStage, PartCreated, WriteOK
<1>3. MarkedStage'
  BY DEF IInv, PartStage, MarkedStage, PartCreated, WriteOK
<1>4. PartStage' /\ CommitStage' /\ ChannelStage' /\ TransportStage'
  BY DEF IInv, PartStage, CommitStage, ChannelStage, TransportStage, PartCreated,
       WriteOK
<1> QED BY <1>1, <1>2, <1>3, <1>4 DEF IInv

\* A header that was not read leaves a marked key and a broken pipe.
LEMMA PartFailedInv == ASSUME IInv, PartFailed PROVE IInv'
<1>1. MarkedStage'
  BY DEF IInv, MarkedStage, CommitStage, PartFailed, WriteErr, DropChunk
<1>2. TypeOK' /\ ImportStage' /\ PartStage' /\ CommitStage' /\ ChannelStage' /\ TransportStage'
  BY DEF IInv, TypeOK, ImportStage, PartStage, CommitStage, ChannelStage,
       TransportStage, PartFailed, WriteErr, DropChunk
<1> QED BY <1>1, <1>2 DEF IInv

\* Bytes are offered for the open part only, hence before Commit.
LEMMA WriteMessageInv == ASSUME NEW k \in Keys, IInv, WriteMessage(k) PROVE IInv'
<1>1. TypeOK'
  BY DEF IInv, TypeOK, WriteMessage, WriteChunk, Chunks
<1>2. PartStage'
  BY DEF IInv, ImportStage, PartStage, CommitStage, WriteMessage, WriteChunk
<1>3. ImportStage' /\ MarkedStage' /\ CommitStage' /\ ChannelStage' /\ TransportStage'
  BY DEF IInv, ImportStage, MarkedStage, CommitStage, ChannelStage, TransportStage,
       WriteMessage, WriteChunk
<1> QED BY <1>1, <1>2, <1>3 DEF IInv

\* A write that failed means that the transport closed the pipe.
LEMMA MessageWrittenInv == ASSUME IInv, MessageWritten PROVE IInv'
<1>1. TypeOK'
  <2>1. pending' \in Chunks \cup {NoChunk}
    BY ChunkType DEF IInv, TypeOK, MessageWritten, WriteOK, WriteErr, DropChunk
  <2>2. uploaded' \in [Keys -> BOOLEAN] /\ closed' \in BOOLEAN /\ rclosed' \in BOOLEAN
          /\ partOpen' \in BOOLEAN /\ partErr' \in BOOLEAN /\ cancelled' \in BOOLEAN
    BY DEF IInv, TypeOK, MessageWritten, WriteOK, WriteErr, DropChunk
  <2>3. commits' \in 0..MaxCommits /\ body' \in Bodies
    BY CommitsAssumption DEF IInv, TypeOK, MessageWritten, WriteOK, WriteErr, DropChunk
  <2> QED BY <2>1, <2>2, <2>3 DEF IInv, TypeOK, MessageWritten, WriteOK, WriteErr, DropChunk
<1>2. PartStage'
  BY DEF IInv, PartStage, CommitStage, MessageWritten, WriteOK, WriteErr, DropChunk
<1>3. ImportStage' /\ MarkedStage' /\ CommitStage' /\ ChannelStage' /\ TransportStage'
  BY DEF IInv, ImportStage, MarkedStage, CommitStage, ChannelStage, TransportStage,
       MessageWritten, WriteOK, WriteErr, DropChunk
<1> QED BY <1>1, <1>2, <1>3 DEF IInv

\* The closing boundary follows the last part.
LEMMA CommitInv == ASSUME IInv, Commit PROVE IInv'
<1>1. TypeOK'
  <2>1. pending' \in Chunks \cup {NoChunk}
    BY ChunkType DEF IInv, TypeOK, Commit, WriteChunk
  <2>2. uploaded' \in [Keys -> BOOLEAN] /\ closed' \in BOOLEAN /\ rclosed' \in BOOLEAN
          /\ partOpen' \in BOOLEAN /\ partErr' \in BOOLEAN /\ cancelled' \in BOOLEAN
    BY DEF IInv, TypeOK, Commit, WriteChunk
  <2>3. commits' \in 0..MaxCommits /\ body' \in Bodies
    BY CommitsAssumption DEF IInv, TypeOK, Commit, WriteChunk
  <2> QED BY <2>1, <2>2, <2>3 DEF IInv, TypeOK, Commit, WriteChunk
<1>2. CommitStage'
  BY DEF IInv, PartStage, CommitStage, Commit, WriteChunk
<1>3. ImportStage' /\ PartStage' /\ MarkedStage' /\ ChannelStage' /\ TransportStage'
  BY DEF IInv, ImportStage, PartStage, MarkedStage, ChannelStage, TransportStage,
       Commit, WriteChunk
<1> QED BY <1>1, <1>2, <1>3 DEF IInv

\* The boundary was read, so every marked key was seen.
LEMMA CommitClosedInv == ASSUME IInv, CommitClosed PROVE IInv'
<1>1. CommitStage'
  BY DEF IInv, TypeOK, CommitStage, CommitClosed, WriteOK, DropChunk, Bodies
<1>2. TransportStage'
  BY DEF IInv, TypeOK, CommitStage, TransportStage, CommitClosed, WriteOK, DropChunk
<1>3. TypeOK' /\ ImportStage' /\ PartStage' /\ MarkedStage' /\ ChannelStage'
  BY DEF IInv, TypeOK, ImportStage, PartStage, MarkedStage, ChannelStage, CommitClosed,
       WriteOK, DropChunk
<1> QED BY <1>1, <1>2, <1>3 DEF IInv

\* A boundary that was not read means that the transport closed the pipe.
LEMMA CommitFailsInv == ASSUME IInv, CommitFails PROVE IInv'
<1>1. TypeOK' /\ ImportStage' /\ PartStage' /\ MarkedStage' /\ CommitStage' /\ ChannelStage' /\ TransportStage'
  BY DEF IInv, TypeOK, ImportStage, PartStage, MarkedStage, CommitStage, ChannelStage,
       TransportStage, CommitFails, WriteErr, DropChunk
<1> QED BY <1>1 DEF IInv

\* The first receive finds what doJSON returned.
LEMMA CommitDoneInv == ASSUME IInv, CommitDone PROVE IInv'
<1>1. PartStage'
  BY DEF IInv, PartStage, CommitStage, CommitDone
<1>2. ChannelStage'
  BY DEF IInv, CommitStage, ChannelStage, CommitDone
<1>3. TypeOK' /\ ImportStage' /\ MarkedStage' /\ CommitStage' /\ TransportStage'
  BY DEF IInv, TypeOK, ImportStage, MarkedStage, CommitStage, TransportStage, CommitDone
<1> QED BY <1>1, <1>2, <1>3 DEF IInv

\* After a nil error the result is there or about to be sent.
LEMMA CommitResultInv == ASSUME IInv, CommitResult PROVE IInv'
<1>1. PartStage'
  BY DEF IInv, PartStage, CommitStage, CommitResult
<1>2. ChannelStage'
  BY DEF IInv, CommitStage, ChannelStage, CommitResult
<1>3. TypeOK' /\ ImportStage' /\ MarkedStage' /\ CommitStage' /\ TransportStage'
  BY DEF IInv, TypeOK, ImportStage, MarkedStage, CommitStage, TransportStage,
       CommitResult
<1> QED BY <1>1, <1>2, <1>3 DEF IInv

\* Cancelling Commit's context changes nothing else.
LEMMA CancelCommitInv == ASSUME IInv, CancelCommit PROVE IInv'
<1>1. TypeOK' /\ ImportStage' /\ PartStage' /\ MarkedStage' /\ CommitStage' /\ ChannelStage' /\ TransportStage'
  BY DEF IInv, TypeOK, ImportStage, PartStage, MarkedStage, CommitStage, ChannelStage,
       TransportStage, CancelCommit
<1> QED BY <1>1 DEF IInv

\* Building the request sends at most the error.
LEMMA GBuildInv == ASSUME IInv, GBuild PROVE IInv'
<1>1. TypeOK'
  <2>1. CASE gpc' = "doing"
    BY <2>1 DEF IInv, TypeOK, GBuild
  <2>2. CASE gpc' = "unbuilt"
    BY <2>2 DEF IInv, TypeOK, GBuild
  <2> QED BY <2>1, <2>2 DEF GBuild
<1>2. ImportStage' /\ PartStage' /\ MarkedStage' /\ CommitStage' /\ ChannelStage' /\ TransportStage'
  BY DEF IInv, ImportStage, PartStage, MarkedStage, CommitStage, ChannelStage,
       TransportStage, GBuild
<1> QED BY <1>1, <1>2 DEF IInv

\* done is sent once, into an empty channel.
LEMMA GDoneInv == ASSUME IInv, GDone PROVE IInv'
<1>1. TypeOK'
  <2>1. CASE outcome = "ok"
    BY <2>1 DEF IInv, TypeOK, GDone
  <2>2. CASE outcome # "ok"
    BY <2>2 DEF IInv, TypeOK, GDone
  <2> QED BY <2>1, <2>2 DEF GDone
<1>2. ImportStage' /\ PartStage' /\ MarkedStage' /\ CommitStage' /\ ChannelStage' /\ TransportStage'
  BY DEF IInv, ImportStage, PartStage, MarkedStage, CommitStage, ChannelStage,
       TransportStage, GDone
<1> QED BY <1>1, <1>2 DEF IInv

\* result is sent once, into an empty channel.
LEMMA GResultInv == ASSUME IInv, GResult PROVE IInv'
<1>1. TypeOK' /\ ImportStage' /\ PartStage' /\ MarkedStage' /\ CommitStage' /\ ChannelStage' /\ TransportStage'
  BY DEF IInv, TypeOK, ImportStage, PartStage, MarkedStage, CommitStage, ChannelStage,
       TransportStage, GResult
<1> QED BY <1>1 DEF IInv

\* The chunk that is read is the next one of a well-formed body.
LEMMA TReadInv == ASSUME IInv, TRead PROVE IInv'
<1>1. TypeOK'
  <2>1. body.stage \in {"start", "meta", "parts", "end"} /\ body \in Bodies
        /\ (pending.kind = "header" => pending.key \in Keys)
    BY KeysAssumption DEF IInv, TypeOK, ImportStage, PartStage, CommitStage, TRead, Chunks
  <2>2. Parse(body, pending) \in Bodies
    BY <2>1 DEF Parse, Bodies
  <2> QED BY <2>2 DEF IInv, TypeOK, TRead
<1>2. ImportStage'
  BY DEF IInv, TypeOK, ImportStage, PartStage, CommitStage, TRead, Sending, Parse
<1>3. PartStage'
  BY DEF IInv, TypeOK, ImportStage, PartStage, CommitStage, TRead, Sending, Parse
<1>4. MarkedStage'
  BY DEF IInv, TypeOK, ImportStage, PartStage, MarkedStage, CommitStage, TRead, Sending,
       Parse
<1>5. CommitStage'
  BY DEF IInv, TypeOK, ImportStage, PartStage, MarkedStage, CommitStage, TRead, Sending,
       Parse
<1>6. ChannelStage' /\ TransportStage'
  BY DEF IInv, ChannelStage, TransportStage, TRead, Sending, Parse
<1> QED BY <1>1, <1>2, <1>3, <1>4, <1>5, <1>6 DEF IInv

\* The end of the body is how the writer closed the pipe.
LEMMA TEOFInv == ASSUME IInv, TEOF PROVE IInv'
<1>1. TypeOK' /\ ImportStage' /\ PartStage' /\ MarkedStage' /\ CommitStage' /\ ChannelStage' /\ TransportStage'
  BY DEF IInv, TypeOK, ImportStage, PartStage, MarkedStage, CommitStage, ChannelStage,
       TransportStage, TEOF, Sending
<1> QED BY <1>1 DEF IInv

\* A success is the answer to a body that ended.
LEMMA AcceptInv == ASSUME IInv, Accept PROVE IInv'
<1>1. TypeOK' /\ ImportStage' /\ PartStage' /\ MarkedStage' /\ CommitStage' /\ ChannelStage' /\ TransportStage'
  BY DEF IInv, TypeOK, ImportStage, PartStage, MarkedStage, CommitStage, ChannelStage,
       TransportStage, Accept
<1> QED BY <1>1 DEF IInv

\* A failure is the answer to a request that was sent.
LEMMA RejectInv == ASSUME IInv, Reject PROVE IInv'
<1>1. TypeOK' /\ ImportStage' /\ PartStage' /\ MarkedStage' /\ CommitStage' /\ ChannelStage' /\ TransportStage'
  BY DEF IInv, TypeOK, ImportStage, PartStage, MarkedStage, CommitStage, ChannelStage,
       TransportStage, Reject
<1> QED BY <1>1 DEF IInv

\* The transport closes the pipe after the outcome.
LEMMA TCloseInv == ASSUME IInv, TClose PROVE IInv'
<1>1. TypeOK' /\ ImportStage' /\ PartStage' /\ MarkedStage' /\ CommitStage' /\ ChannelStage' /\ TransportStage'
  BY DEF IInv, TypeOK, ImportStage, PartStage, MarkedStage, CommitStage, ChannelStage,
       TransportStage, TClose
<1> QED BY <1>1 DEF IInv

-----------------------------------------------------------------------------
(* Theorems                                                                *)

\* A new Importer is idle, its pipe open and its channels empty.
LEMMA InitInv == Init => IInv
<1> SUFFICES ASSUME Init PROVE IInv OBVIOUS
<1>1. TypeOK
  <2>1. body \in Bodies /\ pending \in Chunks \cup {NoChunk} BY DEF Init, Bodies
  <2>2. commits \in 0..MaxCommits BY CommitsAssumption DEF Init
  <2> QED BY <2>1, <2>2 DEF Init, TypeOK
<1>2. ImportStage /\ PartStage BY DEF Init, ImportStage, PartStage
<1>3. MarkedStage /\ CommitStage BY DEF Init, MarkedStage, CommitStage
<1>4. ChannelStage /\ TransportStage BY DEF Init, ChannelStage, TransportStage
<1> QED BY <1>1, <1>2, <1>3, <1>4 DEF IInv

\* Every step of the application, the goroutine, the transport and the server
\* preserves the invariant.
LEMMA NextInv == IInv /\ [Next]_vars => IInv'
<1> SUFFICES ASSUME IInv, [Next]_vars PROVE IInv' OBVIOUS
<1>1. CASE AppStart
  BY <1>1, StartImportInv, ImportMessageInv, WriteMessageInv, CommitInv, CancelCommitInv
  DEF AppStart
<1>2. CASE AppStep
  BY <1>2, ImportEncodeInv, ImportReadyInv, ImportFailsInv, PartCreatedInv, PartFailedInv,
     MessageWrittenInv, CommitClosedInv, CommitFailsInv, CommitDoneInv, CommitResultInv
  DEF AppStep
<1>3. CASE GStep
  BY <1>3, GBuildInv, GDoneInv, GResultInv DEF GStep
<1>4. CASE TransportStep
  BY <1>4, TReadInv, TEOFInv, TCloseInv DEF TransportStep
<1>5. CASE Answer
  BY <1>5, AcceptInv, RejectInv DEF Answer
<1>6. CASE UNCHANGED vars
  BY <1>6 DEF IInv, TypeOK, ImportStage, PartStage, MarkedStage, CommitStage, ChannelStage,
              TransportStage
<1> QED BY <1>1, <1>2, <1>3, <1>4, <1>5, <1>6 DEF Next

\* IInv is an invariant of the import, for every set of keys.
THEOREM Invariance == Spec => []IInv
  BY InitInv, NextInv, PTL DEF Spec

\* Every variable of the import keeps its type.
THEOREM TypeCorrect == Spec => []TypeOK
<1>1. IInv => TypeOK BY DEF IInv
<1> QED BY <1>1, Invariance, PTL

\* The request body the transport streams is well-formed at every moment, and
\* complete when it ends without an error (CreatePart, mw.Close, pw.Close).
THEOREM BodyStaysWellFormed == Spec => []BodyWellFormed
<1>1. IInv => BodyWellFormed
  BY DEF IInv, TypeOK, ImportStage, CommitStage, PartStage, TransportStage, BodyWellFormed
<1> QED BY <1>1, Invariance, PTL

\* Commit returns nil only with a result, and only if every message of the
\* metadata was streamed: a key whose CreatePart failed cannot slip through.
THEOREM CommitIsComplete == Spec => []CommitOkMeansComplete
<1>1. IInv => CommitOkMeansComplete
  BY DEF IInv, CommitStage, ChannelStage, CommitOkMeansComplete
<1> QED BY <1>1, Invariance, PTL

\* Import does not return before its goroutine has read the Client's fields.
THEOREM ImportWaitsForBuild == Spec => []BuiltBeforeImportReturns
<1>1. IInv => BuiltBeforeImportReturns
  BY DEF IInv, TypeOK, ImportStage, TransportStage, BuiltBeforeImportReturns
<1> QED BY <1>1, Invariance, PTL
-----------------------------------------------------------------------------
(* Refinement                                                              *)

\* The caller knows nothing before Commit, and what the goroutine passes on as a
\* result is one the server gave.
ToldInv ==
  /\ ~closed => commit = "none"
  /\ (gpc = "result" \/ result = "full") => outcome = "ok"

\* The application's steps preserve it.
LEMMA AppToldInv == ASSUME IInv, ToldInv, AppStart \/ AppStep PROVE ToldInv'
<1>1. /\ UNCHANGED outcome
      /\ gpc' = gpc \/ (gpc = "unstarted" /\ gpc' = "new")
      /\ result' = result \/ result' = "empty"
  BY DEF AppStart, AppStep, StartImport, ImportMessage, WriteMessage, Commit, CancelCommit,
         ImportEncode, ImportReady, ImportFails, PartCreated, PartFailed, MessageWritten,
         CommitClosed, CommitFails, CommitDone, CommitResult, IInv, TransportStage
<1>2. closed' \/ (closed' = closed /\ commit' = commit)
  <2>1. CASE AppStart
    BY <2>1 DEF AppStart, StartImport, ImportMessage, WriteMessage, Commit, CancelCommit
  <2>2. CASE ImportEncode \/ ImportReady \/ ImportFails \/ PartCreated \/ PartFailed \/ MessageWritten
    BY <2>2 DEF ImportEncode, ImportReady, ImportFails, PartCreated, PartFailed, MessageWritten
  <2>3. CASE CommitClosed \/ CommitFails \/ CommitDone \/ CommitResult
    <3>1. pc \in {"closing", "waitDone", "waitResult"} /\ closed' = closed
      BY <2>3 DEF CommitClosed, CommitFails, CommitDone, CommitResult, WriteOK, WriteErr
    <3> QED BY <3>1 DEF IInv, CommitStage
  <2> QED BY <2>1, <2>2, <2>3 DEF AppStep
<1> QED BY <1>1, <1>2 DEF ToldInv

\* So do the others.
LEMMA NextToldInv == IInv /\ ToldInv /\ [Next]_vars => ToldInv'
<1> SUFFICES ASSUME IInv, ToldInv, [Next]_vars PROVE ToldInv' OBVIOUS
<1>1. CASE AppStart \/ AppStep BY <1>1, AppToldInv
<1>2. CASE GStep
  BY <1>2 DEF GStep, GBuild, GDone, GResult, ToldInv
<1>3. CASE TransportStep
  BY <1>3 DEF TransportStep, TRead, TEOF, TClose, ToldInv
<1>4. CASE Answer
  <2>1. outcome = "none" /\ UNCHANGED <<closed, commit, gpc, result>>
    BY <1>4 DEF Answer, Accept, Reject
  <2> QED BY <2>1 DEF ToldInv
<1>5. CASE UNCHANGED vars BY <1>5 DEF ToldInv
<1> QED BY <1>1, <1>2, <1>3, <1>4, <1>5 DEF Next

\* The pipe's writer is closed by Import or by Commit, each from the open state.
LEMMA CloseOnce == ASSUME IInv, AppStart \/ AppStep, wclosed' # wclosed
                   PROVE  wclosed = "open" /\ wclosed' \in {"eof", "error"}
<1>1. CASE AppStart
  BY <1>1 DEF AppStart, StartImport, ImportMessage, WriteMessage, Commit, CancelCommit, WriteChunk
<1>2. CASE ImportEncode
  <2>1. pc = "metaHeader" /\ imp \in {"none", "importing", "ready", "failed"}
    BY <1>2 DEF ImportEncode, WriteOK, IInv, TypeOK
  <2>2. wclosed = "open"
    BY <2>1 DEF IInv, ImportStage
  <2> QED BY <1>2, <2>2 DEF ImportEncode, WriteChunk, DropChunk
<1>3. CASE ImportReady \/ ImportFails \/ PartCreated \/ PartFailed \/ MessageWritten
  BY <1>3 DEF ImportReady, ImportFails, PartCreated, PartFailed, MessageWritten, DropChunk
<1>4. CASE CommitClosed
  BY <1>4 DEF CommitClosed, WriteOK, DropChunk, IInv, CommitStage
<1>5. CASE CommitFails \/ CommitDone \/ CommitResult
  BY <1>5 DEF CommitFails, CommitDone, CommitResult, DropChunk
<1> QED BY <1>1, <1>2, <1>3, <1>4, <1>5 DEF AppStep

\* What the caller is told: nothing new, an error, or success of a stored import.
LEMMA ToldSteps == ASSUME IInv, ToldInv, AppStart \/ AppStep
                   PROVE  \/ Told' = Told
                          \/ Told' = "error"
                          \/ Told' = "ok" /\ outcome = "ok"
<1>1. commit' = commit => Told' = Told
  BY DEF Told
<1>2. commit' \in {"closed", "error", "missing", "lost"} => Told' = "error"
  BY DEF Told
<1>3. CASE StartImport \/ (\E k \in Keys : ImportMessage(k)) \/ (\E k \in Keys : WriteMessage(k))
             \/ CancelCommit
  BY <1>1, <1>3 DEF StartImport, ImportMessage, WriteMessage, CancelCommit
<1>4. CASE Commit
  <2>1. commit' \in {"closed", "error"} \/ (~closed /\ commit' = "none")
    BY <1>4 DEF Commit
  <2> QED BY <1>1, <1>2, <2>1 DEF ToldInv
<1>5. CASE ImportEncode \/ ImportReady \/ ImportFails \/ PartCreated \/ PartFailed \/ MessageWritten
  BY <1>1, <1>5 DEF ImportEncode, ImportReady, ImportFails, PartCreated, PartFailed, MessageWritten
<1>6. CASE CommitClosed \/ CommitFails \/ CommitDone
  BY <1>1, <1>2, <1>6 DEF CommitClosed, CommitFails, CommitDone
<1>7. CASE CommitResult
  <2>1. commit' = "lost" \/ (commit' = "ok" /\ result = "full")
    BY <1>7 DEF CommitResult
  <2>2. commit' = "ok" => Told' = "ok"
    BY DEF Told
  <2> QED BY <1>2, <2>1, <2>2 DEF ToldInv
<1> QED BY <1>3, <1>4, <1>5, <1>6, <1>7 DEF AppStart, AppStep

\* Every step of the import is a step of Upload or leaves it alone.
LEMMA StepSimulation ==
  IInv /\ ToldInv /\ [Next]_vars => [Abstract!Next]_Abstract!vars
<1> SUFFICES ASSUME IInv, ToldInv, [Next]_vars PROVE [Abstract!Next]_Abstract!vars OBVIOUS
<1>1. CASE UNCHANGED <<wclosed, outcome, commit>>
  <2>1. Told' = Told BY <1>1 DEF Told
  <2> QED BY <1>1, <2>1 DEF Abstract!vars
<1>2. CASE AppStart \/ AppStep
  <2>1. outcome' = outcome
    BY <1>2 DEF AppStart, AppStep, StartImport, ImportMessage, WriteMessage, Commit, CancelCommit,
         ImportEncode, ImportReady, ImportFails, PartCreated, PartFailed, MessageWritten,
         CommitClosed, CommitFails, CommitDone, CommitResult
  <2>2. \/ Told' = Told
        \/ Told' = "error"
        \/ Told' = "ok" /\ outcome = "ok"
    BY <1>2, ToldSteps
  <2>3. CASE wclosed' = wclosed
    BY <2>1, <2>2, <2>3 DEF Abstract!Next, Abstract!Tell, Abstract!vars
  <2>4. CASE wclosed' # wclosed
    <3>1. wclosed = "open" /\ wclosed' \in {"eof", "error"} BY <1>2, <2>4, CloseOnce
    <3> QED BY <2>1, <2>2, <3>1 DEF Abstract!Next, Abstract!EndBody, Abstract!Tell
  <2> QED BY <2>3, <2>4
<1>3. CASE GStep
  <2>1. UNCHANGED <<wclosed, outcome, commit>> BY <1>3 DEF GStep, GBuild, GDone, GResult
  <2> QED BY <1>1, <2>1
<1>4. CASE TransportStep
  <2>1. UNCHANGED <<wclosed, outcome, commit>> BY <1>4 DEF TransportStep, TRead, TEOF, TClose
  <2> QED BY <1>1, <2>1
<1>5. CASE Accept
  <2>1. /\ wclosed = "eof" /\ outcome' = "ok" /\ wclosed' = wclosed /\ commit' = commit
    BY <1>5 DEF Accept, IInv, TransportStage
  <2>2. Told' = Told BY <2>1 DEF Told
  <2> QED BY <2>1, <2>2 DEF Abstract!Next, Abstract!Store
<1>6. CASE Reject
  <2>1. outcome = "none" /\ outcome' = "fail" /\ wclosed' = wclosed /\ commit' = commit
    BY <1>6 DEF Reject
  <2>2. Told' = Told BY <2>1 DEF Told
  <2> QED BY <2>1, <2>2 DEF Abstract!vars
<1>7. CASE UNCHANGED vars
  <2>1. UNCHANGED <<wclosed, outcome, commit>> BY <1>7
  <2> QED BY <1>1, <2>1
<1> QED BY <1>2, <1>3, <1>4, <1>5, <1>6, <1>7 DEF Next, Answer

\* A bulk import implements the streamed upload of Upload: success is reported
\* only of an import that the server took, and it takes only a finished body.
THEOREM Refinement == Spec => ImplementsUpload
<1>1. Init => Abstract!Init /\ ToldInv
  BY DEF Init, Abstract!Init, Told, ToldInv
<1>2. IInv /\ ToldInv /\ [Next]_vars => ToldInv' BY NextToldInv
<1>3. IInv /\ ToldInv /\ [Next]_vars => [Abstract!Next]_Abstract!vars BY StepSimulation
<1> QED BY <1>1, <1>2, <1>3, Invariance, PTL DEF Spec, Abstract!Spec, ImplementsUpload
=============================================================================
