------------------------------ MODULE Importer ------------------------------
(***************************************************************************)
(* The streaming bulk import of import.go.  Three activities meet in one   *)
(* unbuffered io.Pipe and two channels:                                    *)
(*   - the application: Import, ImportMessage, writes to the part writers, *)
(*     Commit; each multipart write blocks until the pipe's reader takes   *)
(*     it or the pipe is closed;                                           *)
(*   - the goroutine Import starts: newRequest, doJSON, then done, result; *)
(*   - the HTTP transport (external): reads the pipe as the request body,  *)
(*     and closes it some time after the outcome of the request is known.  *)
(*                                                                         *)
(* A pipe write carries one chunk: the header or the JSON of the metadata  *)
(* part, the header or some bytes of a message part, or the closing        *)
(* boundary.  The server is the parser that reads the chunks.              *)
(***************************************************************************)
EXTENDS Naturals

CONSTANTS
  Keys,          \* the keys of the metadata map
  None,          \* no key, no chunk
  MaxCommits,    \* bound: calls of Commit
  BuildMayFail   \* can newRequest fail (a nil context)

ASSUME KeysAssumption    == None \notin Keys /\ "Metadata" \notin Keys /\ None # "Metadata"
ASSUME CommitsAssumption == MaxCommits \in Nat /\ BuildMayFail \in BOOLEAN

VARIABLES
  pc, key,            \* what the application waits for, and for which message
  imp,                \* the Importer: none, importing, ready, failed
  uploaded, closed,   \* its fields
  lastpart, partOpen, partErr,  \* mw.lastpart: which, not yet closed, its write error
  writers,            \* messages whose io.Writer the application holds
  pending, wclosed, rclosed,    \* the pipe: chunk being written, its two ends
  gpc,                \* the goroutine
  done, result, chClosed,       \* the channels (capacity 1) and their close
  outcome, eof, body, \* transport and server: answer, end of body seen, parser
  commit, commits,    \* result and number of the Commit calls
  cancelled           \* the context of the running Commit is cancelled

calls    == <<commits, cancelled>>
appVars  == <<pc, key, imp, uploaded, closed, writers, commit, calls>>
mwVars   == <<lastpart, partOpen, partErr>>
pipeVars == <<pending, wclosed, rclosed>>
gVars    == <<gpc, done, result, chClosed>>
netVars  == <<outcome, eof, body>>
vars == <<appVars, mwVars, pipeVars, gVars, netVars>>

-----------------------------------------------------------------------------
(* Values                                                                  *)

Chunk(kind, k) == [kind |-> kind, key |-> k]
Chunks  == [kind: {"metaHeader", "metaJSON", "header", "bytes", "end"}, key: Keys \cup {None}]
NoChunk == Chunk("none", None)

\* The server's view of the body: how far it is, the part it is in, the
\* messages whose part it has seen.
Bodies == [stage: {"start", "meta", "parts", "end", "bad"}, part: Keys \cup {None},
           seen: SUBSET Keys]

\* The multipart parser (external): metadata first, then one part per message
\* with its own bytes, then the closing boundary and nothing more.
Parse(b, c) ==
  IF b.stage = "start" /\ c.kind = "metaHeader" THEN [b EXCEPT !.stage = "meta"]
  ELSE IF b.stage = "meta" /\ c.kind = "metaJSON" THEN [b EXCEPT !.stage = "parts"]
  ELSE IF b.stage = "parts" /\ c.kind = "header" /\ c.key \notin b.seen
       THEN [b EXCEPT !.part = c.key, !.seen = @ \cup {c.key}]
  ELSE IF b.stage = "parts" /\ c.kind = "bytes" /\ c.key = b.part THEN b
  ELSE IF b.stage = "parts" /\ c.kind = "end" THEN [b EXCEPT !.stage = "end"]
  ELSE [b EXCEPT !.stage = "bad"]

Writing == {"metaHeader", "metaJSON", "header", "bytes", "closing"}

-----------------------------------------------------------------------------
(* The pipe (external): Write blocks until its chunk is read or an end is  *)
(* closed; a write on a closed pipe fails at once.                         *)

WriteChunk(c) == pending' = c /\ UNCHANGED <<wclosed, rclosed>>

WriteOK(at)  == pc = at /\ pending = NoChunk
WriteErr(at) == pc = at /\ pending # NoChunk /\ (rclosed \/ wclosed # "open")

\* A chunk that could not be written is gone, and so is the writer's end if w
\* says how it is closed.
DropChunk(w) == pending' = NoChunk /\ wclosed' = w /\ UNCHANGED rclosed

-----------------------------------------------------------------------------
(* Import                                                                  *)

\* Mutant: Import leaves the metadata to whoever writes first.
MutStartImportReturns ==
  /\ imp = "none" /\ imp' = "ready" /\ gpc' = "new"
  /\ UNCHANGED <<pc, key, uploaded, closed, writers, commit, calls, mwVars, pipeVars,
                 done, result, chClosed, netVars>>

\* The goroutine is started; CreatePart writes the metadata part's header.
StartImport ==
  /\ imp = "none"
  /\ imp' = "importing"
  /\ gpc' = "new"
  /\ pc' = "metaHeader"
  /\ WriteChunk(Chunk("metaHeader", None))
  /\ UNCHANGED <<key, uploaded, closed, writers, commit, calls, mwVars,
                 done, result, chClosed, netVars>>

\* CreatePart returned the part; its JSON is written, or cannot be encoded.
ImportEncode ==
  /\ WriteOK("metaHeader")
  /\ lastpart' = "Metadata" /\ partOpen' = TRUE /\ partErr' = FALSE
  /\ \/ pc' = "metaJSON" /\ WriteChunk(Chunk("metaJSON", None)) /\ UNCHANGED imp
     \/ pc' = "idle" /\ imp' = "failed" /\ DropChunk("error")
  /\ UNCHANGED <<key, uploaded, closed, writers, commit, calls, gVars, netVars>>

\* Mutant: the keys are not entered in the map.
MutImportReadyEmpty ==
  /\ WriteOK("metaJSON")
  /\ pc' = "idle" /\ imp' = "ready" /\ uploaded' = [k \in {} |-> FALSE]
  /\ UNCHANGED <<key, closed, writers, commit, calls, mwVars, pipeVars, gVars, netVars>>

ImportReady ==
  /\ WriteOK("metaJSON")
  /\ pc' = "idle"
  /\ imp' = "ready"
  /\ uploaded' = [k \in Keys |-> FALSE]
  /\ UNCHANGED <<key, closed, writers, commit, calls, mwVars, pipeVars, gVars, netVars>>

\* Either write failed: the pipe is closed with the error, Import returns it.
ImportFails ==
  /\ WriteErr("metaHeader") \/ WriteErr("metaJSON")
  /\ pc' = "idle"
  /\ imp' = "failed"
  /\ DropChunk(IF wclosed = "open" THEN "error" ELSE wclosed)
  /\ UNCHANGED <<key, uploaded, closed, writers, commit, calls, mwVars, gVars, netVars>>

-----------------------------------------------------------------------------
(* ImportMessage and the writers it returns                                *)

\* An unknown or already marked key is an error without effect.  CreatePart
\* closes the last part first and returns the error its writes met.
ImportMessage(k) ==
  /\ pc = "idle" /\ imp = "ready" /\ ~uploaded[k]
  /\ uploaded' = [uploaded EXCEPT ![k] = TRUE]
  /\ partOpen' = FALSE
  /\ \/ partErr /\ UNCHANGED <<pc, key, pipeVars>>
     \/ ~partErr /\ pc' = "header" /\ key' = k /\ WriteChunk(Chunk("header", k))
  /\ UNCHANGED <<imp, closed, writers, commit, calls, lastpart, partErr, gVars, netVars>>

PartCreated ==
  /\ WriteOK("header")
  /\ pc' = "idle" /\ key' = None
  /\ lastpart' = key /\ partOpen' = TRUE /\ partErr' = FALSE
  /\ writers' = writers \cup {key}
  /\ UNCHANGED <<imp, uploaded, closed, commit, calls, pipeVars, gVars, netVars>>

PartFailed ==
  /\ WriteErr("header")
  /\ pc' = "idle" /\ key' = None
  /\ DropChunk(wclosed)
  /\ UNCHANGED <<imp, uploaded, closed, writers, commit, calls, mwVars, gVars, netVars>>

\* Mutant: a part that is no longer the last one still takes bytes.
MutWriteAnyPart(k) ==
  /\ pc = "idle" /\ k \in writers
  /\ pc' = "bytes" /\ key' = k /\ WriteChunk(Chunk("bytes", k))
  /\ UNCHANGED <<imp, uploaded, closed, writers, commit, calls, mwVars, gVars, netVars>>

\* The application writes to a part (external: multipart refuses a part that
\* was closed by the next CreatePart or by Close).
WriteMessage(k) ==
  /\ pc = "idle" /\ k \in writers
  /\ lastpart = k /\ partOpen
  /\ pc' = "bytes" /\ key' = k /\ WriteChunk(Chunk("bytes", k))
  /\ UNCHANGED <<imp, uploaded, closed, writers, commit, calls, mwVars, gVars, netVars>>

MessageWritten ==
  /\ \/ WriteOK("bytes")  /\ UNCHANGED <<pipeVars, partErr>>
     \/ WriteErr("bytes") /\ DropChunk(wclosed) /\ partErr' = TRUE
  /\ pc' = "idle" /\ key' = None
  /\ UNCHANGED <<imp, uploaded, closed, writers, commit, calls, lastpart, partOpen,
                 gVars, netVars>>

-----------------------------------------------------------------------------
(* Commit                                                                  *)

\* close: refused the second time; mw.Close returns the last part's error or
\* writes the closing boundary.
Commit ==
  /\ pc = "idle" /\ imp = "ready" /\ commits < MaxCommits
  /\ commits' = commits + 1 /\ cancelled' = FALSE
  /\ closed' = TRUE
  /\ \/ closed /\ commit' = "closed" /\ UNCHANGED <<pc, mwVars, pipeVars>>
     \/ ~closed /\ partErr /\ commit' = "error" /\ partOpen' = FALSE
          /\ UNCHANGED <<pc, lastpart, partErr, pipeVars>>
     \/ ~closed /\ ~partErr /\ commit' = "none" /\ pc' = "closing"
          /\ lastpart' = None /\ partOpen' = FALSE
          /\ WriteChunk(Chunk("end", None)) /\ UNCHANGED partErr
  /\ UNCHANGED <<key, imp, uploaded, writers, gVars, netVars>>

\* Mutant: the pipe's writer is left open.
MutCommitClosesNothing ==
  /\ WriteOK("closing")
  /\ \/ (\E k \in Keys : ~uploaded[k]) /\ pc' = "idle" /\ commit' = "missing"
     \/ (\A k \in Keys : uploaded[k]) /\ pc' = "waitDone" /\ UNCHANGED commit
  /\ UNCHANGED <<pipeVars, key, imp, uploaded, closed, writers, calls, mwVars, gVars, netVars>>

\* Mutant: Commit does not ask whether every message was imported.
MutCommitAnyUpload ==
  /\ WriteOK("closing")
  /\ DropChunk("eof")
  /\ pc' = "waitDone"
  /\ UNCHANGED <<commit, key, imp, uploaded, closed, writers, calls, mwVars, gVars, netVars>>

\* The boundary is written and pw closed; only now are the keys checked.
CommitClosed ==
  /\ WriteOK("closing")
  /\ DropChunk("eof")
  /\ \/ (\E k \in Keys : ~uploaded[k]) /\ pc' = "idle" /\ commit' = "missing"
     \/ (\A k \in Keys : uploaded[k]) /\ pc' = "waitDone" /\ UNCHANGED commit
  /\ UNCHANGED <<key, imp, uploaded, closed, writers, calls, mwVars, gVars, netVars>>

CommitFails ==
  /\ WriteErr("closing")
  /\ DropChunk(wclosed)
  /\ commit' = "error" /\ pc' = "idle"
  /\ UNCHANGED <<key, imp, uploaded, closed, writers, calls, mwVars, gVars, netVars>>

\* A receive takes the value, or nil from a channel that is closed and empty.
CommitDone ==
  /\ pc = "waitDone"
  /\ done # "empty" \/ chClosed
  /\ done' = "empty"
  /\ IF done = "err" THEN pc' = "idle" /\ commit' = "error"
                     ELSE pc' = "waitResult" /\ UNCHANGED commit
  /\ UNCHANGED <<key, imp, uploaded, closed, writers, calls, mwVars, pipeVars,
                 gpc, result, chClosed, netVars>>

CommitResult ==
  /\ pc = "waitResult"
  /\ result # "empty" \/ chClosed
  /\ result' = "empty"
  /\ pc' = "idle"
  /\ commit' = IF result = "full" THEN "ok" ELSE "lost"
  /\ UNCHANGED <<key, imp, uploaded, closed, writers, calls, mwVars, pipeVars,
                 gpc, done, chClosed, netVars>>

\* The caller cancels the context it gave Commit, which no step reads: the
\* request carries the context of Import.
CancelCommit ==
  /\ pc \in {"closing", "waitDone", "waitResult"} /\ ~cancelled
  /\ cancelled' = TRUE
  /\ UNCHANGED <<pc, key, imp, uploaded, closed, writers, commit, commits, mwVars, pipeVars,
                 gVars, netVars>>

-----------------------------------------------------------------------------
(* The goroutine                                                           *)

\* newRequest reads the Client's credentials; its failure ends the goroutine
\* without closing the pipe.
GBuild ==
  /\ gpc = "new"
  /\ \/ gpc' = "doing" /\ UNCHANGED <<done, chClosed>>
     \/ BuildMayFail /\ gpc' = "unbuilt" /\ done' = "err" /\ chClosed' = TRUE
  /\ UNCHANGED <<appVars, mwVars, pipeVars, result, netVars>>

\* Mutant: done is unbuffered, so it is sent only to a Commit that waits.
MutGDoneUnbuffered ==
  /\ gpc = "doing" /\ outcome # "none"
  /\ done = "empty" /\ pc = "waitDone"
  /\ IF outcome = "ok" THEN gpc' = "result" /\ done' = "nil" /\ UNCHANGED chClosed
                       ELSE gpc' = "exit" /\ done' = "err" /\ chClosed' = TRUE
  /\ UNCHANGED <<appVars, mwVars, pipeVars, result, netVars>>

\* Mutant: the result is delivered although doJSON failed.
MutGDoneIgnoresError ==
  /\ gpc = "doing" /\ outcome # "none"
  /\ done = "empty"
  /\ gpc' = "result" /\ done' = "nil"
  /\ UNCHANGED <<appVars, mwVars, pipeVars, result, chClosed, netVars>>

\* doJSON returns: done is sent, and after an error both channels are closed.
GDone ==
  /\ gpc = "doing" /\ outcome # "none"
  /\ done = "empty"
  /\ IF outcome = "ok" THEN gpc' = "result" /\ done' = "nil" /\ UNCHANGED chClosed
                       ELSE gpc' = "exit" /\ done' = "err" /\ chClosed' = TRUE
  /\ UNCHANGED <<appVars, mwVars, pipeVars, result, netVars>>

GResult ==
  /\ gpc = "result"
  /\ result = "empty"
  /\ result' = "full" /\ chClosed' = TRUE /\ gpc' = "exit"
  /\ UNCHANGED <<appVars, mwVars, pipeVars, done, netVars>>

-----------------------------------------------------------------------------
(* Transport and server (external)                                         *)

Sending == gpc \in {"doing", "result", "exit"}   \* the request was built

TRead ==
  /\ Sending /\ ~rclosed /\ eof = "no" /\ wclosed = "open" /\ pending # NoChunk
  /\ body' = Parse(body, pending)
  /\ pending' = NoChunk
  /\ UNCHANGED <<appVars, mwVars, wclosed, rclosed, gVars, outcome, eof>>

TEOF ==
  /\ Sending /\ ~rclosed /\ eof = "no" /\ wclosed # "open"
  /\ eof' = wclosed
  /\ UNCHANGED <<appVars, mwVars, pipeVars, gVars, outcome, body>>

\* Success is answered to a complete, well-formed body only.
Accept ==
  /\ outcome = "none" /\ eof = "eof" /\ body.stage = "end"
  /\ outcome' = "ok"
  /\ UNCHANGED <<appVars, mwVars, pipeVars, gVars, eof, body>>

\* An error response, early or late, a broken connection, a cancelled context,
\* or the error the writer closed the pipe with.
Reject ==
  /\ gpc = "doing" /\ outcome = "none"
  /\ outcome' = "fail"
  /\ UNCHANGED <<appVars, mwVars, pipeVars, gVars, eof, body>>

TClose ==
  /\ outcome # "none" /\ ~rclosed
  /\ rclosed' = TRUE
  /\ UNCHANGED <<appVars, mwVars, pending, wclosed, gVars, netVars>>

-----------------------------------------------------------------------------
Init ==
  /\ pc = "idle" /\ key = None /\ imp = "none"
  /\ uploaded = [k \in Keys |-> FALSE] /\ closed = FALSE /\ writers = {}
  /\ commit = "none" /\ commits = 0 /\ cancelled = FALSE
  /\ lastpart = None /\ partOpen = FALSE /\ partErr = FALSE
  /\ pending = NoChunk /\ wclosed = "open" /\ rclosed = FALSE
  /\ gpc = "unstarted" /\ done = "empty" /\ result = "empty" /\ chClosed = FALSE
  /\ outcome = "none" /\ eof = "no"
  /\ body = [stage |-> "start", part |-> None, seen |-> {}]

\* The application's own choices.
AppStart ==
  \/ StartImport
  \/ \E k \in Keys : ImportMessage(k)
  \/ \E k \in Keys : WriteMessage(k)
  \/ Commit
  \/ CancelCommit

\* The rest of an operation the application has started.
AppStep ==
  \/ ImportEncode \/ ImportReady \/ ImportFails
  \/ PartCreated \/ PartFailed \/ MessageWritten
  \/ CommitClosed \/ CommitFails \/ CommitDone \/ CommitResult

GStep == GBuild \/ GDone \/ GResult

TransportStep == TRead \/ TEOF \/ TClose

Answer == Accept \/ Reject

Next == AppStart \/ AppStep \/ GStep \/ TransportStep \/ Answer

Spec == Init /\ [][Next]_vars

\* Goroutines run, the transport reads and closes the pipe.
RunningSpec == Spec /\ WF_vars(AppStep) /\ WF_vars(GStep) /\ WF_vars(TransportStep)

\* A request whose body has ended is answered, or its connection fails.
AnsweredSpec == RunningSpec /\ WF_vars(eof # "no" /\ Answer)

-----------------------------------------------------------------------------
(* Properties                                                              *)

\* Every variable has its type.
TypeOK ==
  /\ pc \in {"idle", "waitDone", "waitResult"} \cup Writing /\ key \in Keys \cup {None}
  /\ imp \in {"none", "importing", "ready", "failed"}
  /\ uploaded \in [Keys -> BOOLEAN] /\ closed \in BOOLEAN /\ writers \subseteq Keys
  /\ commit \in {"none", "ok", "lost", "error", "missing", "closed"}
  /\ commits \in 0..MaxCommits /\ cancelled \in BOOLEAN
  /\ lastpart \in Keys \cup {None, "Metadata"} /\ partOpen \in BOOLEAN /\ partErr \in BOOLEAN
  /\ pending \in Chunks \cup {NoChunk} /\ wclosed \in {"open", "eof", "error"}
  /\ rclosed \in BOOLEAN
  /\ gpc \in {"unstarted", "new", "doing", "result", "exit", "unbuilt"}
  /\ done \in {"empty", "nil", "err"} /\ result \in {"empty", "full"} /\ chClosed \in BOOLEAN
  /\ outcome \in {"none", "ok", "fail"} /\ eof \in {"no", "eof", "error"} /\ body \in Bodies

\* What the transport streams is a well-formed body at all times, and a clean
\* end of it comes only after the closing boundary: the order of mw.Close and
\* pw.Close, and the closing of a part by the next one, guarantee it.
BodyWellFormed == body.stage # "bad" /\ (eof = "eof" => body.stage = "end")

\* A Commit that returns nil has the server's result, and every key of the
\* metadata was streamed in a part of its own.
CommitOkMeansComplete ==
  /\ commit # "lost"
  /\ commit = "ok" => body.stage = "end" /\ body.seen = Keys

\* Import returns only after its goroutine has built the request: the
\* credentials it reads cannot race with the caller's next use of the Client.
BuiltBeforeImportReturns == imp \in {"ready", "failed"} => gpc \notin {"unstarted", "new"}

\* A Commit that reports a missing message has not sent the server a complete
\* import.
MissingMeansNotSent == commit = "missing" => ~(eof = "eof" /\ body.stage = "end")

\* Importer implements a streamed upload: the server stores only a body that
\* Commit has ended, never one that Import broke off, and Commit reports success
\* only of an import that is stored.
Told == IF commit \in {"none", "ok"} THEN commit ELSE "error"
Abstract == INSTANCE Upload WITH producer <- wclosed, stored <- (outcome = "ok"), told <- Told
ImplementsUpload == Abstract!Spec

\* Every operation returns, whatever the server answers and when, unless the
\* request could not be built: then nobody reads or closes the pipe.
OperationsReturn == pc # "idle" ~> (pc = "idle" \/ gpc = "unbuilt")

\* A Commit whose context is cancelled returns, even if the server is silent.
CancelledCommitReturns ==
  (cancelled /\ pc \in {"closing", "waitDone", "waitResult"}) ~> pc = "idle"

\* Once Import or Commit has failed, or Commit has returned, the goroutine
\* ends: it is never left waiting for a reader of done or result.
GoroutineEnds == (imp = "failed" \/ (closed /\ pc = "idle")) ~> gpc \in {"exit", "unbuilt"}
=============================================================================
