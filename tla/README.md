# A TLA+ model of protonmail-go

protonmail-go is a Go client of the Proton Mail HTTP API. This directory holds
TLA+ modules translated from its source, configurations with which TLC checks
them on small instances, and TLAPS proofs of the most important properties for
every value of the constants. `PROJECT.json` lists components, runs, mutants,
findings, hazards and theorems, and maps every definition to the lines it models.

## 1. The system

| Component | State it keeps | Operations | Interacts with |
|---|---|---|---|
| Request path (`protonmail.go`) | the `Client`'s `uid`, `accessToken`, `keyRing` | `newRequest`, `newJSONRequest`, `setRequestAuthorization`, `do`, `doJSON` | every networked operation; calls the ReAuth callback, which calls the Client again |
| Authentication (`auth.go`) | the same fields | `AuthInfo`, `Auth`, `AuthTOTP`, `AuthRefresh`, `ListKeySalts`, `Unlock`, `Logout` | SRP, key unlocking, the request path |
| Errors (`errors.go`) | none | `resp.Err`, `APIError.Is`, `Unwrap`, `HTTPError.Is` | `doJSON`, `GetAttachment`, the caller's `errors.Is` |
| API operations (`messages.go`, `contacts.go`, ...) | none | about 25 operations, one request each | the request path |
| Attachments (`attachments.go`) | a pipe, a channel, one goroutine per upload | `GetAttachment`, `CreateAttachment` | the request path, multipart |
| Bulk import (`import.go`) | `Importer`: pipe, multipart writer, `uploaded`, `closed`, two channels, one goroutine | `Import`, `ImportMessage`, writes to parts, `Commit` | the request path, multipart, `io.Pipe` |
| Key unlocking (`auth.go`, `password.go`) | the key ring being built | `unlockKeyRing`, `unlockPrivateKey`, `decryptPrivateKeyToken`, `unlockEntity` | `Unlock` |
| Outgoing packages (`messages.go`) | `MessagePackageSet`: addresses, type, session keys | `Encrypt`, `AddCleartext`, `AddInternal` | `SendMessage` |
| Events (`events.go`) | the caller's cached `Message` | `DiffLabelIDs`, `Patch` | `GetEvent` |
| Contact cards (`contacts.go`) | the reader of a card's body and its `MessageDetails` | `NewEncryptedContactCard`, `NewSignedContactCard`, `Read` | the key ring, the consumer of the body |
| SRP (`srp.go`, `password.go`) | the proofs of one handshake | `srp`, `generateProofs`, `VerifyServerProof`, `hashPassword` | `Auth`, the server's half of the handshake |
| OpenPGP helpers (`crypto.go`) | none | `encryptionKey`, `signingKey`, `symetricallyEncrypt` | packages, attachments |

What is hard here:

- **Re-entrancy.** `do` answers a 401 by dropping the access token and calling
  a callback that uses the same `Client`; that callback's own requests may be
  answered 401 and call it again; when it returns, `do` calls itself.
- **Partial failure.** `Auth`, `Unlock`, `AuthRefresh` and `Logout` are several
  steps, each of which may fail, with the client's fields written in between. The
  answer to a refresh may be lost after the server has rotated its tokens.
- **Retries.** A request is sent again: its body must be whole, its
  headers current, and the server must not act on it twice.
- **Concurrency.** `Import` and `CreateAttachment` start a goroutine that meets
  its caller in an unbuffered pipe and in channels, while the HTTP transport may
  stop reading at any chunk because the server answered early.
- **Order of calls.** A `MessagePackageSet` may be encrypted, closed and given
  recipients in any order; a card's signature is checked when its consumer
  happens to reach the end.
- **Crash and replay.** A client of the event stream that dies between applying
  a page and saving its cursor applies the page again.

What makes each part correct: UID and token always belong together and to a
verified session; a token is given up only when it is dead; every response body
is closed; requests are replayed whole and acted on once; a session that was
logged out is gone on both sides; every call returns; a streamed body is
well-formed, stored and reported as successful only if it is complete; the right
password is never refused by the proofs; the key ring holds every key that can be
opened and no other; every recipient can open what is sent to him; a signature's
verdict is about the text delivered; a cache follows the event stream.

## 2. Modules

### Errors

A response is its status, whether its body is JSON, what its `Error` key holds
and its `Code`. `DoJSONErr` and `RawErr` turn it into an error value as
`doJSON` and `GetAttachment` do, `ErrorsIs` walks the chain of
`APIError.Unwrap`. An `Error` key with an empty text counts as an error on a 2xx
response (the embedded pointer is set) and not on a failure (line 290 asks
for a non-empty message); the model keeps that distinction.

### Session

One `Client`, used by one goroutine (it has no lock), a server and a transport.

- The client is `uid`, `accessToken`, `keyRing` (set or not).
- A call in progress is a frame: the operation, its headers, what is left of its
  body, the response, the position in the callback. `frame[1..depth]` is the call
  stack: `frame[i]` with `pc = "reauth"` waits for the callback, whose current
  call is `frame[i+1]`. The application's latest call is summarised in `last`.
  `do` retries by calling itself (`protonmail.go:237`); the frame stands for all calls
  of `do` of one request, so `depth` counts nested callbacks and not retries.
- Operations are grouped by the way they build a request (no body, JSON
  body with `GetBody`, pipe) and by what they do with a success. `Auth` and
  `Unlock` make two requests (`step`).
- The callback performs the operations of the constant `Script` in order and stops
  at the first error. `Unlock` is how a callback stores refreshed tokens in
  the Client: `AuthRefresh` does not store them.
- The server (external) hands out tokens `[sid, gen]`: a login opens a session
  with generation 1, a refresh needs the newest generation and issues the next.
  A token is live while it is the newest of its session, not expired and not
  revoked. The server acts on a request or not, whatever it answers, except
  that success without an `Error` key means that it acted, and 401 that it
  rejected. An answer may be lost.
- The code takes any `Auth` as the argument of `AuthRefresh` and `Unlock`. The model's
  application is assumed to pass the newest one it was given (`saved`);
  `CredentialsPaired`, `SavedIsNewest` and `ImplementsAccount` rest on that.
- `saved` is the newest `Auth` the application was given, `proven` the sessions
  whose server proof was verified, `open` and `handed` count response bodies.

| Code | Actions |
|---|---|
| an operation builds its request (`newRequest`, first lines of `Unlock`) | `AppCall`, `CallbackCall` (through `Begin`) |
| `httpClient.Do` | `Respond`, `TransportFail` |
| 401 branch of `do` | `StartReauth`, then `Retry` or `CallbackFailed` |
| error paths of `doJSON` and `GetAttachment` | `Fail` |
| success of the one-request operations | `FinishPlain`, `FinishDownload` |
| `Auth` | `FinishAuthInfo`, `FinishAuth` |
| `AuthRefresh`, `Logout` | `FinishRefresh`, `FinishLogout` |
| `Unlock` | `FinishUnlockUser`, `FinishUnlockAddresses` |
| outside the package | `Expire`, `CloseAttachment` |

### Importer

The application (one goroutine), the goroutine that `Import` starts, the
transport and the server, which meet in an `io.Pipe` and the channels `done` and
`result`. A pipe write is two steps: the chunk is offered (`pending`), then
either read by the transport or refused because an end of the pipe is closed.
The state of `multipart.Writer` that matters is its last part: which, whether
it is still open, whether a write to it failed. The server parses chunks; `body`
is its parser. The request may be refused at any moment (`Reject`), accepted
only when its body has ended well (`Accept`); the transport closes the pipe some
time after the outcome. `newRequest` may fail when `BuildMayFail`.

An unknown or repeated key makes `ImportMessage` fail without any effect, so the
model has no step for it. The per-message results inside `ImportResult` are data
that no step depends on.

### AttachmentUpload

The same kind of system for `CreateAttachment`: the caller (`CBuild`, `CReturn`),
the goroutine that writes the parts (`GStart` ... `GClose`), the two readers it
copies from (the base64 decoder of the key packets and the caller's `r`, which end or
fail: `GFileEnd`, `GReadError`), the pipe, the transport and the server. `got`
counts the chunks that arrived against `copied`, those read; `late` counts reads of
`r` after the pipe was closed.

### Upload

The abstract specification of a streamed upload: the producer ends the body or
breaks it off, the server stores only a body that was ended, the caller is told of
success only if it was stored. `Importer` and `AttachmentUpload` instantiate it
(`Abstract`) and implement it (`ImplementsUpload`): `producer` is the writing end
of the pipe, `stored` the server's acceptance, `told` what `Commit` or
`CreateAttachment` returned.

### Account

The abstract life of a Client's credentials: out, in a session with a token, in a
session whose token was given up. `newest` has a generation for each session below which
no token of it is taken up any more; it only grows, and `Adopt` sets it to the generation
taken up. So the tokens that a Client holds in a session never get older, also when it
held none in between (`Suspend`, the re-auth path), was in another session or out. Keys
are unlocked only in a session and stay until it is left. `Session`
implements it (`ImplementsAccount`) with `token` as `accessToken`, `unlocked` as
`keyRing` and `newest` as `NewestKnown`: the generation of `saved` in its session, the
last one issued (`cur`) in the others.

### BigInt, SRP

`BigInt` has the numbers of `srp.go`: `Itoa` and `Atoi`, which write and read a number
of a given length least significant digit first (the model's digits are bits), and the
modular power of `math/big`. `SRP` is `generateProofs` for a length of `Bits` bits: the
refusal of a modulus of another length, bounds, byte order, redrawn secrets, the two
reductions. The server may send a modulus of up to `Bits + 1` bits; it is prime
(`PrimeAssumption`), which the code takes from Proton's signature (`srp.go` leaves the
test as a TODO). `expandHash` is an arbitrary function: its
values that become numbers are chosen freely; a proof is what it is the hash of. The
server's half is written from the protocol. `Auth`'s requests are Session's.

### KeySelect, KeyUnlock

`KeySelect` holds entities as sequences of keys with their flags, `EncryptionKey`,
`SigningKey` and `SignerError`. `KeyUnlock` runs `unlockKeyRing` one key per step,
over the user's keys and then address by address, with the answers of
`GetCurrentUser` and `ListAddresses` as inputs. It refines what Session's
`FinishUnlockUser` and `FinishUnlockAddresses` leave open (keys unlock or not).
An entity has one identity, so `primaryIdentity` has no choice to make.

### PackageSet

A `MessagePackageSet` and one attachment. A session key, and what is encrypted with
it, is the number of the call that made it; a package holds the key it was given
and the recipient's key that it is encrypted to. `Encrypt` fails at each of the places
where the code can, with what it has changed by then.

### ContactCards

A card's type, text, recipient and detached signature, and the reader that `Read`
returns: chunk by chunk, the end together with the last chunk or after it, again
after the end, or an error while decrypting. A card may come from the server with any
type and signature. A signature inside the encrypted data itself, which the package
never makes, is left out.

### Outgoing

The composition: log in (SRP), unlock (KeyUnlock), then compose a message
(PackageSet) with signers from the ring, or handle a contact card with it.

### EventSync

A server that logs every change as an `EventMessage` - updates carry the full label
list, alone or with one half of the difference, the difference, or both -, `GetEvent`, `UnmarshalJSON`, `Patch` and
`DiffLabelIDs`, and around them the application that the comment of `Event`
describes: seed the cursor, list, apply a page in order, save its ID. It may
crash at any point of a page. `ahead` is the newest state the cache has seen, so
that `pos < ahead` says that a change is being applied again. `Time` is sent with
every update, as `Patch` copies it always. The server is assumed never to send
`LabelIDsAdded` or `LabelIDsRemoved` alone: `Patch` and `DiffLabelIDs` ignore such an update
(`events.go:149`, `104`), and the cache would miss it. A payload that is missing or cannot
be decoded makes `UnmarshalJSON`, and with it the whole `GetEvent`, return an error; like a
lost answer this changes nothing, so it has no step.

### MC modules

The sets of responses, operations, callback scripts, keys, recipients and texts that
the configurations use. There is one response of each kind the code tells
apart (a 2xx whose body is not JSON included), one operation of each way of building, sending and finishing a request, one key
of each kind that the unlocking tells apart.

## 3. Runs

| Run | Instance | Shows |
|---|---|---|
| `session_refresh` | 2 sessions, 3 generations, callback `AuthRefresh; Unlock`, all operations and responses | credentials, headers, request and response bodies, at-most-once, nesting, logout, tokens; `Account` is implemented |
| `session_login` | 3 sessions, callback `Auth; Unlock` | no live token dropped when the callback logs in again |
| `session_returns` | 2 sessions, 2 generations, callback `AuthRefresh; Unlock`, fairness | every call returns |
| `importer` | 3 messages, 2 commits, fairness | body well-formed, commit complete, construction before return, operations return, goroutine ends; `Upload` is implemented |
| `upload` | readers of up to 3 chunks, fairness | only whole attachments are accepted, late reads, caller and goroutine end; `Upload` is implemented |
| `outgoing` | 4-bit moduli, lists of 2 keys or 2 addresses, 2 unlocks, 2 recipients, 2 body keys, 2 attachment keys, texts of up to 2 chunks | both sides of SRP agree, the ring is exact, packages open body and attachment, the best key is chosen, verdicts on cards |
| `events` | 1 message, 2 labels, 3 changes, 2 crashes, fairness | nothing is missed, `DiffLabelIDs` and `Patch` agree, the cache catches up |

Bounds. `MaxDepth` is never the reason a step is disabled: it is 5 in
`session_refresh`, where the deepest stack reached has 3 frames (a call, its
callback's `Unlock`, and a call of that one's callback), because
the nesting of callbacks is limited by the generations that can expire (`RejectedOnce`).
The retries of one request, which are nested calls of `do` in the code, are not counted by
`depth`: that they end is `EveryCallReturns`, and `v_wrong_password` and `v_refresh_only`
are the cases in which they do not. Three
generations let a token expire before a call and again inside its callback.
`MaxGen` also ends the expiries: the last generation does not expire, which is
the assumption "the server does not expire tokens for ever" in `session_returns`.
Two sessions are a login and a second login while tokens of the first are still
around; three let a login happen in a callback of a login. `MaxHanded` bounds
the attachments that the application keeps open. In `Importer` three
messages give a part before, a part in progress and a part never created;
`MaxCommits = 2` has the refused second call. In `upload` three chunks are a first, a
middle and a last one. In `outgoing` two keys or addresses show that a failing one
costs none of the others and that a token may name an earlier user key; a second
`Unlock` meets the ring of the first; two calls of `Encrypt` and `GenerateKey` replace
a key; moduli of 4 bits (11 and 13; 7 is too short, 17 too long) leave one to three
client secrets that are large enough, all multipliers and all scrambling
parameters. `GenerateKey` is called before the set is made, since its key is handed
over to `NewMessagePackageSet`. In `events` three changes are enough for a page that is
split by a crash, on a list that is already newer; messages do not influence
each other, so there is one. Deadlock is not checked in `importer`, `upload`,
`outgoing` and `events`, where everything stops when the work is done.

Symmetry permutes the sessions, and the addresses of recipients, in the runs that
check no liveness.

Qualified properties. `BodyReadable` is about one call of `Encrypt`: packages added
before a second one hold the former key. `DiffAgrees` is about changes applied for the
first time: on a cache that is ahead, an update with both shapes makes
`DiffLabelIDs` and `Patch` differ. `UnauthorizedReported` is about calls without a
callback. `GoroutineEnds` and `OperationsReturn` except a request that could not be
built, after which the goroutine of `CreateAttachment`, or `Import`, waits for ever.

`session_login` leaves `AuthRefresh` out of the application's operations: an
application whose callback logs in has no use for refresh tokens, and one that
calls `AuthRefresh` with a token in the Client anyway can have a rejected refresh
answered by a re-login that drops the live token. `LogoutEndsSession` is stated for
the refresh callback only: with a re-login callback, `Logout` ends the session
opened by the callback.

`LoginMay401` lets the server refuse a user name or a password with HTTP 401, as
the repository's tests do. It is TRUE in the safety runs, where it is the one case
in which a live token may be dropped (`NoLiveTokenDropped`), and FALSE in
`session_returns`, because such a refusal makes the call loop (`v_wrong_password`).

Fairness. `FairSpec` assumes weak fairness of the steps that the client, the
transport and the server owe a call in progress: Go schedules the goroutine, and
each request is answered or fails. The package sets no timeout on its
`http.Client`, so the last point is an assumption about the transport or the
caller's context, not something the code ensures. AttachmentUpload assumes the same:
goroutines and readers run, the transport reads and closes the pipe, a body that has
ended is answered. EventSync assumes that the application goes on polling. `RunningSpec` of Importer
assumes only that goroutines run and that the transport reads and
closes the pipe; `AnsweredSpec` adds that a request whose body has ended is answered
or fails.

### Disagreements between documentation and code

Each of these runs checks one documented statement and ends in a counterexample;
`findings` quotes the lines.

| Run | Statement | What the code does |
|---|---|---|
| `v_wrong_password` | invalid credentials are reported as `ErrUnauthorized`; a 401 triggers a single re-auth and retry | on a Client that holds a token, a password refused with 401 is taken for an expired token, and `do` re-authenticates and retries for ever |
| `v_logout_failure` | a failed `Logout` preserves the auth state | the token is gone if the re-authentication failed |
| `v_refresh_only` | `AuthRefresh` is the conventional callback | on its own it stores nothing, and `do` loops with the rejected token |
| `v_commit_missing` | a missing message is reported without contacting the server | the complete body has been sent by then |
| `v_commit_ctx` | cancellation propagates to the request | `Commit` ignores its context |

Smaller ones have no run of their own. Two have the cause of `v_logout_failure` (the
token is dropped before the callback, `protonmail.go:225`): a 401 whose refresh fails is
reported as the callback's error, while `errors.go:15` says that `ErrUnauthorized` covers
"could not be refreshed"; and after one failed callback no later 401 invokes it
(`options.go:96`). `doc.go` says that an error envelope becomes an `*APIError`, while
`GetAttachment` always returns an `*HTTPError`. `MessagePackageSet.Type` "is the OR of
each recipient package's Type" (`messages.go:499`), which is a superset only once an
address was added again with another type. `PrivateKey.Active` "is non-zero if the
key is currently active" (`keys.go:37`), while `unlockKeyRing` asks for 1.

## 4. Proofs

`SessionProofs`, `ReauthProofs` (which extends it), `ImporterProofs`, `UploadProofs`,
`PackageProofs`, `OutgoingProofs` and `EventProofs` hold the theorems,
`NumberLemmas` the facts about numbers they share; every leaf is checked by tlapm with Z3,
Zenon and, for the temporal steps, LS4.

**Session**, for every set of sessions and responses, every script, every set of
operations and every bound (assumptions `SessionsAssumption`,
`BoundsAssumption`, `RepliesAssumption`, `ScriptAssumption`, `FlagsAssumption`):
`TypeOK`, `CredentialsPaired`, `HeaderIsCurrent`, `BodyIntact`, `BodiesClosed`,
`AppliedAtMostOnce`, `VerifiedSessionsOnly` and `SavedIsNewest` are invariants of
`Spec`. None is inductive alone. The invariant `Inv` adds the shape of the stack
(frames above `depth` are idle, those below the top wait for their callback and
have no response open), that a frame's body and its count of actions agree with
its place in the cycle send - got - reauth (a request that reached the callback
was rejected, hence never acted on), and where tokens come from: a token in a
frame, in `auth`, in `arg` or in the Client is one that the server issued for a
session, and the generation of `saved` bounds those of the Client. One lemma per
action shows that `Inv` is preserved.

**Re-authentication** (`ReauthProofs`), from the same assumptions and `Inv`, with a
small invariant for each promise. What a callback may do is up to the application, and
some promises fail for callbacks that misbehave; the theorem then names the condition.
Every script of a run that checks a property satisfies the condition of its theorem.

| Theorem | Property | Condition on the callback | Invariant |
|---|---|---|---|
| `RejectionReported` | `UnauthorizedReported` | none | `CallInv`: what the record of the application's call says of the bottom frame |
| `AccountRefinement` | `ImplementsAccount` | does not log out | `OpsInv`, `UnlockInv`: which operations are on the stack; an `Unlock` on it means that there is a UID. `NewestGrows`: `NewestKnown` never falls, since the server issues newer tokens only and an `Auth` that is handed over is the last one issued |
| `LogoutEnds` | `LogoutEndsSession` | neither logs in nor out | `AnswerInv`, `LogoutInv`: everything above a `Logout` renews the session that the application was in |
| `LiveTokenKept` | `NoLiveTokenDropped` | no login, if refreshes are used at all | `AnswerInv`, `RefreshInv`: a refresh that waits for its callback was rejected, so no refresh nested in it succeeds |
| `NoTokenRejectedTwice` | `RejectedOnce` | renews the credentials first, then only uses them | `ChainInv`: every token issued is newer than those that the frames below wait with |

`AnswerInv` is what lets a response that lies between the server and the client be
believed: a request that was rejected would still be rejected, because nothing else
runs meanwhile. The conditions say what goes wrong otherwise: a callback that logs out
takes the UID from an `Unlock` in progress; one that logs in has `Logout` end
the session that it opened, or lets a rejected refresh drop the new token; one that
begins with `Unlock` puts the rejected token back and has it rejected again.

**Importer**, for every set of keys (`KeysAssumption`, `CommitsAssumption`):
`TypeOK`, `BodyWellFormed`, `CommitOkMeansComplete` and
`BuiltBeforeImportReturns`. The invariant `IInv` ties the four activities together:
`ImportStage` and `CommitStage` say what the server has seen at each place the
application can be, `PartStage` that the open part is the part the server is in,
`MarkedStage` that a key marked in `uploaded` was seen by the server unless the
pipe broke - which is why marking the key before `CreatePart` is harmless to
`Commit` -, `ChannelStage` what `done` and `result` hold until `Commit` takes it,
`TransportStage` that nothing is read, answered or closed before the request
exists. `ToldInv` adds what `Commit` was told against what the server did, from
which `Refinement` (`ImplementsUpload`) follows: one step of `Importer` is a step of
`Upload` or a stutter.

**AttachmentUpload**, for readers of any length (`UploadAssumption`): `TypeOK`,
`AcceptedIsWhole`, `ReadsStopAfterClose` and the refinement of `Upload`. The
inductive invariant ties the chunk in the pipe to the goroutine's place, `got`
to `copied` (equal but for the chunk on offer, unless the body was broken off),
the files that have ended to the part being written, and the end of the body to
the boundary: an `eof` of the pipe is written only after it, with both readers
at their end. TLC has checked these invariants on the instances of the runs.

**Outgoing packages**, for every set of addresses, recipients and keys and every
number of calls: `TypeAndKeys`, `BodyReadable` and `AttachmentReadable` are
invariants of `Outgoing`. The invariant `PInv` adds to `TypeAndKeys` that the
attachment's key is fixed once the set exists, so that all packages hold the same
one; that nothing has a key, a writer or a package before there is a body key; and
that after one call of `Encrypt` every key of a writer, of the body and of a
package is that call's and every signature flag the set's. The steps of login,
`Unlock` and contact cards leave these variables alone. `EncryptedToBestKey` needs
what `encryptionKey` computes: `BestKeyFound` shows, by induction over the subkeys, that
the loop's candidate is the best of those passed (an older one, or one that cannot
encrypt, never replaces a newer one), for entities with any number of subkeys. The same
fact gives the types of the packages (`PackageTypesCorrect`): the key that a packet
names is one of the recipient's.

**Key unlocking** (`OutgoingProofs`), for every account: `RingIsExact` and the types of
`Unlock`'s variables. `OpensIff` and `OpensTo` say of one key that the sequence of
decisions in `unlockPrivateKey` comes to what the account determines, with the ring of
user keys that the tokens may name. `RingInv` says of the two loops that the rings hold
exactly the openable keys at the positions passed; the user's ring is complete before
the first address is looked at, so no address key is lost to the order of the loops.

**Contact cards** (`OutgoingProofs`), for every text, ring and order of reads:
`CardVerdictRight` and the types. `CardInv` says by the place of the reader what it
knows: the copy that is checked is the prefix of the text returned so far, the signature
is read once and only at the end, the ring does not change while a card is read.

**Login** (`OutgoingProofs`), for every length of modulus, every modulus, every value of
the secrets, of the hashes and of the passwords: `SessionsAgree`. The assumptions are
`SRPAssumption` (the sizes of the numbers) and `PrimeAssumption`; without a prime modulus
the claim is false, since the client reduces its exponent modulo m - 1. The invariant
`LoginInv` says what each half of the handshake has left behind: the modulus that arrived
is the one sent, the ephemeral of an honest server is computed from the verifier
(`InfoInv`), and the client's ephemeral fits the length it travels with (`ProofsInv`).
The step of `generateProofs` is `DerivesSession`. Taking the verifier's multiple from the
server's ephemeral, and adding the modulus to a negative difference, leaves 2 to the
server's secret (`Recovers`, two cases of a remainder). Raised to the reduced exponent
this equals the server's product of powers (`SamePower`, from the laws of `Exp` and
Fermat's theorem).

**Types of Outgoing**: `TypesCorrect` puts the login, the key ring, the packages and the
cards together.

**Event synchronisation** (`EventProofs`), for every mailbox, stream, page size and
number of crashes (`NilAssumption`: the value that stands for Go's nil is no number,
message, update or set of labels): `TypeOK`, `NothingMissed` and `DiffAgrees`. A cache
that is patched again with old changes is no earlier state of the mailbox, so "the cache
is the mailbox at the cursor" is not inductive. The invariant goes cell by cell, a
cell being a pointer-typed field or one label of a message: a cell in which the
cache differs from the newest mailbox it has seen is still written between the client's
position and that mailbox (`Settled`). `Apply` keeps this since an entry writes
what its cell finally has, unless a later one writes it again (`EntryRight`); a crash
keeps it since going back to an earlier position only adds writes. The mailboxes that
the stream went through are not variables: the invariant says that a history of them
exists (`HistoryInv`). `NothingMissed` then follows by induction over the entries that
`Replay` folds.

**Numbers** (`NumberLemmas`). The library's induction theorems take an operator, which
the provers cannot instantiate; `LeastNumber`, `UpTo` and `AllNumbers` state induction for
a set of numbers instead, from the well-founded minimum of the library. The recursive
functions (`Replay`, the loop over the subkeys, the sum of `Atoi`, the power of `Exp`)
are used through their defining equation: a function that satisfies it is shown to exist
and to be the only one. The provers know nothing of 2^n either; `PowerOfTwo` gets
2^(n+1) = 2 * 2^n from the library's theorem on the number of subsets. Remainders are
handled by the equation of the division (`DivMod`, `ModUnique`). On these rest Euclid's
lemma, the laws of `Exp` (sums and products of exponents, reduced bases), Fermat's little
theorem for the base 2 (modulo p = 2h + 1 the doubles of 1..2h are the even and the odd
numbers up to 2h, that is, the same numbers again), and `AtoiOfItoa`: what `itoa` writes, `atoi` reads
back, for every number that fits.

Only model-checked: liveness (`EveryCallReturns`, `OperationsReturn`, `GoroutineEnds`,
`CallerReturns`, `CatchesUp`), which is out of the prover's reach together with
`ENABLED`. Every invariant and every action property that a run checks is also a theorem.

## 5. Plan

Done: Session, Errors, Importer, AttachmentUpload, KeyUnlock, PackageSet, ContactCards,
SRP, EventSync, their composition, the abstract specifications Account and Upload, and
the proofs of section 4. If the code changes, the order is: the module, its run, its
mutants, then the lemma of the action that changed. The next extensions would be:

1. several identities per entity (`primaryIdentity` ranges over a map), and with them
   the flags that decide on the primary key;
2. batch operations with a result per message, which the code discards today.

## 6. Not modelled

bcrypt, SHA-512 and OpenPGP packets (out of TLC's reach; the models keep their
outcomes), `Message.Encrypt`, `Message.Read` and `Attachment.Read` (one call of the
OpenPGP library each), JSON and URL construction, the validation of options, logging
and redaction, contents of requests and responses that no step depends on, several
goroutines using one `Client` (the package offers no lock and no such promise).
