----------------------------- MODULE EventSync ------------------------------
(***************************************************************************)
(* The event stream of events.go and a client that keeps a cache of the    *)
(* mailbox with it.  The server logs every change as an EventMessage;      *)
(* GetEvent returns the changes after a cursor, Patch applies an update to *)
(* a cached message.  The application (external) does what the comment of  *)
(* Event asks: it applies a page in order and then saves its ID; it may    *)
(* crash in between and apply some of the page again.                      *)
(*                                                                         *)
(* The pointer-typed fields of a message (Unread, Type, IsReplied, ...) are *)
(* the elements of Fields; label lists are sets, or Nil.                   *)
(***************************************************************************)
EXTENDS Naturals, Sequences

CONSTANTS
  Ids, Labels, Fields,   \* message IDs, label IDs, pointer-typed fields
  Nil,                   \* nil slices, absent messages
  MaxChanges, MaxCrashes \* bounds: changes on the server, crashes of the client

LabelSets == SUBSET Labels

ASSUME EventAssumption == MaxChanges \in Nat /\ MaxCrashes \in Nat

VARIABLES
  box, log,              \* the server: mailbox, change stream
  cache, cursor,         \* the client, on disk: cached messages, saved event ID
  pc, pos, end,          \* the client, in memory: position in the page, its ID
  crashes,
  ahead                  \* the newest state of the mailbox the cache has seen

vars == <<box, log, cache, cursor, pc, pos, end, crashes, ahead>>

-----------------------------------------------------------------------------
(* Messages and updates                                                    *)

Message == [time: Nat, value: [Fields -> 0..1], labels: LabelSets]

\* EventMessageUpdate: set has the fields whose pointer is not nil.
Update == [time: Nat, set: UNION {[F -> 0..1] : F \in SUBSET Fields},
           labelIDs: {Nil} \cup LabelSets, added: {Nil} \cup LabelSets,
           removed: {Nil} \cup LabelSets]

\* A nil pointer or slice is no value.
ASSUME NilAssumption ==
  Nil \notin Nat /\ Nil \notin Message /\ Nil \notin Update /\ \A ls \in LabelSets : ls # Nil

EventMessage ==
  [id: Ids, action: {"EventDelete"}, created: {Nil}, updated: {Nil}]
    \cup [id: Ids, action: {"EventCreate"}, created: Message, updated: {Nil}]
    \cup [id: Ids, action: {"EventUpdate", "EventUpdateFlags"}, created: {Nil}, updated: Update]

\* Mutant: the lists of a full update are swapped.
MutDiffSwapped(u, current) ==
  IF u.added # Nil /\ u.removed # Nil THEN [added |-> u.added, removed |-> u.removed]
  ELSE IF u.labelIDs = Nil THEN [added |-> {}, removed |-> {}]
       ELSE [added |-> current \ u.labelIDs, removed |-> u.labelIDs \ current]

\* DiffLabelIDs: an explicit pair first, else the difference to the full list.
DiffLabelIDs(u, current) ==
  IF u.added # Nil /\ u.removed # Nil THEN [added |-> u.added, removed |-> u.removed]
  ELSE IF u.labelIDs = Nil THEN [added |-> {}, removed |-> {}]
       ELSE [added |-> u.labelIDs \ current, removed |-> current \ u.labelIDs]

\* The labels after Patch: the full list first, else the explicit pair.
PatchedLabels(u, current) ==
  IF u.labelIDs # Nil THEN u.labelIDs
  ELSE IF u.added # Nil /\ u.removed # Nil THEN (current \cup u.added) \ u.removed
       ELSE current

\* Mutant: a field is copied if its new value is not zero.
MutPatchNonZero(u, msg) ==
  [time   |-> u.time,
   value  |-> [f \in Fields |-> IF f \in DOMAIN u.set /\ u.set[f] # 0 THEN u.set[f]
                                ELSE msg.value[f]],
   labels |-> PatchedLabels(u, msg.labels)]

\* Patch: Time always, the pointer fields if set, the labels.
Patch(u, msg) ==
  [time   |-> u.time,
   value  |-> [f \in Fields |-> IF f \in DOMAIN u.set THEN u.set[f] ELSE msg.value[f]],
   labels |-> PatchedLabels(u, msg.labels)]

\* Mutant: the payload of a flags update is not decoded.
MutUnmarshalNoFlags(m, action, p) ==
  [id |-> m, action |-> action,
   created |-> IF action = "EventCreate" THEN p ELSE Nil,
   updated |-> IF action = "EventUpdate" THEN p ELSE Nil]

\* UnmarshalJSON: the payload p becomes Created or Updated, by the action.  A
\* payload that is missing or cannot be decoded is an error of the whole GetEvent.
UnmarshalJSON(m, action, p) ==
  [id |-> m, action |-> action,
   created |-> IF action = "EventCreate" THEN p ELSE Nil,
   updated |-> IF action \in {"EventUpdate", "EventUpdateFlags"} THEN p ELSE Nil]

\* What the application does with an entry (external): an update of a message
\* that it does not have is ignored.
Apply(c, e) ==
  [c EXCEPT ![e.id] = IF e.action = "EventDelete" THEN Nil
                      ELSE IF e.action = "EventCreate" THEN e.created
                      ELSE IF @ = Nil THEN Nil ELSE Patch(e.updated, @)]

-----------------------------------------------------------------------------
(* The server (external)                                                   *)

Change(m, msg, action, payload) ==
  /\ Len(log) < MaxChanges
  /\ box' = [box EXCEPT ![m] = msg]
  /\ log' = Append(log, UnmarshalJSON(m, action, payload))
  /\ UNCHANGED <<cache, cursor, pc, pos, end, crashes, ahead>>

NewMessage(n) == [time |-> n, value |-> [f \in Fields |-> 1], labels |-> {}]

SCreate(m) ==
  /\ box[m] = Nil
  /\ \A i \in 1..Len(log) : log[i].id # m     \* IDs are not used again
  /\ Change(m, NewMessage(Len(log) + 1), "EventCreate", NewMessage(Len(log) + 1))

SDelete(m) ==
  /\ box[m] # Nil
  /\ Change(m, Nil, "EventDelete", Nil)

NoUpdate(m) ==
  [time |-> box[m].time, set |-> [f \in {} |-> 0], labelIDs |-> Nil, added |-> Nil,
   removed |-> Nil]

\* The labels become ls; the update carries the full list, alone or with one half
\* of the difference, the difference, or both.  One half alone, which Patch and
\* DiffLabelIDs would ignore, is assumed not to be sent.
SLabels(m, ls) ==
  /\ box[m] # Nil /\ ls # box[m].labels
  /\ LET old  == box[m].labels
         full == [NoUpdate(m) EXCEPT !.labelIDs = ls]
         half == [full EXCEPT !.added = ls \ old]
         diff == [NoUpdate(m) EXCEPT !.added = ls \ old, !.removed = old \ ls]
         both == [diff EXCEPT !.labelIDs = ls]
         new  == [box[m] EXCEPT !.labels = ls]
     IN \/ Change(m, new, "EventUpdate", full)
        \/ Change(m, new, "EventUpdate", half)
        \/ Change(m, new, "EventUpdateFlags", diff)
        \/ Change(m, new, "EventUpdateFlags", both)

SField(m, f) ==
  /\ box[m] # Nil
  /\ LET v == 1 - box[m].value[f]
     IN Change(m, [box[m] EXCEPT !.value[f] = v], "EventUpdate",
               [NoUpdate(m) EXCEPT !.set = [x \in {f} |-> v]])

-----------------------------------------------------------------------------
(* The client: GetEvent, and the application around it (external)          *)

\* GetEvent("") gives the newest event ID without changes; the mailbox is
\* listed only afterwards.
Seed ==
  /\ pc = "new"
  /\ end' = Len(log) /\ pc' = "list"
  /\ UNCHANGED <<box, log, cache, cursor, pos, crashes, ahead>>

\* List everything, at the start or because an event said Refresh.
List ==
  /\ pc \in {"list", "refetch"}
  /\ cache' = box /\ ahead' = Len(log)
  /\ pos' = end /\ pc' = "apply"
  /\ UNCHANGED <<box, log, cursor, end, crashes>>

\* Mutant: the cursor is left out and GetEvent always asks for the latest event.
MutGetEventLatest ==
  /\ pc = "idle"
  /\ cursor < Len(log) /\ end' = Len(log) /\ pc' = "apply"
  /\ pos' = end'
  /\ UNCHANGED <<box, log, cache, cursor, crashes, ahead>>

\* GetEvent(cursor): some of the changes after the cursor, in order, or only
\* the request to list everything again.  A GetEvent that fails, because its
\* answer is lost or an entry of it cannot be decoded, changes nothing: the
\* application has no page and asks again with the same cursor.
GetEvent ==
  /\ pc = "idle"
  /\ \/ \E e \in cursor..Len(log) : e > cursor /\ end' = e /\ pc' = "apply"
     \/ cursor < Len(log) /\ end' = Len(log) /\ pc' = "refetch"
  /\ pos' = cursor
  /\ UNCHANGED <<box, log, cache, cursor, crashes, ahead>>

ApplyNext ==
  /\ pc = "apply" /\ pos < end
  /\ cache' = Apply(cache, log[pos + 1])
  /\ pos' = pos + 1
  /\ ahead' = IF pos + 1 > ahead THEN pos + 1 ELSE ahead
  /\ UNCHANGED <<box, log, cursor, pc, end, crashes>>

SaveCursor ==
  /\ pc = "apply" /\ pos = end
  /\ cursor' = end /\ pc' = "idle"
  /\ UNCHANGED <<box, log, cache, pos, end, crashes, ahead>>

\* A crash loses the page; what was applied stays.
Crash ==
  /\ pc \in {"list", "apply", "refetch"} /\ crashes < MaxCrashes
  /\ crashes' = crashes + 1
  /\ pc' = IF cursor = Nil THEN "new" ELSE "idle"
  /\ UNCHANGED <<box, log, cache, cursor, pos, end, ahead>>

-----------------------------------------------------------------------------
\* Some messages are there before the client asks for the first time.
Init ==
  /\ box \in [Ids -> {Nil, NewMessage(0)}] /\ log = <<>>
  /\ cache = [m \in Ids |-> Nil] /\ cursor = Nil
  /\ pc = "new" /\ pos = 0 /\ end = 0 /\ crashes = 0 /\ ahead = 0

ServerStep ==
  \E m \in Ids : \/ SCreate(m)
                 \/ SDelete(m)
                 \/ \E ls \in LabelSets : SLabels(m, ls)
                 \/ \E f \in Fields : SField(m, f)

ClientStep == Seed \/ List \/ GetEvent \/ ApplyNext \/ SaveCursor

Next == ServerStep \/ ClientStep \/ Crash

Spec == Init /\ [][Next]_vars

\* The client goes on asking for events and applying them.
FairSpec == Spec /\ WF_vars(ClientStep)

-----------------------------------------------------------------------------
(* Properties                                                              *)

\* Every variable has its type.
TypeOK ==
  /\ box \in [Ids -> {Nil} \cup Message] /\ cache \in [Ids -> {Nil} \cup Message]
  /\ \A i \in 1..Len(log) : log[i] \in EventMessage
  /\ cursor \in {Nil} \cup 0..Len(log)
  /\ pc \in {"new", "list", "idle", "apply", "refetch"}
  /\ pos \in 0..Len(log) /\ end \in 0..Len(log) /\ ahead \in 0..Len(log)
  /\ crashes \in 0..MaxCrashes

\* The cache c after the changes log[n + 1], ..., log[Len(log)].
Replay(c, n) ==
  LET r[i \in n..Len(log)] == IF i = n THEN c ELSE Apply(r[i - 1], log[i])
  IN r[Len(log)]

\* The changes the client has not applied yet, those after the cursor when it
\* is not in a page, lead from its cache to the server's mailbox: also after a
\* crash that makes it patch a second time what it has patched, and on a list
\* that is newer than the cursor.
NothingMissed ==
  /\ pc \in {"idle", "refetch"} /\ cursor # Nil => Replay(cache, cursor) = box
  /\ pc = "apply" => Replay(cache, pos) = box

\* DiffLabelIDs and Patch agree on what a change does to the labels of the
\* cached message, unless the change is applied a second time: they prefer
\* different shapes when an update carries both.
DiffAgrees ==
  (pc = "apply" /\ pos < end /\ pos = ahead) =>
    LET e == log[pos + 1]
    IN (e.updated # Nil /\ cache[e.id] # Nil) =>
         LET old == cache[e.id].labels
             d   == DiffLabelIDs(e.updated, old)
         IN Patch(e.updated, cache[e.id]).labels = (old \cup d.added) \ d.removed

\* Once the server stops changing, the cache becomes the mailbox.
CatchesUp == <>[](cache = box)
=============================================================================
