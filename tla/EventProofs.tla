---------------------------- MODULE EventProofs -----------------------------
(***************************************************************************)
(* Proofs about EventSync, for every mailbox, every stream of changes and  *)
(* any number of crashes: types, NothingMissed and DiffAgrees.             *)
(*                                                                         *)
(* A cache that is patched again with old changes goes back and then       *)
(* forward: it is no earlier state of the mailbox.  What stays true is     *)
(* said cell by cell.  A cell is a pointer-typed field or one label of a   *)
(* message.  The cache c, at position n, is Settled for the mailbox b that *)
(* the stream had reached at position a if every cell that differs is      *)
(* still written between n and a.  That is kept by Apply (ApplySettled),   *)
(* because every entry writes what its cell has at a, unless a later entry *)
(* writes it again (EntryRight); at n = a it means c = b; and it holds at  *)
(* every earlier position too, where a crash may put the client            *)
(* (EarlierSettled).                                                       *)
(*                                                                         *)
(* The mailboxes that the stream went through are not in the state: the    *)
(* invariant says that there is a history H of them (HistoryInv).          *)
(***************************************************************************)
EXTENDS EventSync, NumberLemmas

Mailboxes == [Ids -> {Nil} \cup Message]

-----------------------------------------------------------------------------
(* Cells                                                                   *)

WritesField(u, f) == f \in DOMAIN u.set

WritesLabel(u, l) ==
  u.labelIDs # Nil \/ (u.added # Nil /\ u.removed # Nil /\ (l \in u.added \/ l \in u.removed))

\* Does u, which writes label l, add it.
AddsLabel(u, l) ==
  IF u.labelIDs # Nil THEN l \in u.labelIDs ELSE l \in u.added /\ l \notin u.removed

\* What the entries of stream s after n, up to a, do to message m: one creates or
\* deletes it; one writes a field; one writes a label.
Replaced(s, m, n, a) ==
  \E i \in 1..a : n < i /\ s[i].id = m /\ s[i].action \in {"EventCreate", "EventDelete"}
FieldWritten(s, m, f, n, a) ==
  \E i \in 1..a : n < i /\ s[i].id = m /\ s[i].updated # Nil /\ WritesField(s[i].updated, f)
LabelWritten(s, m, l, n, a) ==
  \E i \in 1..a : n < i /\ s[i].id = m /\ s[i].updated # Nil /\ WritesLabel(s[i].updated, l)

\* The messages x and y with ID m are equal but for cells that are written.
Alike(s, x, y, m, n, a) ==
  \/ x = Nil /\ y = Nil
  \/ /\ x # Nil /\ y # Nil /\ x.time = y.time
     /\ \A f \in Fields : FieldWritten(s, m, f, n, a) \/ x.value[f] = y.value[f]
     /\ \A l \in Labels : LabelWritten(s, m, l, n, a) \/ (l \in x.labels <=> l \in y.labels)

Settled(s, c, b, n, a) ==
  \A m \in Ids : Replaced(s, m, n, a) \/ Alike(s, c[m], b[m], m, n, a)

\* Update u, entry i of message m, writes what b has, but for what is written again.
UpdateRight(s, u, x, m, i, a) ==
  /\ x # Nil /\ u.time = x.time
  /\ \A f \in Fields : WritesField(u, f) => FieldWritten(s, m, f, i, a) \/ u.set[f] = x.value[f]
  /\ \A l \in Labels : WritesLabel(u, l) =>
       LabelWritten(s, m, l, i, a) \/ (AddsLabel(u, l) <=> l \in x.labels)

\* Entry i writes what the mailbox b has at position a, but for what is written
\* again.
EntryRight(s, b, i, a) ==
  LET m == s[i].id
  IN \/ Replaced(s, m, i, a)
     \/ s[i].action = "EventDelete" /\ b[m] = Nil
     \/ s[i].action = "EventCreate" /\ s[i].created # Nil /\ Alike(s, s[i].created, b[m], m, i, a)
     \/ s[i].action \in {"EventUpdate", "EventUpdateFlags"}
          /\ UpdateRight(s, s[i].updated, b[m], m, i, a)

\* DiffLabelIDs and Patch agree on entry e for the message in mailbox b.
DiffRight(e, b) ==
  (e.updated # Nil /\ b[e.id] # Nil) =>
    LET old == b[e.id].labels
        d   == DiffLabelIDs(e.updated, old)
    IN Patch(e.updated, b[e.id]).labels = (old \cup d.added) \ d.removed

-----------------------------------------------------------------------------
(* What Patch and Apply do to a cell                                       *)

\* Patch, cell by cell.
LEMMA PatchCells ==
  ASSUME NEW u, NEW x
  PROVE  /\ Patch(u, x).time = u.time
         /\ \A f \in Fields : Patch(u, x).value[f] =
              IF WritesField(u, f) THEN u.set[f] ELSE x.value[f]
         /\ \A l : l \in Patch(u, x).labels <=>
              IF WritesLabel(u, l) THEN AddsLabel(u, l) ELSE l \in x.labels
  <1>1. /\ Patch(u, x).time = u.time
        /\ \A f \in Fields : Patch(u, x).value[f] =
              IF WritesField(u, f) THEN u.set[f] ELSE x.value[f]
    BY DEF Patch, WritesField
  <1>2. Patch(u, x).labels = PatchedLabels(u, x.labels)
    BY DEF Patch
  <1>3. \A l : l \in PatchedLabels(u, x.labels) <=>
           IF WritesLabel(u, l) THEN AddsLabel(u, l) ELSE l \in x.labels
    BY DEF PatchedLabels, WritesLabel, AddsLabel
  <1> QED BY <1>1, <1>2, <1>3

\* A patched message is a message.
LEMMA PatchType ==
  ASSUME NEW u \in Update, NEW x \in Message PROVE Patch(u, x) \in Message
  <1>1. u.time \in Nat
    BY DEF Update
  <1>2. \A f \in DOMAIN u.set : u.set[f] \in 0..1
    <2>1. u.set \in UNION {[F -> 0..1] : F \in SUBSET Fields}
      BY DEF Update
    <2>2. PICK F \in SUBSET Fields : u.set \in [F -> 0..1]
      BY <2>1
    <2> QED BY <2>2
  <1>3. \A f \in Fields : x.value[f] \in 0..1
    BY DEF Message
  <1>4. [f \in Fields |-> IF f \in DOMAIN u.set THEN u.set[f] ELSE x.value[f]] \in [Fields -> 0..1]
    BY <1>2, <1>3
  <1>5. PatchedLabels(u, x.labels) \in LabelSets
    BY DEF PatchedLabels, Update, Message, LabelSets
  <1> QED BY <1>1, <1>4, <1>5 DEF Patch, Message

\* What Apply does with an entry.
LEMMA ApplyFacts ==
  ASSUME NEW c \in Mailboxes, NEW e \in EventMessage
  PROVE  /\ e.id \in Ids /\ Apply(c, e) \in Mailboxes
         /\ \A m \in Ids : m # e.id => Apply(c, e)[m] = c[m]
         /\ e.action = "EventDelete" => Apply(c, e)[e.id] = Nil
         /\ e.action = "EventCreate" => Apply(c, e)[e.id] = e.created
         /\ e.action \in {"EventUpdate", "EventUpdateFlags"} =>
              Apply(c, e)[e.id] = IF c[e.id] = Nil THEN Nil ELSE Patch(e.updated, c[e.id])
         /\ e.action = "EventCreate" => e.created \in Message /\ e.updated = Nil
         /\ e.action = "EventDelete" => e.updated = Nil
         /\ e.action \in {"EventUpdate", "EventUpdateFlags"} => e.updated \in Update
         /\ e.action \in {"EventDelete", "EventCreate", "EventUpdate", "EventUpdateFlags"}
  <1>1. /\ e.id \in Ids
        /\ e.action = "EventCreate" => e.created \in Message /\ e.updated = Nil
        /\ e.action = "EventDelete" => e.updated = Nil
        /\ e.action \in {"EventUpdate", "EventUpdateFlags"} => e.updated \in Update
        /\ e.action \in {"EventDelete", "EventCreate", "EventUpdate", "EventUpdateFlags"}
    BY DEF EventMessage
  <1> DEFINE v == IF e.action = "EventDelete" THEN Nil
                  ELSE IF e.action = "EventCreate" THEN e.created
                  ELSE IF c[e.id] = Nil THEN Nil ELSE Patch(e.updated, c[e.id])
  <1>2. Apply(c, e) = [c EXCEPT ![e.id] = v]
    BY DEF Apply
  <1>3. v \in {Nil} \cup Message
    BY <1>1, PatchType DEF Mailboxes
  <1>4. Apply(c, e)[e.id] = v /\ \A m \in Ids : m # e.id => Apply(c, e)[m] = c[m]
    BY <1>1, <1>2 DEF Mailboxes
  <1> HIDE DEF v
  <1>5. Apply(c, e) \in Mailboxes
    BY <1>1, <1>2, <1>3 DEF Mailboxes
  <1> QED BY <1>1, <1>4, <1>5 DEF v

-----------------------------------------------------------------------------
(* Moving along the stream                                                 *)

\* What is written after n is written by entry n + 1 or later.
LEMMA NextEntry ==
  ASSUME NEW s, NEW n \in Nat, NEW a \in Nat, NEW m
  PROVE  /\ Replaced(s, m, n, a) =>
              \/ Replaced(s, m, n + 1, a)
              \/ s[n + 1].id = m /\ s[n + 1].action \in {"EventCreate", "EventDelete"}
         /\ \A f : FieldWritten(s, m, f, n, a) =>
              \/ FieldWritten(s, m, f, n + 1, a)
              \/ s[n + 1].id = m /\ s[n + 1].updated # Nil /\ WritesField(s[n + 1].updated, f)
         /\ \A l : LabelWritten(s, m, l, n, a) =>
              \/ LabelWritten(s, m, l, n + 1, a)
              \/ s[n + 1].id = m /\ s[n + 1].updated # Nil /\ WritesLabel(s[n + 1].updated, l)
  <1>1. \A i \in 1..a : n < i => i = n + 1 \/ n + 1 < i
    OBVIOUS
  <1> QED BY <1>1, Zenon DEF Replaced, FieldWritten, LabelWritten

\* What is written after n is written after every earlier position.
LEMMA EarlierWritten ==
  ASSUME NEW s, NEW n \in Nat, NEW k \in Nat, k <= n, NEW a \in Nat, NEW m
  PROVE  /\ Replaced(s, m, n, a) => Replaced(s, m, k, a)
         /\ \A f : FieldWritten(s, m, f, n, a) => FieldWritten(s, m, f, k, a)
         /\ \A l : LabelWritten(s, m, l, n, a) => LabelWritten(s, m, l, k, a)
  <1>1. \A i \in 1..a : n < i => k < i
    OBVIOUS
  <1> QED BY <1>1, Zenon DEF Replaced, FieldWritten, LabelWritten

\* A settled cache is settled at every earlier position.
LEMMA EarlierSettled ==
  ASSUME NEW s, NEW c, NEW b, NEW n \in Nat, NEW k \in Nat, k <= n, NEW a \in Nat,
         Settled(s, c, b, n, a)
  PROVE  Settled(s, c, b, k, a)
  <1> SUFFICES ASSUME NEW m \in Ids
               PROVE  Replaced(s, m, k, a) \/ Alike(s, c[m], b[m], m, k, a)
    BY DEF Settled
  <1>1. Replaced(s, m, n, a) \/ Alike(s, c[m], b[m], m, n, a)
    BY DEF Settled
  <1> QED BY <1>1, EarlierWritten, Zenon DEF Alike

\* Nothing is written after the end, so there the cache is the mailbox.
LEMMA SettledAtEnd ==
  ASSUME NEW s, NEW a \in Nat, NEW c \in Mailboxes, NEW b \in Mailboxes, Settled(s, c, b, a, a)
  PROVE  c = b
  <1>1. \A i \in 1..a : ~(a < i)
    OBVIOUS
  <1>2. ASSUME NEW m \in Ids PROVE c[m] = b[m]
    <2>1. Alike(s, c[m], b[m], m, a, a)
      BY <1>1, Zenon DEF Settled, Replaced
    <2>2. \A f, l : ~FieldWritten(s, m, f, a, a) /\ ~LabelWritten(s, m, l, a, a)
      BY <1>1, Zenon DEF FieldWritten, LabelWritten
    <2>3. CASE c[m] # Nil
      <3>1. c[m] \in Message /\ b[m] \in Message
        BY <2>1, <2>3 DEF Alike, Mailboxes
      <3>2. /\ c[m].time = b[m].time
            /\ \A f \in Fields : c[m].value[f] = b[m].value[f]
            /\ \A l \in Labels : l \in c[m].labels <=> l \in b[m].labels
        BY <2>1, <2>2, <2>3, Zenon DEF Alike
      <3>3. \A x, y \in Message :
              (/\ x.time = y.time /\ \A f \in Fields : x.value[f] = y.value[f]
               /\ \A l \in Labels : l \in x.labels <=> l \in y.labels) => x = y
        <4> SUFFICES ASSUME NEW x \in Message, NEW y \in Message, x.time = y.time,
                            \A f \in Fields : x.value[f] = y.value[f],
                            \A l \in Labels : l \in x.labels <=> l \in y.labels
                     PROVE  x = y
          OBVIOUS
        <4>1. x.value = y.value
          BY DEF Message
        <4>2. x.labels = y.labels
          BY DEF Message, LabelSets
        <4> QED BY <4>1, <4>2 DEF Message
      <3> QED BY <3>1, <3>2, <3>3
    <2>4. CASE c[m] = Nil
      BY <2>1, <2>4 DEF Alike
    <2> QED BY <2>3, <2>4
  <1> QED BY <1>2 DEF Mailboxes

\* A mailbox is settled for itself.
LEMMA SettledSelf == ASSUME NEW s, NEW b, NEW n, NEW a PROVE Settled(s, b, b, n, a)
  BY DEF Settled, Alike

\* Apply keeps a cache settled.
LEMMA ApplySettled ==
  ASSUME NEW s, NEW n \in Nat, NEW a \in Nat, n < a, NEW c \in Mailboxes, NEW b \in Mailboxes,
         s[n + 1] \in EventMessage, EntryRight(s, b, n + 1, a), Settled(s, c, b, n, a)
  PROVE  Settled(s, Apply(c, s[n + 1]), b, n + 1, a)
  <1> DEFINE e == s[n + 1]
             d == Apply(c, e)
  <1> SUFFICES ASSUME NEW m \in Ids, ~Replaced(s, m, n + 1, a)
               PROVE  Alike(s, d[m], b[m], m, n + 1, a)
    BY DEF Settled
  <1>1. Replaced(s, m, n, a) \/ Alike(s, c[m], b[m], m, n, a)
    BY DEF Settled
  <1>2. CASE m # e.id
    <2>1. d[m] = c[m]
      BY <1>2, ApplyFacts
    <2>2. /\ ~Replaced(s, m, n, a)
          /\ \A f : FieldWritten(s, m, f, n, a) => FieldWritten(s, m, f, n + 1, a)
          /\ \A l : LabelWritten(s, m, l, n, a) => LabelWritten(s, m, l, n + 1, a)
      BY <1>2, NextEntry
    <2>3. Alike(s, c[m], b[m], m, n, a)
      BY <1>1, <2>2
    <2>4. Alike(s, c[m], b[m], m, n + 1, a)
      BY <2>2, <2>3, Zenon DEF Alike
    <2> QED BY <2>1, <2>4
  <1>3. CASE m = e.id /\ e.action = "EventDelete"
    <2>1. b[m] = Nil
      BY <1>3 DEF EntryRight
    <2>2. d[m] = Nil
      BY <1>3, ApplyFacts
    <2> QED BY <2>1, <2>2 DEF Alike
  <1>4. CASE m = e.id /\ e.action = "EventCreate"
    <2>1. Alike(s, e.created, b[m], m, n + 1, a)
      BY <1>4 DEF EntryRight
    <2>2. d[m] = e.created
      BY <1>4, ApplyFacts
    <2> QED BY <2>1, <2>2
  <1>5. CASE m = e.id /\ e.action \in {"EventUpdate", "EventUpdateFlags"}
    <2> DEFINE u == e.updated
    <2>1. UpdateRight(s, u, b[m], m, n + 1, a)
      BY <1>5 DEF EntryRight
    <2>2. ~Replaced(s, m, n, a)
      BY <1>5, NextEntry
    <2>3. Alike(s, c[m], b[m], m, n, a)
      BY <1>1, <2>2
    <2>4. c[m] # Nil /\ b[m] # Nil
      BY <2>1, <2>3 DEF UpdateRight, Alike
    <2>5. d[m] = Patch(u, c[m]) /\ u \in Update
      BY <1>5, <2>4, ApplyFacts
    <2>6. d[m] \in Message /\ d[m] # Nil
      BY <2>4, <2>5, PatchType, NilAssumption DEF Mailboxes
    <2>7. /\ \A f \in Fields : d[m].value[f] = IF WritesField(u, f) THEN u.set[f] ELSE c[m].value[f]
          /\ \A l : l \in d[m].labels <=> IF WritesLabel(u, l) THEN AddsLabel(u, l)
                                          ELSE l \in c[m].labels
          /\ d[m].time = u.time
      BY <2>5, PatchCells
    <2>8. /\ \A f : FieldWritten(s, m, f, n, a) =>
                      FieldWritten(s, m, f, n + 1, a) \/ WritesField(u, f)
          /\ \A l : LabelWritten(s, m, l, n, a) =>
                      LabelWritten(s, m, l, n + 1, a) \/ WritesLabel(u, l)
      BY NextEntry
    <2> HIDE DEF u, d, e
    <2>9. d[m].time = b[m].time
      BY <2>1, <2>7 DEF UpdateRight
    <2>10. ASSUME NEW f \in Fields
           PROVE  FieldWritten(s, m, f, n + 1, a) \/ d[m].value[f] = b[m].value[f]
      BY <2>1, <2>3, <2>4, <2>7, <2>8 DEF UpdateRight, Alike
    <2>11. ASSUME NEW l \in Labels
           PROVE  LabelWritten(s, m, l, n + 1, a) \/ (l \in d[m].labels <=> l \in b[m].labels)
      BY <2>1, <2>3, <2>4, <2>7, <2>8 DEF UpdateRight, Alike
    <2> QED BY <2>4, <2>6, <2>9, <2>10, <2>11 DEF Alike
  <1> QED BY <1>2, <1>3, <1>4, <1>5, ApplyFacts

-----------------------------------------------------------------------------
(* A longer stream                                                         *)

\* Entry e fits the stream s of length a and its mailbox b: an ID is not used
\* twice, an update is of a message that is there and has its time, and its two
\* shapes say the same.
Fits(s, e, b, a) ==
  /\ e.action = "EventCreate" => \A i \in 1..a : s[i].id # e.id
  /\ e.action \in {"EventUpdate", "EventUpdateFlags"} =>
       b[e.id] # Nil /\ e.updated.time = b[e.id].time
  /\ DiffRight(e, b)

\* The stream t begins with the first a entries of s.
Begins(s, t, a) == \A i \in 1..a : t[i] = s[i]

\* Two streams that begin alike.
LEMMA SameBeginning ==
  ASSUME NEW s, NEW t, NEW a \in Nat, Begins(s, t, a)
  PROVE  /\ \A c, b, n : Settled(s, c, b, n, a) <=> Settled(t, c, b, n, a)
         /\ \A b : \A i \in 1..a : EntryRight(s, b, i, a) <=> EntryRight(t, b, i, a)
  <1>1. \A m, n : Replaced(s, m, n, a) <=> Replaced(t, m, n, a)
    BY DEF Begins, Replaced
  <1>2. \A m, f, n : FieldWritten(s, m, f, n, a) <=> FieldWritten(t, m, f, n, a)
    BY DEF Begins, FieldWritten
  <1>3. \A m, l, n : LabelWritten(s, m, l, n, a) <=> LabelWritten(t, m, l, n, a)
    BY DEF Begins, LabelWritten
  <1>4. \A x, y, m, n : Alike(s, x, y, m, n, a) <=> Alike(t, x, y, m, n, a)
    BY <1>2, <1>3 DEF Alike
  <1>5. \A u, x, m, n : UpdateRight(s, u, x, m, n, a) <=> UpdateRight(t, u, x, m, n, a)
    BY <1>2, <1>3 DEF UpdateRight
  <1>6. \A c, b, n : Settled(s, c, b, n, a) <=> Settled(t, c, b, n, a)
    BY <1>1, <1>4, Zenon DEF Settled
  <1>7. ASSUME NEW b, NEW i \in 1..a PROVE EntryRight(s, b, i, a) <=> EntryRight(t, b, i, a)
    <2>1. t[i] = s[i]
      BY DEF Begins
    <2> QED BY <1>1, <1>4, <1>5, <2>1 DEF EntryRight
  <1> QED BY <1>6, <1>7

\* With one more entry, everything that was written is, and what the entry writes.
LEMMA OneMore ==
  ASSUME NEW s, NEW t, NEW a \in Nat, Begins(s, t, a), NEW m, NEW n \in Nat, n <= a
  PROVE  /\ Replaced(s, m, n, a) => Replaced(t, m, n, a + 1)
         /\ \A f : FieldWritten(s, m, f, n, a) => FieldWritten(t, m, f, n, a + 1)
         /\ \A l : LabelWritten(s, m, l, n, a) => LabelWritten(t, m, l, n, a + 1)
         /\ (t[a + 1].id = m /\ t[a + 1].action \in {"EventCreate", "EventDelete"})
              => Replaced(t, m, n, a + 1)
         /\ (t[a + 1].id = m /\ t[a + 1].updated # Nil) =>
              /\ \A f : WritesField(t[a + 1].updated, f) => FieldWritten(t, m, f, n, a + 1)
              /\ \A l : WritesLabel(t[a + 1].updated, l) => LabelWritten(t, m, l, n, a + 1)
  <1>1. (\A i \in 1..a : i \in 1..(a + 1)) /\ a + 1 \in 1..(a + 1) /\ n < a + 1
    OBVIOUS
  <1>2. \A i \in 1..a : t[i] = s[i]
    BY DEF Begins
  <1>3. Replaced(s, m, n, a) => Replaced(t, m, n, a + 1)
    BY <1>1, <1>2 DEF Replaced
  <1>4. \A f : FieldWritten(s, m, f, n, a) => FieldWritten(t, m, f, n, a + 1)
    BY <1>1, <1>2 DEF FieldWritten
  <1>5. \A l : LabelWritten(s, m, l, n, a) => LabelWritten(t, m, l, n, a + 1)
    BY <1>1, <1>2 DEF LabelWritten
  <1>6. (t[a + 1].id = m /\ t[a + 1].action \in {"EventCreate", "EventDelete"})
              => Replaced(t, m, n, a + 1)
    BY <1>1, Zenon DEF Replaced
  <1>7. (t[a + 1].id = m /\ t[a + 1].updated # Nil) =>
              /\ \A f : WritesField(t[a + 1].updated, f) => FieldWritten(t, m, f, n, a + 1)
              /\ \A l : WritesLabel(t[a + 1].updated, l) => LabelWritten(t, m, l, n, a + 1)
    BY <1>1, Zenon DEF FieldWritten, LabelWritten
  <1> QED BY <1>3, <1>4, <1>5, <1>6, <1>7

\* The new mailbox has what the entries say, if the old one had and the new entry
\* fits.
LEMMA EntriesStayRight ==
  ASSUME NEW s, NEW t, NEW a \in Nat, Begins(s, t, a), NEW b \in Mailboxes,
         t[a + 1] \in EventMessage, Fits(s, t[a + 1], b, a),
         NEW i \in 1..a, s[i] \in EventMessage, EntryRight(s, b, i, a)
  PROVE  EntryRight(t, Apply(b, t[a + 1]), i, a + 1)
  <1> DEFINE e  == t[a + 1]
             b2 == Apply(b, e)
             m  == s[i].id
  <1>1. t[i] = s[i] /\ i \in Nat /\ i <= a
    BY DEF Begins
  <1>2. m \in Ids
    BY ApplyFacts
  <1>3. SUFFICES ASSUME ~Replaced(t, m, i, a + 1) PROVE EntryRight(t, b2, i, a + 1)
    BY <1>1 DEF EntryRight
  <1>4. ~Replaced(s, m, i, a)
    BY <1>1, <1>3, OneMore
  <1>5. /\ \A f : FieldWritten(s, m, f, i, a) => FieldWritten(t, m, f, i, a + 1)
        /\ \A l : LabelWritten(s, m, l, i, a) => LabelWritten(t, m, l, i, a + 1)
    BY <1>1, OneMore
  <1>6. CASE m # e.id
    <2>1. b2[m] = b[m]
      BY <1>2, <1>6, ApplyFacts
    <2>2. \A x, y : Alike(s, x, y, m, i, a) => Alike(t, x, y, m, i, a + 1)
      BY <1>5, Zenon DEF Alike
    <2>3. \A u, x : UpdateRight(s, u, x, m, i, a) => UpdateRight(t, u, x, m, i, a + 1)
      BY <1>5, Zenon DEF UpdateRight
    <2> HIDE DEF b2, e
    <2> QED BY <1>1, <1>4, <2>1, <2>2, <2>3 DEF EntryRight
  <1>7. CASE m = e.id /\ e.action \in {"EventCreate", "EventDelete"}
    BY <1>1, <1>3, <1>7, OneMore
  <1>8. CASE m = e.id /\ e.action \in {"EventUpdate", "EventUpdateFlags"}
    <2> DEFINE u == e.updated
    <2>1. b[m] # Nil /\ u.time = b[m].time
      BY <1>8 DEF Fits
    <2>2. u \in Update /\ u # Nil /\ b2[m] = Patch(u, b[m])
      BY <1>8, <2>1, ApplyFacts, NilAssumption
    <2>3. b2[m] # Nil
      BY <1>2, <2>1, <2>2, PatchType, NilAssumption DEF Mailboxes
    <2>4. /\ b2[m].time = b[m].time
          /\ \A f \in Fields : ~WritesField(u, f) => b2[m].value[f] = b[m].value[f]
          /\ \A l : ~WritesLabel(u, l) => (l \in b2[m].labels <=> l \in b[m].labels)
      BY <2>1, <2>2, PatchCells
    <2>5. /\ \A f : WritesField(u, f) => FieldWritten(t, m, f, i, a + 1)
          /\ \A l : WritesLabel(u, l) => LabelWritten(t, m, l, i, a + 1)
      BY <1>1, <1>8, <2>2, OneMore
    <2> HIDE DEF u, b2, e
    <2>6. \A x : Alike(s, x, b[m], m, i, a) => Alike(t, x, b2[m], m, i, a + 1)
      BY <1>5, <2>1, <2>3, <2>4, <2>5 DEF Alike
    <2>7. \A v : UpdateRight(s, v, b[m], m, i, a) => UpdateRight(t, v, b2[m], m, i, a + 1)
      BY <1>5, <2>1, <2>3, <2>4, <2>5 DEF UpdateRight
    <2> QED BY <1>1, <1>4, <2>1, <2>6, <2>7 DEF EntryRight
  <1> QED BY <1>6, <1>7, <1>8, ApplyFacts

\* The new entry itself.
LEMMA NewEntryRight ==
  ASSUME NEW t, NEW a \in Nat, NEW b \in Mailboxes, NEW s, t[a + 1] \in EventMessage,
         Fits(s, t[a + 1], b, a)
  PROVE  EntryRight(t, Apply(b, t[a + 1]), a + 1, a + 1)
  <1> DEFINE e  == t[a + 1]
             b2 == Apply(b, e)
  <1>1. CASE e.action = "EventDelete"
    BY <1>1, ApplyFacts DEF EntryRight
  <1>2. CASE e.action = "EventCreate"
    <2>1. b2[e.id] = e.created /\ e.created # Nil
      BY <1>2, ApplyFacts, NilAssumption
    <2>2. Alike(t, e.created, b2[e.id], e.id, a + 1, a + 1)
      BY <2>1 DEF Alike
    <2> QED BY <1>2, <2>1, <2>2 DEF EntryRight
  <1>3. CASE e.action \in {"EventUpdate", "EventUpdateFlags"}
    <2> DEFINE u == e.updated
    <2>1. b[e.id] # Nil /\ u.time = b[e.id].time
      BY <1>3 DEF Fits
    <2>2. u \in Update /\ b2[e.id] = Patch(u, b[e.id])
      BY <1>3, <2>1, ApplyFacts
    <2>3. b2[e.id] # Nil
      BY <2>1, <2>2, ApplyFacts, PatchType, NilAssumption DEF Mailboxes
    <2>4. UpdateRight(t, u, b2[e.id], e.id, a + 1, a + 1)
      BY <2>2, <2>3, PatchCells DEF UpdateRight
    <2> QED BY <1>3, <2>4 DEF EntryRight
  <1> QED BY <1>1, <1>2, <1>3, ApplyFacts

-----------------------------------------------------------------------------
(* The invariant                                                           *)

\* The types, that the stream is a sequence, and that the client asks for events
\* only when it has a cursor.
TypeInv ==
  /\ TypeOK /\ log \in Seq(EventMessage)
  /\ pc \in {"idle", "refetch"} => cursor # Nil

\* H has the mailbox b of the stream s and those it went through.
Past(s, H, b) ==
  /\ \A a \in 0..Len(s) : H[a] \in Mailboxes
  /\ H[Len(s)] = b
  /\ \A a \in 0..Len(s) : \A i \in 1..a : EntryRight(s, H[a], i, a)
  /\ \A a \in 1..Len(s) : H[a] = Apply(H[a - 1], s[a]) /\ DiffRight(s[a], H[a - 1])

\* The client is settled for the newest mailbox it has seen, at its position in
\* the page or at its cursor, which is never ahead of that position.
ClientInv(H) ==
  /\ cursor # Nil => cursor <= ahead
  /\ pc \in {"new", "list"} => cursor = Nil
  /\ pc \in {"idle", "refetch"} => Settled(log, cache, H[ahead], cursor, ahead)
  /\ pc = "refetch" => cursor <= end
  /\ pc = "apply" =>
       /\ pos <= ahead /\ (cursor # Nil => cursor <= pos)
       /\ Settled(log, cache, H[ahead], pos, ahead)

HistoryInv == \E H : Past(log, H, box) /\ ClientInv(H)

-----------------------------------------------------------------------------
(* The server                                                              *)

\* A change of the server: the entry it logs.
Logs(e) ==
  /\ e \in EventMessage /\ log' = Append(log, e) /\ box' = Apply(box, e)
  /\ Fits(log, e, box, Len(log))
  /\ UNCHANGED <<cache, cursor, pc, pos, end, crashes, ahead>>

\* A new message.
LEMMA NewMessageType == ASSUME NEW n \in Nat PROVE NewMessage(n) \in Message
  <1>1. [f \in Fields |-> 1] \in [Fields -> 0..1]
    OBVIOUS
  <1>2. {} \in LabelSets
    BY DEF LabelSets
  <1> QED BY <1>1, <1>2 DEF NewMessage, Message

\* SCreate logs a new message.
LEMMA CreateLogs == ASSUME TypeInv, NEW m \in Ids, SCreate(m) PROVE \E e : Logs(e)
  <1> DEFINE x == NewMessage(Len(log) + 1)
             e == UnmarshalJSON(m, "EventCreate", x)
  <1>1. Len(log) \in Nat
    BY DEF TypeInv
  <1>2. x \in Message
    BY <1>1, NewMessageType
  <1>3. Change(m, x, "EventCreate", x)
    BY DEF SCreate
  <1> HIDE DEF x
  <1>4. e = [id |-> m, action |-> "EventCreate", created |-> x, updated |-> Nil]
    BY DEF UnmarshalJSON
  <1>5. e \in EventMessage
    BY <1>2, <1>4 DEF EventMessage
  <1>6. /\ log' = Append(log, e) /\ box' = [box EXCEPT ![m] = x]
        /\ UNCHANGED <<cache, cursor, pc, pos, end, crashes, ahead>>
    BY <1>3 DEF Change
  <1>7. Apply(box, e) = [box EXCEPT ![m] = x]
    <2>1. e.id = m /\ e.action = "EventCreate" /\ e.created = x
      BY <1>4
    <2> HIDE DEF e
    <2> QED BY <2>1 DEF Apply, TypeInv, TypeOK
  <1>8. Fits(log, e, box, Len(log))
    BY <1>4 DEF Fits, SCreate, DiffRight
  <1> QED BY <1>5, <1>6, <1>7, <1>8 DEF Logs

\* SDelete logs that a message is gone.
LEMMA DeleteLogs == ASSUME TypeInv, NEW m \in Ids, SDelete(m) PROVE \E e : Logs(e)
  <1> DEFINE e == UnmarshalJSON(m, "EventDelete", Nil)
  <1>4. e = [id |-> m, action |-> "EventDelete", created |-> Nil, updated |-> Nil]
    BY DEF UnmarshalJSON
  <1>5. e \in EventMessage
    BY <1>4 DEF EventMessage
  <1>6. /\ log' = Append(log, e) /\ box' = [box EXCEPT ![m] = Nil]
        /\ UNCHANGED <<cache, cursor, pc, pos, end, crashes, ahead>>
    BY DEF Change, SDelete
  <1>7. Apply(box, e) = [box EXCEPT ![m] = Nil]
    <2>1. e.id = m /\ e.action = "EventDelete"
      BY <1>4
    <2> HIDE DEF e
    <2> QED BY <2>1 DEF Apply, TypeInv, TypeOK
  <1>8. Fits(log, e, box, Len(log))
    BY <1>4 DEF Fits, DiffRight
  <1> QED BY <1>5, <1>6, <1>7, <1>8 DEF Logs

\* An update whose Patch gives the new message, and whose shapes say the same.
LEMMA UpdateLogs ==
  ASSUME TypeInv, NEW m \in Ids, NEW act \in {"EventUpdate", "EventUpdateFlags"}, NEW x,
         NEW u \in Update, box[m] # Nil, u.time = box[m].time, Change(m, x, act, u),
         x = Patch(u, box[m]),
         LET d == DiffLabelIDs(u, box[m].labels)
         IN PatchedLabels(u, box[m].labels) = (box[m].labels \cup d.added) \ d.removed
  PROVE  \E e : Logs(e)
  <1> DEFINE e == UnmarshalJSON(m, act, u)
  <1>4. e = [id |-> m, action |-> act, created |-> Nil, updated |-> u]
    BY DEF UnmarshalJSON
  <1>5. e \in EventMessage
    BY <1>4 DEF EventMessage
  <1>6. /\ log' = Append(log, e) /\ box' = [box EXCEPT ![m] = x]
        /\ UNCHANGED <<cache, cursor, pc, pos, end, crashes, ahead>>
    BY DEF Change
  <1>7. Apply(box, e) = [box EXCEPT ![m] = x]
    <2>1. e.id = m /\ e.action = act /\ e.updated = u
      BY <1>4
    <2> HIDE DEF e
    <2> QED BY <2>1 DEF Apply, TypeInv, TypeOK
  <1>8. DiffRight(e, box)
    <2>1. Patch(u, box[m]).labels = PatchedLabels(u, box[m].labels)
      BY DEF Patch
    <2>2. e.id = m /\ e.updated = u
      BY <1>4
    <2> QED BY <2>1, <2>2, Zenon DEF DiffRight
  <1>9. Fits(log, e, box, Len(log))
    BY <1>4, <1>8 DEF Fits
  <1> QED BY <1>5, <1>6, <1>7, <1>9 DEF Logs

\* The update of a change of labels: the full list, the difference, or both.
LEMMA LabelUpdate ==
  ASSUME NEW x \in Message, NEW ls \in LabelSets, NEW L, NEW A, NEW R, NEW u,
         u = [time |-> x.time, set |-> [f \in {} |-> 0], labelIDs |-> L, added |-> A, removed |-> R],
         \/ L = ls /\ A \in {Nil, ls \ x.labels} /\ R = Nil
         \/ L \in {ls, Nil} /\ A = ls \ x.labels /\ R = x.labels \ ls
  PROVE  /\ u \in Update /\ u.time = x.time /\ Patch(u, x) = [x EXCEPT !.labels = ls]
         /\ LET d == DiffLabelIDs(u, x.labels)
            IN PatchedLabels(u, x.labels) = (x.labels \cup d.added) \ d.removed
  <1>1. x.time \in Nat /\ x.labels \in LabelSets /\ x.value \in [Fields -> 0..1]
    BY DEF Message
  <1>2. ls \ x.labels \in LabelSets /\ x.labels \ ls \in LabelSets
    BY <1>1 DEF LabelSets
  <1>3. \A k \in LabelSets : k # Nil
    BY NilAssumption
  <1>4. [f \in {} |-> 0] \in UNION {[F -> 0..1] : F \in SUBSET Fields}
    <2>1. [f \in {} |-> 0] \in [{} -> 0..1]
      OBVIOUS
    <2>2. {} \in SUBSET Fields
      OBVIOUS
    <2> QED BY <2>1, <2>2, Zenon
  <1>5. /\ u.time = x.time /\ u.set = [f \in {} |-> 0] /\ u.labelIDs = L /\ u.added = A
        /\ u.removed = R
    OBVIOUS
  <1>6. L \in {Nil} \cup LabelSets /\ A \in {Nil} \cup LabelSets /\ R \in {Nil} \cup LabelSets
    BY <1>2
  <1>7. u \in Update
    <2> DEFINE S == UNION {[F -> 0..1] : F \in SUBSET Fields}
    <2>1. [f \in {} |-> 0] \in S
      BY <1>4
    <2>2. Update = [time: Nat, set: S, labelIDs: {Nil} \cup LabelSets,
                    added: {Nil} \cup LabelSets, removed: {Nil} \cup LabelSets]
      BY DEF Update
    <2> HIDE DEF S
    <2> QED BY <1>1, <1>6, <2>1, <2>2
  <1>8. PatchedLabels(u, x.labels) = ls
    <2>1. CASE L = ls
      BY <1>3, <1>5, <2>1 DEF PatchedLabels
    <2>2. CASE L = Nil /\ A = ls \ x.labels /\ R = x.labels \ ls
      <3>1. PatchedLabels(u, x.labels) = (x.labels \cup A) \ R
        BY <1>2, <1>3, <1>5, <2>2 DEF PatchedLabels
      <3> QED BY <2>2, <3>1
    <2> QED BY <1>3, <2>1, <2>2
  <1>9. Patch(u, x) = [x EXCEPT !.labels = ls]
    <2>1. [f \in Fields |-> IF f \in DOMAIN u.set THEN u.set[f] ELSE x.value[f]] = x.value
      BY <1>1, <1>5
    <2>2. Patch(u, x) = [time |-> x.time, value |-> x.value, labels |-> ls]
      BY <1>5, <1>8, <2>1 DEF Patch
    <2> QED BY <2>2 DEF Message
  <1>10. LET d == DiffLabelIDs(u, x.labels) IN ls = (x.labels \cup d.added) \ d.removed
    <2>1. CASE L = ls /\ R = Nil
      <3>1. DiffLabelIDs(u, x.labels) = [added |-> ls \ x.labels, removed |-> x.labels \ ls]
        BY <1>3, <1>5, <2>1 DEF DiffLabelIDs
      <3> QED BY <3>1
    <2>2. CASE A = ls \ x.labels /\ R = x.labels \ ls
      <3>1. DiffLabelIDs(u, x.labels) = [added |-> A, removed |-> R]
        BY <1>2, <1>3, <1>5, <2>2 DEF DiffLabelIDs
      <3> QED BY <2>2, <3>1
    <2> QED BY <2>1, <2>2
  <1> QED BY <1>5, <1>7, <1>8, <1>9, <1>10

\* SLabels logs one of the four.
LEMMA LabelsLog ==
  ASSUME TypeInv, NEW m \in Ids, NEW ls \in LabelSets, SLabels(m, ls) PROVE \E e : Logs(e)
  <1> DEFINE x   == box[m]
             new == [x EXCEPT !.labels = ls]
             none == [f \in {} |-> 0]
             A == ls \ x.labels
             R == x.labels \ ls
             full == [time |-> x.time, set |-> none, labelIDs |-> ls, added |-> Nil, removed |-> Nil]
             half == [time |-> x.time, set |-> none, labelIDs |-> ls, added |-> A, removed |-> Nil]
             diff == [time |-> x.time, set |-> none, labelIDs |-> Nil, added |-> A, removed |-> R]
             both == [time |-> x.time, set |-> none, labelIDs |-> ls, added |-> A, removed |-> R]
  <1>1. x # Nil /\ x \in Message
    BY DEF SLabels, TypeInv, TypeOK
  <1>2. \/ Change(m, new, "EventUpdate", full)
        \/ Change(m, new, "EventUpdate", half)
        \/ Change(m, new, "EventUpdateFlags", diff)
        \/ Change(m, new, "EventUpdateFlags", both)
    <2>1. NoUpdate(m) = [time |-> x.time, set |-> none, labelIDs |-> Nil, added |-> Nil,
                         removed |-> Nil]
      BY DEF NoUpdate
    <2> HIDE DEF A, R, none, x
    <2>2. [NoUpdate(m) EXCEPT !.labelIDs = ls] = full
      BY <2>1
    <2>3. [NoUpdate(m) EXCEPT !.added = A, !.removed = R] = diff
      <3>1. [NoUpdate(m) EXCEPT !.added = A, !.removed = R]
              = [[NoUpdate(m) EXCEPT !.added = A] EXCEPT !.removed = R]
        OBVIOUS
      <3>2. [NoUpdate(m) EXCEPT !.added = A]
              = [time |-> x.time, set |-> none, labelIDs |-> Nil, added |-> A, removed |-> Nil]
        BY <2>1
      <3>3. ASSUME NEW y,
                   y = [time |-> x.time, set |-> none, labelIDs |-> Nil, added |-> A, removed |-> Nil]
            PROVE  [y EXCEPT !.removed = R] = diff
        BY <3>3
      <3> HIDE DEF diff
      <3> QED BY <3>1, <3>2, <3>3, Zenon
    <2>4. [diff EXCEPT !.labelIDs = ls] = both
      OBVIOUS
    <2>5. [full EXCEPT !.added = A] = half
      OBVIOUS
    <2> HIDE DEF full, half, diff, both
    <2>6. \/ Change(m, new, "EventUpdate", [NoUpdate(m) EXCEPT !.labelIDs = ls])
          \/ Change(m, new, "EventUpdate",
                    [[NoUpdate(m) EXCEPT !.labelIDs = ls] EXCEPT !.added = A])
          \/ Change(m, new, "EventUpdateFlags", [NoUpdate(m) EXCEPT !.added = A, !.removed = R])
          \/ Change(m, new, "EventUpdateFlags",
                    [[NoUpdate(m) EXCEPT !.added = A, !.removed = R] EXCEPT !.labelIDs = ls])
      BY Zenon DEF SLabels, A, R, x
    <2> QED BY <2>2, <2>3, <2>4, <2>5, <2>6, Zenon
  <1> HIDE DEF x, new, none, full, half, diff, both, A, R
  <1>3. ASSUME NEW u \in {full, half, diff, both}, NEW act \in {"EventUpdate", "EventUpdateFlags"},
               Change(m, new, act, u)
        PROVE  \E e : Logs(e)
    <2>1. /\ u \in Update /\ u.time = x.time /\ Patch(u, x) = [x EXCEPT !.labels = ls]
          /\ LET d == DiffLabelIDs(u, x.labels)
             IN PatchedLabels(u, x.labels) = (x.labels \cup d.added) \ d.removed
      <3>1. CASE u = full
        BY <1>1, <3>1, LabelUpdate DEF full, none
      <3>2. CASE u = diff
        BY <1>1, <3>2, LabelUpdate DEF diff, none, A, R
      <3>3. CASE u = both
        BY <1>1, <3>3, LabelUpdate DEF both, none, A, R
      <3>4. CASE u = half
        BY <1>1, <3>4, LabelUpdate DEF half, none, A
      <3> QED BY <3>1, <3>2, <3>3, <3>4
    <2>2. new = Patch(u, x)
      BY <2>1 DEF new
    <2> QED BY <1>1, <1>3, <2>1, <2>2, UpdateLogs DEF x
  <1> QED BY <1>2, <1>3

\* SField logs an update that has the one field.
LEMMA FieldLogs ==
  ASSUME TypeInv, NEW m \in Ids, NEW f \in Fields, SField(m, f) PROVE \E e : Logs(e)
  <1> DEFINE x == box[m]
             v == 1 - x.value[f]
             one == [g \in {f} |-> v]
             new == [x EXCEPT !.value[f] = v]
             u == [time |-> x.time, set |-> one, labelIDs |-> Nil, added |-> Nil, removed |-> Nil]
  <1>1. x # Nil /\ x \in Message
    BY DEF SField, TypeInv, TypeOK
  <1>2. Change(m, new, "EventUpdate", u)
    <2>1. [NoUpdate(m) EXCEPT !.set = one] = u
      BY DEF NoUpdate
    <2> QED BY <2>1, Zenon DEF SField
  <1>3. x.time \in Nat /\ x.labels \in LabelSets /\ x.value \in [Fields -> 0..1]
    BY <1>1 DEF Message
  <1>4. v \in 0..1
    BY <1>3
  <1> HIDE DEF x, v
  <1>5. one \in UNION {[F -> 0..1] : F \in SUBSET Fields}
    <2>1. one \in [{f} -> 0..1]
      BY <1>4
    <2>2. {f} \in SUBSET Fields
      OBVIOUS
    <2> QED BY <2>1, <2>2, Zenon
  <1>6. u \in Update
    <2> DEFINE S == UNION {[F -> 0..1] : F \in SUBSET Fields}
    <2>1. one \in S
      BY <1>5
    <2>2. Update = [time: Nat, set: S, labelIDs: {Nil} \cup LabelSets,
                    added: {Nil} \cup LabelSets, removed: {Nil} \cup LabelSets]
      BY DEF Update
    <2> HIDE DEF S, one
    <2> QED BY <1>3, <2>1, <2>2
  <1>7. /\ u.time = x.time /\ u.set = one /\ u.labelIDs = Nil /\ u.added = Nil /\ u.removed = Nil
    OBVIOUS
  <1>8. PatchedLabels(u, x.labels) = x.labels
    BY <1>7 DEF PatchedLabels
  <1>9. new = Patch(u, x)
    <2>1. [g \in Fields |-> IF g \in DOMAIN one THEN one[g] ELSE x.value[g]]
            = [x.value EXCEPT ![f] = v]
      BY <1>3
    <2>2. Patch(u, x) = [time |-> x.time, value |-> [x.value EXCEPT ![f] = v], labels |-> x.labels]
      BY <1>7, <1>8, <2>1 DEF Patch
    <2> QED BY <1>1, <2>2 DEF Message
  <1>10. LET d == DiffLabelIDs(u, x.labels)
         IN PatchedLabels(u, x.labels) = (x.labels \cup d.added) \ d.removed
    <2>1. DiffLabelIDs(u, x.labels) = [added |-> {}, removed |-> {}]
      BY <1>7 DEF DiffLabelIDs
    <2> QED BY <1>8, <2>1
  <1> HIDE DEF u, new
  <1> QED BY <1>1, <1>2, <1>6, <1>7, <1>9, <1>10, UpdateLogs DEF x, u

\* Every change of the server is logged so.
LEMMA ServerLogs == TypeInv /\ ServerStep => \E e : Logs(e)
  BY CreateLogs, DeleteLogs, LabelsLog, FieldLogs DEF ServerStep

-----------------------------------------------------------------------------
(* The steps keep the invariant                                            *)

\* A longer stream has one more entry, the new one.
LEMMA LogsFacts ==
  ASSUME TypeInv, NEW e, Logs(e)
  PROVE  /\ Len(log) \in Nat /\ Len(log') = Len(log) + 1 /\ log' \in Seq(EventMessage)
         /\ log'[Len(log) + 1] = e /\ \A i \in 1..Len(log) : log'[i] = log[i]
  <1>1. log \in Seq(EventMessage) /\ e \in EventMessage /\ log' = Append(log, e)
    BY DEF TypeInv, Logs
  <1> QED BY <1>1

\* The types.
LEMMA InitTypes == Init => TypeInv
  <1> SUFFICES ASSUME Init PROVE TypeInv
    OBVIOUS
  <1>1. NewMessage(0) \in Message
    BY NewMessageType
  <1>2. log = <<>> /\ Len(log) = 0 /\ log \in Seq(EventMessage)
    BY DEF Init
  <1>3. box \in [Ids -> {Nil} \cup Message] /\ cache \in [Ids -> {Nil} \cup Message]
    BY <1>1 DEF Init
  <1> QED BY <1>2, <1>3, EventAssumption DEF Init, TypeInv, TypeOK

\* The server's steps keep the types.
LEMMA LogsTypes == ASSUME TypeInv, NEW e, Logs(e) PROVE TypeInv'
  <1>1. /\ Len(log) \in Nat /\ Len(log') = Len(log) + 1 /\ log' \in Seq(EventMessage)
    BY LogsFacts
  <1>2. box' \in [Ids -> {Nil} \cup Message]
    BY ApplyFacts DEF Logs, Mailboxes, TypeInv, TypeOK
  <1>3. \A i \in 1..Len(log') : log'[i] \in EventMessage
    BY <1>1
  <1>4. UNCHANGED <<cache, cursor, pc, pos, end, crashes, ahead>>
    BY DEF Logs
  <1>5. \A n \in 0..Len(log) : n \in 0..Len(log')
    BY <1>1
  <1> QED BY <1>1, <1>2, <1>3, <1>4, <1>5 DEF TypeInv, TypeOK

\* The client's steps and crashes keep the types.
LEMMA ClientTypes == TypeInv /\ (ClientStep \/ Crash) => TypeInv'
  <1> SUFFICES ASSUME TypeInv, ClientStep \/ Crash PROVE TypeInv'
    OBVIOUS
  <1>1. UNCHANGED <<box, log>> /\ Len(log) \in Nat
    BY DEF ClientStep, Seed, List, GetEvent, ApplyNext, SaveCursor, Crash, TypeInv
  <1>2. CASE Seed \/ List \/ SaveCursor
    <2>1. end # Nil
      BY <1>1, NilAssumption DEF TypeInv, TypeOK
    <2> QED BY <1>1, <1>2, <2>1 DEF Seed, List, SaveCursor, TypeInv, TypeOK
  <1>3. CASE GetEvent
    <2>1. cursor \in 0..Len(log) /\ cursor # Nil
      BY <1>3 DEF GetEvent, TypeInv, TypeOK
    <2>2. pos' \in 0..Len(log) /\ end' \in 0..Len(log)
      BY <1>1, <1>3, <2>1 DEF GetEvent
    <2> QED BY <1>1, <1>3, <2>2 DEF GetEvent, TypeInv, TypeOK
  <1>4. CASE ApplyNext
    <2>1. pos \in 0..Len(log) /\ end \in 0..Len(log) /\ ahead \in 0..Len(log) /\ pos < end
      BY <1>4 DEF ApplyNext, TypeInv, TypeOK
    <2>2. pos + 1 \in 1..Len(log) /\ pos + 1 \in 0..Len(log)
      BY <1>1, <2>1
    <2>3. log[pos + 1] \in EventMessage /\ cache \in Mailboxes
      BY <2>2 DEF TypeInv, TypeOK, Mailboxes
    <2>4. cache' \in Mailboxes
      BY <1>4, <2>3, ApplyFacts DEF ApplyNext
    <2> QED BY <1>1, <1>4, <2>1, <2>2, <2>4 DEF ApplyNext, TypeInv, TypeOK, Mailboxes
  <1>5. CASE Crash
    BY <1>1, <1>5, EventAssumption DEF Crash, TypeInv, TypeOK
  <1> QED BY <1>2, <1>3, <1>4, <1>5 DEF ClientStep

\* The start: the stream is empty and the client has seen nothing.
LEMMA InitHistory == Init => HistoryInv
  <1> SUFFICES ASSUME Init PROVE HistoryInv
    OBVIOUS
  <1> DEFINE H == [n \in {0} |-> box]
  <1>1. Len(log) = 0 /\ pc = "new" /\ cursor = Nil
    BY DEF Init
  <1>2. box \in Mailboxes
    BY NewMessageType DEF Init, Mailboxes
  <1>3. H[0] = box
    OBVIOUS
  <1> HIDE DEF H
  <1>4. Past(log, H, box)
    <2>1. (\A a \in 0..0 : a = 0 /\ \A i \in 1..a : FALSE) /\ \A a \in 1..0 : FALSE
      OBVIOUS
    <2> QED BY <1>1, <1>2, <1>3, <2>1 DEF Past
  <1>5. ClientInv(H)
    BY <1>1 DEF ClientInv
  <1> QED BY <1>4, <1>5 DEF HistoryInv

\* A change of the server: the history has one more mailbox, and the client's
\* position and what it has seen are where they were.
LEMMA LogsHistory == ASSUME TypeInv, HistoryInv, NEW e, Logs(e) PROVE HistoryInv'
  <1> DEFINE n == Len(log)
  <1>1. PICK H : Past(log, H, box) /\ ClientInv(H)
    BY DEF HistoryInv
  <1>2. /\ n \in Nat /\ Len(log') = n + 1 /\ log'[n + 1] = e
        /\ \A i \in 1..n : log'[i] = log[i]
    BY LogsFacts
  <1>3. e \in EventMessage /\ box' = Apply(box, e) /\ Fits(log, e, box, n)
    BY DEF Logs
  <1>4. PICK G : G[n + 1] = box' /\ \A a \in 0..n : G[a] = H[a]
    <2> DEFINE F == [a \in 0..(n + 1) |-> IF a = n + 1 THEN box' ELSE H[a]]
    <2>1. F[n + 1] = box' /\ \A a \in 0..n : F[a] = H[a]
      BY <1>2
    <2> HIDE DEF F
    <2> QED BY <2>1, Zenon
  <1>5. (\A a \in 0..(n + 1) : a = n + 1 \/ a \in 0..n) /\ n \in 0..n /\ \A a \in 0..n : a \in Nat
    BY <1>2
  <1>6. \A a \in 0..n : \A i \in 1..a : i \in 1..n
    BY <1>2
  <1>7. \A a \in 0..n : Begins(log, log', a)
    BY <1>2, <1>6, Zenon DEF Begins
  <1>8. \A i \in 1..n : log[i] \in EventMessage
    BY DEF TypeInv, TypeOK
  <1>9. box \in Mailboxes /\ box' \in Mailboxes
    BY <1>3, ApplyFacts DEF TypeInv, TypeOK, Mailboxes
  <1> HIDE DEF n
  <1>10. \A a \in 0..n : H[a] \in Mailboxes /\ \A i \in 1..a : EntryRight(log, H[a], i, a)
    BY <1>1 DEF Past, n
  <1>11. H[n] = box
    BY <1>1 DEF Past, n
  <1>12. ASSUME NEW a \in 0..(n + 1), NEW i \in 1..a PROVE EntryRight(log', G[a], i, a)
    <2>1. CASE a \in 0..n
      <3>1. EntryRight(log, H[a], i, a) /\ G[a] = H[a] /\ a \in Nat /\ Begins(log, log', a)
        BY <1>4, <1>5, <1>7, <1>10, <2>1
      <3> QED BY <3>1, SameBeginning
    <2>2. CASE a = n + 1
      <3>1. G[a] = Apply(box, log'[n + 1])
        BY <1>2, <1>3, <1>4, <2>2
      <3>2. CASE i \in 1..n
        <4>1. EntryRight(log, box, i, n) /\ Begins(log, log', n) /\ log[i] \in EventMessage
          BY <1>5, <1>7, <1>8, <1>10, <1>11, <3>2 DEF n
        <4> QED BY <1>2, <1>3, <1>9, <2>2, <3>1, <3>2, <4>1, EntriesStayRight
      <3>3. CASE i = n + 1
        BY <1>2, <1>3, <1>9, <2>2, <3>1, <3>3, NewEntryRight
      <3> QED BY <1>2, <2>2, <3>2, <3>3
    <2> QED BY <1>5, <2>1, <2>2
  <1>13. ASSUME NEW a \in 1..(n + 1)
         PROVE  G[a] = Apply(G[a - 1], log'[a]) /\ DiffRight(log'[a], G[a - 1])
    <2>1. CASE a \in 1..n
      <3>1. H[a] = Apply(H[a - 1], log[a]) /\ DiffRight(log[a], H[a - 1])
        BY <1>1, <2>1 DEF Past, n
      <3>2. a \in 0..n /\ a - 1 \in 0..n
        BY <1>2, <2>1
      <3>3. G[a] = H[a] /\ G[a - 1] = H[a - 1] /\ log'[a] = log[a]
        BY <1>2, <1>4, <2>1, <3>2 DEF n
      <3> QED BY <3>1, <3>3
    <2>2. CASE a = n + 1
      <3>1. a - 1 = n
        BY <1>2, <2>2
      <3>2. G[a - 1] = box
        BY <1>4, <1>5, <1>11, <3>1
      <3>3. DiffRight(e, box)
        BY <1>3 DEF Fits
      <3> QED BY <1>2, <1>3, <1>4, <2>2, <3>2, <3>3
    <2> QED BY <1>2, <2>1, <2>2
  <1>14. Past(log', G, box')
    <2>1. \A a \in 0..(n + 1) : G[a] \in Mailboxes
      BY <1>4, <1>5, <1>9, <1>10
    <2>2. Len(log') = n + 1
      BY <1>2
    <2> QED BY <1>4, <1>12, <1>13, <2>1, <2>2 DEF Past
  <1>15. ClientInv(G)'
    <2>1. UNCHANGED <<cache, cursor, pc, pos, end, crashes, ahead>>
      BY DEF Logs
    <2>2. ahead \in 0..n
      BY DEF TypeInv, TypeOK, n
    <2>3. G[ahead] = H[ahead] /\ ahead \in Nat /\ Begins(log, log', ahead)
      BY <1>4, <1>5, <1>7, <2>2
    <2>4. \A c, b, k : Settled(log, c, b, k, ahead) <=> Settled(log', c, b, k, ahead)
      BY <2>3, SameBeginning
    <2> QED BY <1>1, <2>1, <2>3, <2>4 DEF ClientInv
  <1> QED BY <1>14, <1>15 DEF HistoryInv

\* Numbers of the client: what TypeInv says of them.
LEMMA ClientNumbers ==
  ASSUME TypeInv
  PROVE  /\ Len(log) \in Nat /\ ahead \in 0..Len(log) /\ ahead \in Nat
         /\ pos \in 0..Len(log) /\ pos \in Nat /\ end \in 0..Len(log) /\ end \in Nat
         /\ end # Nil /\ pos # Nil
         /\ cursor # Nil => cursor \in 0..Len(log) /\ cursor \in Nat
         /\ cache \in Mailboxes /\ box \in Mailboxes
         /\ \A i \in 1..Len(log) : log[i] \in EventMessage
  <1>1. Len(log) \in Nat
    BY DEF TypeInv
  <1>2. /\ ahead \in 0..Len(log) /\ pos \in 0..Len(log) /\ end \in 0..Len(log)
        /\ cursor \in {Nil} \cup 0..Len(log)
    BY DEF TypeInv, TypeOK
  <1>3. \A n \in 0..Len(log) : n \in Nat /\ n # Nil
    BY <1>1, NilAssumption
  <1> QED BY <1>1, <1>2, <1>3 DEF TypeInv, TypeOK, Mailboxes

\* One entry applied: it is a change the cache has had before, or the next one.
LEMMA ApplyHistory ==
  ASSUME TypeInv, NEW H, Past(log, H, box), ClientInv(H), ApplyNext PROVE ClientInv(H)'
  <1>1. /\ pc = "apply" /\ pos < end /\ pos <= ahead /\ (cursor # Nil => cursor <= pos)
        /\ Settled(log, cache, H[ahead], pos, ahead)
    BY DEF ApplyNext, ClientInv
  <1>2. pos \in Nat /\ ahead \in Nat /\ Len(log) \in Nat /\ ahead \in 0..Len(log)
          /\ pos + 1 \in 1..Len(log) /\ pos + 1 \in 0..Len(log)
    <2>1. end \in 0..Len(log) /\ pos \in Nat /\ Len(log) \in Nat
      BY ClientNumbers
    <2> QED BY <1>1, <2>1, ClientNumbers
  <1>3. log[pos + 1] \in EventMessage /\ cache \in Mailboxes /\ H[ahead] \in Mailboxes
    BY <1>2, ClientNumbers DEF Past
  <1>4. /\ cache' = Apply(cache, log[pos + 1]) /\ pos' = pos + 1 /\ pc' = "apply"
        /\ ahead' = IF pos + 1 > ahead THEN pos + 1 ELSE ahead
        /\ UNCHANGED <<log, cursor>>
    BY <1>1 DEF ApplyNext
  <1>5. pos' <= ahead' /\ (cursor' # Nil => cursor' <= pos' /\ cursor' <= ahead')
    <2>1. cursor # Nil => cursor \in Nat
      BY ClientNumbers
    <2> QED BY <1>1, <1>2, <1>4, <2>1
  <1>6. CASE pos < ahead
    <2>1. ahead' = ahead /\ pos + 1 \in 1..ahead
      BY <1>2, <1>4, <1>6
    <2>2. EntryRight(log, H[ahead], pos + 1, ahead)
      BY <1>2, <2>1 DEF Past
    <2>3. Settled(log, Apply(cache, log[pos + 1]), H[ahead], pos + 1, ahead)
      BY <1>1, <1>2, <1>3, <1>6, <2>2, ApplySettled
    <2> QED BY <1>4, <1>5, <2>1, <2>3 DEF ClientInv
  <1>7. CASE pos = ahead
    <2>1. cache = H[pos]
      BY <1>1, <1>2, <1>3, <1>7, SettledAtEnd
    <2>2. ahead' = pos + 1 /\ pos + 1 - 1 = pos
      BY <1>2, <1>4, <1>7
    <2>3. H[pos + 1] = Apply(H[pos], log[pos + 1])
      BY <1>2, <2>2 DEF Past
    <2>4. Settled(log, cache', H[pos + 1], pos + 1, pos + 1)
      BY <1>4, <2>1, <2>3, SettledSelf
    <2> QED BY <1>4, <1>5, <2>2, <2>4 DEF ClientInv
  <1> QED BY <1>1, <1>2, <1>6, <1>7

\* The client's other steps and its crashes.
LEMMA ClientHistory ==
  ASSUME TypeInv, NEW H, Past(log, H, box), ClientInv(H),
         Seed \/ List \/ GetEvent \/ SaveCursor \/ Crash
  PROVE  ClientInv(H)'
  <1>1. CASE Seed
    BY <1>1 DEF Seed, ClientInv
  <1>2. CASE List
    <2>1. H[Len(log)] = box
      BY DEF Past
    <2>2. /\ cache' = box /\ ahead' = Len(log) /\ pos' = end /\ pc' = "apply"
          /\ UNCHANGED <<log, cursor>> /\ (pc = "list" \/ pc = "refetch")
      BY <1>2 DEF List
    <2>3. Settled(log, cache', H[Len(log)], end, Len(log))
      BY <2>1, <2>2, SettledSelf
    <2>4. end <= Len(log) /\ (cursor # Nil => cursor <= Len(log))
      BY ClientNumbers
    <2>5. cursor # Nil => cursor <= end
      BY <2>2 DEF ClientInv
    <2> QED BY <2>2, <2>3, <2>4, <2>5 DEF ClientInv
  <1>3. CASE GetEvent
    <2>1. pc = "idle" /\ cursor # Nil /\ UNCHANGED <<log, cache, cursor, ahead>>
            /\ pos' = cursor /\ (pc' = "apply" \/ (pc' = "refetch" /\ end' = Len(log)))
      BY <1>3 DEF GetEvent, TypeInv
    <2>2. cursor <= cursor /\ cursor <= Len(log)
      BY <2>1, ClientNumbers
    <2> QED BY <2>1, <2>2 DEF ClientInv
  <1>4. CASE SaveCursor
    <2>1. pc = "apply" /\ pos = end /\ cursor' = pos /\ pc' = "idle"
            /\ UNCHANGED <<log, cache, ahead>>
      BY <1>4 DEF SaveCursor
    <2> QED BY <2>1 DEF ClientInv
  <1>5. CASE Crash
    <2>1. /\ pc \in {"list", "apply", "refetch"}
          /\ pc' = (IF cursor = Nil THEN "new" ELSE "idle")
          /\ UNCHANGED <<log, cache, cursor, ahead>>
      BY <1>5 DEF Crash
    <2>2. CASE pc = "apply" /\ cursor # Nil
      <3>1. cursor \in Nat /\ pos \in Nat /\ ahead \in Nat /\ cursor <= pos
        BY <2>2, ClientNumbers DEF ClientInv
      <3>2. Settled(log, cache, H[ahead], cursor, ahead)
        BY <2>2, <3>1, EarlierSettled DEF ClientInv
      <3> QED BY <2>1, <2>2, <3>2 DEF ClientInv
    <2>3. CASE ~(pc = "apply" /\ cursor # Nil)
      BY <2>1, <2>3 DEF ClientInv
    <2> QED BY <2>2, <2>3
  <1> QED BY <1>1, <1>2, <1>3, <1>4, <1>5

\* A step that changes nothing.
LEMMA NothingChanged == TypeInv /\ HistoryInv /\ UNCHANGED vars => TypeInv' /\ HistoryInv'
  <1> SUFFICES ASSUME TypeInv, HistoryInv, UNCHANGED vars PROVE TypeInv' /\ HistoryInv'
    OBVIOUS
  <1>1. TypeInv'
    BY DEF TypeInv, TypeOK, vars
  <1>2. PICK H : Past(log, H, box) /\ ClientInv(H)
    BY DEF HistoryInv
  <1>3. Past(log', H, box') /\ ClientInv(H)'
    BY <1>2 DEF ClientInv, vars
  <1> QED BY <1>1, <1>3 DEF HistoryInv

\* Every step keeps the invariant.
LEMMA StepInv == TypeInv /\ HistoryInv /\ [Next]_vars => TypeInv' /\ HistoryInv'
  <1> SUFFICES ASSUME TypeInv, HistoryInv, [Next]_vars PROVE TypeInv' /\ HistoryInv'
    OBVIOUS
  <1>1. CASE ServerStep
    BY <1>1, ServerLogs, LogsTypes, LogsHistory
  <1>2. CASE ClientStep \/ Crash
    <2>1. TypeInv'
      BY <1>2, ClientTypes
    <2>2. PICK H : Past(log, H, box) /\ ClientInv(H)
      BY DEF HistoryInv
    <2>3. UNCHANGED <<box, log>>
      BY <1>2 DEF ClientStep, Seed, List, GetEvent, ApplyNext, SaveCursor, Crash
    <2>4. ClientInv(H)'
      BY <1>2, <2>2, ApplyHistory, ClientHistory DEF ClientStep
    <2>5. Past(log', H, box')
      BY <2>2, <2>3
    <2> QED BY <2>1, <2>4, <2>5 DEF HistoryInv
  <1> QED BY <1>1, <1>2, NothingChanged DEF Next

\* The invariant.
THEOREM EventInvariant == Spec => [](TypeInv /\ HistoryInv)
  <1>1. Init => TypeInv /\ HistoryInv
    BY InitTypes, InitHistory
  <1> QED BY <1>1, StepInv, PTL DEF Spec

\* TypeOK for every mailbox and every stream.
THEOREM TypeCorrect == Spec => []TypeOK
  <1>1. TypeInv => TypeOK
    BY DEF TypeInv
  <1> QED BY <1>1, EventInvariant, PTL

\* DiffLabelIDs and Patch agree on every change that is applied for the first
\* time, whatever was applied twice before it.
THEOREM DiffAgreesCorrect == Spec => []DiffAgrees
  <1>1. ASSUME TypeInv, HistoryInv PROVE DiffAgrees
    <2> SUFFICES ASSUME pc = "apply", pos < end, pos = ahead PROVE DiffRight(log[pos + 1], cache)
      BY DEF DiffAgrees, DiffRight
    <2>1. PICK H : Past(log, H, box) /\ ClientInv(H)
      BY <1>1 DEF HistoryInv
    <2>2. pos \in Nat /\ ahead \in 0..Len(log) /\ end \in 0..Len(log) /\ Len(log) \in Nat
            /\ cache \in Mailboxes
      BY <1>1, ClientNumbers
    <2>3. pos + 1 \in 1..Len(log) /\ (pos + 1) - 1 = pos
      BY <2>2
    <2>4. H[pos] \in Mailboxes
      BY <2>1, <2>2 DEF Past
    <2>5. cache = H[pos]
      BY <2>1, <2>2, <2>4, SettledAtEnd DEF ClientInv
    <2>6. DiffRight(log[pos + 1], H[pos])
      BY <2>1, <2>3 DEF Past
    <2> QED BY <2>5, <2>6
  <1> QED BY <1>1, EventInvariant, PTL

-----------------------------------------------------------------------------
(* Replay                                                                  *)

\* One step of Replay from n, given the caches r of the steps before.
ReplayStep(s, c, n, r, i) == IF i = n THEN c ELSE Apply(r[i - 1], s[i])

\* r has the cache after each entry from n to k.
IsReplay(s, c, n, k, r) == r = [i \in n..k |-> ReplayStep(s, c, n, r, i)]

\* Replay defines a cache for every position: by induction on the position.
LEMMA ReplayExists ==
  ASSUME NEW s, NEW c, NEW n \in Nat, NEW N \in Nat, n <= N
  PROVE  \E r : IsReplay(s, c, n, N, r)
  <1> DEFINE S == {k \in n..N : \E r : IsReplay(s, c, n, k, r)}
  <1>1. n \in S
    <2> DEFINE r == [i \in n..n |-> c]
    <2>1. \A i \in n..n : ReplayStep(s, c, n, r, i) = c
      BY DEF ReplayStep
    <2> HIDE DEF r
    <2>2. r = [i \in n..n |-> ReplayStep(s, c, n, r, i)]
      BY <2>1 DEF r
    <2>3. IsReplay(s, c, n, n, r) /\ n \in n..N
      BY <2>2 DEF IsReplay
    <2> QED BY <2>3
  <1>2. ASSUME NEW k \in n..N, k \in S, k < N PROVE k + 1 \in S
    <2>1. PICK r : IsReplay(s, c, n, k, r)
      BY <1>2
    <2> DEFINE g == [i \in n..(k + 1) |-> IF i \in n..k THEN r[i] ELSE ReplayStep(s, c, n, r, i)]
    <2>2. \A i \in n..(k + 1) : ReplayStep(s, c, n, g, i) = ReplayStep(s, c, n, r, i)
      <3>1. \A i \in n..(k + 1) : i # n => i - 1 \in n..k
        BY <1>2
      <3>2. \A i \in n..k : g[i] = r[i]
        BY <1>2
      <3> QED BY <3>1, <3>2 DEF ReplayStep
    <2>3. \A i \in n..k : r[i] = ReplayStep(s, c, n, r, i)
      BY <2>1 DEF IsReplay
    <2>4. \A i \in n..(k + 1) : g[i] = ReplayStep(s, c, n, g, i)
      BY <2>2, <2>3
    <2>5. g = [i \in n..(k + 1) |-> g[i]]
      OBVIOUS
    <2> HIDE DEF g
    <2>6. IsReplay(s, c, n, k + 1, g)
      BY <2>4, <2>5 DEF IsReplay
    <2>7. k + 1 \in n..N
      BY <1>2
    <2> QED BY <2>6, <2>7
  <1> HIDE DEF S
  <1>3. \A k \in n..N : k \in S
    BY <1>1, <1>2, UpTo
  <1>4. N \in n..N
    OBVIOUS
  <1> QED BY <1>3, <1>4 DEF S

\* So Replay is the last value of that function.
LEMMA ReplayIsLast ==
  ASSUME NEW c, NEW n \in Nat, Len(log) \in Nat, n <= Len(log)
  PROVE  \E r : IsReplay(log, c, n, Len(log), r) /\ Replay(c, n) = r[Len(log)]
  <1>1. IsReplay(log, c, n, Len(log), CHOOSE r : IsReplay(log, c, n, Len(log), r))
    BY ReplayExists, Zenon
  <1>2. Replay(c, n) = (CHOOSE r : IsReplay(log, c, n, Len(log), r))[Len(log)]
    BY Zenon DEF Replay, IsReplay, ReplayStep
  <1> QED BY <1>1, <1>2

\* The cache is right at position i of a replay: settled for what it has seen, and
\* beyond that the mailbox of the history.
OnCourse(s, H, a, x, i) ==
  /\ x \in Mailboxes
  /\ i <= a => Settled(s, x, H[a], i, a)
  /\ a <= i => x = H[i]

\* A replay of a settled cache ends in the mailbox.
LEMMA ReplayRight ==
  ASSUME TypeInv, NEW H, Past(log, H, box), NEW n \in Nat, n <= ahead,
         Settled(log, cache, H[ahead], n, ahead)
  PROVE  Replay(cache, n) = box
  <1> DEFINE N == Len(log)
             a == ahead
  <1>1. N \in Nat /\ a \in Nat /\ a \in 0..N /\ n <= N /\ n \in n..N /\ N \in n..N /\ a <= N
    BY ClientNumbers
  <1>2. \A i \in 0..N : H[i] \in Mailboxes
    BY DEF Past
  <1>3. \A i \in 1..N : log[i] \in EventMessage
    BY ClientNumbers
  <1>4. PICK r : IsReplay(log, cache, n, N, r) /\ Replay(cache, n) = r[N]
    BY <1>1, ReplayIsLast
  <1>5. \A i \in n..N : r[i] = ReplayStep(log, cache, n, r, i)
    BY <1>4 DEF IsReplay
  <1> HIDE DEF a
  <1> DEFINE S == {i \in n..N : OnCourse(log, H, a, r[i], i)}
  <1>6. n \in S
    <2>1. r[n] = cache /\ cache \in Mailboxes
      BY <1>1, <1>5, ClientNumbers DEF ReplayStep
    <2>2. Settled(log, cache, H[a], n, a)
      BY DEF a
    <2>3. a <= n => a = n
      BY <1>1 DEF a
    <2>4. a <= n => cache = H[n]
      BY <1>1, <1>2, <2>1, <2>2, <2>3, SettledAtEnd
    <2> QED BY <1>1, <2>1, <2>2, <2>4 DEF OnCourse
  <1>7. ASSUME NEW i \in n..N, i \in S, i < N PROVE i + 1 \in S
    <2>1. i \in Nat /\ i + 1 \in n..N /\ i + 1 \in 1..N /\ i + 1 # n /\ (i + 1) - 1 = i
      BY <1>1, <1>7
    <2>2. r[i + 1] = Apply(r[i], log[i + 1])
      BY <1>5, <2>1 DEF ReplayStep
    <2>3. OnCourse(log, H, a, r[i], i)
      BY <1>7
    <2>4. r[i] \in Mailboxes /\ log[i + 1] \in EventMessage
      BY <1>3, <2>1, <2>3 DEF OnCourse
    <2>5. r[i + 1] \in Mailboxes
      BY <2>2, <2>4, ApplyFacts
    <2>6. CASE i < a
      <3>1. Settled(log, r[i], H[a], i, a) /\ i + 1 \in 1..a /\ H[a] \in Mailboxes
        BY <1>1, <1>2, <2>1, <2>3, <2>6 DEF OnCourse
      <3>2. EntryRight(log, H[a], i + 1, a)
        BY <1>1, <3>1 DEF Past
      <3>3. Settled(log, r[i + 1], H[a], i + 1, a)
        BY <1>1, <2>1, <2>2, <2>4, <2>6, <3>1, <3>2, ApplySettled
      <3>4. a <= i + 1 => a = i + 1
        BY <1>1, <2>1, <2>6
      <3>5. a <= i + 1 => r[i + 1] = H[i + 1]
        BY <1>1, <2>5, <3>1, <3>3, <3>4, SettledAtEnd
      <3> QED BY <2>1, <2>5, <3>3, <3>5 DEF OnCourse
    <2>7. CASE a <= i
      <3>1. r[i] = H[i]
        BY <2>3, <2>7 DEF OnCourse
      <3>2. H[i + 1] = Apply(H[i], log[i + 1])
        BY <2>1 DEF Past
      <3>3. ~(i + 1 <= a)
        BY <1>1, <2>1, <2>7
      <3> QED BY <2>1, <2>2, <2>5, <3>1, <3>2, <3>3 DEF OnCourse
    <2> QED BY <1>1, <2>1, <2>6, <2>7
  <1> HIDE DEF S
  <1>8. \A i \in n..N : i \in S
    BY <1>1, <1>6, <1>7, UpTo
  <1>9. OnCourse(log, H, a, r[N], N)
    BY <1>1, <1>8 DEF S
  <1>10. r[N] = H[N]
    BY <1>1, <1>9 DEF OnCourse
  <1> QED BY <1>4, <1>10 DEF Past

\* The changes the client has not applied lead from its cache to the mailbox, after
\* any number of crashes, of pages applied again and of lists newer than the
\* cursor.
THEOREM NothingMissedCorrect == Spec => []NothingMissed
  <1>1. ASSUME TypeInv, HistoryInv PROVE NothingMissed
    <2>1. PICK H : Past(log, H, box) /\ ClientInv(H)
      BY <1>1 DEF HistoryInv
    <2>2. ASSUME pc \in {"idle", "refetch"}, cursor # Nil PROVE Replay(cache, cursor) = box
      BY <1>1, <2>1, <2>2, ClientNumbers, ReplayRight DEF ClientInv
    <2>3. ASSUME pc = "apply" PROVE Replay(cache, pos) = box
      BY <1>1, <2>1, <2>3, ClientNumbers, ReplayRight DEF ClientInv
    <2> QED BY <2>2, <2>3 DEF NothingMissed
  <1> QED BY <1>1, EventInvariant, PTL
=============================================================================
