-------------------------- MODULE CronOutboxProofs --------------------------
(***************************************************************************)
(* Proofs about CronOutbox, for any number and size of rotated files.  The *)
(* inductive invariant IInv joins the properties that TLC checks with what *)
(* ties them together: older files hold older ids, the next id is ahead of *)
(* all of them, and what a reader of this epoch was sent is at most as new *)
(* as something that is still retained.                                    *)
(***************************************************************************)
EXTENDS CronOutbox, FiniteSetTheorems, WellFoundedInduction, TLAPS

\* Older files hold older ids.
Ordered(s) ==
    \A i, j \in Slot : i < j => \A d \in s[j], e \in s[i] : d.id < e.id

\* No file holds an id twice.
Distinct(s) == \A i \in Slot : Unambiguous(s[i])

\* No file outgrows the rotation threshold.
Fits(s) == \A i \in Slot : IsFiniteSet(s[i]) /\ Cardinality(s[i]) <= RotateAt

WellFiled(s) == s \in [Slot -> SUBSET Event] /\ Ordered(s) /\ Distinct(s) /\ Fits(s)

\* The next id is greater than all that are retained.
IdsAhead == up /\ nextId # 0 => \A e \in Window : e.id < nextId

\* An epoch is on disk before anything else happens.
EpochKnown ==
    /\ epochFile = "whole" <=> epoch # 0
    /\ up => epoch # 0
    /\ epoch = 0 => Window = {}

\* The marker is there before the first event.
Marked == Window # {} => marker = "whole"

\* Consumers know no epoch that is still to come.
SeenInEpoch == \A s \in seen : s.epoch <= epoch /\ s.epoch # 0

\* What was sent in this epoch is at most as new as something retained, unless
\* the files were deleted and the marker will renew the epoch.
SeenBelow ==
    \A s \in seen : s.epoch = epoch =>
        /\ marker = "whole"
        /\ up \/ Window # {} => \E e \in Window : s.event.id <= e.id

\* A cursor of this epoch stands on an event that was sent.
CursorSeen ==
    /\ cursor.epoch <= epoch
    /\ cursor.epoch = epoch =>
           cursor.id = 0 \/ \E s \in seen : s.epoch = epoch /\ s.event.id = cursor.id

IInv ==
    /\ TypeOK
    /\ WellFiled(slots)
    /\ IdsAhead
    /\ EpochKnown
    /\ Marked
    /\ SeenInEpoch
    /\ SeenBelow
    /\ CursorSeen
    /\ NeverAliased
    /\ CursorSkipsNothing
    /\ IndexIsWindow

-----------------------------------------------------------------------------
(* Ids *)

\* A set of numbers below a bound has a greatest.
LEMMA BoundedMaximum ==
    ASSUME NEW M \in Nat, NEW T \in SUBSET (0 .. M), T # {}
    PROVE  \E n \in T : \A m \in T : m <= n
<1> DEFINE D == {M - n : n \in T}
           R == OpToRel(<, Nat)
<1>1. \A n \in T : n \in Nat /\ M - n \in Nat
  OBVIOUS
<1>2. D \subseteq Nat
  BY <1>1
<1>3. D # {}
  OBVIOUS
<1>4. IsWellFoundedOn(R, Nat)
  BY NatLessThanWellFounded
<1>5. PICK d \in D : \A m \in D : ~(<<m, d>> \in R)
  <2> HIDE DEF D, R
  <2> QED
    BY <1>2, <1>3, <1>4, WFMin
<1>6. \A m \in D : ~(m < d)
  BY <1>2, <1>5 DEF OpToRel
<1>7. PICK n \in T : d = M - n
  OBVIOUS
<1>8. ASSUME NEW m \in T PROVE m <= n
  <2>1. M - m \in D
    OBVIOUS
  <2>2. ~(M - m < M - n)
    BY <1>6, <1>7, <2>1
  <2>3. m \in Nat /\ n \in Nat
    OBVIOUS
  <2> QED
    BY <2>2, <2>3
<1> QED
  BY <1>8

\* NewestId is the greatest id of a set of events, and 0 of none.
LEMMA NewestIsGreatest ==
    ASSUME NEW S \in SUBSET Event
    PROVE  /\ NewestId(S) \in 0 .. MaxEventId
           /\ \A e \in S : e.id <= NewestId(S)
           /\ S = {} => NewestId(S) = 0
           /\ S # {} => \E e \in S : e.id = NewestId(S)
<1>1. MaxEventId \in Nat
  BY OutboxConstants
<1>2. CASE S = {}
  BY <1>1, <1>2 DEF NewestId
<1>3. CASE S # {}
  <2> DEFINE T == {e.id : e \in S}
             n == CHOOSE n \in T : \A e \in S : e.id <= n
  <2>1. T \in SUBSET (0 .. MaxEventId) /\ T # {}
    BY <1>1, <1>3 DEF Event
  <2>2. \E m \in T : \A k \in T : k <= m
    <3> HIDE DEF T
    <3> QED
      BY <1>1, <2>1, BoundedMaximum
  <2>3. \E m \in T : \A e \in S : e.id <= m
    BY <2>2
  <2>4. n \in T /\ \A e \in S : e.id <= n
    <3> HIDE DEF T
    <3> QED
      BY <2>3
  <2>5. NewestId(S) = n
    BY <1>3 DEF NewestId
  <2> QED
    BY <1>3, <2>1, <2>4, <2>5
<1> QED
  BY <1>2, <1>3

\* Files in order hold no id twice.
LEMMA OneEventPerId ==
    ASSUME NEW s, WellFiled(s)
    PROVE  Unambiguous(WindowOf(s))
<1> SUFFICES ASSUME NEW d \in WindowOf(s), NEW e \in WindowOf(s), d.id = e.id
             PROVE  d = e
  BY DEF Unambiguous
<1>1. PICK i \in Slot : d \in s[i]
  BY DEF WindowOf
<1>2. PICK j \in Slot : e \in s[j]
  BY DEF WindowOf
<1>3. d \in Event /\ e \in Event
  BY <1>1, <1>2 DEF WellFiled
<1>4. d.id \in Nat /\ i \in Nat /\ j \in Nat
  BY <1>3, OutboxConstants DEF Event, Slot
<1>5. ~(i < j) /\ ~(j < i)
  BY <1>1, <1>2, <1>4 DEF WellFiled, Ordered
<1> QED
  BY <1>1, <1>2, <1>4, <1>5 DEF WellFiled, Distinct, Unambiguous

\* The retained window is finite: its ids are distinct and bounded.
LEMMA WindowIsFinite ==
    ASSUME IInv
    PROVE  IsFiniteSet(Window)
<1>1. Window \in SUBSET Event /\ Unambiguous(Window)
  BY OneEventPerId DEF IInv, WellFiled, Window, WindowOf
<1>2. MaxEventId \in Nat
  BY OutboxConstants
<1> DEFINE f == [x \in Window |-> x.id]
<1>3. f \in Injection(Window, 1 .. MaxEventId)
  BY <1>1 DEF Unambiguous, Event, Injection, IsInjective
<1>4. IsFiniteSet(1 .. MaxEventId)
  BY <1>2, FS_Interval
<1> HIDE DEF f
<1> QED
  BY <1>3, <1>4, FS_Injection

\* Ids start over exactly when nothing is retained.
LEMMA SeedOfNone ==
    ASSUME IInv
    PROVE  Seed = 1 <=> Window = {}
<1>1. Window \in SUBSET Event /\ \A d \in Window : d.id \in Nat /\ d.id # 0
  BY OutboxConstants DEF IInv, WellFiled, Window, WindowOf, Event
<1> QED
  BY <1>1, NewestIsGreatest, OutboxConstants DEF Seed

-----------------------------------------------------------------------------
(* Writing *)

\* What a write does to files s before the event is added: t lost some of the
\* oldest file at most, for a full current one.
Trimmed(s, t) ==
    /\ WellFiled(t)
    /\ WindowOf(t) \subseteq WindowOf(s)
    /\ WindowOf(s) \ WindowOf(t) \subseteq s[Keep]
    /\ \A d \in WindowOf(s) \ WindowOf(t), e \in WindowOf(t) : d.id < e.id
    /\ WindowOf(s) \subseteq WindowOf(t) \/ (s[0] \subseteq WindowOf(t) /\ Cardinality(s[0]) >= RotateAt)

LEMMA NotTrimmed ==
    ASSUME NEW s, WellFiled(s)
    PROVE  Trimmed(s, s)
BY DEF Trimmed

\* A rotation that stops after any number of renames trims the files.
LEMMA RotationTrims ==
    ASSUME NEW s, WellFiled(s), NEW k \in 1 .. Keep, Cardinality(s[0]) >= RotateAt
    PROVE  /\ Trimmed(s, Rotated(s, k))
           /\ k = Keep => Rotated(s, k)[0] = {}
<1> DEFINE t == Rotated(s, k)
<1>1. Keep \in Nat \ {0} /\ k \in Nat /\ k # 0 /\ Slot = 0 .. Keep
  BY OutboxConstants DEF Slot
<1>2. /\ \A i \in Slot : i < Keep - k => t[i] = s[i]
      /\ t[Keep - k] = {}
      /\ \A i \in Slot : i > Keep - k /\ i # Keep => t[i] = s[i - 1]
      /\ t[Keep] = IF s[Keep - 1] = {} THEN s[Keep] ELSE s[Keep - 1]
      /\ t = [i \in Slot |-> t[i]]
  BY <1>1 DEF Rotated
<1> HIDE DEF t
<1>3. s \in [Slot -> SUBSET Event]
  BY DEF WellFiled
<1> DEFINE From(i, j) == /\ t[i] = s[j]
                         /\ j = i \/ j = i - 1
                         /\ j = i - 1 => i > Keep - k
                         /\ j = i => i < Keep - k \/ i = Keep
<1>4. ASSUME NEW i \in Slot, t[i] # {}
      PROVE  \E j \in Slot : From(i, j)
  <2>1. CASE i < Keep - k
    <3>1. t[i] = s[i]
      BY <1>2, <2>1
    <3>2. From(i, i)
      BY <1>1, <2>1, <3>1
    <3> QED
      BY <3>2
  <2>2. CASE i > Keep - k /\ i # Keep
    <3>1. t[i] = s[i - 1]
      BY <1>2, <2>2
    <3>2. From(i, i - 1) /\ i - 1 \in Slot
      BY <1>1, <2>2, <3>1
    <3> QED
      BY <3>2
  <2>3. CASE i = Keep
    <3>1. From(i, i) \/ From(i, i - 1)
      BY <1>1, <1>2, <2>3
    <3>2. i - 1 \in Slot
      BY <1>1, <2>3
    <3> QED
      BY <3>1, <3>2
  <2>4. i # Keep - k
    BY <1>2, <1>4
  <2>5. i \in Int /\ Keep - k \in Int
    BY <1>1
  <2> QED
    BY <2>1, <2>2, <2>3, <2>4, <2>5
<1>5. t \in [Slot -> SUBSET Event]
  <2>1. ASSUME NEW i \in Slot PROVE t[i] \in SUBSET Event
    <3>1. t[i] = {} \/ \E j \in Slot : t[i] = s[j]
      BY <1>4
    <3> QED
      BY <1>3, <3>1
  <2> QED
    BY <1>2, <2>1
<1>6. Ordered(t)
  <2> SUFFICES ASSUME NEW i \in Slot, NEW j \in Slot, i < j,
                      NEW d \in t[j], NEW e \in t[i]
               PROVE  d.id < e.id
    BY DEF Ordered
  <2>1. t[i] # {} /\ t[j] # {}
    OBVIOUS
  <2>2. PICK a \in Slot : From(i, a)
    <3> HIDE DEF From
    <3> QED
      BY <1>4, <2>1
  <2>3. PICK b \in Slot : From(j, b)
    <3> HIDE DEF From
    <3> QED
      BY <1>4, <2>1
  <2>4. a < b
    BY <1>1, <2>2, <2>3
  <2> QED
    BY <2>2, <2>3, <2>4 DEF WellFiled, Ordered
<1>7. Distinct(t)
  <2>1. ASSUME NEW i \in Slot PROVE Unambiguous(t[i])
    <3>1. t[i] = {} \/ \E j \in Slot : t[i] = s[j]
      BY <1>4
    <3> QED
      BY <3>1 DEF WellFiled, Distinct, Unambiguous
  <2> QED
    BY <2>1 DEF Distinct
<1>8. Fits(t)
  <2> SUFFICES ASSUME NEW i \in Slot
               PROVE  IsFiniteSet(t[i]) /\ Cardinality(t[i]) <= RotateAt
    BY DEF Fits
  <2>1. CASE t[i] = {}
    BY <2>1, FS_EmptySet, OutboxConstants
  <2>2. CASE t[i] # {}
    <3>1. \E j \in Slot : t[i] = s[j]
      BY <1>4, <2>2
    <3> QED
      BY <3>1 DEF WellFiled, Fits
  <2> QED
    BY <2>1, <2>2
<1>9. WindowOf(t) \subseteq WindowOf(s)
  <2>1. ASSUME NEW i \in Slot PROVE t[i] \subseteq WindowOf(s)
    <3>1. t[i] = {} \/ \E j \in Slot : t[i] = s[j]
      BY <1>4
    <3> QED
      BY <3>1 DEF WindowOf
  <2> QED
    BY <2>1 DEF WindowOf
<1>10. \A i \in Slot : i # Keep => s[i] \subseteq WindowOf(t)
  <2> SUFFICES ASSUME NEW i \in Slot, i # Keep, s[i] # {}
               PROVE  s[i] \subseteq WindowOf(t)
    OBVIOUS
  <2>1. CASE i < Keep - k
    BY <1>2, <2>1 DEF WindowOf
  <2>2. CASE ~(i < Keep - k) /\ i + 1 # Keep
    <3>1. i + 1 \in Slot /\ i + 1 > Keep - k /\ (i + 1) - 1 = i
      BY <1>1, <2>2
    <3>2. t[i + 1] = s[i]
      BY <1>2, <2>2, <3>1
    <3> QED
      BY <3>1, <3>2 DEF WindowOf
  <2>3. CASE i + 1 = Keep
    <3>1. Keep \in Slot /\ Keep - 1 = i
      BY <1>1, <2>3
    <3>2. t[Keep] = s[i]
      BY <1>2, <3>1
    <3> QED
      BY <3>1, <3>2 DEF WindowOf
  <2> QED
    BY <2>1, <2>2, <2>3
<1>11. WindowOf(s) \ WindowOf(t) \subseteq s[Keep]
  BY <1>10 DEF WindowOf
<1>12. ASSUME NEW d \in WindowOf(s) \ WindowOf(t), NEW e \in WindowOf(t)
       PROVE  d.id < e.id
  <2>1. d \in s[Keep] /\ Keep \in Slot
    BY <1>1, <1>11
  <2>2. s[Keep - 1] # {}
    BY <1>2, <2>1 DEF WindowOf
  <2>3. PICK i \in Slot : e \in t[i]
    BY DEF WindowOf
  <2>4. PICK j \in Slot : From(i, j)
    <3>1. t[i] # {}
      BY <2>3
    <3> HIDE DEF From
    <3> QED
      BY <1>4, <3>1
  <2>5. CASE j # Keep
    <3>1. j < Keep
      BY <1>1, <2>5
    <3> QED
      BY <2>1, <2>3, <2>4, <3>1 DEF WellFiled, Ordered
  <2>6. CASE j = Keep
    <3>1. i = Keep
      BY <1>1, <2>4, <2>6
    <3>2. t[Keep] = s[Keep - 1]
      BY <1>2, <2>2
    <3>3. e \in s[Keep - 1] /\ Keep - 1 \in Slot /\ Keep - 1 < Keep
      BY <1>1, <2>3, <3>1, <3>2
    <3> QED
      BY <2>1, <3>3 DEF WellFiled, Ordered
  <2> QED
    BY <2>5, <2>6
<1>13. s[0] \subseteq WindowOf(t)
  BY <1>1, <1>10
<1>14. ASSUME k = Keep PROVE t[0] = {}
  <2>1. Keep - k = 0
    BY <1>1, <1>14
  <2> QED
    BY <1>2, <2>1
<1>15. Trimmed(s, t)
  BY <1>5, <1>6, <1>7, <1>8, <1>9, <1>11, <1>12, <1>13 DEF Trimmed, WellFiled
<1> QED
  BY <1>14, <1>15 DEF t

\* An event with a new greatest id goes to the end of a file that has room.
LEMMA AddingOne ==
    ASSUME NEW t, WellFiled(t), Cardinality(t[0]) < RotateAt,
           NEW e \in Event, \A d \in WindowOf(t) : d.id < e.id
    PROVE  WellFiled(Added(t, e)) /\ WindowOf(Added(t, e)) = WindowOf(t) \cup {e}
<1> DEFINE u == Added(t, e)
<1>1. 0 \in Slot /\ Slot \subseteq Nat /\ RotateAt \in Nat
  BY OutboxConstants DEF Slot
<1>2. t \in [Slot -> SUBSET Event]
  BY DEF WellFiled
<1>3. /\ u \in [Slot -> SUBSET Event]
      /\ u[0] = t[0] \cup {e}
      /\ \A i \in Slot : i # 0 => u[i] = t[i]
  BY <1>1, <1>2 DEF Added
<1> HIDE DEF u
<1>4. \A i \in Slot : t[i] \subseteq WindowOf(t)
  BY DEF WindowOf
<1>5. Ordered(u)
  <2> SUFFICES ASSUME NEW i \in Slot, NEW j \in Slot, i < j,
                      NEW d \in u[j], NEW f \in u[i]
               PROVE  d.id < f.id
    BY DEF Ordered
  <2>1. d \in t[j]
    BY <1>1, <1>3
  <2>2. CASE f \in t[i]
    BY <2>1, <2>2 DEF WellFiled, Ordered
  <2>3. CASE f = e
    BY <1>4, <2>1, <2>3
  <2> QED
    BY <1>3, <2>2, <2>3
<1>6. Distinct(u)
  <2> SUFFICES ASSUME NEW i \in Slot, NEW d \in u[i], NEW f \in u[i], d.id = f.id
               PROVE  d = f
    BY DEF Distinct, Unambiguous
  <2>1. \A g \in t[i] : g.id < e.id /\ g.id \in Nat /\ e.id \in Nat
    BY <1>2, <1>4, OutboxConstants DEF Event
  <2>2. (d \in t[i] \/ d = e) /\ (f \in t[i] \/ f = e)
    BY <1>3
  <2>3. CASE d \in t[i] /\ f \in t[i]
    BY <2>3 DEF WellFiled, Distinct, Unambiguous
  <2>4. CASE d = e /\ f = e
    BY <2>4
  <2>5. CASE d = e /\ f \in t[i]
    BY <2>1, <2>5
  <2>6. CASE f = e /\ d \in t[i]
    BY <2>1, <2>6
  <2> QED
    BY <2>2, <2>3, <2>4, <2>5, <2>6
<1>7. Fits(u)
  <2>1. IsFiniteSet(t[0]) /\ Cardinality(t[0]) \in Nat
    BY <1>1, FS_CardinalityType DEF WellFiled, Fits
  <2>2. /\ IsFiniteSet(t[0] \cup {e})
        /\ Cardinality(t[0] \cup {e}) = IF e \in t[0] THEN Cardinality(t[0])
                                                      ELSE Cardinality(t[0]) + 1
    BY <2>1, FS_AddElement
  <2>3. IsFiniteSet(u[0]) /\ Cardinality(u[0]) <= RotateAt
    BY <1>1, <1>3, <2>1, <2>2
  <2> QED
    BY <1>3, <2>3 DEF WellFiled, Fits
<1>8. WindowOf(u) = WindowOf(t) \cup {e}
  BY <1>1, <1>3 DEF WindowOf
<1> QED
  BY <1>3, <1>5, <1>6, <1>7, <1>8 DEF u, WellFiled

\* The files an event is written to.
LEMMA ReadyFiles ==
    ASSUME WellFiled(slots)
    PROVE  /\ Trimmed(slots, ReadyToWrite)
           /\ Cardinality(ReadyToWrite[0]) < RotateAt
           /\ ~NeedsRotation => ReadyToWrite = slots
<1>1. Keep \in 1 .. Keep /\ RotateAt \in Nat \ {0} /\ 0 \in Slot
  BY OutboxConstants DEF Slot
<1>2. IsFiniteSet(slots[0]) /\ Cardinality(slots[0]) \in Nat
  BY <1>1, FS_CardinalityType DEF WellFiled, Fits
<1>3. CASE NeedsRotation
  <2>1. Trimmed(slots, Rotated(slots, Keep)) /\ Rotated(slots, Keep)[0] = {}
    BY <1>1, <1>3, RotationTrims DEF NeedsRotation
  <2> QED
    BY <1>1, <1>3, <2>1, FS_EmptySet DEF ReadyToWrite
<1>4. CASE ~NeedsRotation
  BY <1>1, <1>2, <1>4, NotTrimmed DEF NeedsRotation, ReadyToWrite
<1> QED
  BY <1>3, <1>4

\* What any append leaves, complete or not: the files of before without some
\* of the oldest file, and perhaps the new event.
LEMMA AppendWindow ==
    ASSUME IInv, up, nextId # 0, NEW e,
           e = [id |-> nextId, fire |-> fires + 1],
           AppendFails(e) \/ AppendSucceeds(e)
    PROVE  /\ e \in Event
           /\ WellFiled(slots')
           /\ Window' \subseteq Window \cup {e}
           /\ Window \ Window' \subseteq slots[Keep]
           /\ \A d \in Window \ Window', f \in Window \cap Window' : d.id < f.id
           /\ Window \subseteq Window' \/ (slots[0] \subseteq Window' /\ Cardinality(slots[0]) >= RotateAt)
           /\ AppendSucceeds(e) /\ ~NeedsRotation => Window' = Window \cup {e}
           /\ marker' = "whole" \/ (slots' = slots /\ marker # "whole")
<1>1. e \in Event /\ e.id = nextId
  BY OutboxConstants DEF IInv, TypeOK, Event
<1>2. WellFiled(slots)
  BY DEF IInv
<1>3. \A d \in WindowOf(slots) : d.id < e.id
  BY <1>1 DEF IInv, IdsAhead, Window
<1> DEFINE r == ReadyToWrite
<1>4. Trimmed(slots, r) /\ Cardinality(r[0]) < RotateAt /\ (~NeedsRotation => r = slots)
  BY <1>2, ReadyFiles
<1>5. WellFiled(Added(r, e)) /\ WindowOf(Added(r, e)) = WindowOf(r) \cup {e}
  <2>1. WellFiled(r) /\ WindowOf(r) \subseteq WindowOf(slots)
    BY <1>4 DEF Trimmed
  <2> HIDE DEF r
  <2> QED
    BY <1>1, <1>3, <1>4, <2>1, AddingOne
<1> HIDE DEF r
<1>6. PICK t : /\ Trimmed(slots, t)
               /\ slots' = t \/ (slots' = Added(r, e) /\ t = r)
  <2>1. CASE slots' = slots
    BY <1>2, <2>1, NotTrimmed
  <2>2. CASE NeedsRotation /\ \E k \in 1 .. Keep : slots' = Rotated(slots, k)
    BY <1>2, <2>2, RotationTrims DEF NeedsRotation
  <2>3. CASE slots' = r \/ slots' = Added(r, e)
    BY <1>4, <2>3
  <2> QED
    BY <2>1, <2>2, <2>3 DEF AppendFails, AppendSucceeds, r
<1>7. WellFiled(slots') /\ (Window' = WindowOf(t) \/ Window' = WindowOf(t) \cup {e})
  <2>1. Window' = WindowOf(slots')
    BY DEF Window
  <2>2. WellFiled(t)
    BY <1>6 DEF Trimmed
  <2> QED
    BY <1>5, <1>6, <2>1, <2>2
<1>8. /\ WindowOf(t) \subseteq Window
      /\ Window \ WindowOf(t) \subseteq slots[Keep]
      /\ \A d \in Window \ WindowOf(t), f \in WindowOf(t) : d.id < f.id
      /\ Window \subseteq WindowOf(t) \/ (slots[0] \subseteq WindowOf(t) /\ Cardinality(slots[0]) >= RotateAt)
  BY <1>6 DEF Trimmed, Window
<1>9. e \notin Window
  <2>1. \A d \in Window : d.id < nextId /\ d.id \in Nat
    BY <1>2, OutboxConstants DEF IInv, IdsAhead, WellFiled, Window, WindowOf, Event
  <2> QED
    BY <1>1, <2>1
<1>10. AppendSucceeds(e) /\ ~NeedsRotation => Window' = Window \cup {e}
  BY <1>4, <1>5 DEF AppendSucceeds, Window, r
<1>11. marker' = "whole" \/ (slots' = slots /\ marker # "whole")
  BY DEF AppendFails, AppendSucceeds, MarkStarted, MarkFailed
<1> QED
  BY <1>1, <1>7, <1>8, <1>9, <1>10, <1>11

-----------------------------------------------------------------------------
(* The invariant *)

LEMMA InitInv == Init => IInv
<1> SUFFICES ASSUME Init PROVE IInv
  OBVIOUS
<1>1. Keep \in Nat \ {0} /\ RotateAt \in Nat \ {0} /\ MaxEventId \in Nat \ {0}
  BY OutboxConstants
<1>2. \A i \in Slot : slots[i] = {}
  BY DEF Init
<1>3. Window = {}
  BY <1>2 DEF Window, WindowOf
<1>4. TypeOK
  <2>1. slots \in [Slot -> SUBSET Event] /\ torn \in BOOLEAN /\ up \in BOOLEAN
    BY Zenon DEF Init
  <2>2. cursor \in [epoch : Nat, id : 0 .. MaxEventId] /\ nextId \in 0 .. MaxEventId
    BY <1>1 DEF Init
  <2>3. epochFile \in FileState /\ marker \in FileState /\ degraded \in {"no", "outbox", "store"}
    BY DEF Init, FileState
  <2>4. epoch \in Nat /\ fires \in Nat
    BY DEF Init
  <2>5. retained \subseteq Event /\ seen \subseteq Sent /\ opened \subseteq seen
    BY DEF Init
  <2> QED
    BY <2>1, <2>2, <2>3, <2>4, <2>5 DEF TypeOK
<1>5. WellFiled(slots)
  BY <1>1, <1>2, FS_EmptySet DEF Init, WellFiled, Ordered, Distinct, Unambiguous, Fits
<1> QED
  BY <1>1, <1>3, <1>4, <1>5
     DEF Init, IInv, IdsAhead, EpochKnown, Marked, SeenInEpoch, SeenBelow, CursorSeen,
         NeverAliased, CursorSkipsNothing, IndexIsWindow

LEMMA AppendJobKeeps ==
    ASSUME IInv, AppendJob
    PROVE  IInv'
<1> DEFINE e == [id |-> nextId, fire |-> fires + 1]
<1>1. PICK ev : /\ ev = e
                /\ \/ /\ AppendFails(ev)
                      /\ degraded' = "outbox"
                      /\ UNCHANGED retained
                   \/ /\ AppendSucceeds(ev)
                      /\ retained' = Indexed(ev)
                      /\ degraded' \in {degraded} \cup (IF NeedsRotation THEN {"store"} ELSE {})
  BY DEF AppendJob
<1>2. /\ up /\ nextId # 0
      /\ nextId' = AfterId(nextId)
      /\ fires' = fires + 1
      /\ UNCHANGED <<epochFile, epoch, up, cursor, seen, opened>>
  BY DEF AppendJob, consumer
<1>3. /\ ev \in Event
      /\ WellFiled(slots')
      /\ Window' \subseteq Window \cup {ev}
      /\ Window \ Window' \subseteq slots[Keep]
      /\ \A d \in Window \ Window', f \in Window \cap Window' : d.id < f.id
      /\ Window \subseteq Window' \/ (slots[0] \subseteq Window' /\ Cardinality(slots[0]) >= RotateAt)
      /\ AppendSucceeds(ev) /\ ~NeedsRotation => Window' = Window \cup {ev}
      /\ marker' = "whole" \/ (slots' = slots /\ marker # "whole")
  <2> HIDE DEF e
  <2>1. ev = [id |-> nextId, fire |-> fires + 1]
    BY <1>1 DEF e
  <2> QED
    BY <1>1, <1>2, <2>1, AppendWindow
<1>4. ev.id = nextId
  BY <1>1
<1> HIDE DEF e
<1>5. TypeOK /\ nextId \in 1 .. MaxEventId /\ MaxEventId \in Nat
  BY <1>2, OutboxConstants DEF IInv, TypeOK
<1>6. Window \subseteq Event /\ \A d \in Window : d.id \in Nat
  BY OutboxConstants DEF IInv, WellFiled, Window, WindowOf, Event
<1>7. \A d \in Window : d.id < nextId
  BY <1>2 DEF IInv, IdsAhead
<1>8. nextId' = 0 \/ nextId' = nextId + 1
  BY <1>2 DEF AfterId
<1>9. \A s \in seen : s \in Sent /\ s.epoch \in Nat /\ s.event.id \in Nat
  BY <1>5, OutboxConstants DEF TypeOK, Sent, Event
<1>10. TypeOK'
  <2>1. slots' \in [Slot -> SUBSET Event]
    BY <1>3 DEF WellFiled
  <2>2. torn' \in BOOLEAN
    <3>1. torn \in BOOLEAN
      BY <1>5 DEF TypeOK
    <3> QED
      BY <1>1, <3>1, Zenon DEF AppendFails, AppendSucceeds
  <2>3. marker' \in FileState
    BY <1>1, <1>5 DEF AppendFails, AppendSucceeds, MarkStarted, MarkFailed, TypeOK, FileState
  <2>4. nextId' \in 0 .. MaxEventId
    BY <1>2, <1>5 DEF AfterId
  <2>5. retained' \subseteq Event
    <3>1. WindowOf(slots') \subseteq Event
      BY <2>1 DEF WindowOf
    <3> QED
      BY <1>1, <1>3, <1>5, <3>1 DEF Indexed, TypeOK
  <2>6. degraded' \in {"no", "outbox", "store"}
    BY <1>1, <1>5 DEF TypeOK
  <2>7. fires' \in Nat
    BY <1>2, <1>5 DEF TypeOK
  <2> QED
    BY <1>2, <1>5, <2>1, <2>2, <2>3, <2>4, <2>5, <2>6, <2>7 DEF TypeOK
<1>11. IdsAhead'
  <2>1. \A d \in Window' : d.id <= nextId
    BY <1>3, <1>4, <1>5, <1>6, <1>7
  <2>2. \A d \in Window' : d.id \in Nat
    BY <1>3, <1>4, <1>5, <1>6
  <2> QED
    BY <1>5, <1>8, <2>1, <2>2 DEF IdsAhead
<1>12. EpochKnown'
  BY <1>2 DEF IInv, EpochKnown
<1>13. Marked'
  <2>1. slots' = slots => Window' = Window
    BY DEF Window
  <2> QED
    BY <1>3, <2>1 DEF IInv, Marked
<1>14. SeenInEpoch'
  BY <1>2 DEF IInv, SeenInEpoch
<1>15. \A s \in seen : s.epoch = epoch =>
           /\ marker' = "whole"
           /\ \E d \in Window' : s.event.id <= d.id
  <2> SUFFICES ASSUME NEW s \in seen, s.epoch = epoch
               PROVE  marker' = "whole" /\ \E d \in Window' : s.event.id <= d.id
    OBVIOUS
  <2>1. marker = "whole"
    BY DEF IInv, SeenBelow
  <2>2. PICK d \in Window : s.event.id <= d.id
    BY <1>2 DEF IInv, SeenBelow
  <2>3. CASE d \in Window'
    BY <1>3, <2>1, <2>2, <2>3
  <2>4. CASE d \notin Window'
    <3>1. slots[0] \subseteq Window' /\ Cardinality(slots[0]) >= RotateAt
      BY <1>3, <2>4
    <3>2. slots[0] # {}
      BY <3>1, FS_EmptySet, OutboxConstants
    <3>3. slots[0] \subseteq Window
      BY OutboxConstants DEF Window, WindowOf, Slot
    <3>4. PICK f \in slots[0] : f \in Window /\ f \in Window'
      BY <3>1, <3>2, <3>3
    <3>5. d.id < f.id
      BY <1>3, <2>4, <3>4
    <3>6. s.event.id <= f.id
      BY <1>6, <1>9, <2>2, <3>4, <3>5
    <3> QED
      BY <1>3, <2>1, <3>4, <3>6
  <2> QED
    BY <2>3, <2>4
<1>16. SeenBelow'
  BY <1>2, <1>15 DEF SeenBelow
<1>17. CursorSeen'
  BY <1>2 DEF IInv, CursorSeen
<1>18. \A s \in seen : s.epoch = epoch => s.event.id < nextId
  <2> SUFFICES ASSUME NEW s \in seen, s.epoch = epoch PROVE s.event.id < nextId
    OBVIOUS
  <2>1. PICK d \in Window : s.event.id <= d.id
    BY <1>2 DEF IInv, SeenBelow
  <2> QED
    BY <1>5, <1>6, <1>7, <1>9, <2>1
<1>19. NeverAliased'
  <2> SUFFICES ASSUME NEW s \in seen, NEW d \in Window', s.epoch = epoch, s.event.id = d.id
               PROVE  s.event = d
    BY <1>2 DEF NeverAliased
  <2>1. d # ev
    BY <1>4, <1>5, <1>9, <1>18
  <2> QED
    BY <1>3, <2>1 DEF IInv, NeverAliased
<1>20. CursorSkipsNothing'
  <2> SUFFICES ASSUME NEW d \in Window', cursor.epoch = epoch, d.id <= cursor.id
               PROVE  [epoch |-> epoch, event |-> d] \in seen
    BY <1>2 DEF CursorSkipsNothing
  <2>1. cursor.id < nextId
    BY <1>5, <1>18 DEF IInv, CursorSeen
  <2>2. d # ev
    BY <1>4, <1>5, <2>1 DEF TypeOK
  <2> QED
    BY <1>3, <2>2 DEF IInv, CursorSkipsNothing
<1>21. IndexIsWindow'
  <2> SUFFICES ASSUME degraded' # "outbox" PROVE retained' = Window'
    BY DEF IndexIsWindow
  <2>1. AppendSucceeds(ev) /\ retained' = Indexed(ev)
    BY <1>1
  <2>2. CASE NeedsRotation
    BY <2>1, <2>2 DEF Indexed, Window
  <2>3. CASE ~NeedsRotation
    <3>1. degraded' = degraded
      BY <1>1, <2>3
    <3>2. retained = Window
      BY <1>2, <3>1 DEF IInv, IndexIsWindow
    <3> QED
      BY <1>3, <2>1, <2>3, <3>2 DEF Indexed
  <2> QED
    BY <2>2, <2>3
<1> QED
  BY <1>3, <1>10, <1>11, <1>12, <1>13, <1>14, <1>16, <1>17, <1>19, <1>20, <1>21 DEF IInv

LEMMA OutboxReadKeeps ==
    ASSUME IInv, OutboxRead
    PROVE  IInv'
<1> DEFINE new(p) == {[epoch |-> epoch, event |-> x] : x \in p}
<1>1. PICK p : /\ p \in Page
               /\ cursor' = [epoch |-> epoch, id |-> IF p = {} THEN After ELSE NewestId(p)]
               /\ seen' = seen \cup new(p)
  BY DEF OutboxRead
<1>2. /\ up
      /\ UNCHANGED <<slots, torn, epochFile, epoch, marker, up, nextId, retained,
                     degraded, fires, opened>>
  BY DEF OutboxRead, files, memory
<1>3. PICK n \in {After} \cup {x.id : x \in Window} :
               p = {x \in Window : After < x.id /\ x.id <= n}
  BY <1>1 DEF Page
<1>4. TypeOK /\ Window \subseteq Event /\ (\A d \in Window : d.id \in Nat /\ d.id # 0)
  BY OutboxConstants DEF IInv, TypeOK, WellFiled, Window, WindowOf, Event
<1>5. After \in 0 .. MaxEventId /\ MaxEventId \in Nat /\ epoch \in Nat
  BY <1>4, OutboxConstants DEF After, TypeOK
<1>6. p \in SUBSET Event /\ p \subseteq Window
  BY <1>3, <1>4
<1>7. /\ NewestId(p) \in 0 .. MaxEventId
      /\ \A d \in p : d.id <= NewestId(p)
      /\ p # {} => \E d \in p : d.id = NewestId(p)
  BY <1>6, NewestIsGreatest
<1>8. Window' = Window
  BY <1>2 DEF Window
<1>9. \A d \in p : [epoch |-> epoch, event |-> d] \in new(p)
  OBVIOUS
<1>10. \A s \in new(p) : s \in Sent /\ s.epoch = epoch /\ s.event \in p
  BY <1>5, <1>6 DEF Sent
<1> HIDE DEF new
<1>11. seen \subseteq Sent /\ opened \subseteq seen
  BY <1>4 DEF TypeOK
<1>12. /\ cursor'.epoch = epoch
       /\ cursor'.id = IF p = {} THEN After ELSE NewestId(p)
       /\ cursor' \in [epoch : Nat, id : 0 .. MaxEventId]
  BY <1>1, <1>5, <1>7
<1>13. TypeOK'
  BY <1>1, <1>2, <1>4, <1>10, <1>11, <1>12 DEF TypeOK
<1>14. SeenInEpoch'
  <2>1. epoch # 0
    BY <1>2 DEF IInv, EpochKnown
  <2> QED
    BY <1>1, <1>2, <1>5, <1>10, <2>1 DEF IInv, SeenInEpoch
<1>15. SeenBelow'
  <2> SUFFICES ASSUME NEW s \in seen', s.epoch = epoch
               PROVE  marker = "whole" /\ \E d \in Window : s.event.id <= d.id
    BY <1>2, <1>8 DEF SeenBelow
  <2>1. CASE s \in seen
    BY <1>2, <2>1 DEF IInv, SeenBelow
  <2>2. CASE s \in new(p)
    <3>1. s.event \in Window
      BY <1>6, <1>10, <2>2
    <3>2. s.event.id <= s.event.id
      BY <1>4, <3>1
    <3> QED
      BY <3>1, <3>2 DEF IInv, Marked
  <2> QED
    BY <1>1, <2>1, <2>2
<1>16. CursorSeen'
  <2>1. cursor'.epoch <= epoch'
    BY <1>2, <1>5, <1>12
  <2>2. CASE p = {}
    <3>1. cursor'.id = 0 \/ (cursor.epoch = epoch /\ cursor'.id = cursor.id)
      BY <1>12, <2>2 DEF After
    <3>2. cursor'.id = 0 \/ \E s \in seen : s.epoch = epoch /\ s.event.id = cursor'.id
      BY <3>1 DEF IInv, CursorSeen
    <3> QED
      BY <1>1, <1>2, <2>1, <3>2 DEF CursorSeen
  <2>3. CASE p # {}
    <3>1. PICK d \in p : d.id = cursor'.id
      BY <1>7, <1>12, <2>3
    <3>2. [epoch |-> epoch, event |-> d] \in seen'
      BY <1>1, <1>9
    <3> QED
      BY <1>2, <2>1, <3>1, <3>2 DEF CursorSeen
  <2> QED
    BY <2>2, <2>3
<1>17. NeverAliased'
  <2> SUFFICES ASSUME NEW s \in seen', NEW d \in Window, s.epoch = epoch, s.event.id = d.id
               PROVE  s.event = d
    BY <1>2, <1>8 DEF NeverAliased
  <2>1. CASE s \in seen
    BY <2>1 DEF IInv, NeverAliased
  <2>2. CASE s \in new(p)
    <3>1. Unambiguous(Window)
      BY OneEventPerId DEF IInv, Window
    <3>2. s.event \in Window
      BY <1>6, <1>10, <2>2
    <3> QED
      BY <3>1, <3>2 DEF Unambiguous
  <2> QED
    BY <1>1, <2>1, <2>2
<1>18. CursorSkipsNothing'
  <2> SUFFICES ASSUME NEW d \in Window, d.id <= cursor'.id
               PROVE  [epoch |-> epoch, event |-> d] \in seen'
    BY <1>2, <1>8 DEF CursorSkipsNothing
  <2>1. CASE d.id <= After
    <3>1. cursor.epoch = epoch /\ d.id <= cursor.id
      BY <1>4, <2>1 DEF After
    <3> QED
      BY <1>1, <3>1 DEF IInv, CursorSkipsNothing
  <2>2. CASE ~(d.id <= After)
    <3>1. p # {} /\ d.id <= NewestId(p)
      BY <1>12, <2>2
    <3>2. PICK f \in p : f.id = NewestId(p)
      BY <1>7, <3>1
    <3>3. f \in Window /\ f.id <= n
      BY <1>3
    <3>4. d.id <= n
      <4>1. n \in Int
        BY <1>4, <1>5
      <4> QED
        BY <1>4, <3>1, <3>2, <3>3, <4>1
    <3>5. d \in p
      BY <1>3, <1>4, <1>5, <2>2, <3>4
    <3> QED
      BY <1>1, <1>9, <3>5
  <2> QED
    BY <2>1, <2>2
<1>19. WellFiled(slots')
  BY <1>2 DEF IInv
<1> QED
  BY <1>2, <1>8, <1>13, <1>14, <1>15, <1>16, <1>17, <1>18, <1>19
     DEF IInv, IdsAhead, EpochKnown, Marked, IndexIsWindow

\* What a consumer remembers is of older epochs once the epoch is replaced.
LEMMA RenewalKeeps ==
    ASSUME IInv, epoch' = epoch + 1, UNCHANGED <<cursor, seen>>
    PROVE  SeenInEpoch' /\ SeenBelow' /\ CursorSeen' /\ NeverAliased' /\ CursorSkipsNothing'
<1>1. epoch \in Nat /\ epoch' \in Nat /\ epoch' # epoch /\ epoch <= epoch'
  BY DEF IInv, TypeOK
<1>2. \A s \in seen : s.epoch \in Nat /\ s.epoch # 0 /\ s.epoch <= epoch /\ s.epoch # epoch'
  BY <1>1 DEF IInv, TypeOK, Sent, SeenInEpoch
<1>3. cursor.epoch \in Nat /\ cursor.epoch <= epoch /\ cursor.epoch # epoch'
  BY <1>1 DEF IInv, TypeOK, CursorSeen
<1>4. SeenInEpoch'
  BY <1>1, <1>2 DEF SeenInEpoch
<1>5. SeenBelow' /\ NeverAliased'
  BY <1>2 DEF SeenBelow, NeverAliased
<1>6. CursorSeen' /\ CursorSkipsNothing'
  BY <1>1, <1>3 DEF CursorSeen, CursorSkipsNothing
<1> QED
  BY <1>4, <1>5, <1>6

LEMMA StartKeeps ==
    ASSUME IInv, Start
    PROVE  IInv'
<1>1. /\ epochFile # "cut" /\ marker # "cut"
      /\ NewestId(Window) < MaxEventId
      /\ epochFile' = "whole"
      /\ marker' = IF MustRenew THEN "absent" ELSE marker
      /\ up' = TRUE
      /\ nextId' = Seed
      /\ retained' = Window
      /\ degraded' = "no"
      /\ UNCHANGED <<slots, torn, fires, cursor, seen, opened>>
  BY DEF Start, consumer
<1>2. \/ (epochFile = "absent" \/ MustRenew) /\ epoch' = epoch + 1
      \/ ~(epochFile = "absent" \/ MustRenew) /\ epoch' = epoch
  BY DEF Start
<1>3. TypeOK /\ MaxEventId \in Nat /\ epoch \in Nat
  BY OutboxConstants DEF IInv, TypeOK
<1>4. Window \in SUBSET Event /\ \A d \in Window : d.id \in Nat /\ d.id # 0
  BY OutboxConstants DEF IInv, WellFiled, Window, WindowOf, Event
<1>5. /\ NewestId(Window) \in 0 .. MaxEventId
      /\ \A d \in Window : d.id <= NewestId(Window)
      /\ Window = {} => NewestId(Window) = 0
  BY <1>4, NewestIsGreatest
<1>6. Window' = Window
  BY <1>1 DEF Window
<1>7. Seed = 1 => Window = {}
  BY SeedOfNone
<1>8. Window = {} => Seed = 1
  BY SeedOfNone
<1>9. TypeOK'
  <2>1. nextId' \in 0 .. MaxEventId
    BY <1>1, <1>3, <1>5 DEF Seed
  <2>2. epochFile' \in FileState /\ marker' \in FileState
    BY <1>1, <1>3 DEF TypeOK, FileState
  <2>3. epoch' \in Nat /\ up' \in BOOLEAN /\ degraded' \in {"no", "outbox", "store"}
    BY <1>1, <1>2, <1>3
  <2>4. retained' \subseteq Event
    BY <1>1, <1>4
  <2> QED
    BY <1>1, <1>3, <2>1, <2>2, <2>3, <2>4 DEF TypeOK
<1>10. IdsAhead'
  BY <1>1, <1>3, <1>4, <1>5, <1>6 DEF IdsAhead, Seed
<1>11. EpochKnown'
  BY <1>1, <1>2, <1>3, <1>6 DEF IInv, EpochKnown, TypeOK, FileState
<1>12. Marked'
  BY <1>1, <1>6, <1>7 DEF IInv, Marked, MustRenew
<1>13. SeenInEpoch' /\ SeenBelow' /\ CursorSeen' /\ NeverAliased' /\ CursorSkipsNothing'
  <2>1. CASE epoch' = epoch + 1
    BY <1>1, <2>1, RenewalKeeps
  <2>2. CASE epoch' = epoch /\ ~MustRenew
    <3>1. SeenInEpoch' /\ CursorSeen' /\ NeverAliased' /\ CursorSkipsNothing'
      BY <1>1, <1>6, <2>2
         DEF IInv, SeenInEpoch, CursorSeen, NeverAliased, CursorSkipsNothing
    <3>2. ASSUME NEW s \in seen, s.epoch = epoch
          PROVE  marker = "whole" /\ \E d \in Window : s.event.id <= d.id
      <4>1. marker = "whole"
        BY <3>2 DEF IInv, SeenBelow
      <4>2. Window # {}
        BY <1>8, <2>2, <4>1 DEF MustRenew
      <4> QED
        BY <3>2, <4>1, <4>2 DEF IInv, SeenBelow
    <3> QED
      BY <1>1, <1>6, <2>2, <3>1, <3>2 DEF SeenBelow
  <2> QED
    BY <1>2, <2>1, <2>2
<1>14. IndexIsWindow'
  BY <1>1, <1>6 DEF IndexIsWindow
<1>15. WellFiled(slots')
  BY <1>1 DEF IInv
<1> QED
  BY <1>9, <1>10, <1>11, <1>12, <1>13, <1>14, <1>15 DEF IInv

LEMMA StartFailsKeeps ==
    ASSUME IInv, StartFails
    PROVE  IInv'
<1>1. /\ ~up
      /\ UNCHANGED <<slots, torn, up, nextId, retained, degraded, fires, cursor, seen, opened>>
  BY DEF StartFails, memory, consumer
<1>2. \/ epochFile = "absent" /\ epochFile' = "cut" /\ UNCHANGED <<epoch, marker>>
      \/ epochFile = "absent" /\ epochFile' = "whole" /\ epoch' = epoch + 1 /\ UNCHANGED marker
      \/ /\ epochFile = "whole" /\ MustRenew /\ epoch' = epoch + 1
         /\ marker' \in {marker, "absent"}
         /\ UNCHANGED epochFile
  BY DEF StartFails
<1>3. Window' = Window
  BY <1>1 DEF Window
<1>4. TypeOK'
  BY <1>1, <1>2 DEF IInv, TypeOK, FileState
<1>5. EpochKnown'
  BY <1>1, <1>2, <1>3 DEF IInv, EpochKnown, TypeOK
<1>6. MustRenew => Window = {}
  BY SeedOfNone DEF MustRenew
<1>7. Marked'
  BY <1>2, <1>3, <1>6 DEF IInv, Marked
<1>8. SeenInEpoch' /\ SeenBelow' /\ CursorSeen' /\ NeverAliased' /\ CursorSkipsNothing'
  <2>1. CASE epoch' = epoch + 1
    BY <1>1, <2>1, RenewalKeeps
  <2>2. CASE UNCHANGED <<epoch, marker>>
    BY <1>1, <1>3, <2>2
       DEF IInv, SeenInEpoch, SeenBelow, CursorSeen, NeverAliased, CursorSkipsNothing
  <2> QED
    BY <1>2, <2>1, <2>2
<1>9. WellFiled(slots') /\ IdsAhead' /\ IndexIsWindow'
  BY <1>1 DEF IInv, IdsAhead, IndexIsWindow
<1> QED
  BY <1>4, <1>5, <1>7, <1>8, <1>9 DEF IInv

LEMMA LedgerDeletedKeeps ==
    ASSUME IInv, LedgerDeleted
    PROVE  IInv'
<1>1. /\ ~up
      /\ slots' = [i \in Slot |-> {}]
      /\ torn' = FALSE
      /\ UNCHANGED <<epochFile, epoch, marker, up, nextId, retained, degraded, fires,
                     cursor, seen, opened>>
  BY DEF LedgerDeleted, memory, consumer
<1>2. \A i \in Slot : slots'[i] = {}
  BY <1>1
<1>3. Window' = {}
  BY <1>2 DEF Window, WindowOf
<1>4. WellFiled(slots')
  BY <1>1, <1>2, FS_EmptySet, OutboxConstants
     DEF WellFiled, Ordered, Distinct, Unambiguous, Fits
<1>5. TypeOK'
  BY <1>1, <1>4 DEF IInv, TypeOK, WellFiled
<1> QED
  BY <1>1, <1>3, <1>4, <1>5
     DEF IInv, IdsAhead, EpochKnown, Marked, SeenInEpoch, SeenBelow, CursorSeen,
         NeverAliased, CursorSkipsNothing, IndexIsWindow

\* The steps that leave the files and what the consumer remembers alone.
LEMMA OthersKeep ==
    ASSUME IInv, OutboxReadFails \/ DeliveryBegin \/ DaemonCrash \/ UNCHANGED vars
    PROVE  IInv'
<1>1. UNCHANGED <<slots, torn, epochFile, epoch, marker, fires, cursor, seen>>
  BY DEF OutboxReadFails, DeliveryBegin, DaemonCrash, vars, files, consumer
<1>2. \/ UNCHANGED <<up, nextId, retained, degraded>>
      \/ UNCHANGED <<up, nextId, retained>> /\ degraded' = "outbox"
      \/ up' = FALSE /\ nextId' = 0 /\ retained' = {} /\ degraded' = "no"
  BY DEF OutboxReadFails, DeliveryBegin, DaemonCrash, vars, memory
<1>3. opened' \subseteq seen
  BY DEF IInv, TypeOK, OutboxReadFails, DeliveryBegin, DaemonCrash, vars, consumer
<1>4. up' => up
  BY <1>2
<1>5. Window' = Window
  BY <1>1 DEF Window
<1>6. nextId' \in 0 .. MaxEventId /\ up' \in BOOLEAN
  <2>1. nextId' \in 0 .. MaxEventId
    BY <1>2, OutboxConstants DEF IInv, TypeOK
  <2>2. up' = up \/ up' = FALSE
    BY <1>2
  <2>3. up \in BOOLEAN
    BY DEF IInv, TypeOK
  <2> QED
    BY <2>1, <2>2, <2>3
<1>7. retained' \subseteq Event /\ degraded' \in {"no", "outbox", "store"}
  BY <1>2 DEF IInv, TypeOK
<1>8. TypeOK'
  BY <1>1, <1>3, <1>6, <1>7 DEF IInv, TypeOK
<1>9. IdsAhead' /\ EpochKnown' /\ Marked' /\ IndexIsWindow'
  BY <1>1, <1>2, <1>5 DEF IInv, IdsAhead, EpochKnown, Marked, IndexIsWindow
<1>10. SeenInEpoch' /\ SeenBelow' /\ CursorSeen' /\ NeverAliased' /\ CursorSkipsNothing'
  BY <1>1, <1>4, <1>5
     DEF IInv, SeenInEpoch, SeenBelow, CursorSeen, NeverAliased, CursorSkipsNothing
<1>11. WellFiled(slots')
  BY <1>1 DEF IInv
<1> QED
  BY <1>8, <1>9, <1>10, <1>11 DEF IInv

LEMMA StepInv == IInv /\ [Next]_vars => IInv'
BY AppendJobKeeps, OutboxReadKeeps, StartKeeps, StartFailsKeeps, LedgerDeletedKeeps, OthersKeep
   DEF Next

\* The inductive invariant holds throughout.
THEOREM Invariance == Spec => []IInv
BY InitInv, StepInv, PTL DEF Spec

\* Every variable keeps its type; in particular the ids of main.rs never leave
\* the range that JavaScript can represent.
THEOREM TypeCorrect == Spec => []TypeOK
<1>1. IInv => TypeOK
  BY DEF IInv
<1> QED
  BY <1>1, Invariance, PTL

\* Within an epoch no id comes back as another event, for any number of
\* rotations, failed appends, restarts and deleted ledgers.
THEOREM IdsNeverAliased == Spec => []NeverAliased
<1>1. IInv => NeverAliased
  BY DEF IInv
<1> QED
  BY <1>1, Invariance, PTL

\* No cursor passes over an event that is still retained.
THEOREM CursorsSkipNothing == Spec => []CursorSkipsNothing
<1>1. IInv => CursorSkipsNothing
  BY DEF IInv
<1> QED
  BY <1>1, Invariance, PTL

\* The actor answers membership from what the files hold.
THEOREM IndexIsRetained == Spec => []IndexIsWindow
<1>1. IInv => IndexIsWindow
  BY DEF IInv
<1> QED
  BY <1>1, Invariance, PTL

\* What the rotation has evicted is never delivered.
THEOREM NoEvictedDelivery == Spec => EvictedStayEvicted
<1>1. ASSUME IInv, [Next]_vars
      PROVE  [\A s \in opened' \ opened : s.event \in Window]_vars
  <2>1. CASE DeliveryBegin
    <3>1. PICK s \in seen : MayDeliver(s.event) /\ opened' = opened \cup {s}
      BY <2>1 DEF DeliveryBegin
    <3>2. up
      BY <2>1 DEF DeliveryBegin
    <3>3. s.event \in retained /\ degraded # "outbox"
      BY <3>1 DEF MayDeliver
    <3>4. s.event \in Window
      BY <1>1, <3>2, <3>3 DEF IInv, IndexIsWindow
    <3> QED
      BY <3>1, <3>4
  <2>2. CASE ~DeliveryBegin
    <3>1. opened' = opened
      BY <1>1, <2>2
         DEF Next, vars, AppendJob, OutboxRead, OutboxReadFails, Start, StartFails,
             DaemonCrash, LedgerDeleted, consumer
    <3> QED
      BY <3>1
  <2> QED
    BY <2>1, <2>2
<1> QED
  BY <1>1, Invariance, PTL DEF Spec, EvictedStayEvicted

-----------------------------------------------------------------------------
(* The refinement *)

\* Both modules count with the same operator.
LEMMA SameCount == \A S : Log!Cardinality(S) = Cardinality(S)
BY Zenon DEF Log!Cardinality, Cardinality

\* The rotated files implement the log of OutboxLog: every append, also one
\* that stops half way, is a turn of the log, a start resumes or renews it.
THEOREM Implementation == Spec => ImplementsLog
<1>1. Init => Log!Init
  <2> SUFFICES ASSUME Init PROVE Log!Init
    OBVIOUS
  <2>1. Window = {}
    BY DEF Init, Window, WindowOf
  <2> QED
    BY <2>1 DEF Init, Log!Init
<1>2. IInv /\ [Next]_vars => [Log!Next]_<<Window, epoch, up>>
  <2> SUFFICES ASSUME IInv, [Next]_vars
               PROVE  [Log!Next]_<<Window, epoch, up>>
    OBVIOUS
  <2>1. CASE AppendJob
    <3>1. PICK e : /\ e = [id |-> nextId, fire |-> fires + 1]
                   /\ AppendFails(e) \/ AppendSucceeds(e)
      BY <2>1 DEF AppendJob
    <3>2. up /\ nextId # 0 /\ UNCHANGED <<epoch, up>>
      BY <2>1 DEF AppendJob
    <3>3. /\ e \in Event
          /\ Window' \subseteq Window \cup {e}
          /\ Window \ Window' \subseteq slots[Keep]
          /\ \A d \in Window \ Window', f \in Window \cap Window' : d.id < f.id
          /\ Window \subseteq Window' \/ (slots[0] \subseteq Window' /\ Cardinality(slots[0]) >= RotateAt)
      BY <3>1, <3>2, AppendWindow
    <3>4. \A d \in Window : d.id < e.id
      BY <3>1, <3>2 DEF IInv, IdsAhead
    <3>5. Cardinality(Window' \ Window) <= 1
      <4>1. Window' \ Window \in SUBSET {e}
        BY <3>3
      <4>2. IsFiniteSet({e}) /\ Cardinality({e}) = 1
        BY FS_Singleton
      <4>3. Cardinality(Window' \ Window) <= Cardinality({e})
        BY <4>1, <4>2, FS_Subset
      <4> QED
        BY <4>2, <4>3
    <3>6. /\ \A i \in Slot : IsFiniteSet(slots[i]) /\ Cardinality(slots[i]) <= RotateAt
          /\ \A i \in Slot : Cardinality(slots[i]) \in Nat
      BY FS_CardinalityType DEF IInv, WellFiled, Fits
    <3>7. Keep \in Slot /\ 0 \in Slot /\ RotateAt \in Nat
      BY OutboxConstants DEF Slot
    <3>8. Cardinality(Window \ Window') <= RotateAt
      <4>1. Window \ Window' \in SUBSET slots[Keep]
        BY <3>3
      <4>2. /\ IsFiniteSet(Window \ Window')
            /\ Cardinality(Window \ Window') <= Cardinality(slots[Keep])
        BY <3>6, <3>7, <4>1, FS_Subset
      <4>3. Cardinality(Window \ Window') \in Nat
        BY <4>2, FS_CardinalityType
      <4> QED
        BY <3>6, <3>7, <4>2, <4>3
    <3>9. Window \subseteq Window' \/ Cardinality(Window \cap Window') >= RotateAt
      <4> SUFFICES ASSUME slots[0] \subseteq Window', Cardinality(slots[0]) >= RotateAt
                   PROVE  Cardinality(Window \cap Window') >= RotateAt
        BY <3>3
      <4>1. slots[0] \in SUBSET (Window \cap Window')
        BY <3>7 DEF Window, WindowOf
      <4>2. IsFiniteSet(Window \cap Window')
        BY WindowIsFinite, FS_Intersection
      <4>3. /\ Cardinality(slots[0]) <= Cardinality(Window \cap Window')
            /\ Cardinality(Window \cap Window') \in Nat
        BY <4>1, <4>2, FS_Subset, FS_CardinalityType
      <4> QED
        BY <3>6, <3>7, <4>3
    <3>10. \A d \in Window, f \in Window' \ Window : d.id < f.id
      BY <3>3, <3>4
    <3>11. Log!Turn
      BY <3>2, <3>3, <3>5, <3>8, <3>9, <3>10, SameCount DEF Log!Turn, Log!Older
    <3> QED
      BY <3>11 DEF Log!Next
  <2>2. CASE OutboxRead \/ OutboxReadFails \/ DeliveryBegin \/ UNCHANGED vars
    <3>1. UNCHANGED <<slots, epoch, up>>
      BY <2>2 DEF OutboxRead, OutboxReadFails, DeliveryBegin, vars, files, memory
    <3> QED
      BY <3>1 DEF Window
  <2>3. CASE Start \/ StartFails
    <3>1. UNCHANGED slots /\ ~up
      BY <2>3 DEF Start, StartFails
    <3>2. Window' = Window
      BY <3>1 DEF Window
    <3>3. up' = TRUE \/ up' = up
      BY <2>3 DEF Start, StartFails, memory
    <3>4. MustRenew => Window = {}
      BY SeedOfNone DEF MustRenew
    <3>5. epochFile = "absent" => Window = {}
      BY DEF IInv, EpochKnown
    <3>6. CASE epoch' = epoch + 1
      <4>1. Window = {}
        <5>1. epoch' # epoch
          BY <3>6 DEF IInv, TypeOK
        <5> QED
          BY <2>3, <3>4, <3>5, <5>1 DEF Start, StartFails
      <4>2. up' \in BOOLEAN
        BY <3>3 DEF IInv, TypeOK
      <4>3. Log!Renew
        BY <3>1, <3>2, <3>6, <4>1, <4>2 DEF Log!Renew
      <4> QED
        BY <4>3 DEF Log!Next
    <3>7. CASE epoch' = epoch
      <4>1. CASE Start
        <5>1. epochFile = "whole"
          BY <3>7, <4>1 DEF Start, IInv, TypeOK, FileState
        <5>2. Log!Resume
          BY <3>1, <3>2, <3>7, <4>1, <5>1 DEF Start, IInv, EpochKnown, Log!Resume
        <5> QED
          BY <5>2 DEF Log!Next
      <4>2. CASE StartFails
        BY <3>2, <3>7, <4>2 DEF StartFails, memory
      <4> QED
        BY <2>3, <4>1, <4>2
    <3> QED
      BY <2>3, <3>6, <3>7 DEF Start, StartFails
  <2>4. CASE DaemonCrash
    <3>1. Window' = Window
      BY <2>4 DEF DaemonCrash, files, Window
    <3>2. Log!Suspend
      BY <2>4, <3>1 DEF DaemonCrash, files, Log!Suspend
    <3> QED
      BY <3>2 DEF Log!Next
  <2>5. CASE LedgerDeleted
    <3>1. Window' = {}
      BY <2>5 DEF LedgerDeleted, Window, WindowOf
    <3>2. Log!Wipe
      BY <2>5, <3>1 DEF LedgerDeleted, memory, Log!Wipe
    <3> QED
      BY <3>2 DEF Log!Next
  <2> QED
    BY <2>1, <2>2, <2>3, <2>4, <2>5 DEF Next
<1> QED
  BY <1>1, <1>2, Invariance, PTL DEF Spec, ImplementsLog, Log!Spec, Log!outboxLog
=============================================================================
