------------------------- MODULE DaemonLifecycleProofs -------------------------
(***************************************************************************)
(* Proofs about DaemonLifecycle, for any pids, entries and number of       *)
(* faults.  TypeOK is inductive.  FirstPrevails is proved of starts that   *)
(* go through the launcher: until the first daemon has its locks the       *)
(* launcher admits nobody else, and afterwards everybody else gets no      *)
(* further than to read a lock of it.  MoveIsSafe rests on no lock at all: *)
(* entries only ever leave the legacy directory, and whoever moves one     *)
(* that is gone gives up.                                                  *)
(***************************************************************************)
EXTENDS DaemonLifecycle, FiniteSetTheorems, TLAPS

\* The parts of TypeOK: what the variables hold, ...
Typed ==
    /\ phase \in [Pids -> Phases]
    /\ turn \in [Pids -> {"legacy", "primary", "again"}]
    /\ born \in [Pids -> Births \cup {0}]
    /\ file \in [{"legacy", "primary"} -> Owner \cup {NoFile, Empty}]
    /\ pidFile \in Pids \cup {NoPid}
    /\ socket \in Owner \cup {NoFile}
    /\ legacyDir \in BOOLEAN
    /\ origin \in [Entries -> {"none", "old", "new", "both"}]
    /\ old \subseteq Entries /\ backup \subseteq Entries
    /\ new \in [Entries -> {"none", "legacy", "own"}]
    /\ todo \in [Pids -> SUBSET Entries] /\ entry \in [Pids -> SUBSET Entries]
    /\ bound \subseteq Pids /\ clash \subseteq Pids /\ writer \subseteq Pids
    /\ first \subseteq Pids
    /\ faults \in 0 .. MaxFaults

\* ... that a living process has a start time of its own, ...
Living ==
    /\ \A p \in Pids : Alive(p) <=> born[p] # 0
    /\ \A p, q \in Pids : p # q /\ Alive(p) => born[p] # born[q]
    /\ \A p \in bound \cup writer \cup first : Alive(p)

\* ... and what it holds in which phase.
Handling ==
    \A p \in Pids :
        /\ todo[p] # {} => phase[p] \in Starting
        /\ Cardinality(entry[p]) = IF phase[p] \in {"gated", "moving"} THEN 1 ELSE 0
        /\ p \in clash => phase[p] = "moving"

\* A process that has not got all of its locks yet.
Claiming(p) == phase[p] \in Acquiring /\ turn[p] # "again"

\* Then it is alone, and has the first lock when it is at the second.
Claims(p) ==
    /\ \A q \in Pids \ {p} : ~Alive(q)
    /\ turn[p] = "legacy" => legacyDir
    /\ turn[p] = "primary" /\ legacyDir => file["legacy"] = Me(p)

\* A process at the first lock of a start.
Waits(q) ==
    /\ phase[q] \in {"create", "read"}
    /\ turn[q] = IF legacyDir THEN "legacy" ELSE "primary"

\* A process that has its locks, and beside which nobody can get any.
Holds(p) ==
    /\ file["primary"] = Me(p)
    /\ legacyDir => file["legacy"] = Me(p)
    /\ phase[p] \in Acquiring => phase[p] \in {"create", "read"}
    /\ p \in bound => socket = Me(p)
    /\ phase[p] = "serving" => p \in bound /\ pidFile = p
    /\ \A q \in Pids \ {p} : Alive(q) => Waits(q)

\* A first process is the only one, and has its locks or is about to get them until it
\* ends.
Prevails ==
    \A p \in first :
        /\ first = {p}
        /\ phase[p] \notin Ending => IF Claiming(p) THEN Claims(p) ELSE Holds(p)

\* The socket and the stores are opened after the locks.
OpenedLate ==
    \A p \in bound \cup writer :
        phase[p] \in Ending \/ (turn[p] = "again" /\ phase[p] \notin Starting)

\* Where each entry is, by where it was.
Whereabouts ==
    \A e \in Entries :
        /\ e \in old => origin[e] \in {"old", "both"}
        /\ origin[e] = "old" => new[e] = IF e \in old THEN "none" ELSE "legacy"
        /\ origin[e] \in {"new", "both"} => new[e] = "own"
        /\ origin[e] = "both" => e \in old \cup backup

\* What a process still has to move covers the legacy directory; it moves one entry at
\* a time, and has found cron's own exactly where there was one.
Moves(p) ==
    /\ \A e \in todo[p] \cup entry[p] : origin[e] \in {"old", "both"}
    /\ phase[p] \in {"migrating", "gated", "moving"} => old \subseteq todo[p]
    /\ phase[p] \in {"gated", "moving"} => \E e \in Entries : entry[p] = {e}
    /\ phase[p] = "moving" => \A e \in entry[p] \cap old : p \in clash <=> origin[e] = "both"

\* Nobody opens the stores before the legacy directory is empty.
Movers ==
    /\ writer # {} => old = {}
    /\ \A p \in Pids : Moves(p)

-----------------------------------------------------------------------------
(* Types *)

\* TypeOK is these three.
LEMMA TypeOKParts == TypeOK <=> Typed /\ Living /\ Handling
BY DEF TypeOK, Typed, Living, Handling

\* One more value makes a set larger by one at most.
LEMMA OneMore ==
    ASSUME NEW S, NEW x, NEW n \in Nat, IsFiniteSet(S), Cardinality(S) <= n
    PROVE  IsFiniteSet(S \cup {x}) /\ Cardinality(S \cup {x}) <= n + 1
<1>1. Cardinality(S) \in Nat
  BY FS_CardinalityType
<1> QED  BY <1>1, FS_AddElement

\* There are more start times than the other processes, the lock files and the socket
\* can bear.
LEMMA FreshIsFree ==
    ASSUME Typed, Living, NEW p \in Pids, ~Alive(p)
    PROVE  Fresh \in Births /\ Fresh \notin Used
<1> DEFINE Q == Pids \ {p}
           b == [q \in Q |-> born[q]]
           B == {b[q] : q \in Q}
           B1 == B \cup {file["legacy"].born}
           B2 == B1 \cup {file["primary"].born}
           B3 == B2 \cup {socket.born}
           n == Cardinality(Pids)
<1>1. n \in Nat /\ IsFiniteSet(Pids) /\ n >= 1
  <2>1. n \in Nat /\ IsFiniteSet(Pids)
    BY LifecycleConstants, FS_CardinalityType
  <2>2. n # 0
    BY <2>1, FS_EmptySet
  <2> QED  BY <2>1, <2>2
<1>2. IsFiniteSet(Q) /\ Cardinality(Q) = n - 1
  BY <1>1, FS_RemoveElement
<1>3. IsFiniteSet(B) /\ Cardinality(B) <= n - 1
  <2>1. b \in Surjection(Q, B)
    BY DEF Surjection
  <2> HIDE DEF b, B, Q, n
  <2> QED  BY <1>2, <2>1, FS_Surjection
<1> HIDE DEF Q, b, B, n
<1>4. IsFiniteSet(B1) /\ Cardinality(B1) <= n
  <2>1. n - 1 \in Nat /\ (n - 1) + 1 = n
    BY <1>1
  <2> HIDE DEF B1
  <2>2. IsFiniteSet(B1) /\ Cardinality(B1) <= (n - 1) + 1
    BY <1>3, <2>1, OneMore DEF B1
  <2> QED  BY <2>1, <2>2
<1>5. IsFiniteSet(B2) /\ Cardinality(B2) <= n + 1
  BY <1>1, <1>4, OneMore
<1>6. IsFiniteSet(B3) /\ Cardinality(B3) <= n + 2
  <2>1. n + 1 \in Nat /\ (n + 1) + 1 = n + 2
    BY <1>1
  <2> HIDE DEF B2
  <2>2. IsFiniteSet(B3) /\ Cardinality(B3) <= (n + 1) + 1
    BY <1>5, <2>1, OneMore
  <2> QED  BY <2>1, <2>2
<1>7. Births = 1 .. (n + 3) /\ IsFiniteSet(Births) /\ Cardinality(Births) = n + 3
  <2>1. Births = 1 .. (n + 3)
    BY DEF Births, n
  <2>2. Cardinality(1 .. (n + 3)) = n + 3 /\ IsFiniteSet(1 .. (n + 3))
    BY <1>1, FS_Interval
  <2> QED  BY <2>1, <2>2
<1>8. Used \subseteq B3 \cup {0}
  <2>1. born[p] = 0 /\ DOMAIN file = {"legacy", "primary"}
    BY DEF Living, Typed
  <2>2. \A q \in Pids : q # p => born[q] \in B
    BY DEF B, b, Q
  <2> QED  BY <2>1, <2>2 DEF Used
<1>9. ~(Births \subseteq B3)
  <2> HIDE DEF B3
  <2>1. SUFFICES ASSUME Births \subseteq B3 PROVE FALSE
    OBVIOUS
  <2>2. Cardinality(Births) <= Cardinality(B3)
    BY <1>6, <2>1, FS_Subset
  <2>3. Cardinality(B3) \in Nat
    BY <1>6, FS_CardinalityType
  <2> QED  BY <1>1, <1>6, <1>7, <2>2, <2>3
<1>10. \E x \in Births : x \notin Used
  <2> HIDE DEF B3
  <2>1. 0 \notin Births
    BY <1>1, <1>7
  <2> QED  BY <1>8, <1>9, <2>1
<1> QED  BY <1>10 DEF Fresh

\* No lock content is taken for another, and a living process can sign a lock.
LEMMA Basics ==
    ASSUME Typed, Living
    PROVE  /\ MaxFaults \in Nat /\ Births \subseteq Nat \ {0}
           /\ NoPid = 0 /\ NoPid \notin Pids /\ NoFile \notin Owner /\ Empty \notin Owner
           /\ \A p \in Pids : Alive(p) => Me(p) \in Owner
           /\ \A p \in Pids : LockOf(p) \in {"legacy", "primary"}
<1>1. MaxFaults \in Nat /\ Births \subseteq Nat \ {0} /\ NoPid = 0 /\ NoPid \notin Pids
  <2>1. Cardinality(Pids) \in Nat
    BY LifecycleConstants, FS_CardinalityType
  <2> QED  BY <2>1, LifecycleConstants DEF Births, NoPid
<1>2. NoFile \notin Owner /\ Empty \notin Owner
  BY <1>1 DEF NoFile, Empty, Owner
<1>3. \A p \in Pids : Alive(p) => Me(p) \in Owner
  BY DEF Typed, Living, Me, Owner
<1> QED  BY <1>1, <1>2, <1>3 DEF LockOf

\* The initial states.
LEMMA TypesInit == Init => TypeOK
<1> SUFFICES ASSUME Init PROVE Typed /\ Living /\ Handling
  BY TypeOKParts
<1>1. Typed
  <2>1. origin \in [Entries -> {"none", "old", "new", "both"}]
    BY DEF Init
  <2> QED  BY <2>1, LifecycleConstants DEF Init, Typed, Phases, NoFile, NoPid
<1>2. Living
  BY DEF Init, Living, Alive
<1>3. Handling
  BY FS_EmptySet DEF Init, Handling
<1> QED  BY <1>1, <1>2, <1>3

\* A step of one process leaves the others where they are.
Apart(p) ==
    \A q \in Pids \ {p} :
        /\ phase'[q] = phase[q] /\ turn'[q] = turn[q] /\ born'[q] = born[q]
        /\ todo'[q] = todo[q] /\ entry'[q] = entry[q]
        /\ q \in bound' <=> q \in bound
        /\ q \in clash' <=> q \in clash
        /\ q \in writer' <=> q \in writer
        /\ q \in first' => q \in first

\* A step that admits no process and gives none a start time.
LEMMA StepTyped ==
    ASSUME Typed, Living, NEW p \in Pids, Step(p) \/ Bind(p) \/ Stop(p) \/ Fail(p) \/ Crash(p)
    PROVE  Typed' /\ Apart(p)
<1> USE Basics
<1>1. CASE Create(p)
  <2>1. Typed'
    BY <1>1
    DEF Create, LockOf, ways, layout, moving, Typed, Alive, Phases, Acquiring,
        Starting, Ending
  <2>2. Apart(p)
    BY <1>1 DEF Create, ways, layout, moving, Typed, Apart
  <2> QED  BY <2>1, <2>2
<1>2. CASE Write(p)
  <2>1. Typed'
    BY <1>2
    DEF Write, Granted, Me, LockOf, ways, layout, moving, Typed, Alive, Phases,
        Acquiring, Starting, Ending
  <2>2. Apart(p)
    BY <1>2 DEF Write, Granted, ways, layout, moving, Typed, Apart
  <2> QED  BY <2>1, <2>2
<1>3. CASE Read(p)
  <2>1. Typed'
    BY <1>3
    DEF Read, Granted, Refused, Dead, LockOf, layout, moving, Typed, Alive,
        Phases, Acquiring, Starting, Ending
  <2>2. Apart(p)
    BY <1>3 DEF Read, Granted, Refused, Dead, layout, moving, Typed, Apart
  <2> QED  BY <2>1, <2>2
<1>4. CASE Remove(p)
  <2>1. Typed'
    BY <1>4
    DEF Remove, LockOf, ways, layout, moving, Typed, Alive, Phases, Acquiring,
        Starting, Ending
  <2>2. Apart(p)
    BY <1>4 DEF Remove, ways, layout, moving, Typed, Apart
  <2> QED  BY <2>1, <2>2
<1>5. CASE Recreate(p)
  <2>1. Typed'
    BY <1>5
    DEF Recreate, Refused, Dead, LockOf, layout, moving, Typed, Alive, Phases,
        Acquiring, Starting, Ending
  <2>2. Apart(p)
    BY <1>5 DEF Recreate, Refused, Dead, layout, moving, Typed, Apart
  <2> QED  BY <2>1, <2>2
<1>6. CASE Enter(p)
  <2>1. Typed'
    BY <1>6 DEF Enter, locks, layout, Typed, Alive, Phases, Acquiring, Starting, Ending
  <2>2. Apart(p)
    BY <1>6 DEF Enter, locks, layout, Typed, Apart
  <2> QED  BY <2>1, <2>2
<1>7. CASE Verify(p)
  <2>1. Typed'
    BY <1>7
    DEF Verify, Abort, locks, ways, layout, Typed, Alive, Phases, Acquiring,
        Starting, Ending
  <2>2. Apart(p)
    BY <1>7 DEF Verify, Abort, locks, ways, layout, Typed, Apart
  <2> QED  BY <2>1, <2>2
<1>8. CASE Look(p)
  <2>1. Typed'
    BY <1>8
    DEF Look, locks, ways, layout, moving, Typed, Alive, Phases, Acquiring,
        Starting, Ending
  <2>2. Apart(p)
    BY <1>8 DEF Look, locks, ways, layout, moving, Typed, Apart
  <2> QED  BY <2>1, <2>2
<1>9. CASE Rename(p)
  <2>1. Typed'
    BY <1>9
    DEF Rename, Abort, locks, ways, moving, Typed, Alive, Phases, Acquiring,
        Starting, Ending
  <2>2. Apart(p)
    BY <1>9 DEF Rename, Abort, locks, ways, moving, Typed, Apart
  <2> QED  BY <2>1, <2>2
<1>10. CASE Open(p)
  <2>1. Typed'
    BY <1>10 DEF Open, ways, moving, Typed, Alive, Phases, Acquiring, Starting, Ending
  <2>2. Apart(p)
    BY <1>10 DEF Open, ways, moving, Typed, Apart
  <2> QED  BY <2>1, <2>2
<1>11. CASE Publish(p)
  <2>1. Typed'
    BY <1>11
    DEF Publish, locks, layout, moving, Typed, Alive, Phases, Acquiring,
        Starting, Ending
  <2>2. Apart(p)
    BY <1>11 DEF Publish, locks, layout, moving, Typed, Apart
  <2> QED  BY <2>1, <2>2
<1>12. CASE Release(p)
  <2>1. Typed'
    BY <1>12
    DEF Release, Released, LockOf, ways, layout, moving, Typed, Alive, Phases,
        Acquiring, Starting, Ending
  <2>2. Apart(p)
    BY <1>12 DEF Release, Released, ways, layout, moving, Typed, Apart
  <2> QED  BY <2>1, <2>2
<1>13. CASE Unlock(p)
  <2>1. Typed'
    BY <1>13
    DEF Unlock, Released, LockOf, ways, layout, moving, Typed, Alive, Phases,
        Acquiring, Starting, Ending
  <2>2. Apart(p)
    BY <1>13 DEF Unlock, Released, ways, layout, moving, Typed, Apart
  <2> QED  BY <2>1, <2>2
<1>14. CASE Close(p)
  <2>1. Typed'
    BY <1>14
    DEF Close, locks, layout, moving, Typed, Alive, Phases, Acquiring, Starting,
        Ending
  <2>2. Apart(p)
    BY <1>14 DEF Close, locks, layout, moving, Typed, Apart
  <2> QED  BY <2>1, <2>2
<1>15. CASE CleanUp(p)
  <2>1. Typed'
    BY <1>15
    DEF CleanUp, layout, moving, Typed, Alive, Phases, Acquiring, Starting,
        Ending
  <2>2. Apart(p)
    BY <1>15 DEF CleanUp, layout, moving, Typed, Apart
  <2> QED  BY <2>1, <2>2
<1>16. CASE Unlink(p)
  <2>1. Typed'
    BY <1>16 DEF Unlink, Dead, layout, Typed, Alive, Phases, Acquiring, Starting, Ending
  <2>2. Apart(p)
    BY <1>16 DEF Unlink, Dead, layout, Typed, Apart
  <2> QED  BY <2>1, <2>2
<1>17. CASE Bind(p)
  <2>1. Typed'
    BY <1>17
    DEF Bind, Me, locks, layout, moving, Acquiring, Typed, Alive, Phases,
        Starting, Ending
  <2>2. Apart(p)
    BY <1>17 DEF Bind, locks, layout, moving, Typed, Apart
  <2> QED  BY <2>1, <2>2
<1>18. CASE Stop(p)
  <2>1. Typed'
    BY <1>18
    DEF Stop, Fault, locks, ways, layout, moving, Typed, Alive, Phases,
        Acquiring, Starting, Ending
  <2>2. Apart(p)
    BY <1>18 DEF Stop, Fault, locks, ways, layout, moving, Typed, Apart
  <2> QED  BY <2>1, <2>2
<1>19. CASE Fail(p)
  <2>1. Typed'
    BY <1>19
    DEF Fail, Abort, Fault, locks, ways, layout, Acquiring, Starting, Typed,
        Alive, Phases, Ending
  <2>2. Apart(p)
    BY <1>19 DEF Fail, Abort, Fault, locks, ways, layout, Typed, Apart
  <2> QED  BY <2>1, <2>2
<1>20. CASE Crash(p)
  <2>1. Typed'
    BY <1>20
    DEF Crash, Dead, Fault, layout, Typed, Alive, Phases, Acquiring, Starting,
        Ending
  <2>2. Apart(p)
    BY <1>20 DEF Crash, Dead, Fault, layout, Typed, Apart
  <2> QED  BY <2>1, <2>2
<1> QED  BY <1>1, <1>2, <1>3, <1>4, <1>5, <1>6, <1>7, <1>8, <1>9, <1>10, <1>11, <1>12,
          <1>13, <1>14, <1>15, <1>16, <1>17, <1>18, <1>19, <1>20
         DEF Step

\* A start takes a start time nobody has.
LEMMA StartTyped ==
    ASSUME Typed, Living, NEW p \in Pids, Start(p)
    PROVE  Typed' /\ Living' /\ Apart(p)
<1>1. Fresh \in Births /\ Fresh \notin Used
  BY FreshIsFree DEF Start
<1>2. Typed'
  BY <1>1, Basics DEF Start, Fault, Typed, Phases, Acquiring, locks, ways, layout, moving
<1>3. Apart(p)
  BY DEF Start, Typed, Apart, locks, ways, layout, moving
<1>4. Living'
  <2>1. phase'[p] = "create" /\ born'[p] = Fresh /\ Fresh # 0
    BY <1>1, Basics DEF Start, Typed
  <2>2. \A q \in Pids : Fresh # born[q]
    BY <1>1 DEF Used
  <2>3. \A q \in Pids : Alive(q)' <=> born'[q] # 0
    BY <1>3, <2>1 DEF Living, Alive, Apart
  <2>4. \A q, r \in Pids : q # r /\ Alive(q)' => born'[q] # born'[r]
    <3>1. \A q \in Pids \ {p} : born'[q] = born[q] /\ (Alive(q)' <=> Alive(q))
      BY <1>3 DEF Apart, Alive
    <3> QED  BY <2>1, <2>2, <3>1 DEF Living
  <2>5. \A q \in bound' \cup writer' \cup first' : Alive(q)'
    <3>1. bound' = bound /\ writer' = writer /\ first' \subseteq first \cup {p}
      BY DEF Start, ways
    <3>2. \A q \in first \cup {p} \cup bound \cup writer : q \in Pids
      BY DEF Typed
    <3> QED  BY <1>3, <2>1, <3>1, <3>2 DEF Living, Alive, Apart
  <2> QED  BY <2>3, <2>4, <2>5 DEF Living
<1> QED  BY <1>2, <1>3, <1>4

\* A process that goes on keeps its start time, one that ends loses all it has.
GoesOn(p) ==
    \/ /\ phase'[p] # "off"
       /\ born'[p] = born[p]
       /\ Alive(p)
    \/ /\ phase'[p] = "off"
       /\ born'[p] = 0
       /\ p \notin bound' \cup writer' \cup first'

\* Every step is one or the other.
LEMMA StepGoesOn ==
    ASSUME Typed, Living, NEW p \in Pids, Step(p) \/ Bind(p) \/ Stop(p) \/ Fail(p) \/ Crash(p)
    PROVE  GoesOn(p)
<1>1. CASE Create(p)
  BY <1>1
  DEF Create, ways, layout, moving, Typed, GoesOn, Alive, Acquiring, Starting,
      Ending
<1>2. CASE Write(p)
  BY <1>2
  DEF Write, Granted, ways, layout, moving, Typed, GoesOn, Alive, Acquiring,
      Starting, Ending
<1>3. CASE Read(p)
  BY <1>3
  DEF Read, Granted, Refused, Dead, layout, moving, Typed, GoesOn, Alive,
      Acquiring, Starting, Ending
<1>4. CASE Remove(p)
  BY <1>4
  DEF Remove, ways, layout, moving, Typed, GoesOn, Alive, Acquiring, Starting,
      Ending
<1>5. CASE Recreate(p)
  BY <1>5
  DEF Recreate, Refused, Dead, layout, moving, Typed, GoesOn, Alive, Acquiring,
      Starting, Ending
<1>6. CASE Enter(p)
  BY <1>6 DEF Enter, locks, layout, Typed, GoesOn, Alive, Acquiring, Starting, Ending
<1>7. CASE Verify(p)
  BY <1>7
  DEF Verify, Abort, locks, ways, layout, Typed, GoesOn, Alive, Acquiring,
      Starting, Ending
<1>8. CASE Look(p)
  BY <1>8
  DEF Look, locks, ways, layout, moving, Typed, GoesOn, Alive, Acquiring,
      Starting, Ending
<1>9. CASE Rename(p)
  BY <1>9
  DEF Rename, Abort, locks, ways, moving, Typed, GoesOn, Alive, Acquiring,
      Starting, Ending
<1>10. CASE Open(p)
  BY <1>10 DEF Open, ways, moving, Typed, GoesOn, Alive, Acquiring, Starting, Ending
<1>11. CASE Publish(p)
  BY <1>11
  DEF Publish, locks, layout, moving, Typed, GoesOn, Alive, Acquiring, Starting,
      Ending
<1>12. CASE Release(p)
  BY <1>12
  DEF Release, Released, ways, layout, moving, Typed, GoesOn, Alive, Acquiring,
      Starting, Ending
<1>13. CASE Unlock(p)
  BY <1>13
  DEF Unlock, Released, ways, layout, moving, Typed, GoesOn, Alive, Acquiring,
      Starting, Ending
<1>14. CASE Close(p)
  BY <1>14
  DEF Close, locks, layout, moving, Typed, GoesOn, Alive, Acquiring, Starting,
      Ending
<1>15. CASE CleanUp(p)
  BY <1>15
  DEF CleanUp, layout, moving, Typed, GoesOn, Alive, Acquiring, Starting, Ending
<1>16. CASE Unlink(p)
  BY <1>16 DEF Unlink, Dead, layout, Typed, GoesOn, Alive, Acquiring, Starting, Ending
<1>17. CASE Bind(p)
  BY <1>17
  DEF Bind, locks, layout, moving, Acquiring, Typed, GoesOn, Alive, Starting,
      Ending
<1>18. CASE Stop(p)
  BY <1>18
  DEF Stop, Fault, locks, ways, layout, moving, Typed, GoesOn, Alive, Acquiring,
      Starting, Ending
<1>19. CASE Fail(p)
  BY <1>19
  DEF Fail, Abort, Fault, locks, ways, layout, Acquiring, Starting, Typed, GoesOn,
      Alive, Ending
<1>20. CASE Crash(p)
  BY <1>20
  DEF Crash, Dead, Fault, layout, Typed, GoesOn, Alive, Acquiring, Starting,
      Ending
<1> QED  BY <1>1, <1>2, <1>3, <1>4, <1>5, <1>6, <1>7, <1>8, <1>9, <1>10, <1>11, <1>12,
          <1>13, <1>14, <1>15, <1>16, <1>17, <1>18, <1>19, <1>20
         DEF Step

\* So start times stay with the living, one each.
LEMMA StepLiving ==
    ASSUME Typed, Living, NEW p \in Pids, Step(p) \/ Bind(p) \/ Stop(p) \/ Fail(p) \/ Crash(p)
    PROVE  Living'
<1>1. Typed' /\ Apart(p) /\ GoesOn(p)
  BY StepTyped, StepGoesOn
<1>2. \A q \in Pids : Alive(q)' <=> born'[q] # 0
  BY <1>1 DEF Living, Alive, Apart, GoesOn
<1>3. \A q \in Pids \ {p} : born'[q] = born[q] /\ (Alive(q)' <=> Alive(q))
  BY <1>1 DEF Apart, Alive
<1>4. \A q, r \in Pids : q # r /\ Alive(q)' => born'[q] # born'[r]
  BY <1>1, <1>3 DEF Living, Alive, GoesOn
<1>5. \A q \in bound' \cup writer' \cup first' : q \in Pids
  BY <1>1 DEF Typed
<1>6. \A q \in bound' \cup writer' \cup first' : Alive(q)'
  <2>1. \A q \in Pids \ {p} : q \in bound' \cup writer' \cup first' => Alive(q)'
    BY <1>1, <1>3 DEF Living, Apart
  <2>2. p \in bound' \cup writer' \cup first' => Alive(p)'
    BY <1>1 DEF GoesOn, Alive
  <2> QED  BY <1>5, <2>1, <2>2
<1> QED  BY <1>2, <1>4, <1>6 DEF Living

\* What a process handles fits its phase before and after its step.
Handles(p) ==
    /\ todo[p] # {} => phase[p] \in Starting
    /\ Cardinality(entry[p]) = IF phase[p] \in {"gated", "moving"} THEN 1 ELSE 0
    /\ p \in clash => phase[p] = "moving"

\* One that gave up or ended has nothing in hand.
LEMMA GoneHandles ==
    ASSUME Typed, NEW p \in Pids, Dead(p) \/ Abort(p)
    PROVE  Handles(p)'
<1>1. todo'[p] = {} /\ entry'[p] = {} /\ p \notin clash'
  BY DEF Dead, Abort, Typed
<1>2. phase'[p] \in {"off", "closing", "cleanup"}
  BY DEF Dead, Abort, Typed
<1>3. Cardinality({}) = 0
  BY FS_EmptySet
<1> QED  BY <1>1, <1>2, <1>3 DEF Handles

\* A step hands things over as its phase changes.
LEMMA StepHandles ==
    ASSUME Typed, NEW p \in Pids, Handles(p),
           Start(p) \/ Step(p) \/ Bind(p) \/ Stop(p) \/ Fail(p) \/ Crash(p)
    PROVE  Handles(p)'
<1>0. Cardinality({}) = 0 /\ \A e : Cardinality({e}) = 1
  BY FS_EmptySet, FS_Singleton
<1>1. CASE Start(p)
  BY <1>1 DEF Start, Fault, ways, layout, moving, Typed, Handles, Starting, Alive
<1>2. CASE Create(p)
  BY <1>2 DEF Create, ways, layout, moving, Typed, Handles, Starting
<1>3. CASE Write(p)
  BY <1>3 DEF Write, Granted, ways, layout, moving, Typed, Handles, Starting
<1>4. CASE Read(p)
  BY <1>4, GoneHandles
  DEF Read, Granted, Refused, layout, moving, Typed, Handles, Starting
<1>5. CASE Remove(p)
  BY <1>5 DEF Remove, ways, layout, moving, Typed, Handles, Starting
<1>6. CASE Recreate(p)
  BY <1>6, GoneHandles DEF Recreate, Refused, layout, moving, Typed, Handles, Starting
<1>7. CASE Enter(p)
  BY <1>7 DEF Enter, locks, layout, Typed, Handles, Starting
<1>8. CASE Verify(p)
  <2>1. CASE phase'[p] = "gated"
    <3>1. PICK e \in todo[p] : entry' = [entry EXCEPT ![p] = {e}] /\ clash' = clash
      BY <1>8, <2>1 DEF Verify, Abort, Typed
    <3>2. entry'[p] = {e} /\ phase[p] = "migrating"
      BY <1>8, <3>1 DEF Verify, Typed
    <3> QED  BY <1>0, <2>1, <3>1, <3>2 DEF Handles, Starting
  <2>2. CASE phase'[p] # "gated"
    <3>1. Abort(p)
      BY <1>8, <2>2 DEF Verify, Typed
    <3> QED  BY <3>1, GoneHandles
  <2> QED  BY <2>1, <2>2
<1>9. CASE Look(p)
  BY <1>9 DEF Look, locks, ways, layout, moving, Typed, Handles, Starting
<1>10. CASE Rename(p)
  BY <1>0, <1>10, GoneHandles DEF Rename, locks, ways, moving, Typed, Handles, Starting
<1>11. CASE Open(p)
  BY <1>11 DEF Open, ways, moving, Typed, Handles, Starting
<1>12. CASE Publish(p)
  BY <1>12 DEF Publish, locks, layout, moving, Typed, Handles, Starting
<1>13. CASE Release(p)
  BY <1>13 DEF Release, Released, ways, layout, moving, Typed, Handles, Starting
<1>14. CASE Unlock(p)
  BY <1>14 DEF Unlock, Released, ways, layout, moving, Typed, Handles, Starting
<1>15. CASE Close(p)
  BY <1>15 DEF Close, locks, layout, moving, Typed, Handles, Starting
<1>16. CASE CleanUp(p)
  BY <1>16 DEF CleanUp, layout, moving, Typed, Handles, Starting
<1>17. CASE Unlink(p)
  BY <1>17, GoneHandles DEF Unlink
<1>18. CASE Bind(p)
  BY <1>18 DEF Bind, locks, layout, moving, Acquiring, Typed, Handles, Starting
<1>19. CASE Stop(p)
  BY <1>19 DEF Stop, Fault, locks, ways, layout, moving, Typed, Handles, Starting
<1>20. CASE Fail(p)
  BY <1>20, GoneHandles DEF Fail
<1>21. CASE Crash(p)
  BY <1>21, GoneHandles DEF Crash
<1> QED  BY <1>1, <1>2, <1>3, <1>4, <1>5, <1>6, <1>7, <1>8, <1>9, <1>10, <1>11, <1>12,
          <1>13, <1>14, <1>15, <1>16, <1>17, <1>18, <1>19, <1>20, <1>21
         DEF Step

\* TypeOK over any step.
LEMMA TypesStep == TypeOK /\ [Next]_vars => TypeOK'
<1> SUFFICES ASSUME TypeOK, [Next]_vars PROVE TypeOK'
  OBVIOUS
<1>1. Typed /\ Living /\ Handling
  BY TypeOKParts
<1>2. CASE Next
  <2>1. PICK p \in Pids :
           Start(p) \/ Step(p) \/ Bind(p) \/ Stop(p) \/ Fail(p) \/ Crash(p)
    BY <1>2 DEF Next
  <2>2. Typed' /\ Living' /\ Apart(p)
    BY <1>1, <2>1, StartTyped, StepTyped, StepLiving
  <2>3. Handles(p)'
    BY <1>1, <2>1, StepHandles DEF Handling, Handles
  <2>4. \A q \in Pids \ {p} : Handles(q)'
    BY <1>1, <2>2 DEF Handling, Handles, Apart
  <2>5. Handling'
    BY <2>3, <2>4 DEF Handling, Handles
  <2> QED  BY <2>2, <2>5 DEF TypeOK, Typed, Living, Handling
<1>3. CASE UNCHANGED vars
  BY <1>3 DEF TypeOK, Alive, Me, vars, locks, ways, layout, moving
<1> QED  BY <1>2, <1>3

\* The variables keep their types, no two living processes have one start time, and a
\* process has something in hand only in the phase for it.
THEOREM TypeCorrect == Spec => []TypeOK
<1>1. Init => TypeOK
  BY TypesInit
<1>2. TypeOK /\ [Next]_vars => TypeOK'
  BY TypesStep
<1> QED  BY <1>1, <1>2, PTL DEF Spec

-----------------------------------------------------------------------------
(* The move of the legacy directory *)

\* A step that neither moves anything nor goes on moving.
Quiet(p) ==
    /\ UNCHANGED layout
    /\ writer' \subseteq writer
    /\ phase'[p] \notin {"migrating", "gated", "moving"}
    /\ todo'[p] \subseteq todo[p]
    /\ entry'[p] \subseteq entry[p]

\* All steps but five are quiet.
LEMMA QuietSteps ==
    ASSUME Typed, NEW p \in Pids,
           Start(p) \/ Step(p) \/ Bind(p) \/ Stop(p) \/ Fail(p) \/ Crash(p)
    PROVE  Quiet(p) \/ Enter(p) \/ Verify(p) \/ Look(p) \/ Rename(p) \/ Open(p)
<1>1. CASE Start(p)
  BY <1>1 DEF Start, Fault, ways, layout, moving, Typed, Quiet, Starting
<1>2. CASE Create(p)
  BY <1>2 DEF Create, ways, layout, moving, Typed, Quiet
<1>3. CASE Write(p)
  BY <1>3 DEF Write, Granted, ways, layout, moving, Typed, Quiet
<1>4. CASE Read(p)
  BY <1>4 DEF Read, Granted, Refused, Dead, layout, moving, Typed, Quiet
<1>5. CASE Remove(p)
  BY <1>5 DEF Remove, ways, layout, moving, Typed, Quiet
<1>6. CASE Recreate(p)
  BY <1>6 DEF Recreate, Refused, Dead, layout, moving, Typed, Quiet
<1>7. CASE Publish(p)
  BY <1>7 DEF Publish, locks, layout, moving, Typed, Quiet
<1>8. CASE Release(p)
  BY <1>8 DEF Release, Released, ways, layout, moving, Typed, Quiet
<1>9. CASE Unlock(p)
  BY <1>9 DEF Unlock, Released, ways, layout, moving, Typed, Quiet
<1>10. CASE Close(p)
  BY <1>10 DEF Close, locks, layout, moving, Typed, Quiet
<1>11. CASE CleanUp(p)
  BY <1>11 DEF CleanUp, layout, moving, Typed, Quiet
<1>12. CASE Unlink(p)
  BY <1>12 DEF Unlink, Dead, layout, Typed, Quiet
<1>13. CASE Bind(p)
  BY <1>13 DEF Bind, locks, layout, moving, Acquiring, Typed, Quiet
<1>14. CASE Stop(p)
  BY <1>14 DEF Stop, Fault, locks, ways, layout, moving, Typed, Quiet
<1>15. CASE Fail(p)
  BY <1>15
  DEF Fail, Abort, Fault, locks, ways, layout, Acquiring, Starting, Typed, Quiet
<1>16. CASE Crash(p)
  BY <1>16 DEF Crash, Dead, Fault, layout, Typed, Quiet
<1> QED  BY <1>1, <1>2, <1>3, <1>4, <1>5, <1>6, <1>7, <1>8, <1>9, <1>10, <1>11, <1>12,
          <1>13, <1>14, <1>15, <1>16
         DEF Step

\* What is quiet leaves everything where it was.
LEMMA QuietMoves ==
    ASSUME Typed, Whereabouts, Movers, NEW p \in Pids, Apart(p), Quiet(p)
    PROVE  Whereabouts' /\ Movers'
<1>1. Whereabouts'
  BY DEF Quiet, layout, Whereabouts
<1>2. origin' = origin /\ old' = old
  BY DEF Quiet, layout
<1>3. Moves(p)'
  BY <1>2 DEF Movers, Moves, Quiet
<1>4. \A q \in Pids \ {p} : Moves(q)'
  BY <1>2 DEF Movers, Moves, Apart
<1>5. writer' # {} => old' = {}
  BY <1>2 DEF Movers, Quiet
<1> QED  BY <1>1, <1>3, <1>4, <1>5 DEF Movers

\* Of a process that does not move, and of those beside it, less in the legacy
\* directory changes nothing.
LEMMA OthersMove ==
    ASSUME Typed, Movers, NEW p \in Pids, Apart(p), origin' = origin, old' \subseteq old
    PROVE  \A q \in Pids \ {p} : Moves(q)'
<1> SUFFICES ASSUME NEW q \in Pids \ {p} PROVE Moves(q)'
  OBVIOUS
<1>1. Moves(q) /\ phase'[q] = phase[q] /\ todo'[q] = todo[q] /\ entry'[q] = entry[q]
         /\ (q \in clash' <=> q \in clash)
  BY DEF Movers, Apart
<1>2. \A e \in todo'[q] \cup entry'[q] : origin'[e] \in {"old", "both"}
  BY <1>1 DEF Moves
<1>3. phase'[q] \in {"migrating", "gated", "moving"} => old' \subseteq todo'[q]
  BY <1>1 DEF Moves
<1>4. phase'[q] \in {"gated", "moving"} => \E e \in Entries : entry'[q] = {e}
  BY <1>1 DEF Moves
<1>5. phase'[q] = "moving" =>
         \A e \in entry'[q] \cap old' : q \in clash' <=> origin'[e] = "both"
  BY <1>1 DEF Moves
<1> QED  BY <1>2, <1>3, <1>4, <1>5 DEF Moves

\* The names to move are those the legacy directory holds.
LEMMA EnterMoves ==
    ASSUME Typed, Whereabouts, Movers, NEW p \in Pids, Apart(p), Enter(p)
    PROVE  Whereabouts' /\ Movers'
<1>1. UNCHANGED <<layout, writer, entry, clash>> /\ todo'[p] = old /\ phase'[p] = "migrating"
  BY DEF Enter, Typed
<1>2. Whereabouts'
  BY <1>1 DEF layout, Whereabouts
<1>3. Moves(p)'
  <2>1. \A e \in old : origin[e] \in {"old", "both"}
    BY DEF Typed, Whereabouts
  <2> QED  BY <1>1, <2>1 DEF layout, Movers, Moves
<1>4. \A q \in Pids \ {p} : Moves(q)'
  BY <1>1, OthersMove DEF layout
<1> QED  BY <1>1, <1>2, <1>3, <1>4 DEF layout, Movers

\* An entry is chosen, or the start is given up.
LEMMA VerifyMoves ==
    ASSUME Typed, Whereabouts, Movers, NEW p \in Pids, Apart(p), Verify(p)
    PROVE  Whereabouts' /\ Movers'
<1>1. CASE Abort(p)
  <2>1. Quiet(p)
    BY <1>1 DEF Verify, Abort, Typed, Quiet
  <2> QED  BY <2>1, QuietMoves
<1>2. CASE ~Abort(p)
  <2>1. PICK e \in todo[p] : entry' = [entry EXCEPT ![p] = {e}]
                             /\ phase' = [phase EXCEPT ![p] = "gated"] /\ todo' = todo
    BY <1>2 DEF Verify
  <2>2. UNCHANGED layout /\ writer' = writer /\ phase[p] = "migrating"
    BY DEF Verify
  <2>3. entry'[p] = {e} /\ phase'[p] = "gated"
    BY <2>1 DEF Typed
  <2>4. Moves(p)'
    <3>1. e \in Entries
      BY DEF Typed
    <3> QED  BY <2>1, <2>2, <2>3, <3>1 DEF layout, Movers, Moves
  <2>5. \A q \in Pids \ {p} : Moves(q)'
    BY <2>2, OthersMove DEF layout
  <2> QED  BY <2>2, <2>4, <2>5 DEF layout, Movers, Whereabouts
<1> QED  BY <1>1, <1>2

\* An entry that is still there has no moved copy: what is found is cron's own.
LEMMA LookMoves ==
    ASSUME Typed, Handling, Whereabouts, Movers, NEW p \in Pids, Apart(p), Look(p)
    PROVE  Whereabouts' /\ Movers'
<1>1. UNCHANGED <<layout, writer, todo, entry>> /\ phase[p] = "gated" /\ phase'[p] = "moving"
  BY DEF Look, Typed
<1>2. PICK e \in Entries : entry[p] = {e}
  BY <1>1 DEF Movers, Moves
<1>3. e \in old => (p \in clash' <=> origin[e] = "both")
  <2>1. p \notin clash
    BY <1>1 DEF Handling
  <2>2. p \in clash' <=> new[e] # "none"
    BY <1>2, <2>1 DEF Look, Taken
  <2> QED  BY <2>2 DEF Whereabouts
<1>4. Moves(p)'
  BY <1>1, <1>2, <1>3 DEF layout, Movers, Moves
<1>5. \A q \in Pids \ {p} : Moves(q)'
  BY <1>1, OthersMove DEF layout
<1> QED  BY <1>1, <1>4, <1>5 DEF layout, Movers, Whereabouts

\* The entry goes to cron, or beside itself, unless somebody else has moved it.
LEMMA RenameMoves ==
    ASSUME Typed, Whereabouts, Movers, NEW p \in Pids, Apart(p), Rename(p)
    PROVE  Whereabouts' /\ Movers'
<1>1. CASE ~(entry[p] \subseteq old)
  <2>1. Quiet(p)
    BY <1>1 DEF Rename, Abort, Typed, Quiet, layout
  <2> QED  BY <2>1, QuietMoves
<1>2. CASE entry[p] \subseteq old
  <2>1. PICK e \in Entries : entry[p] = {e}
    BY DEF Rename, Movers, Moves
  <2>2. e \in old /\ (p \in clash <=> origin[e] = "both") /\ old \subseteq todo[p]
    BY <1>2, <2>1 DEF Rename, Movers, Moves
  <2>3. origin[e] \in {"old", "both"}
    BY <2>2 DEF Whereabouts
  <2>4. /\ old' = old \ {e} /\ origin' = origin /\ writer' = writer
        /\ phase'[p] = "migrating" /\ todo'[p] = todo[p] \ {e} /\ entry'[p] = {}
    BY <1>2, <2>1 DEF Rename, Typed
  <2>5. Whereabouts'
    <3>1. CASE p \in clash
      <4>1. new' = new /\ backup' = backup \cup {e} /\ origin[e] = "both"
        BY <1>2, <2>1, <2>2, <3>1 DEF Rename
      <4> QED  BY <2>4, <4>1 DEF Whereabouts
    <3>2. CASE p \notin clash
      <4>1. new' = [x \in Entries |-> IF x = e THEN "legacy" ELSE new[x]] /\ backup' = backup
        BY <1>2, <2>1, <3>2 DEF Rename
      <4>2. origin[e] = "old"
        BY <2>2, <2>3, <3>2
      <4> QED  BY <2>4, <4>1, <4>2 DEF Whereabouts
    <3> QED  BY <3>1, <3>2
  <2>6. Moves(p)'
    BY <2>2, <2>4 DEF Movers, Moves
  <2>7. \A q \in Pids \ {p} : Moves(q)'
    BY <2>4, OthersMove
  <2>8. writer' # {} => old' = {}
    BY <2>4 DEF Movers
  <2> QED  BY <2>5, <2>6, <2>7, <2>8 DEF Movers
<1> QED  BY <1>1, <1>2

\* The stores fill in what nobody had.
LEMMA OpenMoves ==
    ASSUME Typed, Whereabouts, Movers, NEW p \in Pids, Apart(p), Open(p)
    PROVE  Whereabouts' /\ Movers'
<1>1. /\ old' = old /\ origin' = origin /\ backup' = backup /\ todo' = todo /\ entry' = entry
      /\ phase'[p] = "create"
      /\ new' = [e \in Entries |-> IF new[e] = "none" THEN "own" ELSE new[e]]
  BY DEF Open, Typed, moving
<1>2. old = {}
  BY DEF Open, Movers, Moves
<1>3. Whereabouts'
  BY <1>1, <1>2 DEF Whereabouts
<1>4. Moves(p)'
  BY <1>1 DEF Movers, Moves
<1>5. \A q \in Pids \ {p} : Moves(q)'
  BY <1>1, OthersMove
<1> QED  BY <1>1, <1>2, <1>3, <1>4, <1>5 DEF Movers

\* Both parts of the invariant at first, ...
LEMMA MovesInit == Init => Whereabouts /\ Movers
<1> SUFFICES ASSUME Init PROVE Whereabouts /\ Movers
  OBVIOUS
<1>1. Whereabouts
  <2>1. origin \in [Entries -> {"none", "old", "new", "both"}]
    BY DEF Init
  <2> QED  BY <2>1 DEF Init, Whereabouts
<1>2. Movers
  BY DEF Init, Movers, Moves
<1> QED  BY <1>1, <1>2

\* ... and over any step.
LEMMA MovesStep ==
    TypeOK /\ Whereabouts /\ Movers /\ [Next]_vars => Whereabouts' /\ Movers'
<1> SUFFICES ASSUME TypeOK, Whereabouts, Movers, [Next]_vars PROVE Whereabouts' /\ Movers'
  OBVIOUS
<1>1. Typed /\ Living /\ Handling
  BY TypeOKParts
<1>2. CASE Next
  <2>1. PICK p \in Pids :
           Start(p) \/ Step(p) \/ Bind(p) \/ Stop(p) \/ Fail(p) \/ Crash(p)
    BY <1>2 DEF Next
  <2>2. Apart(p)
    BY <1>1, <2>1, StartTyped, StepTyped
  <2>3. Quiet(p) \/ Enter(p) \/ Verify(p) \/ Look(p) \/ Rename(p) \/ Open(p)
    BY <1>1, <2>1, QuietSteps
  <2> QED  BY <1>1, <2>2, <2>3, QuietMoves, EnterMoves, VerifyMoves, LookMoves,
              RenameMoves, OpenMoves
<1>3. CASE UNCHANGED vars
  BY <1>3 DEF Whereabouts, Movers, Moves, vars, locks, ways, layout, moving
<1> QED  BY <1>2, <1>3

\* Whoever crashes, fails, comes up beside another or moves at the same time: no legacy
\* entry is lost, none of cron's own is overwritten, and whoever has the stores open has
\* the legacy data in them where there was nothing else (main.rs, layout_migration.rs).
THEOREM MigrationIsSafe == Spec => []MoveIsSafe
<1>1. Init => Whereabouts /\ Movers
  BY MovesInit
<1>2. TypeOK /\ Whereabouts /\ Movers /\ [Next]_vars => Whereabouts' /\ Movers'
  BY MovesStep
<1>3. Whereabouts /\ Movers => MoveIsSafe
  BY DEF Whereabouts, Movers, MoveIsSafe
<1> QED  BY <1>1, <1>2, <1>3, TypeCorrect, PTL DEF Spec

-----------------------------------------------------------------------------
(* The first of the daemons *)

\* OpenedLate is kept: the turn changes only in a start and in a clean-up.
LEMMA OpenedLateStep ==
    ASSUME Typed, Living, OpenedLate, NEW p \in Pids,
           Start(p) \/ Step(p) \/ Bind(p) \/ Stop(p) \/ Fail(p) \/ Crash(p)
    PROVE  OpenedLate'
<1> DEFINE Late == p \in bound \cup writer =>
                      phase[p] \in Ending \/ (turn[p] = "again" /\ phase[p] \notin Starting)
<1>1. Late
  BY DEF OpenedLate
<1>2. Apart(p) /\ Typed'
  BY StepTyped, StartTyped
<1>3. Late'
  <2>1. CASE Start(p)
    BY <1>1, <2>1
    DEF Start, Fault, ways, layout, moving, Typed, Alive, Living, Acquiring,
        Starting, Ending
  <2>2. CASE Create(p)
    BY <1>1, <2>2 DEF Create, ways, layout, moving, Typed, Acquiring, Starting, Ending
  <2>3. CASE Write(p)
    BY <1>1, <2>3
    DEF Write, Granted, ways, layout, moving, Typed, Acquiring, Starting, Ending
  <2>4. CASE Read(p)
    BY <1>1, <2>4
    DEF Read, Granted, Refused, Dead, layout, moving, Typed, Acquiring,
        Starting, Ending
  <2>5. CASE Remove(p)
    BY <1>1, <2>5 DEF Remove, ways, layout, moving, Typed, Acquiring, Starting, Ending
  <2>6. CASE Recreate(p)
    BY <1>1, <2>6
    DEF Recreate, Refused, Dead, layout, moving, Typed, Acquiring, Starting,
        Ending
  <2>7. CASE Enter(p)
    BY <1>1, <2>7 DEF Enter, locks, layout, Typed, Acquiring, Starting, Ending
  <2>8. CASE Verify(p)
    BY <1>1, <2>8
    DEF Verify, Abort, locks, ways, layout, Typed, Acquiring, Starting, Ending
  <2>9. CASE Look(p)
    BY <1>1, <2>9
    DEF Look, locks, ways, layout, moving, Typed, Acquiring, Starting, Ending
  <2>10. CASE Rename(p)
    BY <1>1, <2>10
    DEF Rename, Abort, locks, ways, moving, Typed, Acquiring, Starting, Ending
  <2>11. CASE Open(p)
    BY <1>1, <2>11 DEF Open, ways, moving, Typed, Acquiring, Starting, Ending
  <2>12. CASE Publish(p)
    BY <1>1, <2>12
    DEF Publish, locks, layout, moving, Typed, Acquiring, Starting, Ending
  <2>13. CASE Release(p)
    BY <1>1, <2>13
    DEF Release, Released, ways, layout, moving, Typed, Acquiring, Starting,
        Ending
  <2>14. CASE Unlock(p)
    BY <1>1, <2>14
    DEF Unlock, Released, ways, layout, moving, Typed, Acquiring, Starting,
        Ending
  <2>15. CASE Close(p)
    BY <1>1, <2>15 DEF Close, locks, layout, moving, Typed, Acquiring, Starting, Ending
  <2>16. CASE CleanUp(p)
    BY <1>1, <2>16 DEF CleanUp, layout, moving, Typed, Acquiring, Starting, Ending
  <2>17. CASE Unlink(p)
    BY <1>1, <2>17 DEF Unlink, Dead, layout, Typed, Acquiring, Starting, Ending
  <2>18. CASE Bind(p)
    BY <1>1, <2>18 DEF Bind, locks, layout, moving, Acquiring, Typed, Starting, Ending
  <2>19. CASE Stop(p)
    BY <1>1, <2>19
    DEF Stop, Fault, locks, ways, layout, moving, Typed, Acquiring, Starting,
        Ending
  <2>20. CASE Fail(p)
    BY <1>1, <2>20
    DEF Fail, Abort, Fault, locks, ways, layout, Acquiring, Starting, Typed,
        Ending
  <2>21. CASE Crash(p)
    BY <1>1, <2>21 DEF Crash, Dead, Fault, layout, Typed, Acquiring, Starting, Ending
  <2> QED  BY <2>1, <2>2, <2>3, <2>4, <2>5, <2>6, <2>7, <2>8, <2>9, <2>10, <2>11,
            <2>12, <2>13, <2>14, <2>15, <2>16, <2>17, <2>18, <2>19, <2>20, <2>21
           DEF Step
<1>4. \A q \in Pids \ {p} : q \in bound' \cup writer' =>
         phase'[q] \in Ending \/ (turn'[q] = "again" /\ phase'[q] \notin Starting)
  BY <1>2 DEF OpenedLate, Apart
<1>5. bound' \cup writer' \subseteq Pids
  BY <1>2 DEF Typed
<1> QED  BY <1>3, <1>4, <1>5 DEF OpenedLate

\* Only a start makes a process a first one, and then it is the only one.
LEMMA FirstShrinks ==
    ASSUME NEW p \in Pids, Start(p) \/ Step(p) \/ Bind(p) \/ Stop(p) \/ Fail(p) \/ Crash(p)
    PROVE  \/ first' \subseteq first
           \/ Start(p) /\ first' = {p} /\ \A q \in Pids : ~Alive(q)
BY DEF Start, Step, Create, Write, Read, Remove, Recreate, Refused, Dead, Enter, Verify,
       Look, Rename, Open, Publish, Release, Unlock, Close, CleanUp, Unlink, Bind, Stop,
       Fail, Crash

\* A process that begins alone.
LEMMA StartsAlone ==
    ASSUME Typed, Living, NEW p \in Pids, Start(p), first' = {p}, \A q \in Pids : ~Alive(q)
    PROVE  Prevails'
<1>1. Apart(p)
  BY StartTyped
<1>2. /\ phase'[p] = "create" /\ legacyDir' = legacyDir
      /\ turn'[p] = IF legacyDir THEN "legacy" ELSE "primary"
  BY DEF Start, Typed, layout
<1>3. \A q \in Pids \ {p} : ~Alive(q)'
  BY <1>1 DEF Apart, Alive
<1>4. Claims(p)' /\ Claiming(p)'
  BY <1>2, <1>3 DEF Claims, Claiming, Acquiring
<1> QED  BY <1>4 DEF Prevails

\* What a process does that has not got its locks yet, when it is alone.
LEMMA ClaimsStep ==
    ASSUME Typed, Living, OpenedLate, NEW p \in Pids, Alive(p), first = {p},
           Claiming(p), Claims(p),
           Step(p) \/ Bind(p) \/ Stop(p) \/ Fail(p) \/ Crash(p)
    PROVE  Prevails'
<1>1. Typed' /\ Apart(p)
  BY StepTyped
<1>2. \A q \in Pids \ {p} : ~Alive(q)'
  BY <1>1 DEF Apart, Alive, Claims
<1>3. p \notin bound
  BY DEF OpenedLate, Claiming, Acquiring, Starting, Ending
<1>4. NoFile # Me(p) /\ turn[p] \in {"legacy", "primary"} /\ phase[p] \in Acquiring
  BY Basics DEF Typed, Claiming
<1>5. first' \subseteq {p}
  BY FirstShrinks
<1>6. SUFFICES ASSUME p \in first'
               PROVE  phase'[p] \notin Ending =>
                         IF Claiming(p)' THEN Claims(p)' ELSE Holds(p)'
  BY <1>5 DEF Prevails
<1>7. CASE Create(p)
  <2>1. UNCHANGED <<turn, born, legacyDir>> /\ phase'[p] \in Acquiring
    BY <1>7 DEF Create, layout, Typed, Acquiring
  <2>2. turn[p] = "primary" => file'["legacy"] = file["legacy"]
    BY <1>7 DEF Create, Typed, LockOf
  <2> QED  BY <1>2, <1>4, <2>1, <2>2 DEF Claiming, Claims, Me
<1>8. CASE Write(p)
  <2>1. /\ UNCHANGED <<born, legacyDir, ways>> /\ file'[LockOf(p)] = Me(p) /\ Granted(p)
        /\ turn[p] = "primary" => file'["legacy"] = file["legacy"]
    BY <1>8 DEF Write, layout, Typed, LockOf
  <2>2. CASE turn[p] = "legacy"
    <3>1. turn'[p] = "primary" /\ phase'[p] = "create" /\ file'["legacy"] = Me(p)
      BY <2>1, <2>2 DEF Granted, Typed, LockOf
    <3> QED  BY <1>2, <2>1, <3>1 DEF Claiming, Claims, Me, Acquiring
  <2>3. CASE turn[p] = "primary"
    <3>1. phase'[p] = "enter" /\ file'["primary"] = Me(p) /\ bound' = bound
      BY <2>1, <2>3 DEF Granted, Typed, LockOf, ways
    <3> QED  BY <1>2, <1>3, <2>1, <2>3, <3>1 DEF Claiming, Claims, Holds, Me, Acquiring
  <2> QED  BY <1>4, <2>2, <2>3
<1>9. CASE Read(p)
  <2> DEFINE c == file[LockOf(p)]
  <2>1. c \in Owner /\ c.pid = p /\ c.born = born[p] => c = Me(p)
    BY DEF Owner, Me
  <2>2. UNCHANGED <<born, legacyDir, file, socket, pidFile>> /\ phase[p] = "read"
    BY <1>4, <1>6, <1>9 DEF Read, Refused, Dead, layout
  <2>3. CASE c \in Owner /\ c.pid = p
    <3>1. Granted(p) /\ bound' = bound /\ c = Me(p)
      BY <1>6, <1>9, <2>1, <2>3 DEF Read
    <3>2. CASE turn[p] = "legacy"
      <4>1. turn'[p] = "primary" /\ phase'[p] = "create" /\ file["legacy"] = Me(p)
        BY <3>1, <3>2 DEF Granted, Typed, LockOf
      <4> QED  BY <1>2, <2>2, <4>1 DEF Claiming, Claims, Me, Acquiring
    <3>3. CASE turn[p] = "primary"
      <4>1. phase'[p] = "enter" /\ file["primary"] = Me(p)
        BY <3>1, <3>3 DEF Granted, Typed, LockOf
      <4> QED  BY <1>2, <1>3, <2>2, <3>1, <3>3, <4>1
               DEF Claiming, Claims, Holds, Me, Acquiring
    <3> QED  BY <1>4, <3>2, <3>3
  <2>4. CASE ~(c \in Owner /\ c.pid = p)
    <3>1. phase'[p] = "remove" /\ turn' = turn
      BY <1>4, <1>6, <1>9, <2>4 DEF Read, Refused, Dead, Typed
    <3> QED  BY <1>2, <1>4, <2>2, <3>1 DEF Claiming, Claims, Me, Acquiring
  <2> QED  BY <2>3, <2>4
<1>10. CASE Remove(p)
  <2>1. UNCHANGED <<turn, born, legacyDir>> /\ phase'[p] \in Acquiring
    BY <1>10 DEF Remove, layout, Typed, Acquiring
  <2>2. turn[p] = "primary" => file'["legacy"] = file["legacy"]
    BY <1>10 DEF Remove, Typed, LockOf
  <2> QED  BY <1>2, <1>4, <2>1, <2>2 DEF Claiming, Claims, Me
<1>11. CASE Recreate(p)
  <2>1. UNCHANGED <<turn, born, legacyDir>> /\ phase'[p] \in Acquiring
    BY <1>4, <1>6, <1>11 DEF Recreate, Refused, Dead, layout, Typed, Acquiring
  <2>2. turn[p] = "primary" => file'["legacy"] = file["legacy"]
    BY <1>11 DEF Recreate, Typed, LockOf
  <2> QED  BY <1>2, <1>4, <2>1, <2>2 DEF Claiming, Claims, Me
<1>12. ~(Enter(p) \/ Verify(p) \/ Look(p) \/ Rename(p) \/ Open(p) \/ Publish(p) \/ Release(p)
         \/ Unlock(p) \/ Close(p) \/ CleanUp(p) \/ Unlink(p))
  BY DEF Claiming, Acquiring, Enter, Verify, Look, Rename, Open, Publish, Release, Unlock,
         Close, CleanUp, Unlink
<1>13. ~(Bind(p) \/ Stop(p) \/ Fail(p))
  BY DEF Claiming, Acquiring, Starting, Bind, Stop, Fail
<1>14. ~Crash(p)
  BY <1>6 DEF Crash, Dead
<1> QED  BY <1>7, <1>8, <1>9, <1>10, <1>11, <1>12, <1>13, <1>14 DEF Step

\* What a process does that has its locks.
LEMMA HoldsStep ==
    ASSUME Typed, Living, OpenedLate, NEW p \in Pids, Alive(p), first = {p},
           ~Claiming(p), Holds(p), phase[p] \notin Ending,
           Step(p) \/ Bind(p) \/ Stop(p) \/ Fail(p) \/ Crash(p)
    PROVE  Prevails'
<1>1. Typed' /\ Apart(p)
  BY StepTyped
<1>2. file[LockOf(p)] = Me(p) \/ phase[p] \notin Acquiring
  BY DEF Claiming, Holds, LockOf
<1>3. NoFile # Me(p) /\ Me(p) \in Owner /\ Me(p).pid = p /\ Me(p).born = born[p]
  BY Basics DEF Me
<1>4. first' \subseteq {p}
  BY FirstShrinks
<1>5. SUFFICES ASSUME p \in first', phase'[p] \notin Ending
               PROVE  ~Claiming(p)' /\ Holds(p)'
  BY <1>4 DEF Prevails
<1> DEFINE Same == /\ UNCHANGED <<born, legacyDir, file>>
                   /\ ~Claiming(p)'
                   /\ phase'[p] \in Acquiring => phase'[p] \in {"create", "read"}
                   /\ p \in bound' => socket' = Me(p)
                   /\ phase'[p] = "serving" => p \in bound' /\ pidFile' = p
<1>6. Same => ~Claiming(p)' /\ Holds(p)'
  <2>1. SUFFICES ASSUME Same PROVE Holds(p)'
    OBVIOUS
  <2>2. \A q \in Pids \ {p} : Alive(q)' => Waits(q)'
    BY <1>1, <2>1 DEF Apart, Alive, Waits, Holds
  <2> QED  BY <2>1, <2>2 DEF Holds, Me
<1> HIDE DEF Same
<1>7. CASE Create(p)
  <2> Same
    BY <1>2, <1>3, <1>5, <1>7
    DEF Create, ways, layout, moving, Same, Typed, Claiming, Holds, Acquiring,
        Starting, Ending
  <2> QED  BY <1>6
<1>8. CASE Read(p)
  <2> Same
    BY <1>2, <1>3, <1>5, <1>8
    DEF Read, Granted, Refused, Dead, layout, moving, Same, Typed, Claiming,
        Holds, Acquiring, Starting, Ending
  <2> QED  BY <1>6
<1>9. CASE Enter(p)
  <2> Same
    BY <1>5, <1>9
    DEF Enter, locks, layout, Same, Typed, Claiming, Holds, OpenedLate,
        Acquiring, Starting, Ending
  <2> QED  BY <1>6
<1>10. CASE Verify(p)
  <2> Same
    BY <1>5, <1>10
    DEF Verify, Abort, locks, ways, layout, Same, Typed, Claiming, Holds,
        OpenedLate, Acquiring, Starting, Ending
  <2> QED  BY <1>6
<1>11. CASE Look(p)
  <2> Same
    BY <1>5, <1>11
    DEF Look, locks, ways, layout, moving, Same, Typed, Claiming, Holds,
        OpenedLate, Acquiring, Starting, Ending
  <2> QED  BY <1>6
<1>12. CASE Rename(p)
  <2> Same
    BY <1>5, <1>12
    DEF Rename, Abort, locks, ways, moving, Same, Typed, Claiming, Holds,
        OpenedLate, Acquiring, Starting, Ending
  <2> QED  BY <1>6
<1>13. CASE Open(p)
  <2> Same
    BY <1>5, <1>13
    DEF Open, ways, moving, Same, Typed, Claiming, Holds, OpenedLate, Acquiring,
        Starting, Ending
  <2> QED  BY <1>6
<1>14. CASE Publish(p)
  <2> Same
    BY <1>5, <1>14
    DEF Publish, locks, layout, moving, Same, Typed, Claiming, Holds, Acquiring,
        Starting, Ending
  <2> QED  BY <1>6
<1>15. CASE Bind(p)
  <2> Same
    BY <1>5, <1>15
    DEF Bind, locks, layout, moving, Acquiring, Same, Typed, Claiming, Holds,
        Starting, Ending
  <2> QED  BY <1>6
<1>20. ~(Write(p) \/ Remove(p) \/ Recreate(p))
  BY DEF Holds, Write, Remove, Recreate, Acquiring
<1>21. ~(Release(p) \/ Unlock(p) \/ Close(p) \/ CleanUp(p) \/ Unlink(p))
  BY DEF Release, Unlock, Close, CleanUp, Unlink, Ending
<1>22. ~(Stop(p) \/ Fail(p) \/ Crash(p))
  BY <1>5 DEF Stop, Fail, Abort, Crash, Dead, Typed, Ending
<1> QED  BY <1>6, <1>7, <1>8, <1>9, <1>10, <1>11, <1>12, <1>13, <1>14, <1>15,
         <1>20, <1>21, <1>22 DEF Step

\* Whoever starts beside a process that has its locks gets no further.
LEMMA OthersWait ==
    ASSUME Typed, Living, OpenedLate, NEW p \in Pids, Alive(p), first = {p},
           ~Claiming(p), Holds(p), phase[p] \notin Ending,
           NEW q \in Pids \ {p},
           Start(q) \/ Step(q) \/ Bind(q) \/ Stop(q) \/ Fail(q) \/ Crash(q)
    PROVE  Prevails'
<1>1. Typed' /\ Apart(q)
  BY StepTyped, StartTyped
<1>2. Me(p) \in Owner /\ Me(p).pid = p /\ Me(p).born = born[p] /\ Me(p) # NoFile
  BY Basics DEF Me
<1>3. Alive(q) => Waits(q) /\ file[LockOf(q)] = Me(p) /\ turn[q] # "again"
  BY DEF Holds, Waits, LockOf
<1>4. /\ UNCHANGED <<legacyDir, file, socket, pidFile>>
      /\ first' = {p}
      /\ Alive(q)' => Waits(q)'
  <2>1. CASE Start(q)
    BY <1>2, <1>3, <2>1 DEF Start, Fault, ways, layout, moving, Typed, Alive, Waits
  <2>2. CASE Create(q)
    BY <1>2, <1>3, <2>2 DEF Create, ways, layout, moving, Typed, Alive, Waits
  <2>3. CASE Read(q)
    BY <1>2, <1>3, <2>3
    DEF Read, Granted, Refused, Dead, layout, moving, Typed, Alive, Waits,
        HeldElsewhere
  <2>4. CASE Crash(q)
    BY <1>2, <1>3, <2>4 DEF Crash, Dead, Fault, layout, Typed, Alive, Waits
  <2>20. ~(Write(q) \/ Remove(q) \/ Recreate(q) \/ Enter(q) \/ Verify(q) \/ Look(q)
           \/ Rename(q) \/ Open(q) \/ Publish(q) \/ Release(q) \/ Unlock(q) \/ Close(q)
           \/ CleanUp(q) \/ Unlink(q))
    BY <1>3 DEF Alive, Waits, Write, Remove, Recreate, Enter, Verify, Look, Rename, Open,
                Publish, Release, Unlock, Close, CleanUp, Unlink
  <2>21. ~(Bind(q) \/ Stop(q) \/ Fail(q))
    BY <1>3 DEF Alive, Waits, Bind, Stop, Fail, Acquiring, Starting
  <2> QED  BY <2>1, <2>2, <2>3, <2>4, <2>20, <2>21 DEF Step
<1>5. /\ phase'[p] = phase[p] /\ turn'[p] = turn[p] /\ born'[p] = born[p]
      /\ p \in bound' <=> p \in bound
  BY <1>1 DEF Apart
<1>6. \A r \in Pids \ {p} : Alive(r)' => Waits(r)'
  BY <1>1, <1>4 DEF Apart, Alive, Waits, Holds
<1>7. ~Claiming(p)' /\ Holds(p)'
  BY <1>4, <1>5, <1>6 DEF Claiming, Holds, Me
<1> QED  BY <1>4, <1>7 DEF Prevails

\* The first one acts itself, or somebody does beside it.
LEMMA PrevailsStep ==
    ASSUME Launched, Typed, Living, OpenedLate, Prevails, NEW p \in Pids,
           Start(p) \/ Step(p) \/ Bind(p) \/ Stop(p) \/ Fail(p) \/ Crash(p)
    PROVE  Prevails'
<1>1. Apart(p)
  BY StepTyped, StartTyped
<1>2. CASE first = {}
  <2>1. CASE Start(p) /\ first' = {p} /\ \A q \in Pids : ~Alive(q)
    BY <2>1, StartsAlone
  <2>2. CASE first' = {}
    BY <2>2 DEF Prevails
  <2>3. first' \subseteq first \/ (Start(p) /\ first' = {p} /\ \A q \in Pids : ~Alive(q))
    BY FirstShrinks
  <2> QED  BY <1>2, <2>1, <2>2, <2>3
<1>3. ASSUME NEW f \in first
      PROVE  Prevails'
  <2>1. f \in Pids /\ Alive(f) /\ first = {f}
    BY <1>3 DEF Typed, Living, Prevails
  <2>2. Start(p) => p # f /\ first' = {f}
    BY <2>1 DEF Start
  <2>3. CASE phase[f] \in Ending
    <3>1. CASE p = f
      <4>1. ~Start(p)
        BY <2>2, <3>1
      <4>2. first' \subseteq {f}
        BY <2>1, FirstShrinks
      <4>3. f \notin first' \/ phase'[f] \in Ending
        <5>1. CASE Create(p)
          BY <2>3, <3>1, <5>1
          DEF Create, ways, layout, moving, Typed, Acquiring, Starting,
              Ending
        <5>2. CASE Write(p)
          BY <2>3, <3>1, <5>2
          DEF Write, Granted, ways, layout, moving, Typed, Acquiring,
              Starting, Ending
        <5>3. CASE Read(p)
          BY <2>3, <3>1, <5>3
          DEF Read, Granted, Refused, Dead, layout, moving, Typed,
              Acquiring, Starting, Ending
        <5>4. CASE Remove(p)
          BY <2>3, <3>1, <5>4
          DEF Remove, ways, layout, moving, Typed, Acquiring, Starting,
              Ending
        <5>5. CASE Recreate(p)
          BY <2>3, <3>1, <5>5
          DEF Recreate, Refused, Dead, layout, moving, Typed, Acquiring,
              Starting, Ending
        <5>6. CASE Enter(p)
          BY <2>3, <3>1, <5>6
          DEF Enter, locks, layout, Typed, Acquiring, Starting, Ending
        <5>7. CASE Verify(p)
          BY <2>3, <3>1, <5>7
          DEF Verify, Abort, locks, ways, layout, Typed, Acquiring,
              Starting, Ending
        <5>8. CASE Look(p)
          BY <2>3, <3>1, <5>8
          DEF Look, locks, ways, layout, moving, Typed, Acquiring,
              Starting, Ending
        <5>9. CASE Rename(p)
          BY <2>3, <3>1, <5>9
          DEF Rename, Abort, locks, ways, moving, Typed, Acquiring,
              Starting, Ending
        <5>10. CASE Open(p)
          BY <2>3, <3>1, <5>10
          DEF Open, ways, moving, Typed, Acquiring, Starting, Ending
        <5>11. CASE Publish(p)
          BY <2>3, <3>1, <5>11
          DEF Publish, locks, layout, moving, Typed, Acquiring, Starting,
              Ending
        <5>12. CASE Release(p)
          BY <2>3, <3>1, <5>12
          DEF Release, Released, ways, layout, moving, Typed, Acquiring,
              Starting, Ending
        <5>13. CASE Unlock(p)
          BY <2>3, <3>1, <5>13
          DEF Unlock, Released, ways, layout, moving, Typed, Acquiring,
              Starting, Ending
        <5>14. CASE Close(p)
          BY <2>3, <3>1, <5>14
          DEF Close, locks, layout, moving, Typed, Acquiring, Starting,
              Ending
        <5>15. CASE CleanUp(p)
          BY <2>3, <3>1, <5>15
          DEF CleanUp, layout, moving, Typed, Acquiring, Starting, Ending
        <5>16. CASE Unlink(p)
          BY <2>3, <3>1, <5>16
          DEF Unlink, Dead, layout, Typed, Acquiring, Starting, Ending
        <5>17. CASE Bind(p)
          BY <2>3, <3>1, <5>17
          DEF Bind, locks, layout, moving, Acquiring, Typed, Starting,
              Ending
        <5>18. CASE Stop(p)
          BY <2>3, <3>1, <5>18
          DEF Stop, Fault, locks, ways, layout, moving, Typed, Acquiring,
              Starting, Ending
        <5>19. CASE Fail(p)
          BY <2>3, <3>1, <5>19
          DEF Fail, Abort, Fault, locks, ways, layout, Acquiring,
              Starting, Typed, Ending
        <5>20. CASE Crash(p)
          BY <2>3, <3>1, <5>20
          DEF Crash, Dead, Fault, layout, Typed, Acquiring, Starting,
              Ending
        <5> QED  BY <5>1, <5>2, <5>3, <5>4, <5>5, <5>6, <5>7, <5>8, <5>9, <5>10,
                  
                 <5>11, <5>12, <5>13, <5>14, <5>15, <5>16, <5>17, <5>18, <5>19,
                  <5>20,
                 <4>1 DEF Step
      <4> QED  BY <4>2, <4>3 DEF Prevails
    <3>2. CASE p # f
      <4>1. phase'[f] \in Ending
        BY <1>1, <2>1, <2>3, <3>2 DEF Apart
      <4>2. first' \subseteq {f}
        BY <2>1, FirstShrinks
      <4> QED  BY <4>1, <4>2 DEF Prevails
    <3> QED  BY <3>1, <3>2
  <2>4. CASE phase[f] \notin Ending /\ Claiming(f)
    <3>1. Claims(f)
      BY <1>3, <2>4 DEF Prevails
    <3>2. p = f
      <4>1. ~Start(p)
        BY <2>1, <2>4 DEF Start, MaySpawn, Claiming
      <4>2. Alive(p)
        BY <4>1 DEF Alive, Step, Create, Write, Read, Remove, Recreate, Enter, Verify, Look,
            Rename, Open, Publish, Release, Unlock, Close, CleanUp, Unlink, Bind, Stop, Fail,
            Crash, Acquiring, Starting
      <4> QED  BY <3>1, <4>2 DEF Claims
    <3> QED  BY <2>1, <2>2, <2>4, <3>1, <3>2, ClaimsStep
  <2>5. CASE phase[f] \notin Ending /\ ~Claiming(f)
    <3>1. Holds(f)
      BY <1>3, <2>5 DEF Prevails
    <3>2. CASE p = f
      BY <2>1, <2>2, <2>5, <3>1, <3>2, HoldsStep
    <3>3. CASE p # f
      BY <2>1, <2>5, <3>1, <3>3, OthersWait
    <3> QED  BY <3>2, <3>3
  <2> QED  BY <2>3, <2>4, <2>5
<1> QED  BY <1>2, <1>3

\* Both parts of the invariant, over any step.
LEMMA FirstStep ==
    Launched /\ TypeOK /\ OpenedLate /\ Prevails /\ [Next]_vars => OpenedLate' /\ Prevails'
<1> SUFFICES ASSUME Launched, TypeOK, OpenedLate, Prevails, [Next]_vars
             PROVE  OpenedLate' /\ Prevails'
  OBVIOUS
<1>1. Typed /\ Living
  BY TypeOKParts
<1>2. CASE Next
  <2>1. PICK p \in Pids :
           Start(p) \/ Step(p) \/ Bind(p) \/ Stop(p) \/ Fail(p) \/ Crash(p)
    BY <1>2 DEF Next
  <2> QED  BY <1>1, <2>1, OpenedLateStep, PrevailsStep
<1>3. CASE UNCHANGED vars
  BY <1>3 DEF OpenedLate, Prevails, Claiming, Claims, Holds, Waits, Alive, Me,
              vars, locks, ways, layout, moving
<1> QED  BY <1>2, <1>3

\* With starts through the launcher, a daemon that came up when no other was left and
\* wrote its own locks is alone at work on the state until it ends, and is the one the
\* pid file and the socket lead to once it serves (lock.rs, main.rs, launcher lib.rs).
THEOREM FirstIsAlone ==
    ASSUME Launched
    PROVE  Spec => []FirstPrevails
<1>1. Init => OpenedLate /\ Prevails
  BY DEF Init, OpenedLate, Prevails
<1>2. TypeOK /\ OpenedLate /\ Prevails /\ [Next]_vars => OpenedLate' /\ Prevails'
  BY FirstStep
<1>3. TypeOK /\ OpenedLate /\ Prevails => FirstPrevails
  <2> SUFFICES ASSUME TypeOK, OpenedLate, Prevails, NEW p \in first
               PROVE  /\ p \in Ruling => Ruling = {p}
                      /\ phase[p] = "serving" => pidFile = p /\ socket = Me(p)
    BY DEF FirstPrevails
  <2>1. Typed /\ Living /\ p \in Pids
    BY TypeOKParts DEF Typed
  <2>2. ASSUME p \in Ruling PROVE Ruling = {p}
    <3>1. phase[p] \notin Ending
      BY <2>2 DEF Ruling, Starting, Ending
    <3>2. \A q \in Pids \ {p} : Alive(q) => Waits(q)
      BY <3>1 DEF Prevails, Claims, Holds
    <3>3. \A q \in Pids \ {p} : q \notin writer /\ phase[q] \notin Starting
      BY <2>1, <3>2 DEF Living, OpenedLate, Alive, Waits, Starting, Ending
    <3> QED  BY <2>1, <2>2, <3>3 DEF Ruling
  <2>3. ASSUME phase[p] = "serving" PROVE pidFile = p /\ socket = Me(p)
    BY <2>3 DEF Prevails, Claiming, Holds, Acquiring, Ending
  <2> QED  BY <2>2, <2>3
<1> QED  BY <1>1, <1>2, <1>3, TypeCorrect, PTL DEF Spec

=============================================================================
