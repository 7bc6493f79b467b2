------------------------ MODULE GenerationLeaseProofs ------------------------
(***************************************************************************)
(* Proofs about GenerationLease, for any number of processes, tokens,      *)
(* tickets and deaths.  IInv says what an attempt has on disk, who has a   *)
(* lease (Leased) and what an undisturbed process finds (Lone).  While no  *)
(* chooser has been overlooked there is also why the guard is exclusive    *)
(* (Bakery), and what holding it makes of the transaction's file and the   *)
(* generation (Transaction).                                               *)
(***************************************************************************)
EXTENDS GenerationLease, FiniteSetTheorems, TLAPS

\* The phases of an attempt at the guard.
Busy == {"choose", "list", "survey", "take", "settle", "relist", "check", "leave"}
          \cup Guarded

\* What the locals of a process say about its phase.
Attempts ==
    \A p \in Process :
        /\ token[p] # 0 => phase[p] \in Busy
        /\ phase[p] \in Busy \ {"leave"} => token[p] # 0
        /\ ticket[p] # 0 => phase[p] \in Busy \ {"choose", "list"}
        /\ listed[p] # {} => phase[p] \in Scanning
        /\ p \in spoiled => phase[p] \in {"choose", "take"}
        /\ p \in blocked => phase[p] \in {"check", "leave"}
        /\ after[p] \in {"again", "inside"} => phase[p] = "leave"
        /\ after[p] = "run" => phase[p] \in {"unlock", "remove"}

\* There are finitely many tokens of the dead, one for each crash at most.
LeftoversCounted == IsFiniteSet(Leftovers) /\ Cardinality(Leftovers) <= crashes

\* Process q, if it is past its doorway, comes after p; if it is still looking for a
\* ticket it has seen that of p or will.
GoesBehind(q, p) ==
    /\ phase[q] = "survey" => Owning(p) \in listed[q] \/ ticket[q] >= ticket[p]
    /\ phase[q] \in {"take", "settle", "relist", "check"} \cup Guarded =>
          Precedes(Owning(p), q)

\* The scan of p has still to read a record of q that goes first, or has still to
\* overlook q.
WillSee(p, q) ==
    \E r \in listed[p] :
        /\ r.token = token[q]
        /\ GoesFirst(r, p)
        /\ r \in records \/ (r = Choosing(q) /\ Owning(q) \in records)

\* Before p has read everything it knows, or will see, or goes before q; under the
\* guard it goes before all others.
Bakery ==
    \A p, q \in Process : p # q =>
        /\ phase[p] = "check" => p \in blocked \/ GoesBehind(q, p) \/ WillSee(p, q)
        /\ phase[p] \in Guarded => GoesBehind(q, p)

\* From the check of its lock file until it removes it a process has the transaction.
Holds(p) == phase[p] \in Inside \/ (phase[p] = "leave" /\ after[p] = "inside")

\* Who has the transaction finds its lock there, and nobody is about to remove it;
\* nobody signs for a generation that is gone, or deletes one somebody signed for.
Transaction ==
    /\ \A p \in Process : Holds(p) => lock = LockOf(p, TRUE)
    /\ \A p \in Process : phase[p] \in {"entry", "evict"} => ~LockHeld
    /\ \A p \in Process : phase[p] \in {"register", "sign"} => generation
    /\ \A p, q \in Process : phase[p] = "delete" => leases[q] # "live"
    /\ \A p \in Process : leases[p] = "live" => generation

\* What runs, or adopts, has a signed lease; the lock's creator is at work on it.
Leased ==
    /\ \A p \in Process :
          /\ phase[p] = "running" \/ (goal[p] = "adopt" /\ phase[p] # "off") =>
                leases[p] = "live"
          /\ phase[p] \in {"unlock", "remove"} /\ after[p] = "run" => leases[p] = "live"
          /\ phase[p] \in {"register", "sign"} => goal[p] = "launch"
          /\ phase[p] = "leave" /\ after[p] = "again" => lock.by # p
    /\ lock.by \in Process =>
          /\ phase[lock.by] \in {"fill", "verify", "leave"} \cup Inside
          /\ phase[lock.by] # "fill" => lock.written

\* Nobody else acquires beside a process that is alone, and nothing it meets stops it.
Lone ==
    \A p \in alone :
        /\ phase[p] \in Acquiring
        /\ \A q \in Process \ {p} : phase[q] \in {"off", "running"}
        /\ guardDir = "bare" => phase[p] = "mkdir"
        /\ p \notin spoiled /\ p \notin blocked
        /\ \A r \in listed[p] : r.token # token[p]
        /\ phase[p] = "survey" => ticket[p] = 0
        /\ phase[p] = "evict" => lock.exists
        /\ phase[p] = "create" => ~lock.exists
        /\ phase[p] = "fill" => lock = LockOf(p, FALSE)
        /\ phase[p] = "verify" => lock = LockOf(p, TRUE)

\* What holds whatever the scans have overlooked.
IInv ==
    /\ Types
    /\ Attempts
    /\ RecordsInPlace
    /\ LeftoversCounted
    /\ Leased
    /\ Lone
    /\ LoneStartSucceeds

\* What holds as long as they have overlooked nobody.
Guard == ~overtaken => Bakery /\ Transaction

\* What the reading of one listed record does.
VisitOf(p, r) ==
    /\ listed' = [listed EXCEPT ![p] = @ \ {r}]
    /\ \/ /\ r \notin records
          /\ UNCHANGED <<ticket, blocked, records>>
       \/ /\ r \in records /\ ~Active(r)
          /\ records' = records \ {r}
          /\ UNCHANGED <<ticket, blocked>>
       \/ /\ r \in records /\ Active(r)
          /\ ticket' = IF phase[p] = "survey" /\ r.ticket > ticket[p]
                       THEN [ticket EXCEPT ![p] = r.ticket] ELSE ticket
          /\ blocked' = IF phase[p] = "check" /\ GoesFirst(r, p)
                        THEN blocked \cup {p} ELSE blocked
          /\ UNCHANGED records
    /\ overtaken' = (overtaken \/ (phase[p] = "check" /\ Overlooked(r)))

-----------------------------------------------------------------------------
(* Types *)

\* What LockOf makes is a lock file.
LEMMA LockOfType == \A q \in Process, w \in BOOLEAN : LockOf(q, w) \in Lock
  BY DEF LockOf, Lock

\* What a dead process leaves keeps its type.
LEMMA AbandonedTypes ==
  ASSUME Types, NEW p \in Process, Abandoned(p)
  PROVE  lock' \in Lock /\ leases' \in [Process -> {"none", "empty", "live", "stale"}]
<1> DEFINE Files == [by : Process \cup {Nobody}, written : BOOLEAN, exists : {TRUE}]
<1>1. CASE lock.by = p
  <2>1. NoLock.by = Nobody
    BY DEF NoLock
  <2>2. lock \in Files
    BY <1>1, <2>1, LeaseConstants DEF Types, Lock
  <2>3. lock' = [lock EXCEPT !.by = Nobody]
    BY <1>1 DEF Abandoned
  <2>4. lock' \in Files
    BY <2>2, <2>3
  <2>5. leases' \in [Process -> {"none", "empty", "live", "stale"}]
    BY DEF Abandoned, Types
  <2> QED  BY <2>4, <2>5 DEF Lock
<1>2. CASE lock.by # p
  BY <1>2 DEF Abandoned, Types
<1> QED  BY <1>1, <1>2

\* Every step keeps the types.
LEMMA TypesStep ==
  ASSUME Types, Attempts, [Next]_vars
  PROVE  Types'
<1> SUFFICES ASSUME Next
             PROVE  Types'
  BY DEF Types, vars
<1> PICK p \in Process : Step(p)
  BY DEF Next
  <1>1. CASE Start(p)
    <2> PICK g \in {"launch", "collect"} : Begin(p, g)
      BY <1>1 DEF Start
    <2> QED  BY <1>1 DEF Types, Start, At, Begin, files, Phase, Acquiring
  <1>2. CASE Exec(p)
    <2>1. phase' \in [Process -> Phase]
      BY <1>2 DEF Exec, At, Phase, Acquiring, Types
    <2> QED  BY <1>2, <2>1 DEF Exec, Begin, files, Types
  <1>3. CASE Enter(p)
    <2>1. phase' \in [Process -> Phase]
      BY <1>3 DEF Enter, Types, Phase, Acquiring, Guarded, Inside, Scanning
    <2>2. after' \in [Process -> {"end", "again", "inside", "run"}]
      BY <1>3 DEF Enter, Missed, Leaving, Types
    <2>3. token' \in [Process -> Token \cup {0}]
      BY <1>3 DEF Enter, FreshToken, Types
    <2> QED  BY <1>3, <2>1, <2>2, <2>3 DEF Enter, Types
  <1>4. CASE MakeRecordsDir(p)
    <2>1. token' \in [Process -> Token \cup {0}]
      BY <1>4 DEF MakeRecordsDir, FreshToken, Types
    <2> QED  BY <1>4, <2>1 DEF MakeRecordsDir, At, Types, Phase, Acquiring, Guarded,
                Inside, Scanning
  <1>5. CASE Choose(p)
    <2>1. Choosing(p) \in Record
      BY <1>5, LeaseConstants DEF Choose, Choosing, Record, Types, Attempts, Busy
    <2>2. records' \subseteq Record
      BY <1>5, <2>1 DEF Choose, Publish, Types
    <2>3. phase' \in [Process -> Phase] /\ spoiled' \subseteq Process
      BY <1>5 DEF Choose, Publish, Types, Phase, Acquiring, Guarded, Inside, Scanning
    <2>4. after' \in [Process -> {"end", "again", "inside", "run"}]
      BY <1>5 DEF Choose, Publish, Leaving, Types
    <2> QED  BY <1>5, <2>2, <2>3, <2>4 DEF Choose, Publish, Types
  <1>6. CASE Survey(p)
    BY <1>6, LeaseConstants DEF Types, Phase, Acquiring, Guarded, Inside, Scanning,
       Record, Lock, NoLock, LockOf, Owning, Choosing, Attempts, Busy, Survey, List,
       OwnRecords, files
  <1>7. CASE Visit(p)
    <2>1. PICK r \in listed[p] : VisitOf(p, r)
      BY <1>7 DEF Visit, VisitOf
    <2>2. r \in Record
      BY DEF Types
    <2>3. ticket' \in [Process -> 0 .. MaxTicket]
      BY <2>1, <2>2 DEF VisitOf, Types, Record
    <2>4. listed' \in [Process -> SUBSET Record]
      BY <2>1 DEF VisitOf, Types
    <2>5. blocked' \subseteq Process /\ records' \subseteq Record
      BY <2>1 DEF VisitOf, Types
    <2> QED  BY <1>7, <2>3, <2>4, <2>5 DEF Visit, Types
  <1>8. CASE Take(p)
    <2>1. phase' \in [Process -> Phase]
      BY <1>8 DEF Take, Types, Phase, Acquiring, Guarded, Inside, Scanning
    <2>2. after' \in [Process -> {"end", "again", "inside", "run"}]
      BY <1>8 DEF Take, Leaving, Types
    <2>3. ticket' \in [Process -> 0 .. MaxTicket]
      BY <1>8, LeaseConstants DEF Take, Types
    <2> QED  BY <1>8, <2>1, <2>2, <2>3 DEF Take, files, Types
  <1>9. CASE Announce(p)
    <2>1. Owning(p) \in Record
      BY <1>9, LeaseConstants DEF Announce, Owning, Record, Types, Attempts, Busy
    <2>2. records' \subseteq Record
      BY <1>9, <2>1 DEF Announce, Publish, Types
    <2>3. phase' \in [Process -> Phase] /\ spoiled' \subseteq Process
      BY <1>9 DEF Announce, Publish, Types, Phase, Acquiring, Guarded, Inside, Scanning
    <2>4. after' \in [Process -> {"end", "again", "inside", "run"}]
      BY <1>9 DEF Announce, Publish, Leaving, Types
    <2> QED  BY <1>9, <2>2, <2>3, <2>4 DEF Announce, Publish, Types
  <1>10. CASE Settle(p)
    BY <1>10, LeaseConstants DEF Types, Phase, Acquiring, Guarded, Inside, Scanning,
       Record, Lock, NoLock, LockOf, Owning, Choosing, Attempts, Busy, Settle, At,
       locals
  <1>11. CASE Relist(p)
    BY <1>11, LeaseConstants DEF Types, Phase, Acquiring, Guarded, Inside, Scanning,
       Record, Lock, NoLock, LockOf, Owning, Choosing, Attempts, Busy, Relist, List,
       OwnRecords, files
  <1>12. CASE Decide(p)
    <2>1. phase' \in [Process -> Phase]
      BY <1>12 DEF Decide, Types, Phase, Acquiring, Guarded, Inside, Scanning
    <2>2. after' \in [Process -> {"end", "again", "inside", "run"}]
      BY <1>12 DEF Decide, Missed, Leaving, Types
    <2> QED  BY <1>12, <2>1, <2>2 DEF Decide, Missed, Leaving, files, Types, Lock
  <1>13. CASE Leave(p)
    <2>1. phase' \in [Process -> Phase]
      BY <1>13 DEF Leave, Types, Phase, Acquiring, Guarded, Inside, Scanning
    <2>2. lock' \in Lock /\ leases' \in [Process -> {"none", "empty", "live", "stale"}]
      BY <1>13, AbandonedTypes DEF Leave, Types
    <2>3. alone' \subseteq Process
      BY <1>13 DEF Leave, Types
    <2>4. /\ token' \in [Process -> Token \cup {0}]
          /\ ticket' \in [Process -> 0 .. MaxTicket]
          /\ after' \in [Process -> {"end", "again", "inside", "run"}]
          /\ records' \subseteq Record
          /\ blocked' \subseteq Process
      BY <1>13, LeaseConstants DEF Leave, Types
    <2> QED  BY <1>13, <2>1, <2>2, <2>3, <2>4 DEF Leave, Types
  <1>14. CASE Look(p)
    <2>1. phase' \in [Process -> Phase]
      BY <1>14 DEF Look, Types, Phase, Acquiring, Guarded, Inside, Scanning
    <2>2. after' \in [Process -> {"end", "again", "inside", "run"}]
      BY <1>14 DEF Look, Missed, Leaving, Types
    <2> QED  BY <1>14, <2>1, <2>2 DEF Look, Missed, Leaving, LockHeld, GuardStep, Types,
                Lock
  <1>15. CASE Entry(p)
    BY <1>15, LeaseConstants DEF Types, Phase, Acquiring, Guarded, Inside, Scanning,
       Record, Lock, NoLock, LockOf, Owning, Choosing, Attempts, Busy, Entry, At,
       GuardStep
  <1>16. CASE Evict(p)
    <2>1. phase' \in [Process -> Phase]
      BY <1>16 DEF Evict, Types, Phase, Acquiring, Guarded, Inside, Scanning
    <2>2. after' \in [Process -> {"end", "again", "inside", "run"}]
      BY <1>16 DEF Evict, Leaving, Types
    <2>3. lock' \in Lock
      BY <1>16 DEF Evict, Lock, Types
    <2> QED  BY <1>16, <2>1, <2>2, <2>3 DEF Evict, GuardStep, Types
  <1>17. CASE Create(p)
    <2>1. phase' = [phase EXCEPT ![p] = "fill"] \/ phase' = [phase EXCEPT ![p] = "leave"]
      BY <1>17 DEF Create
    <2>2. phase' \in [Process -> Phase]
      BY <2>1 DEF Types, Phase, Acquiring, Guarded, Inside, Scanning
    <2>3. after' \in [Process -> {"end", "again", "inside", "run"}]
      BY <1>17 DEF Create, Missed, Leaving, Types
    <2>4. lock' \in Lock
      BY <1>17, LockOfType DEF Create, Types
    <2> QED  BY <1>17, <2>2, <2>3, <2>4 DEF Create, GuardStep, Types
  <1>18. CASE Fill(p)
    BY <1>18, LeaseConstants DEF Types, Phase, Acquiring, Guarded, Inside, Scanning,
       Record, Lock, NoLock, LockOf, Owning, Choosing, Attempts, Busy, Fill, At,
       GuardStep
  <1>19. CASE Verify(p)
    BY <1>19, LeaseConstants DEF Types, Phase, Acquiring, Guarded, Inside, Scanning,
       Record, Lock, NoLock, LockOf, Owning, Choosing, Attempts, Busy, Verify, At,
       Leaving, GuardStep
  <1>20. CASE Validate(p)
    <2>1. phase' \in [Process -> Phase]
      BY <1>20 DEF Validate, Over, Types, Phase, Acquiring, Guarded, Inside, Scanning
    <2>2. after' \in [Process -> {"end", "again", "inside", "run"}]
      BY <1>20 DEF Validate, Over, Leaving, Types
    <2>3. UNCHANGED leases /\ generation' \in BOOLEAN
      BY <1>20 DEF Validate, Types
    <2> QED  BY <1>20, <2>1, <2>2, <2>3 DEF InsideStep, Validate, Types
  <1>21. CASE Register(p)
    BY <1>21, LeaseConstants DEF Types, Phase, Acquiring, Guarded, Inside, Scanning,
       Record, Lock, NoLock, LockOf, Owning, Choosing, Attempts, Busy, Register, At,
       InsideStep
  <1>22. CASE Sign(p)
    BY <1>22, LeaseConstants DEF Types, Phase, Acquiring, Guarded, Inside, Scanning,
       Record, Lock, NoLock, LockOf, Owning, Choosing, Attempts, Busy, Sign, Over,
       Leaving, InsideStep
  <1>23. CASE Collect(p)
    <2>1. phase' \in [Process -> Phase]
      BY <1>23 DEF Collect, Over, Types, Phase, Acquiring, Guarded, Inside, Scanning
    <2>2. after' \in [Process -> {"end", "again", "inside", "run"}]
      BY <1>23 DEF Collect, Over, Leaving, Types
    <2>3. UNCHANGED leases /\ generation' \in BOOLEAN
      BY <1>23 DEF Collect, Types
    <2> QED  BY <1>23, <2>1, <2>2, <2>3 DEF InsideStep, Collect, Types
  <1>24. CASE Unlock(p)
    <2>1. phase' \in [Process -> Phase] /\ alone' \subseteq Process
      BY <1>24 DEF Unlock, Finish, Types, Phase, Acquiring, Guarded, Inside, Scanning
    <2>2. after' \in [Process -> {"end", "again", "inside", "run"}]
      BY <1>24 DEF Unlock, Finish, Types
    <2> QED  BY <1>24, <2>1, <2>2 DEF Unlock, files, Types
  <1>25. CASE Remove(p)
    BY <1>25, LeaseConstants DEF Types, Phase, Acquiring, Guarded, Inside, Scanning,
       Record, Lock, NoLock, LockOf, Owning, Choosing, Attempts, Busy, Remove, Finish
  <1>26. CASE Exit(p)
    <2>1. lock' \in Lock /\ leases' \in [Process -> {"none", "empty", "live", "stale"}]
      BY <1>26, AbandonedTypes DEF Exit, Gone
    <2>2. phase' \in [Process -> Phase] /\ listed' \in [Process -> SUBSET Record]
      BY <1>26 DEF Exit, Gone, Types, Phase, Acquiring, Guarded, Inside, Scanning
    <2>3. /\ token' \in [Process -> Token \cup {0}]
          /\ ticket' \in [Process -> 0 .. MaxTicket]
          /\ after' \in [Process -> {"end", "again", "inside", "run"}]
          /\ blocked' \subseteq Process /\ spoiled' \subseteq Process
          /\ alone' \subseteq Process
      BY <1>26, LeaseConstants DEF Exit, Gone, Types
    <2>4. crashes' \in 0 .. MaxCrashes
      BY <1>26, LeaseConstants DEF Exit, Types
    <2> QED  BY <1>26, <2>1, <2>2, <2>3, <2>4 DEF Exit, Gone, Types
  <1>27. CASE Crash(p)
    <2>1. lock' \in Lock /\ leases' \in [Process -> {"none", "empty", "live", "stale"}]
      BY <1>27, AbandonedTypes DEF Crash, Gone
    <2>2. phase' \in [Process -> Phase] /\ listed' \in [Process -> SUBSET Record]
      BY <1>27 DEF Crash, Gone, Types, Phase, Acquiring, Guarded, Inside, Scanning
    <2>3. /\ token' \in [Process -> Token \cup {0}]
          /\ ticket' \in [Process -> 0 .. MaxTicket]
          /\ after' \in [Process -> {"end", "again", "inside", "run"}]
          /\ blocked' \subseteq Process /\ spoiled' \subseteq Process
          /\ alone' \subseteq Process
      BY <1>27, LeaseConstants DEF Crash, Gone, Types
    <2>4. crashes' \in 0 .. MaxCrashes
      BY <1>27, LeaseConstants DEF Crash, Types
    <2> QED  BY <1>27, <2>1, <2>2, <2>3, <2>4 DEF Crash, Gone, Types
<1> QED
  BY <1>1, <1>2, <1>3, <1>4, <1>5, <1>6, <1>7, <1>8, <1>9, <1>10, <1>11, <1>12, <1>13,
     <1>14, <1>15, <1>16, <1>17, <1>18, <1>19, <1>20, <1>21, <1>22, <1>23, <1>24, <1>25,
     <1>26, <1>27 DEF Step

-----------------------------------------------------------------------------
(* Attempts at the guard *)

\* Every step keeps the locals of each process in line with its phase.
LEMMA AttemptsStep ==
  ASSUME Types, Attempts, Next
  PROVE  Attempts'
<1> PICK p \in Process : Step(p)
  BY DEF Next
  <1>1. CASE Start(p)
    BY <1>1 DEF Attempts, Types, Phase, Acquiring, Guarded, Inside, Scanning, Busy,
       Start, At, Begin, Quiet, files
  <1>2. CASE Exec(p)
    BY <1>2 DEF Attempts, Types, Phase, Acquiring, Guarded, Inside, Scanning, Busy,
       Exec, At, Begin, Quiet, files
  <1>3. CASE Enter(p)
    BY <1>3 DEF Attempts, Types, Phase, Acquiring, Guarded, Inside, Scanning, Busy,
       Enter, Missed, Leaving, FreshToken
  <1>4. CASE MakeRecordsDir(p)
    BY <1>4 DEF Attempts, Types, Phase, Acquiring, Guarded, Inside, Scanning, Busy,
       MakeRecordsDir, At, FreshToken
  <1>5. CASE Choose(p)
    BY <1>5 DEF Attempts, Types, Phase, Acquiring, Guarded, Inside, Scanning, Busy,
       Choose, Publish, Leaving, Choosing
  <1>6. CASE Survey(p)
    BY <1>6 DEF Attempts, Types, Phase, Acquiring, Guarded, Inside, Scanning, Busy,
       Survey, List, OwnRecords, files
  <1>7. CASE Visit(p)
    BY <1>7 DEF Attempts, Types, Phase, Acquiring, Guarded, Inside, Scanning, Busy,
       Visit, Active, GoesFirst, Precedes
  <1>8. CASE Take(p)
    BY <1>8 DEF Attempts, Types, Phase, Acquiring, Guarded, Inside, Scanning, Busy,
       Take, Leaving, files
  <1>9. CASE Announce(p)
    BY <1>9 DEF Attempts, Types, Phase, Acquiring, Guarded, Inside, Scanning, Busy,
       Announce, Publish, Leaving, Owning
  <1>10. CASE Settle(p)
    BY <1>10 DEF Attempts, Types, Phase, Acquiring, Guarded, Inside, Scanning, Busy,
       Settle, At, Choosing, locals
  <1>11. CASE Relist(p)
    BY <1>11 DEF Attempts, Types, Phase, Acquiring, Guarded, Inside, Scanning, Busy,
       Relist, List, OwnRecords, files
  <1>12. CASE Decide(p)
    BY <1>12 DEF Attempts, Types, Phase, Acquiring, Guarded, Inside, Scanning, Busy,
       Decide, Missed, Leaving, files
  <1>13. CASE Leave(p)
    BY <1>13 DEF Attempts, Types, Phase, Acquiring, Guarded, Inside, Scanning, Busy,
       Leave, OwnRecords, Abandoned
  <1>14. CASE Look(p)
    BY <1>14 DEF Attempts, Types, Phase, Acquiring, Guarded, Inside, Scanning, Busy,
       Look, Missed, Leaving, LockHeld, GuardStep
  <1>15. CASE Entry(p)
    BY <1>15 DEF Attempts, Types, Phase, Acquiring, Guarded, Inside, Scanning, Busy,
       Entry, At, GuardStep
  <1>16. CASE Evict(p)
    BY <1>16 DEF Attempts, Types, Phase, Acquiring, Guarded, Inside, Scanning, Busy,
       Evict, Leaving, GuardStep, NoLock
  <1>17. CASE Create(p)
    BY <1>17 DEF Attempts, Types, Phase, Acquiring, Guarded, Inside, Scanning, Busy,
       Create, Missed, Leaving, LockOf, GuardStep
  <1>18. CASE Fill(p)
    BY <1>18 DEF Attempts, Types, Phase, Acquiring, Guarded, Inside, Scanning, Busy,
       Fill, At, LockOf, GuardStep
  <1>19. CASE Verify(p)
    BY <1>19 DEF Attempts, Types, Phase, Acquiring, Guarded, Inside, Scanning, Busy,
       Verify, At, Leaving, LockOf, GuardStep
  <1>20. CASE Validate(p)
    BY <1>20 DEF Attempts, Types, Phase, Acquiring, Guarded, Inside, Scanning, Busy,
       Validate, Over, Leaving, InsideStep
  <1>21. CASE Register(p)
    BY <1>21 DEF Attempts, Types, Phase, Acquiring, Guarded, Inside, Scanning, Busy,
       Register, At, InsideStep
  <1>22. CASE Sign(p)
    BY <1>22 DEF Attempts, Types, Phase, Acquiring, Guarded, Inside, Scanning, Busy,
       Sign, Over, Leaving, InsideStep
  <1>23. CASE Collect(p)
    BY <1>23 DEF Attempts, Types, Phase, Acquiring, Guarded, Inside, Scanning, Busy,
       Collect, Over, Leaving, InsideStep
  <1>24. CASE Unlock(p)
    BY <1>24 DEF Attempts, Types, Phase, Acquiring, Guarded, Inside, Scanning, Busy,
       Unlock, Finish, LockOf, files
  <1>25. CASE Remove(p)
    BY <1>25 DEF Attempts, Types, Phase, Acquiring, Guarded, Inside, Scanning, Busy,
       Remove, Finish, NoLock
  <1>26. CASE Exit(p)
    BY <1>26 DEF Attempts, Types, Phase, Acquiring, Guarded, Inside, Scanning, Busy,
       Exit, Gone, Abandoned
  <1>27. CASE Crash(p)
    BY <1>27 DEF Attempts, Types, Phase, Acquiring, Guarded, Inside, Scanning, Busy,
       Crash, Gone, Abandoned
<1> QED
  BY <1>1, <1>2, <1>3, <1>4, <1>5, <1>6, <1>7, <1>8, <1>9, <1>10, <1>11, <1>12, <1>13,
     <1>14, <1>15, <1>16, <1>17, <1>18, <1>19, <1>20, <1>21, <1>22, <1>23, <1>24, <1>25,
     <1>26, <1>27 DEF Step

\* The records of an attempt stay while it lasts: nobody but their owner retires
\* the records of a live process.
LEMMA PlaceStep ==
  ASSUME Types, Attempts, RecordsInPlace, Next
  PROVE  RecordsInPlace'
<1> PICK p \in Process : Step(p)
  BY DEF Next
  <1>1. CASE Start(p)
    BY <1>1 DEF RecordsInPlace, Attempts, Types, Choosing, Owning, Phase, Acquiring,
       Guarded, Inside, Scanning, Busy, Start, At, Begin, Quiet, files
  <1>2. CASE Exec(p)
    BY <1>2 DEF RecordsInPlace, Attempts, Types, Choosing, Owning, Phase, Acquiring,
       Guarded, Inside, Scanning, Busy, Exec, At, Begin, Quiet, files
  <1>3. CASE Enter(p)
    BY <1>3 DEF RecordsInPlace, Attempts, Types, Choosing, Owning, Phase, Acquiring,
       Guarded, Inside, Scanning, Busy, Enter, Missed, Leaving, FreshToken
  <1>4. CASE MakeRecordsDir(p)
    BY <1>4 DEF RecordsInPlace, Attempts, Types, Choosing, Owning, Phase, Acquiring,
       Guarded, Inside, Scanning, Busy, MakeRecordsDir, At, FreshToken
  <1>5. CASE Choose(p)
    BY <1>5 DEF RecordsInPlace, Attempts, Types, Choosing, Owning, Phase, Acquiring,
       Guarded, Inside, Scanning, Busy, Choose, Publish, Leaving
  <1>6. CASE Survey(p)
    BY <1>6 DEF RecordsInPlace, Attempts, Types, Choosing, Owning, Phase, Acquiring,
       Guarded, Inside, Scanning, Busy, Survey, List, OwnRecords, files
  <1>7. CASE Visit(p)
    <2>1. PICK r \in listed[p] : VisitOf(p, r)
      BY <1>7 DEF Visit, VisitOf
    <2>2. phase' = phase /\ token' = token
      BY <1>7 DEF Visit
    <2>3. ASSUME NEW s \in records, NEW q \in Process, s.token = token[q]
          PROVE  s \in records'
      BY <2>1, <2>3 DEF VisitOf, Active
    <2>4. ASSUME NEW q \in Process,
                 phase[q] \in {"settle", "relist", "check"} \cup Guarded
          PROVE  ticket'[q] = ticket[q]
      BY <2>1, <2>4 DEF VisitOf, Types, Guarded
    <2>5. ASSUME NEW q \in Process,
                 phase[q] \in {"settle", "relist", "check"} \cup Guarded
          PROVE  Owning(q)' \in records'
      BY <2>2, <2>3, <2>4, <2>5 DEF RecordsInPlace, Owning
    <2>6. ASSUME NEW q \in Process, phase[q] \in {"list", "survey", "take", "settle"}
          PROVE  Choosing(q)' \in records'
      BY <2>2, <2>3, <2>6 DEF RecordsInPlace, Choosing
    <2> QED  BY <2>2, <2>5, <2>6 DEF RecordsInPlace
  <1>8. CASE Take(p)
    <2>1. records' = records /\ token' = token
      BY <1>8 DEF Take, files
    <2>2. ASSUME NEW q \in Process,
                 phase'[q] \in {"settle", "relist", "check"} \cup Guarded
          PROVE  phase'[q] = phase[q] /\ ticket'[q] = ticket[q]
      BY <1>8, <2>2 DEF Take, Types, Guarded
    <2>3. ASSUME NEW q \in Process, phase'[q] \in {"list", "survey", "take", "settle"}
          PROVE  phase[q] \in {"list", "survey", "take", "settle"}
      BY <1>8, <2>3 DEF Take, Types
    <2> QED  BY <2>1, <2>2, <2>3 DEF RecordsInPlace, Owning, Choosing
  <1>9. CASE Announce(p)
    BY <1>9 DEF RecordsInPlace, Attempts, Types, Choosing, Owning, Phase, Acquiring,
       Guarded, Inside, Scanning, Busy, Announce, Publish, Leaving
  <1>10. CASE Settle(p)
    BY <1>10 DEF RecordsInPlace, Attempts, Types, Choosing, Owning, Phase, Acquiring,
       Guarded, Inside, Scanning, Busy, Settle, At, locals
  <1>11. CASE Relist(p)
    BY <1>11 DEF RecordsInPlace, Attempts, Types, Choosing, Owning, Phase, Acquiring,
       Guarded, Inside, Scanning, Busy, Relist, List, OwnRecords, files
  <1>12. CASE Decide(p)
    BY <1>12 DEF RecordsInPlace, Attempts, Types, Choosing, Owning, Phase, Acquiring,
       Guarded, Inside, Scanning, Busy, Decide, Missed, Leaving, files
  <1>13. CASE Leave(p)
    BY <1>13 DEF RecordsInPlace, Attempts, Types, Choosing, Owning, Phase, Acquiring,
       Guarded, Inside, Scanning, Busy, Leave, OwnRecords, Abandoned
  <1>14. CASE Look(p)
    BY <1>14 DEF RecordsInPlace, Attempts, Types, Choosing, Owning, Phase, Acquiring,
       Guarded, Inside, Scanning, Busy, Look, Missed, Leaving, LockHeld, GuardStep
  <1>15. CASE Entry(p)
    BY <1>15 DEF RecordsInPlace, Attempts, Types, Choosing, Owning, Phase, Acquiring,
       Guarded, Inside, Scanning, Busy, Entry, At, GuardStep
  <1>16. CASE Evict(p)
    BY <1>16 DEF RecordsInPlace, Attempts, Types, Choosing, Owning, Phase, Acquiring,
       Guarded, Inside, Scanning, Busy, Evict, Leaving, GuardStep, NoLock
  <1>17. CASE Create(p)
    BY <1>17 DEF RecordsInPlace, Attempts, Types, Choosing, Owning, Phase, Acquiring,
       Guarded, Inside, Scanning, Busy, Create, Missed, Leaving, LockOf, GuardStep
  <1>18. CASE Fill(p)
    BY <1>18 DEF RecordsInPlace, Attempts, Types, Choosing, Owning, Phase, Acquiring,
       Guarded, Inside, Scanning, Busy, Fill, At, LockOf, GuardStep
  <1>19. CASE Verify(p)
    BY <1>19 DEF RecordsInPlace, Attempts, Types, Choosing, Owning, Phase, Acquiring,
       Guarded, Inside, Scanning, Busy, Verify, At, Leaving, LockOf, GuardStep
  <1>20. CASE Validate(p)
    BY <1>20 DEF RecordsInPlace, Attempts, Types, Choosing, Owning, Phase, Acquiring,
       Guarded, Inside, Scanning, Busy, Validate, Over, Leaving, InsideStep
  <1>21. CASE Register(p)
    BY <1>21 DEF RecordsInPlace, Attempts, Types, Choosing, Owning, Phase, Acquiring,
       Guarded, Inside, Scanning, Busy, Register, At, InsideStep
  <1>22. CASE Sign(p)
    BY <1>22 DEF RecordsInPlace, Attempts, Types, Choosing, Owning, Phase, Acquiring,
       Guarded, Inside, Scanning, Busy, Sign, Over, Leaving, InsideStep
  <1>23. CASE Collect(p)
    BY <1>23 DEF RecordsInPlace, Attempts, Types, Choosing, Owning, Phase, Acquiring,
       Guarded, Inside, Scanning, Busy, Collect, Over, Leaving, InsideStep
  <1>24. CASE Unlock(p)
    BY <1>24 DEF RecordsInPlace, Attempts, Types, Choosing, Owning, Phase, Acquiring,
       Guarded, Inside, Scanning, Busy, Unlock, Finish, LockOf, files
  <1>25. CASE Remove(p)
    BY <1>25 DEF RecordsInPlace, Attempts, Types, Choosing, Owning, Phase, Acquiring,
       Guarded, Inside, Scanning, Busy, Remove, Finish, NoLock
  <1>26. CASE Exit(p)
    BY <1>26 DEF RecordsInPlace, Attempts, Types, Choosing, Owning, Phase, Acquiring,
       Guarded, Inside, Scanning, Busy, Exit, Gone, Abandoned
  <1>27. CASE Crash(p)
    BY <1>27 DEF RecordsInPlace, Attempts, Types, Choosing, Owning, Phase, Acquiring,
       Guarded, Inside, Scanning, Busy, Crash, Gone, Abandoned
<1> QED
  BY <1>1, <1>2, <1>3, <1>4, <1>5, <1>6, <1>7, <1>8, <1>9, <1>10, <1>11, <1>12, <1>13,
     <1>14, <1>15, <1>16, <1>17, <1>18, <1>19, <1>20, <1>21, <1>22, <1>23, <1>24, <1>25,
     <1>26, <1>27 DEF Step

\* Only a crash leaves a record without a live owner.
LEMMA LeftoversShrink ==
  ASSUME Types, Attempts, NEW p \in Process, Step(p), ~Crash(p)
  PROVE  Leftovers' \subseteq Leftovers /\ crashes' = crashes
  <1>1. CASE Start(p)
    BY <1>1, LeaseConstants DEF Leftovers, Attempts, Types, Phase, Acquiring, Guarded,
       Inside, Scanning, Busy, Choosing, Owning, Start, At, Begin, Quiet, files
  <1>2. CASE Exec(p)
    BY <1>2, LeaseConstants DEF Leftovers, Attempts, Types, Phase, Acquiring, Guarded,
       Inside, Scanning, Busy, Choosing, Owning, Exec, At, Begin, Quiet, files
  <1>3. CASE Enter(p)
    BY <1>3, LeaseConstants DEF Leftovers, Attempts, Types, Phase, Acquiring, Guarded,
       Inside, Scanning, Busy, Choosing, Owning, Enter, Missed, Leaving, FreshToken
  <1>4. CASE MakeRecordsDir(p)
    BY <1>4, LeaseConstants DEF Leftovers, Attempts, Types, Phase, Acquiring, Guarded,
       Inside, Scanning, Busy, Choosing, Owning, MakeRecordsDir, At, FreshToken
  <1>5. CASE Choose(p)
    BY <1>5, LeaseConstants DEF Leftovers, Attempts, Types, Phase, Acquiring, Guarded,
       Inside, Scanning, Busy, Choosing, Owning, Choose, Publish, Leaving
  <1>6. CASE Survey(p)
    BY <1>6, LeaseConstants DEF Leftovers, Attempts, Types, Phase, Acquiring, Guarded,
       Inside, Scanning, Busy, Choosing, Owning, Survey, List, OwnRecords, files
  <1>7. CASE Visit(p)
    <2>1. PICK r \in listed[p] : VisitOf(p, r)
      BY <1>7 DEF Visit, VisitOf
    <2>2. records' \subseteq records /\ token' = token /\ crashes' = crashes
      BY <1>7, <2>1 DEF Visit, VisitOf
    <2> QED  BY <2>2 DEF Leftovers
  <1>8. CASE Take(p)
    BY <1>8, LeaseConstants DEF Leftovers, Attempts, Types, Phase, Acquiring, Guarded,
       Inside, Scanning, Busy, Choosing, Owning, Take, Leaving, files
  <1>9. CASE Announce(p)
    BY <1>9, LeaseConstants DEF Leftovers, Attempts, Types, Phase, Acquiring, Guarded,
       Inside, Scanning, Busy, Choosing, Owning, Announce, Publish, Leaving
  <1>10. CASE Settle(p)
    BY <1>10, LeaseConstants DEF Leftovers, Attempts, Types, Phase, Acquiring, Guarded,
       Inside, Scanning, Busy, Choosing, Owning, Settle, At, locals
  <1>11. CASE Relist(p)
    BY <1>11, LeaseConstants DEF Leftovers, Attempts, Types, Phase, Acquiring, Guarded,
       Inside, Scanning, Busy, Choosing, Owning, Relist, List, OwnRecords, files
  <1>12. CASE Decide(p)
    BY <1>12, LeaseConstants DEF Leftovers, Attempts, Types, Phase, Acquiring, Guarded,
       Inside, Scanning, Busy, Choosing, Owning, Decide, Missed, Leaving, files
  <1>13. CASE Leave(p)
    BY <1>13, LeaseConstants DEF Leftovers, Attempts, Types, Phase, Acquiring, Guarded,
       Inside, Scanning, Busy, Choosing, Owning, Leave, OwnRecords, Abandoned
  <1>14. CASE Look(p)
    BY <1>14, LeaseConstants DEF Leftovers, Attempts, Types, Phase, Acquiring, Guarded,
       Inside, Scanning, Busy, Choosing, Owning, Look, Missed, Leaving, LockHeld,
       GuardStep
  <1>15. CASE Entry(p)
    BY <1>15, LeaseConstants DEF Leftovers, Attempts, Types, Phase, Acquiring, Guarded,
       Inside, Scanning, Busy, Choosing, Owning, Entry, At, GuardStep
  <1>16. CASE Evict(p)
    BY <1>16, LeaseConstants DEF Leftovers, Attempts, Types, Phase, Acquiring, Guarded,
       Inside, Scanning, Busy, Choosing, Owning, Evict, Leaving, GuardStep, NoLock
  <1>17. CASE Create(p)
    BY <1>17, LeaseConstants DEF Leftovers, Attempts, Types, Phase, Acquiring, Guarded,
       Inside, Scanning, Busy, Choosing, Owning, Create, Missed, Leaving, LockOf,
       GuardStep
  <1>18. CASE Fill(p)
    BY <1>18, LeaseConstants DEF Leftovers, Attempts, Types, Phase, Acquiring, Guarded,
       Inside, Scanning, Busy, Choosing, Owning, Fill, At, LockOf, GuardStep
  <1>19. CASE Verify(p)
    BY <1>19, LeaseConstants DEF Leftovers, Attempts, Types, Phase, Acquiring, Guarded,
       Inside, Scanning, Busy, Choosing, Owning, Verify, At, Leaving, LockOf, GuardStep
  <1>20. CASE Validate(p)
    BY <1>20, LeaseConstants DEF Leftovers, Attempts, Types, Phase, Acquiring, Guarded,
       Inside, Scanning, Busy, Choosing, Owning, Validate, Over, Leaving, InsideStep
  <1>21. CASE Register(p)
    BY <1>21, LeaseConstants DEF Leftovers, Attempts, Types, Phase, Acquiring, Guarded,
       Inside, Scanning, Busy, Choosing, Owning, Register, At, InsideStep
  <1>22. CASE Sign(p)
    BY <1>22, LeaseConstants DEF Leftovers, Attempts, Types, Phase, Acquiring, Guarded,
       Inside, Scanning, Busy, Choosing, Owning, Sign, Over, Leaving, InsideStep
  <1>23. CASE Collect(p)
    BY <1>23, LeaseConstants DEF Leftovers, Attempts, Types, Phase, Acquiring, Guarded,
       Inside, Scanning, Busy, Choosing, Owning, Collect, Over, Leaving, InsideStep
  <1>24. CASE Unlock(p)
    BY <1>24, LeaseConstants DEF Leftovers, Attempts, Types, Phase, Acquiring, Guarded,
       Inside, Scanning, Busy, Choosing, Owning, Unlock, Finish, LockOf, files
  <1>25. CASE Remove(p)
    BY <1>25, LeaseConstants DEF Leftovers, Attempts, Types, Phase, Acquiring, Guarded,
       Inside, Scanning, Busy, Choosing, Owning, Remove, Finish, NoLock
  <1>26. CASE Exit(p)
    BY <1>26, LeaseConstants DEF Leftovers, Attempts, Types, Phase, Acquiring, Guarded,
       Inside, Scanning, Busy, Choosing, Owning, Exit, Gone, Abandoned
<1> QED
  BY <1>1, <1>2, <1>3, <1>4, <1>5, <1>6, <1>7, <1>8, <1>9, <1>10, <1>11, <1>12, <1>13,
     <1>14, <1>15, <1>16, <1>17, <1>18, <1>19, <1>20, <1>21, <1>22, <1>23, <1>24, <1>25,
     <1>26 DEF Step

\* And a crash leaves those of one token.
LEMMA LeftoversStep ==
  ASSUME Types, Attempts, LeftoversCounted, Next
  PROVE  LeftoversCounted'
<1> PICK p \in Process : Step(p)
  BY DEF Next
<1>1. crashes \in Nat /\ IsFiniteSet(Leftovers) /\ Cardinality(Leftovers) \in Nat
  BY FS_CardinalityType, LeaseConstants DEF LeftoversCounted, Types
<1>2. CASE Crash(p)
  <2>1. Leftovers' \subseteq Leftovers \cup {token[p]} /\ crashes' = crashes + 1
    BY <1>2 DEF Leftovers, Crash, Gone, Types
  <2>2. /\ IsFiniteSet(Leftovers \cup {token[p]})
        /\ Cardinality(Leftovers \cup {token[p]}) <= Cardinality(Leftovers) + 1
        /\ Cardinality(Leftovers \cup {token[p]}) \in Nat
    <3>1. /\ IsFiniteSet(Leftovers \cup {token[p]})
          /\ Cardinality(Leftovers \cup {token[p]}) =
                IF token[p] \in Leftovers THEN Cardinality(Leftovers)
                ELSE Cardinality(Leftovers) + 1
      BY <1>1, FS_AddElement
    <3>2. Cardinality(Leftovers \cup {token[p]}) \in Nat
      BY <3>1, FS_CardinalityType
    <3> QED  BY <1>1, <3>1, <3>2
  <2>3. /\ IsFiniteSet(Leftovers')
        /\ Cardinality(Leftovers') <= Cardinality(Leftovers \cup {token[p]})
        /\ Cardinality(Leftovers') \in Nat
    BY <2>1, <2>2, FS_Subset, FS_CardinalityType
  <2> QED  BY <1>1, <2>1, <2>2, <2>3 DEF LeftoversCounted
<1>3. CASE ~Crash(p)
  <2>1. Leftovers' \subseteq Leftovers /\ crashes' = crashes
    BY <1>3, LeftoversShrink
  <2>2. /\ IsFiniteSet(Leftovers')
        /\ Cardinality(Leftovers') <= Cardinality(Leftovers)
        /\ Cardinality(Leftovers') \in Nat
    BY <1>1, <2>1, FS_Subset, FS_CardinalityType
  <2> QED  BY <1>1, <2>1, <2>2 DEF LeftoversCounted
<1> QED  BY <1>2, <1>3

-----------------------------------------------------------------------------
(* The guard *)

\* Every step keeps the bakery that overlooks nobody.
LEMMA BakeryStep ==
  ASSUME ~overtaken', Types, Attempts, RecordsInPlace, Bakery,
         Types', Attempts', RecordsInPlace', Next
  PROVE  Bakery'
<1> PICK p \in Process : Step(p)
  BY DEF Next
  <1>1. CASE Start(p)
    BY <1>1, LeaseConstants DEF Bakery, GoesBehind, WillSee, RecordsInPlace, Attempts,
       Types, Precedes, GoesFirst, Owning, Choosing, Phase, Acquiring, Guarded, Inside,
       Scanning, Busy, Start, At, Begin, Quiet, files
  <1>2. CASE Exec(p)
    BY <1>2, LeaseConstants DEF Bakery, GoesBehind, WillSee, RecordsInPlace, Attempts,
       Types, Precedes, GoesFirst, Owning, Choosing, Phase, Acquiring, Guarded, Inside,
       Scanning, Busy, Exec, At, Begin, Quiet, files
  <1>3. CASE Enter(p)
    <2>1. /\ \A q \in Process \ {p} : phase'[q] = phase[q] /\ token'[q] = token[q]
          /\ phase'[p] \in {"mkdir", "leave", "choose"}
      BY <1>3 DEF Enter, FreshToken, Types
    <2>2. UNCHANGED <<ticket, listed, blocked, records>>
      BY <1>3 DEF Enter
    <2>3. ASSUME NEW a \in Process, a # p, NEW b \in Process
          PROVE  /\ b # p => (WillSee(a, b) => WillSee(a, b)')
                 /\ b # p => (GoesBehind(b, a) => GoesBehind(b, a)')
                 /\ GoesBehind(p, a)'
      <3>1. b # p => token'[b] = token[b] /\ ticket' = ticket
        BY <2>1, <2>2
      <3>2. b # p => (WillSee(a, b) => WillSee(a, b)')
        <4>1. b # p => Choosing(b)' = Choosing(b) /\ Owning(b)' = Owning(b)
          BY <3>1 DEF Choosing, Owning
        <4>2. token'[a] = token[a] /\ ticket'[a] = ticket[a] /\ listed' = listed /\ records' = records
          BY <2>1, <2>2, <2>3
        <4> QED  BY <3>1, <4>1, <4>2 DEF WillSee, GoesFirst, Precedes
      <3> QED
        BY <2>1, <2>2, <2>3, <3>2 DEF GoesBehind, Precedes, Owning, Guarded
    <2> QED  BY <2>1, <2>2, <2>3 DEF Bakery, Guarded
  <1>4. CASE MakeRecordsDir(p)
    BY <1>4, LeaseConstants DEF Bakery, GoesBehind, WillSee, RecordsInPlace, Attempts,
       Types, Precedes, GoesFirst, Owning, Choosing, Phase, Acquiring, Guarded, Inside,
       Scanning, Busy, MakeRecordsDir, At, FreshToken
  <1>5. CASE Choose(p)
    BY <1>5, LeaseConstants DEF Bakery, GoesBehind, WillSee, RecordsInPlace, Attempts,
       Types, Precedes, GoesFirst, Owning, Choosing, Phase, Acquiring, Guarded, Inside,
       Scanning, Busy, Choose, Publish, Leaving
  <1>6. CASE Survey(p)
    <2>1. ASSUME NEW a \in Process, a # p,
                 phase[a] \in {"settle", "relist", "check"} \cup Guarded
          PROVE  Owning(a) \in records /\ Owning(a) \notin OwnRecords(p)
      BY <1>6, <2>1 DEF RecordsInPlace, Attempts, Busy, Survey, OwnRecords, Owning
    <2>2. listed'[p] = records \ OwnRecords(p) /\ phase' = [phase EXCEPT ![p] = "survey"]
      BY <1>6 DEF Survey, List, Types
    <2>3. UNCHANGED <<token, ticket, records, blocked>>
      BY <1>6 DEF Survey, List, files
    <2>4. \A a \in Process \ {p} : listed'[a] = listed[a]
      BY <1>6 DEF Survey, List, Types
    <2> SUFFICES ASSUME NEW a \in Process, NEW b \in Process, a # b,
                        phase'[a] \in {"check"} \cup Guarded
                 PROVE  /\ phase'[a] = "check" =>
                              a \in blocked' \/ GoesBehind(b, a)' \/ WillSee(a, b)'
                        /\ phase'[a] \in Guarded => GoesBehind(b, a)'
      BY DEF Bakery
    <2>5. a # p /\ phase'[a] = phase[a] /\ Owning(a)' = Owning(a)
      BY <2>2, <2>3 DEF Types, Guarded, Owning
    <2>6. CASE b = p
      <3>1. Owning(a) \in listed'[p]
        BY <2>1, <2>2, <2>5
      <3>2. phase'[p] = "survey"
        BY <2>2 DEF Types
      <3> QED  BY <2>5, <2>6, <3>1, <3>2 DEF GoesBehind, Guarded
    <2>7. CASE b # p
      <3>1. phase'[b] = phase[b] /\ listed'[b] = listed[b] /\ listed'[a] = listed[a]
        BY <2>2, <2>4, <2>5, <2>7 DEF Types
      <3> QED
        BY <2>3, <2>5, <3>1
        DEF Bakery, GoesBehind, WillSee, GoesFirst, Precedes, Owning, Choosing
    <2> QED  BY <2>6, <2>7
  <1>7. CASE Visit(p)
    <2>1. PICK r \in listed[p] : VisitOf(p, r)
      BY <1>7 DEF Visit, VisitOf
    <2>2. phase' = phase /\ token' = token /\ phase[p] \in {"survey", "check"}
      BY <1>7 DEF Visit, Scanning
    <2>3. \A q \in Process \ {p} : listed'[q] = listed[q] /\ ticket'[q] = ticket[q]
      BY <2>1 DEF VisitOf, Types
    <2>4. \A q \in Process : \A w \in records : w.token = token[q] => w \in records'
      BY <2>1 DEF VisitOf, Active
    <2>5. blocked \subseteq blocked' /\ blocked' \subseteq blocked \cup {p}
      BY <2>1 DEF VisitOf
    <2>6. /\ listed'[p] = listed[p] \ {r}
          /\ phase[p] = "check" => ticket'[p] = ticket[p]
          /\ ticket'[p] >= ticket[p]
      BY <2>1, LeaseConstants DEF VisitOf, Types, Record
    <2>7. ASSUME NEW b \in Process, b # p, phase[p] = "check", Bakery
          PROVE  p \in blocked' \/ GoesBehind(b, p)' \/ WillSee(p, b)'
      <3>1. CASE GoesBehind(b, p)
        BY <2>2, <2>3, <2>6, <2>7, <3>1 DEF GoesBehind, Precedes, Owning
      <3>2. CASE WillSee(p, b)
        <4>1. PICK w \in listed[p] :
                  /\ w.token = token[b] /\ GoesFirst(w, p)
                  /\ w \in records \/ (w = Choosing(b) /\ Owning(b) \in records)
          BY <3>2 DEF WillSee
        <4>2. CASE w = r
          <5>1. w \in records
            <6>1. ~Overlooked(w)
              BY <2>1, <2>7, <4>2 DEF VisitOf
            <6>2. Choosing(b).kind = "choosing" /\ Choosing(b).token = token[b]
              BY DEF Choosing
            <6> QED  BY <4>1, <6>1, <6>2 DEF Overlooked
          <5> QED  BY <2>1, <2>7, <4>1, <4>2, <5>1 DEF VisitOf, Active
        <4>3. CASE w # r
          <5>1. w \in records' \/ (w = Choosing(b) /\ Owning(b) \in records')
            BY <2>4, <4>1 DEF Owning
          <5>2. Choosing(b)' = Choosing(b) /\ Owning(b)' = Owning(b)
            BY <2>2, <2>3, <2>7 DEF Choosing, Owning
          <5>3. w \in listed'[p] /\ token'[b] = token[b] /\ GoesFirst(w, p)'
            BY <2>2, <2>6, <2>7, <4>1, <4>3 DEF GoesFirst, Precedes
          <5> QED  BY <4>1, <5>1, <5>2, <5>3 DEF WillSee
        <4> QED  BY <4>2, <4>3
      <3> QED  BY <2>5, <2>7, <3>1, <3>2 DEF Bakery
    <2>8. ASSUME NEW a \in Process, a # p, phase[a] \in {"check"} \cup Guarded,
                 GoesBehind(p, a)
          PROVE  GoesBehind(p, a)'
      <3>1. CASE phase[p] = "check"
        BY <2>2, <2>3, <2>6, <2>8, <3>1 DEF GoesBehind, Precedes, Owning
      <3>2. CASE phase[p] = "survey"
        <4>1. Owning(a)' = Owning(a) /\ Owning(a) \in records /\ Active(Owning(a))
          BY <2>2, <2>3, <2>8 DEF RecordsInPlace, Owning, Active
        <4>2. CASE r = Owning(a)
          <5>1. Owning(a).ticket = ticket[a]
            BY DEF Owning
          <5>2. ticket'[p] >= ticket[a]
            BY <2>1, <3>2, <4>1, <4>2, <5>1, LeaseConstants DEF VisitOf, Types
          <5> QED  BY <2>2, <2>3, <2>8, <3>2, <5>2 DEF GoesBehind, Guarded
        <4>3. CASE r # Owning(a)
          <5>1. Owning(a) \in listed'[p] \/ ticket'[p] >= ticket[a]
            BY <2>6, <2>8, <3>2, <4>3, LeaseConstants DEF GoesBehind, Types
          <5> QED  BY <2>2, <2>3, <2>8, <3>2, <4>1, <5>1 DEF GoesBehind, Guarded
        <4> QED  BY <4>2, <4>3
      <3> QED  BY <2>2, <3>1, <3>2
    <2>9. ASSUME NEW a \in Process, a # p, NEW b \in Process
          PROVE  /\ WillSee(a, b) => WillSee(a, b)'
                 /\ b # p => (GoesBehind(b, a) => GoesBehind(b, a)')
      <3>1. ASSUME WillSee(a, b)
            PROVE  WillSee(a, b)'
        <4>1. PICK w \in listed[a] :
                  /\ w.token = token[b] /\ GoesFirst(w, a)
                  /\ w \in records \/ (w = Choosing(b) /\ Owning(b) \in records)
          BY <3>1 DEF WillSee
        <4>2. /\ w \in listed'[a] /\ token'[b] = token[b] /\ GoesFirst(w, a)'
              /\ Choosing(b)' = Choosing(b)
          BY <2>2, <2>3, <2>9, <4>1 DEF GoesFirst, Precedes, Choosing
        <4>3. CASE w \in records
          BY <2>4, <4>1, <4>2, <4>3 DEF WillSee
        <4>4. CASE w \notin records
          <5>1. w = Choosing(b) /\ Owning(b) \in records
            BY <4>1, <4>4
          <5>2. b = p => phase[p] = "check"
            BY <2>2, <4>4, <5>1 DEF RecordsInPlace
          <5>3. Owning(b)' = Owning(b)
            BY <2>2, <2>3, <2>6, <5>2 DEF Owning
          <5>4. Owning(b) \in records'
            BY <2>4, <5>1 DEF Owning
          <5> QED  BY <4>1, <4>2, <5>1, <5>3, <5>4 DEF WillSee
        <4> QED  BY <4>3, <4>4
      <3>2. b # p => (GoesBehind(b, a) => GoesBehind(b, a)')
        BY <2>2, <2>3, <2>9 DEF GoesBehind, Precedes, Owning
      <3> QED  BY <3>1, <3>2
    <2> QED  BY <2>2, <2>5, <2>7, <2>8, <2>9 DEF Bakery, Guarded
  <1>8. CASE Take(p)
    <2>1. /\ phase[p] = "survey" /\ phase'[p] \in {"take", "leave"} /\ listed[p] = {}
          /\ phase'[p] = "take" => ticket'[p] = ticket[p] + 1
          /\ \A q \in Process \ {p} : phase'[q] = phase[q] /\ ticket'[q] = ticket[q]
          /\ UNCHANGED <<token, listed, blocked, records>>
      BY <1>8 DEF Take, Leaving, files, Types
    <2>2. ASSUME NEW a \in Process, a # p, NEW b \in Process, WillSee(a, b)
          PROVE  WillSee(a, b)'
      <3>1. PICK w \in listed[a] :
                /\ w.token = token[b] /\ GoesFirst(w, a)
                /\ w \in records \/ (w = Choosing(b) /\ Owning(b) \in records)
        BY <2>2 DEF WillSee
      <3>2. w \in listed'[a] /\ token'[b] = token[b] /\ GoesFirst(w, a)'
        BY <2>1, <2>2, <3>1 DEF GoesFirst, Precedes
      <3>3. w \in records \/ (w = Choosing(b)' /\ Owning(b)' \in records)
        BY <2>1, <3>1 DEF RecordsInPlace, Choosing, Owning
      <3> QED  BY <2>1, <3>1, <3>2, <3>3 DEF WillSee
    <2>3. ASSUME NEW a \in Process, a # p, NEW b \in Process, GoesBehind(b, a)
          PROVE  GoesBehind(b, a)'
      <3>1. CASE b = p
        <4>1. ticket[p] >= ticket[a]
          BY <2>1, <2>3, <3>1 DEF GoesBehind
        <4>2. ticket[p] \in Nat /\ ticket[a] \in Nat
          BY LeaseConstants DEF Types
        <4>3. phase'[p] = "take" => Precedes(Owning(a), p)'
          BY <2>1, <2>3, <4>1, <4>2 DEF Precedes, Owning
        <4> QED  BY <2>1, <3>1, <4>3 DEF GoesBehind, Guarded
      <3>2. CASE b # p
        BY <2>1, <2>3, <3>2 DEF GoesBehind, Precedes, Owning
      <3> QED  BY <3>1, <3>2
    <2> QED  BY <2>1, <2>2, <2>3 DEF Bakery, Guarded
  <1>9. CASE Announce(p)
    BY <1>9, LeaseConstants DEF Bakery, GoesBehind, WillSee, RecordsInPlace, Attempts,
       Types, Precedes, GoesFirst, Owning, Choosing, Phase, Acquiring, Guarded, Inside,
       Scanning, Busy, Announce, Publish, Leaving
  <1>10. CASE Settle(p)
    BY <1>10, LeaseConstants DEF Bakery, GoesBehind, WillSee, RecordsInPlace, Attempts,
       Types, Precedes, GoesFirst, Owning, Choosing, Phase, Acquiring, Guarded, Inside,
       Scanning, Busy, Settle, At, locals
  <1>11. CASE Relist(p)
    <2>1. ASSUME NEW a \in Process, a # p,
                 phase[a] \in {"settle", "relist", "check"} \cup Guarded
          PROVE  Owning(a) \in records /\ Owning(a) \notin OwnRecords(p)
      BY <1>11, <2>1 DEF RecordsInPlace, Attempts, Busy, Relist, OwnRecords, Owning
    <2>2. ASSUME NEW b \in Process, b # p, phase[b] \in {"survey", "take", "settle"}
          PROVE  Choosing(b) \in records /\ Choosing(b) \notin OwnRecords(p)
      BY <1>11, <2>2 DEF RecordsInPlace, Attempts, Busy, Relist, OwnRecords, Choosing
    <2>3. listed'[p] = records \ OwnRecords(p) /\ phase' = [phase EXCEPT ![p] = "check"]
      BY <1>11 DEF Relist, List, Types
    <2>4. UNCHANGED <<token, ticket, records, blocked>>
      BY <1>11 DEF Relist, List, files
    <2>5. \A a \in Process \ {p} : listed'[a] = listed[a] /\ phase'[a] = phase[a]
      BY <1>11 DEF Relist, List, Types
    <2>6. phase[p] = "relist" /\ phase'[p] = "check"
      BY <1>11 DEF Relist, List, Types
    <2>7. ASSUME NEW b \in Process, b # p
          PROVE  GoesBehind(b, p)' \/ WillSee(p, b)'
      <3>1. CASE phase[b] \in {"survey", "take", "settle"}
        <4>1. Choosing(b) \in listed'[p] \cap records'
          BY <2>2, <2>3, <2>4, <2>7, <3>1
        <4> QED  BY <2>4, <4>1 DEF WillSee, GoesFirst, Choosing
      <3>2. CASE phase[b] \in {"relist", "check"} \cup Guarded
        <4>1. Owning(b) \in listed'[p] \cap records'
          BY <2>1, <2>3, <2>4, <2>7, <3>2
        <4>2. token[b] # token[p] /\ token[b] \in Nat /\ token[p] \in Nat
          <5>1. token[b] # 0 /\ token[p] # 0
            BY <2>6, <3>2 DEF Attempts, Busy, Guarded
          <5>2. token[b] # token[p]
            BY <2>7, <5>1 DEF RecordsInPlace
          <5> QED  BY <5>1, <5>2, LeaseConstants DEF Types
        <4>3. Precedes(Owning(b), p) \/ Precedes(Owning(p), b)
          <5>1. Owning(b).ticket = ticket[b] /\ Owning(b).token = token[b]
            BY DEF Owning
          <5>2. Owning(p).ticket = ticket[p] /\ Owning(p).token = token[p]
            BY DEF Owning
          <5>3. ticket[b] \in Nat /\ ticket[p] \in Nat
            BY LeaseConstants DEF Types
          <5> QED  BY <4>2, <5>1, <5>2, <5>3 DEF Precedes
        <4>4. phase'[b] # "survey"
          BY <2>5, <2>7, <3>2 DEF Guarded
        <4> QED
          BY <2>4, <4>1, <4>3, <4>4
          DEF GoesBehind, WillSee, GoesFirst, Precedes, Owning
      <3>3. CASE phase[b] \notin {"survey", "take", "settle", "relist", "check"} \cup
  Guarded
        BY <2>5, <2>7, <3>3 DEF GoesBehind
      <3> QED  BY <3>1, <3>2, <3>3
    <2>8. ASSUME NEW a \in Process, a # p
          PROVE  GoesBehind(p, a) => GoesBehind(p, a)'
      BY <2>4, <2>6 DEF GoesBehind, Precedes, Owning
    <2>9. ASSUME NEW a \in Process, a # p, NEW b \in Process
          PROVE  /\ WillSee(a, b) => WillSee(a, b)'
                 /\ b # p => (GoesBehind(b, a) => GoesBehind(b, a)')
      BY <2>4, <2>5, <2>9
      DEF GoesBehind, WillSee, GoesFirst, Precedes, Owning, Choosing
    <2> QED  BY <2>4, <2>5, <2>6, <2>7, <2>8, <2>9 DEF Bakery, Guarded
  <1>12. CASE Decide(p)
    BY <1>12, LeaseConstants DEF Bakery, GoesBehind, WillSee, RecordsInPlace, Attempts,
       Types, Precedes, GoesFirst, Owning, Choosing, Phase, Acquiring, Guarded, Inside,
       Scanning, Busy, Decide, Missed, Leaving, files
  <1>13. CASE Leave(p)
    BY <1>13, LeaseConstants DEF Bakery, GoesBehind, WillSee, RecordsInPlace, Attempts,
       Types, Precedes, GoesFirst, Owning, Choosing, Phase, Acquiring, Guarded, Inside,
       Scanning, Busy, Leave, OwnRecords, Abandoned
  <1>14. CASE Look(p)
    BY <1>14, LeaseConstants DEF Bakery, GoesBehind, WillSee, RecordsInPlace, Attempts,
       Types, Precedes, GoesFirst, Owning, Choosing, Phase, Acquiring, Guarded, Inside,
       Scanning, Busy, Look, Missed, Leaving, LockHeld, GuardStep
  <1>15. CASE Entry(p)
    BY <1>15, LeaseConstants DEF Bakery, GoesBehind, WillSee, RecordsInPlace, Attempts,
       Types, Precedes, GoesFirst, Owning, Choosing, Phase, Acquiring, Guarded, Inside,
       Scanning, Busy, Entry, At, GuardStep
  <1>16. CASE Evict(p)
    BY <1>16, LeaseConstants DEF Bakery, GoesBehind, WillSee, RecordsInPlace, Attempts,
       Types, Precedes, GoesFirst, Owning, Choosing, Phase, Acquiring, Guarded, Inside,
       Scanning, Busy, Evict, Leaving, GuardStep, NoLock
  <1>17. CASE Create(p)
    BY <1>17, LeaseConstants DEF Bakery, GoesBehind, WillSee, RecordsInPlace, Attempts,
       Types, Precedes, GoesFirst, Owning, Choosing, Phase, Acquiring, Guarded, Inside,
       Scanning, Busy, Create, Missed, Leaving, LockOf, GuardStep
  <1>18. CASE Fill(p)
    BY <1>18, LeaseConstants DEF Bakery, GoesBehind, WillSee, RecordsInPlace, Attempts,
       Types, Precedes, GoesFirst, Owning, Choosing, Phase, Acquiring, Guarded, Inside,
       Scanning, Busy, Fill, At, LockOf, GuardStep
  <1>19. CASE Verify(p)
    BY <1>19, LeaseConstants DEF Bakery, GoesBehind, WillSee, RecordsInPlace, Attempts,
       Types, Precedes, GoesFirst, Owning, Choosing, Phase, Acquiring, Guarded, Inside,
       Scanning, Busy, Verify, At, Leaving, LockOf, GuardStep
  <1>20. CASE Validate(p)
    BY <1>20, LeaseConstants DEF Bakery, GoesBehind, WillSee, RecordsInPlace, Attempts,
       Types, Precedes, GoesFirst, Owning, Choosing, Phase, Acquiring, Guarded, Inside,
       Scanning, Busy, Validate, Over, Leaving, InsideStep
  <1>21. CASE Register(p)
    BY <1>21, LeaseConstants DEF Bakery, GoesBehind, WillSee, RecordsInPlace, Attempts,
       Types, Precedes, GoesFirst, Owning, Choosing, Phase, Acquiring, Guarded, Inside,
       Scanning, Busy, Register, At, InsideStep
  <1>22. CASE Sign(p)
    BY <1>22, LeaseConstants DEF Bakery, GoesBehind, WillSee, RecordsInPlace, Attempts,
       Types, Precedes, GoesFirst, Owning, Choosing, Phase, Acquiring, Guarded, Inside,
       Scanning, Busy, Sign, Over, Leaving, InsideStep
  <1>23. CASE Collect(p)
    BY <1>23, LeaseConstants DEF Bakery, GoesBehind, WillSee, RecordsInPlace, Attempts,
       Types, Precedes, GoesFirst, Owning, Choosing, Phase, Acquiring, Guarded, Inside,
       Scanning, Busy, Collect, Over, Leaving, InsideStep
  <1>24. CASE Unlock(p)
    BY <1>24, LeaseConstants DEF Bakery, GoesBehind, WillSee, RecordsInPlace, Attempts,
       Types, Precedes, GoesFirst, Owning, Choosing, Phase, Acquiring, Guarded, Inside,
       Scanning, Busy, Unlock, Finish, LockOf, files
  <1>25. CASE Remove(p)
    BY <1>25, LeaseConstants DEF Bakery, GoesBehind, WillSee, RecordsInPlace, Attempts,
       Types, Precedes, GoesFirst, Owning, Choosing, Phase, Acquiring, Guarded, Inside,
       Scanning, Busy, Remove, Finish, NoLock
  <1>26. CASE Exit(p)
    BY <1>26, LeaseConstants DEF Bakery, GoesBehind, WillSee, RecordsInPlace, Attempts,
       Types, Precedes, GoesFirst, Owning, Choosing, Phase, Acquiring, Guarded, Inside,
       Scanning, Busy, Exit, Gone, Abandoned
  <1>27. CASE Crash(p)
    BY <1>27, LeaseConstants DEF Bakery, GoesBehind, WillSee, RecordsInPlace, Attempts,
       Types, Precedes, GoesFirst, Owning, Choosing, Phase, Acquiring, Guarded, Inside,
       Scanning, Busy, Crash, Gone, Abandoned
<1> QED
  BY <1>1, <1>2, <1>3, <1>4, <1>5, <1>6, <1>7, <1>8, <1>9, <1>10, <1>11, <1>12, <1>13,
     <1>14, <1>15, <1>16, <1>17, <1>18, <1>19, <1>20, <1>21, <1>22, <1>23, <1>24, <1>25,
     <1>26, <1>27 DEF Step

\* A dying process disturbs no lock but its own.
LEMMA AbandonedKeeps ==
  ASSUME Types, NEW p \in Process, Abandoned(p)
  PROVE  /\ \A q \in Process \ {p} : lock = LockOf(q, TRUE) => lock' = lock
         /\ ~LockHeld => ~LockHeld'
         /\ \A q \in Process : leases'[q] = "live" => leases[q] = "live"
<1>1. \A q \in Process \ {p} : lock = LockOf(q, TRUE) => lock' = lock
  BY DEF Abandoned, LockOf
<1>2. ~LockHeld => ~LockHeld'
  <2>1. CASE lock.by = p
    <3>1. lock' = [lock EXCEPT !.by = Nobody]
      BY <2>1 DEF Abandoned
    <3>2. lock \in [by : Process \cup {Nobody}, written : BOOLEAN, exists : {TRUE}]
      <4>1. NoLock.by = Nobody
        BY DEF NoLock
      <4> QED  BY <2>1, <4>1, LeaseConstants DEF Types, Lock
    <3>3. lock'.by = Nobody
      BY <3>1, <3>2
    <3> QED  BY <3>3 DEF LockHeld
  <2>2. CASE lock.by # p
    BY <2>2 DEF Abandoned, LockHeld
  <2> QED  BY <2>1, <2>2
<1>3. \A q \in Process : leases'[q] = "live" => leases[q] = "live"
  BY DEF Abandoned, Types
<1> QED  BY <1>1, <1>2, <1>3

\* Two that go before each other would hold the same token.
LEMMA GuardIsExclusive ==
  ASSUME Attempts, Types, RecordsInPlace, Bakery
  PROVE  OneGuardHolder
<1> SUFFICES ASSUME NEW p \in Process, NEW q \in Process, p # q,
                    phase[p] \in Guarded, phase[q] \in Guarded
             PROVE  FALSE
  BY DEF OneGuardHolder
<1>1. Precedes(Owning(p), q) /\ Precedes(Owning(q), p)
  BY DEF Bakery, GoesBehind
<1>2. /\ ticket[p] \in Nat /\ ticket[q] \in Nat
      /\ token[p] \in Nat /\ token[q] \in Nat
  <2>1. ticket[p] \in 0 .. MaxTicket /\ ticket[q] \in 0 .. MaxTicket
    BY DEF Types
  <2>2. token[p] \in Token \cup {0} /\ token[q] \in Token \cup {0}
    BY DEF Types
  <2>3. ticket[p] \in Nat /\ ticket[q] \in Nat
    BY <2>1, LeaseConstants
  <2>4. \A t \in Token \cup {0} : t \in Nat
    BY LeaseConstants
  <2> QED  BY <2>2, <2>3, <2>4
<1>3. token[p] # token[q]
  BY DEF RecordsInPlace, Attempts, Busy, Guarded
<1> QED  BY <1>1, <1>2, <1>3 DEF Precedes, Owning

-----------------------------------------------------------------------------
(* The transaction *)

\* Every step keeps the transaction of one process, if the guard is exclusive.
LEMMA TransactionStep ==
  ASSUME Types, Attempts, OneGuardHolder, Transaction, Types', Attempts', Next
  PROVE  Transaction'
<1> PICK p \in Process : Step(p)
  BY DEF Next
  <1>1. CASE Start(p)
    BY <1>1, LeaseConstants DEF Transaction, Holds, OneGuardHolder, Attempts, Types,
       LockHeld, LockOf, NoLock, Phase, Acquiring, Guarded, Inside, Scanning, Busy,
       Start, At, Begin, Quiet, files
  <1>2. CASE Exec(p)
    BY <1>2, LeaseConstants DEF Transaction, Holds, OneGuardHolder, Attempts, Types,
       LockHeld, LockOf, NoLock, Phase, Acquiring, Guarded, Inside, Scanning, Busy,
       Exec, At, Begin, Quiet, files
  <1>3. CASE Enter(p)
    BY <1>3, LeaseConstants DEF Transaction, Holds, OneGuardHolder, Attempts, Types,
       LockHeld, LockOf, NoLock, Phase, Acquiring, Guarded, Inside, Scanning, Busy,
       Enter, Missed, Leaving, FreshToken
  <1>4. CASE MakeRecordsDir(p)
    BY <1>4, LeaseConstants DEF Transaction, Holds, OneGuardHolder, Attempts, Types,
       LockHeld, LockOf, NoLock, Phase, Acquiring, Guarded, Inside, Scanning, Busy,
       MakeRecordsDir, At, FreshToken
  <1>5. CASE Choose(p)
    BY <1>5, LeaseConstants DEF Transaction, Holds, OneGuardHolder, Attempts, Types,
       LockHeld, LockOf, NoLock, Phase, Acquiring, Guarded, Inside, Scanning, Busy,
       Choose, Publish, Leaving, Choosing
  <1>6. CASE Survey(p)
    BY <1>6, LeaseConstants DEF Transaction, Holds, OneGuardHolder, Attempts, Types,
       LockHeld, LockOf, NoLock, Phase, Acquiring, Guarded, Inside, Scanning, Busy,
       Survey, List, OwnRecords, files
  <1>7. CASE Visit(p)
    BY <1>7, LeaseConstants DEF Transaction, Holds, OneGuardHolder, Attempts, Types,
       LockHeld, LockOf, NoLock, Phase, Acquiring, Guarded, Inside, Scanning, Busy,
       Visit, Active, GoesFirst, Precedes
  <1>8. CASE Take(p)
    BY <1>8, LeaseConstants DEF Transaction, Holds, OneGuardHolder, Attempts, Types,
       LockHeld, LockOf, NoLock, Phase, Acquiring, Guarded, Inside, Scanning, Busy,
       Take, Leaving, files
  <1>9. CASE Announce(p)
    BY <1>9, LeaseConstants DEF Transaction, Holds, OneGuardHolder, Attempts, Types,
       LockHeld, LockOf, NoLock, Phase, Acquiring, Guarded, Inside, Scanning, Busy,
       Announce, Publish, Leaving, Owning
  <1>10. CASE Settle(p)
    BY <1>10, LeaseConstants DEF Transaction, Holds, OneGuardHolder, Attempts, Types,
       LockHeld, LockOf, NoLock, Phase, Acquiring, Guarded, Inside, Scanning, Busy,
       Settle, At, Choosing, locals
  <1>11. CASE Relist(p)
    BY <1>11, LeaseConstants DEF Transaction, Holds, OneGuardHolder, Attempts, Types,
       LockHeld, LockOf, NoLock, Phase, Acquiring, Guarded, Inside, Scanning, Busy,
       Relist, List, OwnRecords, files
  <1>12. CASE Decide(p)
    BY <1>12, LeaseConstants DEF Transaction, Holds, OneGuardHolder, Attempts, Types,
       LockHeld, LockOf, NoLock, Phase, Acquiring, Guarded, Inside, Scanning, Busy,
       Decide, Missed, Leaving, files
  <1>13. CASE Leave(p)
    <2>1. ASSUME NEW q \in Process, Holds(q)'
          PROVE  Holds(q) /\ lock' = lock
      <3>1. CASE q = p
        <4>1. phase'[p] = "validate" /\ after[p] = "inside"
          BY <1>13, <2>1, <3>1 DEF Leave, Holds, Inside, Types
        <4> QED  BY <1>13, <3>1, <4>1 DEF Leave, Holds
      <3>2. CASE q # p
        <4>1. Holds(q)
          BY <1>13, <2>1, <3>2 DEF Leave, Holds, Types
        <4> QED  BY <1>13, <3>2, <4>1, AbandonedKeeps DEF Leave, Transaction
      <3> QED  BY <3>1, <3>2
    <2>2. ~LockHeld => ~LockHeld'
      BY <1>13, AbandonedKeeps DEF Leave, LockHeld
    <2>3. \A q \in Process : leases'[q] = "live" => leases[q] = "live"
      BY <1>13, AbandonedKeeps DEF Leave
    <2>4. ASSUME NEW q \in Process,
                 phase'[q] \in {"entry", "evict", "register", "sign", "delete"}
          PROVE  phase[q] = phase'[q]
      BY <1>13, <2>4 DEF Leave, Types
    <2>5. generation' = generation
      BY <1>13 DEF Leave
    <2> QED  BY <2>1, <2>2, <2>3, <2>4, <2>5 DEF Transaction, LockOf
  <1>14. CASE Look(p)
    BY <1>14, LeaseConstants DEF Transaction, Holds, OneGuardHolder, Attempts, Types,
       LockHeld, LockOf, NoLock, Phase, Acquiring, Guarded, Inside, Scanning, Busy,
       Look, Missed, Leaving, GuardStep
  <1>15. CASE Entry(p)
    BY <1>15, LeaseConstants DEF Transaction, Holds, OneGuardHolder, Attempts, Types,
       LockHeld, LockOf, NoLock, Phase, Acquiring, Guarded, Inside, Scanning, Busy,
       Entry, At, GuardStep
  <1>16. CASE Evict(p)
    BY <1>16, LeaseConstants DEF Transaction, Holds, OneGuardHolder, Attempts, Types,
       LockHeld, LockOf, NoLock, Phase, Acquiring, Guarded, Inside, Scanning, Busy,
       Evict, Leaving, GuardStep
  <1>17. CASE Create(p)
    BY <1>17, LeaseConstants DEF Transaction, Holds, OneGuardHolder, Attempts, Types,
       LockHeld, LockOf, NoLock, Phase, Acquiring, Guarded, Inside, Scanning, Busy,
       Create, Missed, Leaving, GuardStep
  <1>18. CASE Fill(p)
    <2>1. ASSUME NEW q \in Process, Holds(q)'
          PROVE  Holds(q) /\ lock' = lock
      <3>1. Holds(q)
        BY <1>18, <2>1 DEF Fill, At, GuardStep, Holds, Inside, Types
      <3>2. lock # LockOf(p, FALSE)
        BY <3>1 DEF Transaction, LockOf
      <3> QED  BY <1>18, <3>1, <3>2 DEF Fill
    <2>2. \A q \in Process : phase'[q] \notin {"entry", "evict"}
      BY <1>18 DEF Fill, At, OneGuardHolder, Guarded, Types
    <2>3. ASSUME NEW q \in Process, phase'[q] \in {"register", "sign", "delete"}
          PROVE  phase[q] = phase'[q]
      BY <1>18, <2>3 DEF Fill, At, Types
    <2>4. generation' = generation /\ leases' = leases
      BY <1>18 DEF Fill, GuardStep
    <2> QED  BY <2>1, <2>2, <2>3, <2>4 DEF Transaction, LockOf
  <1>19. CASE Verify(p)
    BY <1>19, LeaseConstants DEF Transaction, Holds, OneGuardHolder, Attempts, Types,
       LockHeld, LockOf, NoLock, Phase, Acquiring, Guarded, Inside, Scanning, Busy,
       Verify, At, Leaving, GuardStep
  <1>20. CASE Validate(p)
    BY <1>20, LeaseConstants DEF Transaction, Holds, OneGuardHolder, Attempts, Types,
       LockHeld, LockOf, NoLock, Phase, Acquiring, Guarded, Inside, Scanning, Busy,
       Validate, Over, Leaving, InsideStep
  <1>21. CASE Register(p)
    BY <1>21, LeaseConstants DEF Transaction, Holds, OneGuardHolder, Attempts, Types,
       LockHeld, LockOf, NoLock, Phase, Acquiring, Guarded, Inside, Scanning, Busy,
       Register, At, InsideStep
  <1>22. CASE Sign(p)
    BY <1>22, LeaseConstants DEF Transaction, Holds, OneGuardHolder, Attempts, Types,
       LockHeld, LockOf, NoLock, Phase, Acquiring, Guarded, Inside, Scanning, Busy,
       Sign, Over, Leaving, InsideStep
  <1>23. CASE Collect(p)
    BY <1>23, LeaseConstants DEF Transaction, Holds, OneGuardHolder, Attempts, Types,
       LockHeld, LockOf, NoLock, Phase, Acquiring, Guarded, Inside, Scanning, Busy,
       Collect, Over, Leaving, InsideStep
  <1>24. CASE Unlock(p)
    BY <1>24, LeaseConstants DEF Transaction, Holds, OneGuardHolder, Attempts, Types,
       LockHeld, LockOf, NoLock, Phase, Acquiring, Guarded, Inside, Scanning, Busy,
       Unlock, Finish, files
  <1>25. CASE Remove(p)
    BY <1>25, LeaseConstants DEF Transaction, Holds, OneGuardHolder, Attempts, Types,
       LockHeld, LockOf, NoLock, Phase, Acquiring, Guarded, Inside, Scanning, Busy,
       Remove, Finish
  <1>26. CASE Exit(p)
    <2>1. phase' = [phase EXCEPT ![p] = "off"] /\ Abandoned(p) /\ generation' = generation
      BY <1>26 DEF Exit, Gone
    <2>2. \A q \in Process \ {p} : after'[q] = after[q]
      BY <1>26 DEF Exit, Gone, Types
    <2>3. ASSUME NEW q \in Process, Holds(q)'
          PROVE  Holds(q) /\ lock' = lock
      <3>1. q # p /\ Holds(q)
        BY <2>1, <2>2, <2>3 DEF Holds, Inside, Types
      <3> QED  BY <2>1, <3>1, AbandonedKeeps DEF Transaction
    <2>4. ~LockHeld => ~LockHeld'
      BY <2>1, AbandonedKeeps
    <2>5. \A q \in Process : leases'[q] = "live" => leases[q] = "live"
      BY <2>1, AbandonedKeeps
    <2>6. ASSUME NEW q \in Process, phase'[q] # "off"
          PROVE  phase[q] = phase'[q]
      BY <2>1, <2>6 DEF Types
    <2> QED  BY <2>1, <2>3, <2>4, <2>5, <2>6 DEF Transaction, LockOf
  <1>27. CASE Crash(p)
    <2>1. phase' = [phase EXCEPT ![p] = "off"] /\ Abandoned(p) /\ generation' = generation
      BY <1>27 DEF Crash, Gone
    <2>2. \A q \in Process \ {p} : after'[q] = after[q]
      BY <1>27 DEF Crash, Gone, Types
    <2>3. ASSUME NEW q \in Process, Holds(q)'
          PROVE  Holds(q) /\ lock' = lock
      <3>1. q # p /\ Holds(q)
        BY <2>1, <2>2, <2>3 DEF Holds, Inside, Types
      <3> QED  BY <2>1, <3>1, AbandonedKeeps DEF Transaction
    <2>4. ~LockHeld => ~LockHeld'
      BY <2>1, AbandonedKeeps
    <2>5. \A q \in Process : leases'[q] = "live" => leases[q] = "live"
      BY <2>1, AbandonedKeeps
    <2>6. ASSUME NEW q \in Process, phase'[q] # "off"
          PROVE  phase[q] = phase'[q]
      BY <2>1, <2>6 DEF Types
    <2> QED  BY <2>1, <2>3, <2>4, <2>5, <2>6 DEF Transaction, LockOf
<1> QED
  BY <1>1, <1>2, <1>3, <1>4, <1>5, <1>6, <1>7, <1>8, <1>9, <1>10, <1>11, <1>12, <1>13,
     <1>14, <1>15, <1>16, <1>17, <1>18, <1>19, <1>20, <1>21, <1>22, <1>23, <1>24, <1>25,
     <1>26, <1>27 DEF Step

\* A lock that is written is there, and so is one that somebody holds.
LEMMA LockShape ==
  ASSUME Types
  PROVE  /\ lock.written => lock.exists
         /\ lock.by \in Process \cup {Nobody} /\ lock.written \in BOOLEAN
         /\ lock.by \in Process => lock = LockOf(lock.by, lock.written)
<1>1. CASE lock = NoLock
  BY <1>1, LeaseConstants DEF NoLock
<1>2. CASE lock \in [by : Process \cup {Nobody}, written : BOOLEAN, exists : {TRUE}]
  <2>1. /\ lock.by \in Process \cup {Nobody} /\ lock.written \in BOOLEAN /\ lock.exists
        /\ lock = [by |-> lock.by, written |-> lock.written, exists |-> TRUE]
    BY <1>2
  <2> QED  BY <2>1 DEF LockOf
<1> QED  BY <1>1, <1>2 DEF Types, Lock

\* Every step keeps who has a lease, and who is at work on the lock.
LEMMA LeasedStep ==
  ASSUME Types, Attempts, Leased, Types', Attempts', Next
  PROVE  Leased'
<1> PICK p \in Process : Step(p)
  BY DEF Next
  <1>1. CASE Start(p)
    BY <1>1, LeaseConstants DEF Leased, Attempts, Types, LockHeld,
       LockOf, NoLock, Phase, Acquiring, Guarded, Inside, Scanning, Busy, Start, At,
       Begin, Quiet, files
  <1>2. CASE Exec(p)
    BY <1>2, LeaseConstants DEF Leased, Attempts, Types, LockHeld,
       LockOf, NoLock, Phase, Acquiring, Guarded, Inside, Scanning, Busy, Exec, At,
       Begin, Quiet, files
  <1>3. CASE Enter(p)
    BY <1>3, LeaseConstants DEF Leased, Attempts, Types, LockHeld,
       LockOf, NoLock, Phase, Acquiring, Guarded, Inside, Scanning, Busy, Enter, Missed,
       Leaving, FreshToken
  <1>4. CASE MakeRecordsDir(p)
    BY <1>4, LeaseConstants DEF Leased, Attempts, Types, LockHeld,
       LockOf, NoLock, Phase, Acquiring, Guarded, Inside, Scanning, Busy,
       MakeRecordsDir, At, FreshToken
  <1>5. CASE Choose(p)
    BY <1>5, LeaseConstants DEF Leased, Attempts, Types, LockHeld,
       LockOf, NoLock, Phase, Acquiring, Guarded, Inside, Scanning, Busy, Choose,
       Publish, Leaving, Choosing
  <1>6. CASE Survey(p)
    BY <1>6, LeaseConstants DEF Leased, Attempts, Types, LockHeld,
       LockOf, NoLock, Phase, Acquiring, Guarded, Inside, Scanning, Busy, Survey, List,
       OwnRecords, files
  <1>7. CASE Visit(p)
    BY <1>7, LeaseConstants DEF Leased, Attempts, Types, LockHeld,
       LockOf, NoLock, Phase, Acquiring, Guarded, Inside, Scanning, Busy, Visit, Active,
       GoesFirst, Precedes
  <1>8. CASE Take(p)
    BY <1>8, LeaseConstants DEF Leased, Attempts, Types, LockHeld,
       LockOf, NoLock, Phase, Acquiring, Guarded, Inside, Scanning, Busy, Take, Leaving,
       files
  <1>9. CASE Announce(p)
    BY <1>9, LeaseConstants DEF Leased, Attempts, Types, LockHeld,
       LockOf, NoLock, Phase, Acquiring, Guarded, Inside, Scanning, Busy, Announce,
       Publish, Leaving, Owning
  <1>10. CASE Settle(p)
    BY <1>10, LeaseConstants DEF Leased, Attempts, Types, LockHeld,
       LockOf, NoLock, Phase, Acquiring, Guarded, Inside, Scanning, Busy, Settle, At,
       Choosing, locals
  <1>11. CASE Relist(p)
    BY <1>11, LeaseConstants DEF Leased, Attempts, Types, LockHeld,
       LockOf, NoLock, Phase, Acquiring, Guarded, Inside, Scanning, Busy, Relist, List,
       OwnRecords, files
  <1>12. CASE Decide(p)
    BY <1>12, LeaseConstants DEF Leased, Attempts, Types, LockHeld,
       LockOf, NoLock, Phase, Acquiring, Guarded, Inside, Scanning, Busy, Decide,
       Missed, Leaving, files
  <1>13. CASE Leave(p)
    <2>1. /\ \A q \in Process \ {p} : /\ phase'[q] = phase[q]
                                        /\ after'[q] = after[q]
                                        /\ leases'[q] = leases[q]
          /\ goal' = goal
      BY <1>13 DEF Leave, Abandoned, Types
    <2>2. /\ phase'[p] \in {"validate", "enter", "off"}
          /\ phase'[p] = "validate" <=> after[p] = "inside"
          /\ phase'[p] = "enter" <=> after[p] = "again"
          /\ phase'[p] # "off" => lock' = lock /\ leases' = leases
          /\ phase'[p] = "off" => Abandoned(p)
          /\ phase[p] = "leave"
      BY <1>13 DEF Leave, Types
    <2>3. lock'.by \in Process => lock' = lock
      <3>1. CASE Abandoned(p) /\ lock.by = p
        <4>1. lock' = [lock EXCEPT !.by = Nobody]
          BY <3>1 DEF Abandoned
        <4>2. lock \in [by : Process \cup {Nobody}, written : BOOLEAN, exists : {TRUE}]
          <5>1. NoLock.by = Nobody
            BY DEF NoLock
          <5> QED  BY <3>1, <5>1, LeaseConstants DEF Types, Lock
        <4>3. lock'.by = Nobody
          BY <4>1, <4>2
        <4> QED  BY <4>3, LeaseConstants
      <3>2. CASE Abandoned(p) /\ lock.by # p
        BY <3>2 DEF Abandoned
      <3> QED  BY <2>2, <3>1, <3>2
    <2>4. Abandoned(p) => lock'.by # p
      BY <2>3, LeaseConstants DEF Abandoned
    <2>5. ASSUME lock'.by \in Process
          PROVE  /\ phase'[lock'.by] \in {"fill", "verify", "leave"} \cup Inside
                 /\ phase'[lock'.by] # "fill" => lock'.written
      <3>1. lock' = lock
        BY <2>3, <2>5
      <3>2. CASE lock.by = p
        <4>1. phase'[p] = "validate"
          BY <2>2, <2>4, <3>1, <3>2 DEF Leased
        <4>2. lock.written
          BY <2>2, <2>5, <3>1, <3>2 DEF Leased
        <4> QED  BY <3>1, <3>2, <4>1, <4>2 DEF Inside
      <3>3. CASE lock.by # p
        BY <2>1, <2>5, <3>1, <3>3 DEF Leased
      <3> QED  BY <3>2, <3>3
    <2>6. ASSUME NEW q \in Process
          PROVE  /\ phase'[q] = "running" \/ (goal'[q] = "adopt" /\ phase'[q] # "off") =>
                       leases'[q] = "live"
                 /\ phase'[q] \in {"unlock", "remove"} /\ after'[q] = "run" =>
                       leases'[q] = "live"
                 /\ phase'[q] \in {"register", "sign"} => goal'[q] = "launch"
      <3>1. CASE q = p
        BY <2>1, <2>2, <3>1 DEF Leased
      <3>2. CASE q # p
        BY <2>1, <3>2 DEF Leased
      <3> QED  BY <3>1, <3>2
    <2>7. ASSUME NEW q \in Process, phase'[q] = "leave", after'[q] = "again"
          PROVE  lock'.by # q
      BY <2>1, <2>2, <2>3, <2>7 DEF Leased
    <2> QED  BY <2>5, <2>6, <2>7 DEF Leased
  <1>14. CASE Look(p)
    BY <1>14, LeaseConstants DEF Leased, Attempts, Types, LockHeld,
       LockOf, NoLock, Phase, Acquiring, Guarded, Inside, Scanning, Busy, Look, Missed,
       Leaving, GuardStep
  <1>15. CASE Entry(p)
    BY <1>15, LeaseConstants DEF Leased, Attempts, Types, LockHeld,
       LockOf, NoLock, Phase, Acquiring, Guarded, Inside, Scanning, Busy, Entry, At,
       GuardStep
  <1>16. CASE Evict(p)
    BY <1>16, LeaseConstants DEF Leased, Attempts, Types, LockHeld,
       LockOf, NoLock, Phase, Acquiring, Guarded, Inside, Scanning, Busy, Evict,
       Leaving, GuardStep
  <1>17. CASE Create(p)
    BY <1>17, LeaseConstants DEF Leased, Attempts, Types, LockHeld,
       LockOf, NoLock, Phase, Acquiring, Guarded, Inside, Scanning, Busy, Create,
       Missed, Leaving, GuardStep
  <1>18. CASE Fill(p)
    <2>1. /\ phase[p] = "fill" /\ phase' = [phase EXCEPT ![p] = "verify"]
          /\ lock' = IF lock = LockOf(p, FALSE) THEN LockOf(p, TRUE) ELSE lock
          /\ UNCHANGED <<goal, leases, after>>
      BY <1>18 DEF Fill, At, GuardStep
    <2>2. ASSUME lock'.by = p
          PROVE  lock'.written
      <3>1. CASE lock = LockOf(p, FALSE)
        BY <2>1, <3>1 DEF LockOf
      <3>2. CASE lock # LockOf(p, FALSE)
        <4>1. lock' = lock /\ lock.by = p
          BY <2>1, <2>2, <3>2
        <4>2. lock = LockOf(p, lock.written) /\ lock.written \in BOOLEAN
          BY <4>1, LockShape
        <4>3. lock.written # FALSE
          BY <3>2, <4>2
        <4> QED  BY <4>1, <4>2, <4>3
      <3> QED  BY <3>1, <3>2
    <2>3. lock'.by = lock.by
      BY <2>1 DEF LockOf
    <2>4. lock.by # p => lock' = lock
      BY <2>1 DEF LockOf
    <2>5. ASSUME lock'.by \in Process
          PROVE  /\ phase'[lock'.by] \in {"fill", "verify", "leave"} \cup Inside
                 /\ phase'[lock'.by] # "fill" => lock'.written
      <3>1. CASE lock.by = p
        <4>1. phase'[p] = "verify" /\ lock'.by = p
          BY <2>1, <2>3, <3>1 DEF Types
        <4> QED  BY <2>2, <4>1
      <3>2. CASE lock.by # p
        <4>1. lock' = lock /\ lock.by \in Process /\ phase'[lock.by] = phase[lock.by]
          BY <2>1, <2>3, <2>4, <2>5, <3>2 DEF Types
        <4> QED  BY <4>1 DEF Leased
      <3> QED  BY <3>1, <3>2
    <2>6. ASSUME NEW q \in Process
          PROVE  phase'[q] = phase[q] \/ (q = p /\ phase'[q] = "verify" /\ phase[q] = "fill")
      BY <2>1 DEF Types
    <2>7. ASSUME NEW q \in Process
          PROVE  /\ phase'[q] = "running" \/ (goal'[q] = "adopt" /\ phase'[q] # "off") =>
                       leases'[q] = "live"
                 /\ phase'[q] \in {"unlock", "remove"} /\ after'[q] = "run" =>
                       leases'[q] = "live"
                 /\ phase'[q] \in {"register", "sign"} => goal'[q] = "launch"
                 /\ phase'[q] = "leave" /\ after'[q] = "again" => lock'.by # q
      <3>1. goal' = goal /\ leases' = leases /\ after' = after /\ lock'.by = lock.by
        BY <2>1, <2>3
      <3>2. CASE phase'[q] = phase[q]
        BY <3>1, <3>2 DEF Leased
      <3>3. CASE phase'[q] = "verify" /\ phase[q] = "fill"
        BY <3>1, <3>3 DEF Leased
      <3> QED  BY <2>6, <3>2, <3>3
    <2> QED  BY <2>5, <2>7 DEF Leased
  <1>19. CASE Verify(p)
    BY <1>19, LeaseConstants DEF Leased, Attempts, Types, LockHeld,
       LockOf, NoLock, Phase, Acquiring, Guarded, Inside, Scanning, Busy, Verify, At,
       Leaving, GuardStep
  <1>20. CASE Validate(p)
    BY <1>20, LeaseConstants DEF Leased, Attempts, Types, LockHeld,
       LockOf, NoLock, Phase, Acquiring, Guarded, Inside, Scanning, Busy, Validate,
       Over, Leaving, InsideStep
  <1>21. CASE Register(p)
    BY <1>21, LeaseConstants DEF Leased, Attempts, Types, LockHeld,
       LockOf, NoLock, Phase, Acquiring, Guarded, Inside, Scanning, Busy, Register, At,
       InsideStep
  <1>22. CASE Sign(p)
    BY <1>22, LeaseConstants DEF Leased, Attempts, Types, LockHeld,
       LockOf, NoLock, Phase, Acquiring, Guarded, Inside, Scanning, Busy, Sign, Over,
       Leaving, InsideStep
  <1>23. CASE Collect(p)
    BY <1>23, LeaseConstants DEF Leased, Attempts, Types, LockHeld,
       LockOf, NoLock, Phase, Acquiring, Guarded, Inside, Scanning, Busy, Collect, Over,
       Leaving, InsideStep
  <1>24. CASE Unlock(p)
    <2>1. phase[p] = "unlock"
      BY <1>24 DEF Unlock
    <2>2. ASSUME lock.by = p
          PROVE  lock = LockOf(p, TRUE)
      <3>1. lock.written
        BY <2>1, <2>2 DEF Leased
      <3>2. lock = LockOf(p, lock.written) /\ lock.written \in BOOLEAN
        BY <2>2, LockShape
      <3>3. lock.written = TRUE
        BY <3>1, <3>2
      <3> QED  BY <3>2, <3>3
    <2>3. /\ phase'[p] \in {"remove", "running", "off"}
          /\ phase'[p] = "running" => after[p] = "run"
          /\ phase'[p] = "remove" => after'[p] = after[p]
          /\ lock.by = p => phase'[p] = "remove"
          /\ \A q \in Process \ {p} : phase'[q] = phase[q] /\ after'[q] = after[q]
          /\ UNCHANGED <<goal, lock, leases>>
      <3>1. UNCHANGED <<goal, lock, leases>>
        BY <1>24 DEF Unlock, files
      <3>2. CASE lock = LockOf(p, TRUE)
        <4>1. phase' = [phase EXCEPT ![p] = "remove"] /\ after' = after
          BY <1>24, <3>2 DEF Unlock
        <4> QED  BY <3>1, <4>1 DEF Types
      <3>3. CASE lock # LockOf(p, TRUE)
        <4>1. lock.by # p /\ Finish(p)
          BY <1>24, <2>2, <3>3 DEF Unlock
        <4>2. /\ phase' = [phase EXCEPT ![p] = IF after[p] = "run" THEN "running" ELSE "off"]
              /\ after' = [after EXCEPT ![p] = "end"]
          BY <4>1 DEF Finish
        <4>3. phase'[p] = (IF after[p] = "run" THEN "running" ELSE "off")
          BY <4>2 DEF Types
        <4>4. \A q \in Process \ {p} : phase'[q] = phase[q] /\ after'[q] = after[q]
          BY <4>2 DEF Types
        <4> QED  BY <3>1, <4>1, <4>3, <4>4
      <3> QED  BY <3>2, <3>3
    <2>4. leases[p] = "live" \/ (goal[p] # "adopt" /\ after[p] # "run")
      BY <2>1 DEF Leased
    <2> QED  BY <2>1, <2>3, <2>4 DEF Leased, Inside
  <1>25. CASE Remove(p)
    BY <1>25, LeaseConstants DEF Leased, Attempts, Types, LockHeld,
       LockOf, NoLock, Phase, Acquiring, Guarded, Inside, Scanning, Busy, Remove, Finish
  <1>26. CASE Exit(p)
    BY <1>26, LeaseConstants DEF Leased, Attempts, Types, LockHeld,
       LockOf, NoLock, Phase, Acquiring, Guarded, Inside, Scanning, Busy, Exit, Gone,
       Abandoned
  <1>27. CASE Crash(p)
    BY <1>27, LeaseConstants DEF Leased, Attempts, Types, LockHeld,
       LockOf, NoLock, Phase, Acquiring, Guarded, Inside, Scanning, Busy, Crash, Gone,
       Abandoned
<1> QED
  BY <1>1, <1>2, <1>3, <1>4, <1>5, <1>6, <1>7, <1>8, <1>9, <1>10, <1>11, <1>12, <1>13,
     <1>14, <1>15, <1>16, <1>17, <1>18, <1>19, <1>20, <1>21, <1>22, <1>23, <1>24, <1>25,
     <1>26, <1>27 DEF Step

\* What is true of an undisturbed acquisition stays true, and it succeeds.
LEMMA LoneStep ==
  ASSUME Types, Attempts, RecordsInPlace, Leased, Lone, LoneStartSucceeds,
         Types', Attempts', Next
  PROVE  (Lone /\ LoneStartSucceeds)'
<1> PICK p \in Process : Step(p)
  BY DEF Next
  <1>1. CASE Start(p)
    BY <1>1, LeaseConstants DEF Lone, LoneStartSucceeds, Leased, Attempts, Types,
       LockHeld, LockOf, NoLock, Phase, Acquiring, Guarded, Inside, Scanning, Busy,
       Start, At, Begin, Quiet, files
  <1>2. CASE Exec(p)
    BY <1>2, LeaseConstants DEF Lone, LoneStartSucceeds, Leased, Attempts, Types,
       LockHeld, LockOf, NoLock, Phase, Acquiring, Guarded, Inside, Scanning, Busy,
       Exec, At, Begin, Quiet, files
  <1>3. CASE Enter(p)
    BY <1>3, LeaseConstants DEF Lone, LoneStartSucceeds, Leased, Attempts, Types,
       LockHeld, LockOf, NoLock, Phase, Acquiring, Guarded, Inside, Scanning, Busy,
       Enter, Missed, Leaving, FreshToken
  <1>4. CASE MakeRecordsDir(p)
    BY <1>4, LeaseConstants DEF Lone, LoneStartSucceeds, Leased, Attempts, Types,
       LockHeld, LockOf, NoLock, Phase, Acquiring, Guarded, Inside, Scanning, Busy,
       MakeRecordsDir, At, FreshToken
  <1>5. CASE Choose(p)
    BY <1>5, LeaseConstants DEF Lone, LoneStartSucceeds, Leased, Attempts, Types,
       LockHeld, LockOf, NoLock, Phase, Acquiring, Guarded, Inside, Scanning, Busy,
       Choose, Publish, Leaving, Choosing
  <1>6. CASE Survey(p)
    BY <1>6, LeaseConstants DEF Lone, LoneStartSucceeds, Leased, Attempts, Types,
       LockHeld, LockOf, NoLock, Phase, Acquiring, Guarded, Inside, Scanning, Busy,
       Survey, List, OwnRecords, files
  <1>7. CASE Visit(p)
    <2>1. ASSUME NEW q \in alone, q # p
          PROVE  FALSE
      BY <1>7, <2>1 DEF Visit, Lone, Types, Scanning
    <2>2. PICK r \in listed[p] : VisitOf(p, r)
      BY <1>7 DEF Visit, VisitOf
    <2>3. /\ phase' = phase /\ phase[p] \in Scanning
          /\ UNCHANGED <<token, alone, guardDir, spoiled, lock, after, goal, generation>>
      BY <1>7 DEF Visit
    <2>4. CASE p \in alone
      <3>1. r.token \in Token /\ r.token # token[p]
        <4>1. r \in Record
          BY DEF Types
        <4> QED  BY <2>4, <4>1 DEF Record, Lone
      <3>2. \A q \in Process \ {p} : token[q] = 0
        BY <2>4 DEF Lone, Attempts, Busy, Guarded
      <3>3. ~Active(r)
        BY <3>1, <3>2, LeaseConstants DEF Active
      <3>4. ticket' = ticket /\ blocked' = blocked
        BY <2>2, <3>3 DEF VisitOf
      <3>5. listed'[p] \subseteq listed[p]
        BY <2>2 DEF VisitOf, Types
      <3> QED
        BY <2>1, <2>3, <2>4, <3>4, <3>5 DEF Lone, LoneStartSucceeds, Scanning, LockOf
    <2>5. CASE p \notin alone
      <3>1. alone' = {}
        BY <2>1, <2>3, <2>5
      <3> QED  BY <3>1 DEF Lone, LoneStartSucceeds
    <2> QED  BY <2>4, <2>5
  <1>8. CASE Take(p)
    BY <1>8, LeaseConstants DEF Lone, LoneStartSucceeds, Leased, Attempts, Types,
       LockHeld, LockOf, NoLock, Phase, Acquiring, Guarded, Inside, Scanning, Busy,
       Take, Leaving, files
  <1>9. CASE Announce(p)
    BY <1>9, LeaseConstants DEF Lone, LoneStartSucceeds, Leased, Attempts, Types,
       LockHeld, LockOf, NoLock, Phase, Acquiring, Guarded, Inside, Scanning, Busy,
       Announce, Publish, Leaving, Owning
  <1>10. CASE Settle(p)
    BY <1>10, LeaseConstants DEF Lone, LoneStartSucceeds, Leased, Attempts, Types,
       LockHeld, LockOf, NoLock, Phase, Acquiring, Guarded, Inside, Scanning, Busy,
       Settle, At, Choosing, locals
  <1>11. CASE Relist(p)
    BY <1>11, LeaseConstants DEF Lone, LoneStartSucceeds, Leased, Attempts, Types,
       LockHeld, LockOf, NoLock, Phase, Acquiring, Guarded, Inside, Scanning, Busy,
       Relist, List, OwnRecords, files
  <1>12. CASE Decide(p)
    BY <1>12, LeaseConstants DEF Lone, LoneStartSucceeds, Leased, Attempts, Types,
       LockHeld, LockOf, NoLock, Phase, Acquiring, Guarded, Inside, Scanning, Busy,
       Decide, Missed, Leaving, files
  <1>13. CASE Leave(p)
    BY <1>13, LeaseConstants DEF Lone, LoneStartSucceeds, Leased, Attempts, Types,
       LockHeld, LockOf, NoLock, Phase, Acquiring, Guarded, Inside, Scanning, Busy,
       Leave, OwnRecords, Abandoned
  <1>14. CASE Look(p)
    <2>1. ASSUME NEW q \in alone, q # p
          PROVE  FALSE
      BY <1>14, <2>1 DEF Look, Lone, Types
    <2>2. CASE p \in alone
      <3>1. lock.by \notin Process
        <4>1. phase[p] = "look" /\ \A q \in Process \ {p} : phase[q] \in {"off", "running"}
          BY <1>14, <2>2 DEF Look, Lone
        <4>2. \A q \in Process : phase[q] \in {"look", "off", "running"}
          BY <4>1
        <4> QED  BY <4>2 DEF Leased, Inside
      <3>2. ~LockHeld
        BY <3>1, LockShape DEF LockHeld
      <3>3. lock.written => lock.exists
        BY LockShape
      <3>4. /\ phase' = [phase EXCEPT ![p] = IF lock.written THEN "evict" ELSE "entry"]
            /\ UNCHANGED <<after, lock>>
        BY <1>14, <3>2 DEF Look
      <3>5. phase'[p] \in {"evict", "entry"} /\ (phase'[p] = "evict" => lock'.exists)
        BY <3>3, <3>4 DEF Types
      <3>6. \A q \in Process \ {p} : phase'[q] = phase[q]
        BY <3>4 DEF Types
      <3>7. alone' = {p}
        BY <1>14, <2>1, <2>2 DEF Look, GuardStep
      <3>8. guardDir # "bare" /\ guardDir' = guardDir
        BY <1>14, <2>2 DEF Look, GuardStep, Lone
      <3>9. UNCHANGED <<spoiled, blocked, listed, token>>
        BY <1>14 DEF Look, GuardStep
      <3> QED
        BY <2>2, <3>5, <3>6, <3>7, <3>8, <3>9
        DEF Lone, LoneStartSucceeds, Acquiring, Guarded
    <2>3. CASE p \notin alone
      <3>1. alone' = {}
        BY <1>14, <2>1, <2>3 DEF Look, GuardStep
      <3> QED  BY <3>1 DEF Lone, LoneStartSucceeds
    <2> QED  BY <2>2, <2>3
  <1>15. CASE Entry(p)
    BY <1>15, LeaseConstants DEF Lone, LoneStartSucceeds, Leased, Attempts, Types,
       LockHeld, LockOf, NoLock, Phase, Acquiring, Guarded, Inside, Scanning, Busy,
       Entry, At, GuardStep
  <1>16. CASE Evict(p)
    BY <1>16, LeaseConstants DEF Lone, LoneStartSucceeds, Leased, Attempts, Types,
       LockHeld, LockOf, NoLock, Phase, Acquiring, Guarded, Inside, Scanning, Busy,
       Evict, Leaving, GuardStep
  <1>17. CASE Create(p)
    BY <1>17, LeaseConstants DEF Lone, LoneStartSucceeds, Leased, Attempts, Types,
       LockHeld, LockOf, NoLock, Phase, Acquiring, Guarded, Inside, Scanning, Busy,
       Create, Missed, Leaving, GuardStep
  <1>18. CASE Fill(p)
    <2>1. ASSUME NEW q \in alone, q # p
          PROVE  FALSE
      BY <1>18, <2>1 DEF Fill, At, Lone, Types
    <2>2. CASE p \in alone
      <3>1. lock' = LockOf(p, TRUE)
        BY <1>18, <2>2 DEF Fill, At, Lone
      <3>2. phase'[p] = "verify" /\ \A q \in Process \ {p} : phase'[q] = phase[q]
        BY <1>18 DEF Fill, At, Types
      <3>3. alone' = {p}
        BY <1>18, <2>1, <2>2 DEF Fill, GuardStep
      <3>4. guardDir # "bare" /\ guardDir' = guardDir
        BY <1>18, <2>2 DEF Fill, At, GuardStep, Lone
      <3>5. UNCHANGED <<spoiled, blocked, listed, token>>
        BY <1>18 DEF Fill, GuardStep
      <3> QED
        BY <2>2, <3>1, <3>2, <3>3, <3>4, <3>5
        DEF Lone, LoneStartSucceeds, LockOf, Acquiring, Guarded
    <2>3. CASE p \notin alone
      <3>1. alone' = {}
        BY <1>18, <2>1, <2>3 DEF Fill, GuardStep
      <3> QED  BY <3>1 DEF Lone, LoneStartSucceeds
    <2> QED  BY <2>2, <2>3
  <1>19. CASE Verify(p)
    BY <1>19, LeaseConstants DEF Lone, LoneStartSucceeds, Leased, Attempts, Types,
       LockHeld, LockOf, NoLock, Phase, Acquiring, Guarded, Inside, Scanning, Busy,
       Verify, At, Leaving, GuardStep
  <1>20. CASE Validate(p)
    BY <1>20, LeaseConstants DEF Lone, LoneStartSucceeds, Leased, Attempts, Types,
       LockHeld, LockOf, NoLock, Phase, Acquiring, Guarded, Inside, Scanning, Busy,
       Validate, Over, Leaving, InsideStep
  <1>21. CASE Register(p)
    BY <1>21, LeaseConstants DEF Lone, LoneStartSucceeds, Leased, Attempts, Types,
       LockHeld, LockOf, NoLock, Phase, Acquiring, Guarded, Inside, Scanning, Busy,
       Register, At, InsideStep
  <1>22. CASE Sign(p)
    BY <1>22, LeaseConstants DEF Lone, LoneStartSucceeds, Leased, Attempts, Types,
       LockHeld, LockOf, NoLock, Phase, Acquiring, Guarded, Inside, Scanning, Busy,
       Sign, Over, Leaving, InsideStep
  <1>23. CASE Collect(p)
    BY <1>23, LeaseConstants DEF Lone, LoneStartSucceeds, Leased, Attempts, Types,
       LockHeld, LockOf, NoLock, Phase, Acquiring, Guarded, Inside, Scanning, Busy,
       Collect, Over, Leaving, InsideStep
  <1>24. CASE Unlock(p)
    BY <1>24, LeaseConstants DEF Lone, LoneStartSucceeds, Leased, Attempts, Types,
       LockHeld, LockOf, NoLock, Phase, Acquiring, Guarded, Inside, Scanning, Busy,
       Unlock, Finish, files
  <1>25. CASE Remove(p)
    BY <1>25, LeaseConstants DEF Lone, LoneStartSucceeds, Leased, Attempts, Types,
       LockHeld, LockOf, NoLock, Phase, Acquiring, Guarded, Inside, Scanning, Busy,
       Remove, Finish
  <1>26. CASE Exit(p)
    <2>1. /\ phase[p] = "running" /\ phase' = [phase EXCEPT ![p] = "off"]
          /\ alone' = alone \ {p}
          /\ UNCHANGED <<goal, guardDir, generation>>
      BY <1>26 DEF Exit, Gone
    <2>2. p \notin alone
      BY <2>1 DEF Lone, Acquiring, Guarded, Inside, Scanning
    <2>3. ASSUME NEW q \in Process, q # p
          PROVE  /\ token'[q] = token[q] /\ ticket'[q] = ticket[q]
                 /\ listed'[q] = listed[q] /\ after'[q] = after[q]
                 /\ q \notin spoiled => q \notin spoiled'
                 /\ q \notin blocked => q \notin blocked'
      BY <1>26, <2>3 DEF Exit, Gone, Types
    <2>4. lock' = lock
      BY <1>26, <2>1 DEF Exit, Gone, Abandoned, Leased, Inside
    <2> QED
      BY <2>1, <2>2, <2>3, <2>4 DEF Lone, LoneStartSucceeds, LockOf, Types
  <1>27. CASE Crash(p)
    BY <1>27, LeaseConstants DEF Lone, LoneStartSucceeds, Leased, Attempts, Types,
       LockHeld, LockOf, NoLock, Phase, Acquiring, Guarded, Inside, Scanning, Busy,
       Crash, Gone, Abandoned
<1> QED
  BY <1>1, <1>2, <1>3, <1>4, <1>5, <1>6, <1>7, <1>8, <1>9, <1>10, <1>11, <1>12, <1>13,
     <1>14, <1>15, <1>16, <1>17, <1>18, <1>19, <1>20, <1>21, <1>22, <1>23, <1>24, <1>25,
     <1>26, <1>27 DEF Step

-----------------------------------------------------------------------------
(* The theorems *)

\* Everything holds before the first step.
LEMMA InitOk == Init => IInv /\ Bakery /\ Transaction
<1> SUFFICES ASSUME Init
             PROVE  IInv /\ Bakery /\ Transaction
  OBVIOUS
<1>1. Types
  <2>1. 0 \in 0 .. MaxTicket /\ 0 \in 0 .. MaxCrashes
    BY LeaseConstants
  <2>2. lock \in Lock
    BY DEF Init, Lock
  <2>3. phase \in [Process -> Phase]
    BY DEF Init, Phase
  <2> QED  BY <2>1, <2>2, <2>3 DEF Init, Types
<1>2. Attempts /\ RecordsInPlace
  BY DEF Init, Attempts, RecordsInPlace, Busy, Guarded
<1>3. LeftoversCounted
  <2>1. Leftovers = {}
    BY DEF Init, Leftovers
  <2> QED  BY <2>1, FS_EmptySet DEF LeftoversCounted, Init
<1>4. Bakery
  BY DEF Init, Bakery, Guarded
<1>5. Transaction
  BY DEF Init, Transaction, Holds, Inside, NoLock
<1>6. Leased
  BY LeaseConstants DEF Init, Leased, NoLock
<1>7. Lone /\ LoneStartSucceeds
  BY DEF Init, Lone, LoneStartSucceeds
<1> QED  BY <1>1, <1>2, <1>3, <1>4, <1>5, <1>6, <1>7 DEF IInv

\* And is kept when nothing changes.
LEMMA Stutter ==
  ASSUME UNCHANGED vars
  PROVE  (IInv => IInv') /\ (Guard => Guard')
<1>1. /\ UNCHANGED <<phase, goal, token, ticket, listed, blocked, after, spoiled>>
      /\ UNCHANGED <<guardDir, records, lock, leases, generation, alone, crashes>>
      /\ UNCHANGED overtaken
  BY DEF vars
<1>2. /\ Types => Types'
      /\ Attempts => Attempts'
      /\ RecordsInPlace => RecordsInPlace'
      /\ LeftoversCounted => LeftoversCounted'
  BY <1>1 DEF Types, Attempts, RecordsInPlace, LeftoversCounted, Leftovers, Choosing,
     Owning
<1>3. Bakery => Bakery'
  BY <1>1 DEF Bakery, GoesBehind, WillSee, Precedes, GoesFirst, Owning, Choosing
<1>4. Transaction => Transaction'
  BY <1>1 DEF Transaction, Holds, LockHeld, LockOf
<1>5. (Leased => Leased') /\ (Lone => Lone') /\ (LoneStartSucceeds => LoneStartSucceeds')
  BY <1>1 DEF Leased, Lone, LoneStartSucceeds, LockOf
<1> QED  BY <1>1, <1>2, <1>3, <1>4, <1>5 DEF IInv, Guard

\* The inductive invariant of types, attempts, records on disk, leases and undisturbed
\* starts holds in every reachable state, whatever the scans have overlooked.
THEOREM Invariance == Spec => []IInv
<1>1. Init => IInv
  BY InitOk
<1>2. IInv /\ [Next]_vars => IInv'
  <2>1. ASSUME IInv, Next
        PROVE  IInv'
    <3>1. (Types /\ Attempts /\ RecordsInPlace /\ LeftoversCounted)'
      BY <2>1, TypesStep, AttemptsStep, PlaceStep, LeftoversStep DEF IInv
    <3>2. Leased' /\ (Lone /\ LoneStartSucceeds)'
      BY <2>1, <3>1, LeasedStep, LoneStep DEF IInv
    <3> QED  BY <3>1, <3>2 DEF IInv
  <2> QED  BY <2>1, Stutter
<1> QED  BY <1>1, <1>2, PTL DEF Spec

\* TypeOK: an attempt's files are there while it counts on them (try_acquire), and only
\* a process that dies leaves records behind, those of one attempt for each.
THEOREM TypeCorrect == Spec => []TypeOK
<1>1. IInv => TypeOK
  BY DEF IInv, TypeOK, LeftoversCounted
<1> QED  BY <1>1, Invariance, PTL

\* LoneStartSucceeds: an acquisition that nobody disturbs gets its transaction at once,
\* and its lease unless the generation is gone, whatever the dead have left.
THEOREM LoneStarts == Spec => []LoneStartSucceeds
<1>1. IInv => LoneStartSucceeds
  BY DEF IInv
<1> QED  BY <1>1, Invariance, PTL

\* What a step does not overlook has not been overlooked before.
LEMMA OvertakenStays ==
  ASSUME Types, overtaken, Next
  PROVE  overtaken'
<1> PICK p \in Process : Step(p)
  BY DEF Next
<1>1. CASE Visit(p)
  BY <1>1 DEF Visit
<1>2. CASE ~Visit(p)
  BY <1>2 DEF Step, Start, Exec, Begin, Enter, MakeRecordsDir, Choose, Announce, Publish,
     Survey, Relist, List, Take, Settle, Decide, Leave, Look, Entry, Evict, Create, Fill,
     Verify, GuardStep, Validate, Register, Sign, Collect, InsideStep, Unlock, Remove,
     Exit, Crash, Gone
<1> QED  BY <1>1, <1>2

\* As long as no check has overlooked a chooser the guard is a bakery, and who holds it
\* finds the transaction's file and the generation as it left them, for any number of
\* processes, deaths and tickets.
THEOREM GuardedInvariance == Spec => []Guard
<1>1. Init => Guard
  BY InitOk DEF Guard
<1>2. IInv /\ IInv' /\ Guard /\ [Next]_vars => Guard'
  <2>1. ASSUME IInv, IInv', Guard, Next, ~overtaken'
        PROVE  Bakery' /\ Transaction'
    <3>1. Bakery /\ Transaction
      BY <2>1, OvertakenStays DEF IInv, Guard
    <3>2. OneGuardHolder
      BY <2>1, <3>1, GuardIsExclusive DEF IInv
    <3> QED  BY <2>1, <3>1, <3>2, BakeryStep, TransactionStep DEF IInv
  <2> QED  BY <2>1, Stutter DEF Guard
<1> QED  BY <1>1, <1>2, Invariance, PTL DEF Spec

\* SafeUnlessOvertaken: overlooking a chooser is the only way to two holders of the
\* guard (try_acquire, scan_active_guard_records), to two transactions at a time
\* (VersionTransaction) and to a generation deleted under a live lease.
THEOREM GenerationsSafe == Spec => []SafeUnlessOvertaken
<1>1. ASSUME IInv, Guard, ~overtaken
      PROVE  Transaction /\ OneGuardHolder
  BY <1>1, GuardIsExclusive DEF IInv, Guard
<1>2. ASSUME IInv, Guard, ~overtaken, NEW p \in Process, NEW q \in Process,
             phase[p] \in Inside, phase[q] \in Inside
      PROVE  p = q
  <2>1. lock.by = p /\ lock.by = q
    BY <1>1, <1>2 DEF Transaction, Holds, LockOf
  <2> QED  BY <2>1
<1>3. IInv /\ Guard => SafeUnlessOvertaken
  BY <1>1, <1>2 DEF SafeUnlessOvertaken, Transaction
<1> QED  BY <1>3, Invariance, GuardedInvariance, PTL
=============================================================================
