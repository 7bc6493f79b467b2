-------------------------- MODULE CronLedgerProofs --------------------------
(***************************************************************************)
(* Proofs about CronLedger, for every set of jobs, slots and consumers and *)
(* every lease length.  The inductive invariant IInv joins the properties  *)
(* that TLC checks with what they need of each other: who holds which      *)
(* lease, and that the sweep only takes superseded ones.  What the ledger  *)
(* counts, the fires of a job and its failures, is finite in every state.  *)
(***************************************************************************)
EXTENDS CronLedger, FiniteSetTheorems, TLAPS

HoldersAreLeases == \A c \in Consumer : held[c] \in 0 .. Len(attempts)

HoldersAreDistinct ==
    \A c, d \in Consumer : held[c] # 0 /\ held[c] = held[d] => c = d

ExpiredIsSuperseded ==
    \A a \in DOMAIN attempts : attempts[a].outcome = "expired" => Superseded(a)

IInv ==
    /\ TypeOK
    /\ LeasesNumbered
    /\ ClaimedIffOpenLease
    /\ OneResultPerLease
    /\ ResultResolvesLease
    /\ CompletedIffSuccess
    /\ HoldersAreLeases
    /\ HoldersAreDistinct
    /\ ExpiredIsSuperseded

-----------------------------------------------------------------------------
(* Rows *)

\* Rewriting the rows of a table in place keeps it a table of the same length.
LEMMA RewriteRows ==
    ASSUME NEW S, NEW s \in Seq(S), NEW t,
           t = [i \in DOMAIN s |-> t[i]],
           \A i \in DOMAIN s : t[i] \in S
    PROVE  t \in Seq(S) /\ Len(t) = Len(s) /\ DOMAIN t = 1 .. Len(s)
<1>1. DOMAIN s = 1 .. Len(s) /\ Len(s) \in Nat
  OBVIOUS
<1>2. t \in [1 .. Len(s) -> S]
  BY <1>1
<1> QED
  BY <1>1, <1>2

\* A table after an insert.
LEMMA InsertRow ==
    ASSUME NEW S, NEW s \in Seq(S), NEW e \in S
    PROVE  /\ Append(s, e) \in Seq(S)
           /\ DOMAIN Append(s, e) = 1 .. (Len(s) + 1)
           /\ Len(Append(s, e)) = Len(s) + 1
           /\ \A i \in 1 .. Len(s) : Append(s, e)[i] = s[i]
           /\ Append(s, e)[Len(s) + 1] = e
  OBVIOUS

\* The tables hold rows of their types.
LEMMA RowTypes ==
    ASSUME TypeOK
    PROVE  /\ DOMAIN attempts = 1 .. Len(attempts) /\ Len(attempts) \in Nat
           /\ DOMAIN results = 1 .. Len(results) /\ Len(results) \in Nat
           /\ \A a \in DOMAIN attempts : /\ attempts[a] \in Attempt
                                        /\ attempts[a].key \in Key
                                        /\ attempts[a].fence \in Nat
           /\ \A r \in DOMAIN results : /\ results[r] \in Result
                                       /\ results[r].attempt \in Nat
                                       /\ results[r].fence \in Nat
<1>1. attempts \in Seq(Attempt) /\ results \in Seq(Result)
  BY DEF TypeOK
<1>2. \A x \in Attempt : x.key \in Key /\ x.fence \in Nat
  BY DEF Attempt
<1>3. \A x \in Result : x.attempt \in Nat /\ x.fence \in Nat
  BY DEF Result
<1> QED
  BY <1>1, <1>2, <1>3

\* The occurrence of a result is known.
LEMMA ResultKeys ==
    ASSUME TypeOK, ResultResolvesLease
    PROVE  \A r \in DOMAIN results : KeyOfResult(r) \in Key
BY RowTypes DEF ResultResolvesLease, KeyOfResult

\* What the sweep may do to a row.
Swept(old, new, a) ==
    /\ new[a].key = old[a].key
    /\ new[a].fence = old[a].fence
    /\ \/ new[a].outcome = old[a].outcome
       \/ old[a].outcome = "open" /\ new[a].outcome = "expired" /\ Superseded(a)

\* The sweep, run or failed, keeps every row but for open superseded leases.
LEMMA SweepRows ==
    ASSUME TypeOK, NEW rows \in {attempts, ExpireSupersededAttempts}
    PROVE  /\ rows \in Seq(Attempt)
           /\ Len(rows) = Len(attempts)
           /\ DOMAIN rows = 1 .. Len(attempts)
           /\ \A a \in 1 .. Len(attempts) : Swept(attempts, rows, a)
<1>1. attempts \in Seq(Attempt) /\ DOMAIN attempts = 1 .. Len(attempts)
  BY DEF TypeOK
<1>2. CASE rows = attempts
  BY <1>1, <1>2 DEF Swept
<1>3. CASE rows = ExpireSupersededAttempts
  <2>1. \A a \in DOMAIN attempts : rows[a] \in Attempt /\ Swept(attempts, rows, a)
    <3> SUFFICES ASSUME NEW a \in DOMAIN attempts
                 PROVE  rows[a] \in Attempt /\ Swept(attempts, rows, a)
      OBVIOUS
    <3>1. attempts[a] \in Attempt
      BY <1>1
    <3>2. CASE attempts[a].outcome = "open" /\ Superseded(a)
      <4>1. rows[a] = [attempts[a] EXCEPT !.outcome = "expired"]
        BY <1>3, <3>2 DEF ExpireSupersededAttempts
      <4> QED
        BY <3>1, <3>2, <4>1 DEF Swept, Attempt, Outcome
    <3>3. CASE ~(attempts[a].outcome = "open" /\ Superseded(a))
      <4>1. rows[a] = attempts[a]
        BY <1>3, <3>3 DEF ExpireSupersededAttempts
      <4> QED
        BY <3>1, <4>1 DEF Swept
    <3> QED
      BY <3>2, <3>3
  <2>2. rows = [a \in DOMAIN attempts |-> rows[a]]
    BY <1>3 DEF ExpireSupersededAttempts
  <2> QED
    BY <1>1, <2>1, <2>2, RewriteRows
<1> QED
  BY <1>2, <1>3

-----------------------------------------------------------------------------
(* One lemma per action *)

LEMMA InitInvariant ==
    ASSUME Init
    PROVE  IInv
<1>1. TypeOK
  <2>1. kind \in [Key -> Kind]
    BY DEF Init, Kind
  <2> QED
    BY <2>1 DEF Init, TypeOK, Status, Gone
<1>2. DOMAIN attempts = {} /\ DOMAIN results = {} /\ Len(attempts) = 0
  BY DEF Init
<1>3. \A k \in Key : status[k] # "claimed" /\ status[k] # "completed"
  BY DEF Init
<1>4. \A c \in Consumer : held[c] = 0
  BY DEF Init
<1>5. LeasesNumbered /\ ClaimedIffOpenLease /\ OneResultPerLease /\ ResultResolvesLease
  BY <1>2, <1>3 DEF LeasesNumbered, ClaimedIffOpenLease, OneResultPerLease, ResultResolvesLease
<1>6. CompletedIffSuccess /\ HoldersAreLeases /\ HoldersAreDistinct /\ ExpiredIsSuperseded
  BY <1>2, <1>3, <1>4 DEF CompletedIffSuccess, HoldersAreLeases, HoldersAreDistinct,
                          ExpiredIsSuperseded
<1> QED
  BY <1>1, <1>5, <1>6 DEF IInv

\* Steps that leave the tables and the claims of the consumers alone.
LEMMA TablesUnchanged ==
    ASSUME IInv, clock' \in Int,
           UNCHANGED <<status, fence, target, kind, attempts, results, jobRow, held>>
    PROVE  IInv'
<1>1. TypeOK'
  BY DEF IInv, TypeOK
<1>2. LeasesNumbered' /\ ClaimedIffOpenLease' /\ OneResultPerLease' /\ ResultResolvesLease'
  BY DEF IInv, LeasesNumbered, ClaimedIffOpenLease, OneResultPerLease, ResultResolvesLease
<1>3. CompletedIffSuccess'
  BY DEF IInv, CompletedIffSuccess, KeyOfResult
<1>4. HoldersAreLeases' /\ HoldersAreDistinct' /\ ExpiredIsSuperseded'
  BY DEF IInv, HoldersAreLeases, HoldersAreDistinct, ExpiredIsSuperseded, Superseded
<1> QED
  BY <1>1, <1>2, <1>3, <1>4 DEF IInv

LEMMA FireInvariant ==
    ASSUME IInv, NEW k \in Key, NEW cause \in Cause, NEW tgt \in Target,
           FireOccurrence(k, cause, tgt)
    PROVE  IInv'
<1>1. CASE UNCHANGED vars
  <2>1. clock' \in Int
    BY <1>1 DEF IInv, TypeOK, vars
  <2> QED
    BY <1>1, <2>1, TablesUnchanged DEF vars
<1>2. CASE ~Recorded(k) /\ ~UNCHANGED vars
  <2>1. /\ status' = [status EXCEPT ![k] = InitialStatus(KindOf(cause))]
        /\ target' = [target EXCEPT ![k] = tgt]
        /\ kind' = [kind EXCEPT ![k] = KindOf(cause)]
        /\ jobRow' = [jobRow EXCEPT ![JobOf(k)] = Advanced(cause, @)]
        /\ UNCHANGED <<fence, attempts, results, held, clock>>
    BY <1>2 DEF FireOccurrence
  <2>2. status[k] = "absent" /\ InitialStatus(KindOf(cause)) \in {"pending", "skipped"}
    BY <1>2 DEF Recorded, InitialStatus
  <2>3. TypeOK
    BY DEF IInv
  <2>4. TypeOK'
    <3>1. KindOf(cause) \in Kind
      BY DEF KindOf, Kind, Cause
    <3>2. jobRow' \in [Job -> Int]
      <4>1. \A row \in Int : Advanced(cause, row) \in Int
        BY DEF Advanced, Gone, Cause
      <4> QED
        BY <2>1, <2>3, <4>1 DEF TypeOK
    <3> QED
      BY <2>1, <2>2, <2>3, <3>1, <3>2 DEF TypeOK, Status
  <2>5. \A o \in Key : o # k => status'[o] = status[o]
    BY <2>1, <2>3 DEF TypeOK
  <2>6. status'[k] \in {"pending", "skipped"}
    BY <2>1, <2>2, <2>3 DEF TypeOK
  <2>7. LeasesNumbered' /\ OneResultPerLease' /\ ResultResolvesLease'
    BY <2>1 DEF IInv, LeasesNumbered, OneResultPerLease, ResultResolvesLease
  <2>8. ClaimedIffOpenLease'
    BY <2>1, <2>2, <2>5, <2>6 DEF IInv, ClaimedIffOpenLease
  <2>9. CompletedIffSuccess'
    <3>1. \A r \in DOMAIN results : KeyOfResult(r)' = KeyOfResult(r)
      BY <2>1 DEF KeyOfResult
    <3>2. \A r \in DOMAIN results : KeyOfResult(r) \in Key
      BY ResultKeys DEF IInv
    <3> QED
      BY <2>1, <2>2, <2>5, <2>6, <3>1, <3>2 DEF IInv, CompletedIffSuccess
  <2>10. HoldersAreLeases' /\ HoldersAreDistinct' /\ ExpiredIsSuperseded'
    BY <2>1 DEF IInv, HoldersAreLeases, HoldersAreDistinct, ExpiredIsSuperseded, Superseded
  <2> QED
    BY <2>4, <2>7, <2>8, <2>9, <2>10 DEF IInv
<1> QED
  BY <1>1, <1>2 DEF FireOccurrence

LEMMA ConsumerCrashInvariant ==
    ASSUME IInv, NEW c \in Consumer, ConsumerCrash(c)
    PROVE  IInv'
<1>1. /\ held' = [held EXCEPT ![c] = 0]
      /\ UNCHANGED <<status, fence, target, kind, attempts, results, jobRow, clock>>
  BY DEF ConsumerCrash
<1>2. TypeOK /\ TypeOK'
  BY <1>1 DEF IInv, TypeOK
<1>3. LeasesNumbered' /\ ClaimedIffOpenLease' /\ OneResultPerLease' /\ ResultResolvesLease'
  BY <1>1 DEF IInv, LeasesNumbered, ClaimedIffOpenLease, OneResultPerLease, ResultResolvesLease
<1>4. CompletedIffSuccess' /\ ExpiredIsSuperseded'
  BY <1>1 DEF IInv, CompletedIffSuccess, KeyOfResult, ExpiredIsSuperseded, Superseded
<1>5. HoldersAreLeases' /\ HoldersAreDistinct'
  BY <1>1, <1>2, RowTypes DEF IInv, HoldersAreLeases, HoldersAreDistinct, TypeOK
<1> QED
  BY <1>2, <1>3, <1>4, <1>5 DEF IInv

LEMMA RetryInvariant ==
    ASSUME IInv, NEW k \in Key, RetryOccurrence(k)
    PROVE  IInv'
<1>1. /\ status[k] = "failed"
      /\ status' = [status EXCEPT ![k] = "pending"]
      /\ fence' = [fence EXCEPT ![k] = fence[k] + 1]
      /\ UNCHANGED <<target, kind, attempts, results, jobRow, held, clock>>
  BY DEF RetryOccurrence, Retryable
<1>2. TypeOK
  BY DEF IInv
<1>3. TypeOK'
  BY <1>1, <1>2 DEF TypeOK, Status
<1>4. \A o \in Key : /\ fence[o] \in Nat
                     /\ o # k => status'[o] = status[o] /\ fence'[o] = fence[o]
                     /\ o = k => status'[o] = "pending" /\ fence'[o] = fence[o] + 1
  BY <1>1, <1>2 DEF TypeOK
<1>5. LeasesNumbered'
  BY <1>1, <1>2, <1>4, RowTypes DEF IInv, LeasesNumbered
<1>6. ClaimedIffOpenLease'
  <2> SUFFICES ASSUME NEW o \in Key
               PROVE  status'[o] = "claimed" <=>
                        \E a \in DOMAIN attempts : /\ attempts[a].key = o
                                                  /\ attempts[a].fence = fence'[o]
                                                  /\ attempts[a].outcome = "open"
    BY <1>1 DEF ClaimedIffOpenLease
  <2>1. CASE o = k
    <3>1. \A a \in DOMAIN attempts : attempts[a].key = k => attempts[a].fence # fence[k] + 1
      BY <1>2, <1>4, RowTypes DEF IInv, LeasesNumbered
    <3> QED
      BY <2>1, <3>1, <1>4
  <2>2. CASE o # k
    BY <2>2, <1>4 DEF IInv, ClaimedIffOpenLease
  <2> QED
    BY <2>1, <2>2
<1>7. OneResultPerLease' /\ ResultResolvesLease'
  BY <1>1 DEF IInv, OneResultPerLease, ResultResolvesLease
<1>8. CompletedIffSuccess'
  <2>1. \A r \in DOMAIN results : KeyOfResult(r)' = KeyOfResult(r) /\ KeyOfResult(r) \in Key
    BY <1>1, ResultKeys DEF IInv, KeyOfResult
  <2> QED
    BY <1>1, <1>4, <2>1 DEF IInv, CompletedIffSuccess
<1>9. HoldersAreLeases' /\ HoldersAreDistinct'
  BY <1>1 DEF IInv, HoldersAreLeases, HoldersAreDistinct
<1>10. ExpiredIsSuperseded'
  BY <1>1, <1>2, <1>4, RowTypes DEF IInv, ExpiredIsSuperseded, Superseded
<1> QED
  BY <1>3, <1>5, <1>6, <1>7, <1>8, <1>9, <1>10 DEF IInv

\* The rows a cancellation leaves: open leases of k become abandoned.
LEMMA AbandonRows ==
    ASSUME TypeOK, NEW k \in Key
    PROVE  /\ AbandonOpen(k) \in Seq(Attempt)
           /\ Len(AbandonOpen(k)) = Len(attempts)
           /\ DOMAIN AbandonOpen(k) = DOMAIN attempts
           /\ \A a \in DOMAIN attempts :
                 /\ AbandonOpen(k)[a].key = attempts[a].key
                 /\ AbandonOpen(k)[a].fence = attempts[a].fence
                 /\ \/ AbandonOpen(k)[a].outcome = attempts[a].outcome
                    \/ /\ attempts[a].key = k
                       /\ attempts[a].outcome = "open"
                       /\ AbandonOpen(k)[a].outcome = "abandoned"
<1> DEFINE rows == AbandonOpen(k)
<1>1. rows = [a \in DOMAIN attempts |-> rows[a]]
  BY DEF AbandonOpen
<1>2. ASSUME NEW a \in DOMAIN attempts
      PROVE  /\ rows[a] \in Attempt
             /\ rows[a].key = attempts[a].key
             /\ rows[a].fence = attempts[a].fence
             /\ \/ rows[a].outcome = attempts[a].outcome
                \/ /\ attempts[a].key = k
                   /\ attempts[a].outcome = "open"
                   /\ rows[a].outcome = "abandoned"
  <2>1. attempts[a] \in Attempt
    BY RowTypes
  <2>2. CASE attempts[a].key = k /\ attempts[a].outcome = "open"
    <3>1. rows[a] = [attempts[a] EXCEPT !.outcome = "abandoned"]
      BY <2>2 DEF AbandonOpen
    <3> QED
      BY <2>1, <2>2, <3>1 DEF Attempt, Outcome
  <2>3. CASE ~(attempts[a].key = k /\ attempts[a].outcome = "open")
    <3>1. rows[a] = attempts[a]
      BY <2>3 DEF AbandonOpen
    <3> QED
      BY <2>1, <3>1
  <2> QED
    BY <2>2, <2>3
<1>3. attempts \in Seq(Attempt)
  BY DEF TypeOK
<1> HIDE DEF rows
<1>4. rows \in Seq(Attempt) /\ Len(rows) = Len(attempts) /\ DOMAIN rows = 1 .. Len(attempts)
  BY <1>1, <1>2, <1>3, RewriteRows
<1> QED
  BY <1>2, <1>4, RowTypes DEF rows

LEMMA CancelInvariant ==
    ASSUME IInv, NEW k \in Key, CancelOccurrence(k)
    PROVE  IInv'
<1>1. /\ status[k] \in {"pending", "claimed"}
      /\ status' = [status EXCEPT ![k] = "skipped"]
      /\ fence' = [fence EXCEPT ![k] = fence[k] + 1]
      /\ attempts' = AbandonOpen(k)
      /\ UNCHANGED <<target, kind, results, jobRow, held, clock>>
  BY DEF CancelOccurrence
<1>2. TypeOK
  BY DEF IInv
<1>3. /\ attempts' \in Seq(Attempt)
      /\ Len(attempts') = Len(attempts)
      /\ DOMAIN attempts' = DOMAIN attempts
      /\ \A a \in DOMAIN attempts :
            /\ attempts'[a].key = attempts[a].key
            /\ attempts'[a].fence = attempts[a].fence
            /\ \/ attempts'[a].outcome = attempts[a].outcome
               \/ /\ attempts[a].key = k
                  /\ attempts[a].outcome = "open"
                  /\ attempts'[a].outcome = "abandoned"
  BY <1>1, <1>2, AbandonRows
<1>4. TypeOK'
  BY <1>1, <1>2, <1>3 DEF TypeOK, Status
<1>5. \A o \in Key : /\ fence[o] \in Nat
                     /\ o # k => status'[o] = status[o] /\ fence'[o] = fence[o]
                     /\ o = k => status'[o] = "skipped" /\ fence'[o] = fence[o] + 1
  BY <1>1, <1>2 DEF TypeOK
<1>6. LeasesNumbered'
  <2>1. \A a \in DOMAIN attempts : attempts'[a].fence \in 1 .. fence'[attempts'[a].key]
    <3> SUFFICES ASSUME NEW a \in DOMAIN attempts
                 PROVE  attempts[a].fence \in 1 .. fence'[attempts[a].key]
      BY <1>3
    <3>1. attempts[a].key \in Key /\ attempts[a].fence \in 1 .. fence[attempts[a].key]
      BY <1>2, RowTypes DEF IInv, LeasesNumbered
    <3> QED
      BY <1>5, <3>1
  <2>2. \A a, b \in DOMAIN attempts :
           attempts'[a].key = attempts'[b].key /\ attempts'[a].fence = attempts'[b].fence
             => a = b
    BY <1>3 DEF IInv, LeasesNumbered
  <2> QED
    BY <1>3, <2>1, <2>2 DEF LeasesNumbered
<1>7. ClaimedIffOpenLease'
  <2> SUFFICES ASSUME NEW o \in Key
               PROVE  status'[o] = "claimed" <=>
                        \E a \in DOMAIN attempts : /\ attempts'[a].key = o
                                                  /\ attempts'[a].fence = fence'[o]
                                                  /\ attempts'[a].outcome = "open"
    BY <1>3 DEF ClaimedIffOpenLease
  <2>1. CASE o = k
    <3>1. \A a \in DOMAIN attempts : attempts[a].key = k => attempts[a].fence # fence[k] + 1
      BY <1>2, <1>5, RowTypes DEF IInv, LeasesNumbered
    <3> QED
      BY <2>1, <3>1, <1>3, <1>5
  <2>2. CASE o # k
    <3>1. \A a \in DOMAIN attempts : attempts[a].key = o =>
            attempts'[a].outcome = attempts[a].outcome
      BY <1>3, <2>2
    <3> QED
      BY <1>3, <1>5, <2>2, <3>1 DEF IInv, ClaimedIffOpenLease
  <2> QED
    BY <2>1, <2>2
<1>8. OneResultPerLease'
  BY <1>1 DEF IInv, OneResultPerLease
<1>9. ResultResolvesLease'
  BY <1>1, <1>3 DEF IInv, ResultResolvesLease
<1>10. CompletedIffSuccess'
  <2>1. \A r \in DOMAIN results : KeyOfResult(r)' = KeyOfResult(r) /\ KeyOfResult(r) \in Key
    BY <1>1, <1>3, ResultKeys DEF IInv, KeyOfResult, ResultResolvesLease
  <2> QED
    BY <1>1, <1>5, <2>1 DEF IInv, CompletedIffSuccess
<1>11. HoldersAreLeases' /\ HoldersAreDistinct'
  BY <1>1, <1>3 DEF IInv, HoldersAreLeases, HoldersAreDistinct
<1>12. ExpiredIsSuperseded'
  BY <1>2, <1>3, <1>5, RowTypes DEF IInv, ExpiredIsSuperseded, Superseded
<1> QED
  BY <1>4, <1>6, <1>7, <1>8, <1>9, <1>10, <1>11, <1>12 DEF IInv

\* Whoever passes the gate holds the unresolved lease of a claimed occurrence,
\* over which no result is recorded yet.
LEMMA GateHolder ==
    ASSUME IInv, NEW a \in DOMAIN attempts, WritebackGate(a)
    PROVE  /\ attempts[a].outcome = "open"
           /\ \A r \in DOMAIN results : results[r].attempt # a
           /\ \A r \in DOMAIN results :
                 KeyOfResult(r) = attempts[a].key => results[r].status # "success"
<1>1. attempts[a].key \in Key /\ status[attempts[a].key] = "claimed"
  BY RowTypes DEF IInv, WritebackGate
<1>2. PICK b \in DOMAIN attempts : /\ attempts[b].key = attempts[a].key
                                   /\ attempts[b].fence = fence[attempts[a].key]
                                   /\ attempts[b].outcome = "open"
  BY <1>1 DEF IInv, ClaimedIffOpenLease
<1>3. b = a
  BY <1>2 DEF IInv, LeasesNumbered, WritebackGate
<1>4. attempts[a].outcome = "open"
  BY <1>2, <1>3
<1>5. \A r \in DOMAIN results : results[r].attempt # a
  BY <1>4 DEF IInv, ResultResolvesLease
<1>6. \A r \in DOMAIN results :
         KeyOfResult(r) = attempts[a].key => results[r].status # "success"
  BY <1>1 DEF IInv, CompletedIffSuccess
<1> QED
  BY <1>4, <1>5, <1>6

\* The two writebacks and what they store.
Writeback(terminal, disposition, verdict) ==
    \/ terminal = "completed" /\ disposition = "accepted" /\ verdict = "success"
    \/ terminal = "failed" /\ disposition = "abandoned" /\ verdict = "failure"

LEMMA HeldAfterReply ==
    ASSUME IInv, NEW c \in Consumer, ReplyReaches(c), Len(attempts') = Len(attempts)
    PROVE  held' \in [Consumer -> Nat] /\ HoldersAreLeases' /\ HoldersAreDistinct'
<1>1. held \in [Consumer -> Nat] /\ Len(attempts) \in Nat
  BY RowTypes DEF IInv, TypeOK
<1>2. CASE held' = [held EXCEPT ![c] = 0]
  BY <1>1, <1>2 DEF IInv, HoldersAreLeases, HoldersAreDistinct
<1>3. CASE UNCHANGED held
  BY <1>1, <1>3 DEF IInv, HoldersAreLeases, HoldersAreDistinct
<1> QED
  BY <1>2, <1>3 DEF ReplyReaches

LEMMA WritebackInvariant ==
    ASSUME IInv, NEW c \in Consumer, held[c] # 0, NEW terminal, NEW disposition, NEW verdict,
           Writeback(terminal, disposition, verdict),
           WritebackTerminal(held[c], terminal, disposition, verdict),
           ReplyReaches(c),
           UNCHANGED <<fence, target, kind, jobRow, clock>>
    PROVE  IInv'
<1> DEFINE a == held[c]
           k == attempts[a].key
<1>0. PICK n : n = Len(results) + 1
  OBVIOUS
<1>1. TypeOK /\ a \in DOMAIN attempts /\ k \in Key
  BY RowTypes DEF IInv, HoldersAreLeases, TypeOK
<1>2. CASE ~WritebackGate(a)
  <2>1. UNCHANGED <<status, attempts, results>>
    BY <1>2 DEF WritebackTerminal
  <2>2. held' \in [Consumer -> Nat] /\ HoldersAreLeases' /\ HoldersAreDistinct'
    BY <2>1, HeldAfterReply
  <2>3. TypeOK'
    BY <1>1, <2>1, <2>2 DEF TypeOK
  <2>4. LeasesNumbered' /\ ClaimedIffOpenLease' /\ OneResultPerLease' /\ ResultResolvesLease'
    BY <2>1 DEF IInv, LeasesNumbered, ClaimedIffOpenLease, OneResultPerLease,
                ResultResolvesLease
  <2>5. CompletedIffSuccess' /\ ExpiredIsSuperseded'
    BY <2>1 DEF IInv, CompletedIffSuccess, KeyOfResult, ExpiredIsSuperseded, Superseded
  <2> QED
    BY <2>2, <2>3, <2>4, <2>5 DEF IInv
<1>3. CASE WritebackGate(a)
  <2>1. /\ status' = [status EXCEPT ![k] = terminal]
        /\ attempts' = [attempts EXCEPT ![a].outcome = disposition]
        /\ results' = Append(results, [attempt |-> a, fence |-> attempts[a].fence,
                                       status |-> verdict])
    BY <1>3 DEF WritebackTerminal
  <2>2. status[k] = "claimed" /\ fence[k] = attempts[a].fence
    BY <1>3 DEF WritebackGate
  <2>3. /\ attempts[a].outcome = "open"
        /\ \A r \in DOMAIN results : results[r].attempt # a
        /\ \A r \in DOMAIN results : KeyOfResult(r) = k => results[r].status # "success"
    BY <1>1, <1>3, GateHolder
  <2>4. terminal \in {"completed", "failed"} /\ disposition \in {"accepted", "abandoned"}
    BY DEF Writeback
  <2>5. verdict \in Verdict
    BY DEF Writeback, Verdict
  <2>6. /\ attempts' \in Seq(Attempt)
        /\ DOMAIN attempts' = DOMAIN attempts /\ Len(attempts') = Len(attempts)
        /\ \A b \in DOMAIN attempts : /\ attempts'[b].key = attempts[b].key
                                      /\ attempts'[b].fence = attempts[b].fence
                                      /\ b # a => attempts'[b] = attempts[b]
        /\ attempts'[a].outcome = disposition
    <3>1. attempts \in Seq(Attempt) /\ attempts[a] \in Attempt
      BY <1>1, RowTypes DEF TypeOK
    <3>2. /\ attempts'[a] = [attempts[a] EXCEPT !.outcome = disposition]
          /\ \A b \in DOMAIN attempts : b # a => attempts'[b] = attempts[b]
          /\ attempts' = [b \in DOMAIN attempts |-> attempts'[b]]
      BY <1>1, <2>1, <3>1
    <3>3. /\ attempts'[a] \in Attempt
          /\ attempts'[a].key = attempts[a].key
          /\ attempts'[a].fence = attempts[a].fence
          /\ attempts'[a].outcome = disposition
      BY <2>4, <3>1, <3>2 DEF Attempt, Outcome
    <3>4. \A b \in DOMAIN attempts : attempts'[b] \in Attempt
      BY <1>1, <3>2, <3>3, RowTypes
    <3>5. attempts' \in Seq(Attempt) /\ Len(attempts') = Len(attempts)
      BY <3>1, <3>2, <3>4, RewriteRows
    <3> HIDE DEF a
    <3> QED
      BY <3>1, <3>2, <3>3, <3>5
  <2>7. /\ results' \in Seq(Result)
        /\ DOMAIN results' = 1 .. n /\ DOMAIN results = 1 .. Len(results)
        /\ Len(results) \in Nat
        /\ \A r \in DOMAIN results : results'[r] = results[r]
        /\ results'[n].attempt = a
        /\ results'[n].fence = attempts[a].fence
        /\ results'[n].status = verdict
    <3>1. results \in Seq(Result) /\ DOMAIN results = 1 .. Len(results) /\ Len(results) \in Nat
      BY <1>1, RowTypes DEF TypeOK
    <3>2. [attempt |-> a, fence |-> attempts[a].fence, status |-> verdict] \in Result
      BY <1>1, <2>5, RowTypes DEF Result
    <3> QED
      BY <1>0, <2>1, <3>1, <3>2, InsertRow
  <2>8. held' \in [Consumer -> Nat] /\ HoldersAreLeases' /\ HoldersAreDistinct'
    BY <2>6, HeldAfterReply
  <2>9. \A o \in Key : /\ o # k => status'[o] = status[o]
                       /\ o = k => status'[o] = terminal
    BY <1>1, <2>1 DEF TypeOK
  <2>10. TypeOK'
    BY <1>1, <2>1, <2>4, <2>6, <2>7, <2>8 DEF TypeOK, Status
  <2>11. LeasesNumbered'
    BY <2>6 DEF IInv, LeasesNumbered
  <2>12. ClaimedIffOpenLease'
    <3> SUFFICES ASSUME NEW o \in Key
                 PROVE  status'[o] = "claimed" <=>
                          \E b \in DOMAIN attempts : /\ attempts'[b].key = o
                                                    /\ attempts'[b].fence = fence[o]
                                                    /\ attempts'[b].outcome = "open"
      BY <2>6 DEF ClaimedIffOpenLease
    <3>1. CASE o = k
      <4>1. \A b \in DOMAIN attempts :
              attempts[b].key = k /\ attempts[b].fence = fence[k] => b = a
        BY <1>1, <2>2 DEF IInv, LeasesNumbered
      <4> QED
        BY <2>4, <2>6, <2>9, <3>1, <4>1
    <3>2. CASE o # k
      BY <1>1, <2>6, <2>9, <3>2 DEF IInv, ClaimedIffOpenLease
    <3> QED
      BY <3>1, <3>2
  <2>13. OneResultPerLease'
    BY <1>0, <2>3, <2>7 DEF IInv, OneResultPerLease
  <2>14. ResultResolvesLease'
    <3>1. \A r \in DOMAIN results : /\ results[r].attempt \in DOMAIN attempts
                                    /\ attempts'[results[r].attempt] = attempts[results[r].attempt]
      BY <2>3, <2>6 DEF IInv, ResultResolvesLease
    <3>2. disposition = IF verdict = "success" THEN "accepted" ELSE "abandoned"
      BY DEF Writeback
    <3> QED
      BY <1>0, <1>1, <2>6, <2>7, <3>1, <3>2 DEF IInv, ResultResolvesLease
  <2>15. CompletedIffSuccess'
    <3>1. \A r \in DOMAIN results : /\ KeyOfResult(r)' = KeyOfResult(r)
                                    /\ KeyOfResult(r) \in Key
      <4>1. \A r \in DOMAIN results : results[r].attempt \in DOMAIN attempts
        BY DEF IInv, ResultResolvesLease
      <4> QED
        BY <1>1, <2>6, <2>7, <4>1, ResultKeys DEF IInv, KeyOfResult
    <3>2. KeyOfResult(n)' = k /\ n \in DOMAIN results'
      BY <1>0, <1>1, <2>6, <2>7 DEF KeyOfResult
    <3>3. verdict = "success" <=> terminal = "completed"
      BY DEF Writeback
    <3>4. ASSUME NEW o \in Key, status'[o] = "completed"
          PROVE  \E r \in DOMAIN results' : KeyOfResult(r)' = o /\ results'[r].status = "success"
      <4>1. CASE o = k
        BY <2>7, <2>9, <3>2, <3>3, <3>4, <4>1
      <4>2. CASE o # k
        <5>1. PICK r \in DOMAIN results : KeyOfResult(r) = o /\ results[r].status = "success"
          BY <2>9, <3>4, <4>2 DEF IInv, CompletedIffSuccess
        <5> QED
          BY <1>0, <2>7, <3>1, <5>1
      <4> QED
        BY <4>1, <4>2
    <3>5. ASSUME NEW r \in DOMAIN results', results'[r].status = "success"
          PROVE  /\ status'[KeyOfResult(r)'] = "completed"
                 /\ fence'[KeyOfResult(r)'] = results'[r].fence
      <4>1. CASE r = n
        BY <1>1, <2>2, <2>7, <2>9, <3>2, <3>3, <3>5, <4>1
      <4>2. CASE r \in DOMAIN results
        BY <2>3, <2>7, <2>9, <3>1, <3>5, <4>2 DEF IInv, CompletedIffSuccess
      <4> QED
        BY <1>0, <2>7, <3>5, <4>1, <4>2
    <3> QED
      BY <3>4, <3>5 DEF CompletedIffSuccess
  <2>16. ExpiredIsSuperseded'
    BY <2>4, <2>6 DEF IInv, ExpiredIsSuperseded, Superseded
  <2> QED
    BY <2>8, <2>10, <2>11, <2>12, <2>13, <2>14, <2>15, <2>16 DEF IInv
<1> QED
  BY <1>2, <1>3

\* A sweep alone: nothing but superseded open leases change.
LEMMA SweepInvariant ==
    ASSUME IInv, NEW rows \in {attempts, ExpireSupersededAttempts},
           attempts' = rows,
           UNCHANGED <<status, fence, target, kind, results, jobRow, held, clock>>
    PROVE  IInv'
<1>1. TypeOK
  BY DEF IInv
<1>2. /\ attempts' \in Seq(Attempt)
      /\ Len(attempts') = Len(attempts)
      /\ DOMAIN attempts' = DOMAIN attempts
      /\ \A a \in DOMAIN attempts : Swept(attempts, attempts', a)
  BY <1>1, SweepRows, RowTypes
<1>3. TypeOK'
  BY <1>1, <1>2 DEF TypeOK
<1>4. \A a \in DOMAIN attempts : /\ attempts'[a].key = attempts[a].key
                                 /\ attempts'[a].fence = attempts[a].fence
  BY <1>2 DEF Swept
<1>5. LeasesNumbered'
  BY <1>2, <1>4 DEF IInv, LeasesNumbered
<1>6. ClaimedIffOpenLease'
  <2>1. \A a \in DOMAIN attempts :
          attempts[a].fence = fence[attempts[a].key] => attempts'[a].outcome = attempts[a].outcome
    BY <1>1, <1>2, RowTypes DEF Swept, Superseded, TypeOK
  <2> QED
    BY <1>2, <1>4, <2>1 DEF IInv, ClaimedIffOpenLease
<1>7. OneResultPerLease' /\ HoldersAreLeases' /\ HoldersAreDistinct'
  BY <1>2 DEF IInv, OneResultPerLease, HoldersAreLeases, HoldersAreDistinct
<1>8. ResultResolvesLease'
  BY <1>2, <1>4 DEF IInv, ResultResolvesLease, Swept
<1>9. CompletedIffSuccess'
  <2>1. \A r \in DOMAIN results : KeyOfResult(r)' = KeyOfResult(r)
    BY <1>4 DEF IInv, ResultResolvesLease, KeyOfResult
  <2> QED
    BY <2>1 DEF IInv, CompletedIffSuccess
<1>10. ExpiredIsSuperseded'
  BY <1>2, <1>4 DEF IInv, ExpiredIsSuperseded, Superseded, Swept
<1> QED
  BY <1>3, <1>5, <1>6, <1>7, <1>8, <1>9, <1>10 DEF IInv

LEMMA GrantInvariant ==
    ASSUME IInv, NEW c \in Consumer, NEW k \in Key, held[c] = 0,
           NEW rows \in {attempts, ExpireSupersededAttempts},
           status[k] \in {"pending", "claimed"},
           GrantLease(c, k, rows)
    PROVE  IInv'
<1>0. PICK n : n = Len(attempts) + 1
  OBVIOUS
<1>1. TypeOK /\ DOMAIN attempts = 1 .. Len(attempts) /\ Len(attempts) \in Nat
  BY RowTypes DEF IInv
<1>2. /\ status' = [status EXCEPT ![k] = "claimed"]
      /\ fence' = [fence EXCEPT ![k] = fence[k] + 1]
      /\ attempts' = Append(rows, [key |-> k, fence |-> fence[k] + 1,
                                   expires |-> clock + Lease, outcome |-> "open"])
      /\ held' = [held EXCEPT ![c] = n] \/ UNCHANGED held
      /\ UNCHANGED <<target, kind, results, jobRow, clock>>
  BY <1>0 DEF GrantLease, NextFence
<1>3. \A o \in Key : /\ fence[o] \in Nat
                     /\ o # k => status'[o] = status[o] /\ fence'[o] = fence[o]
                     /\ o = k => status'[o] = "claimed" /\ fence'[o] = fence[o] + 1
  BY <1>1, <1>2 DEF TypeOK
<1>4. /\ attempts' \in Seq(Attempt)
      /\ Len(attempts') = n /\ DOMAIN attempts' = 1 .. n
      /\ \A a \in DOMAIN attempts : Swept(attempts, attempts', a)
      /\ attempts'[n].key = k
      /\ attempts'[n].fence = fence[k] + 1
      /\ attempts'[n].outcome = "open"
  <2>1. /\ rows \in Seq(Attempt) /\ Len(rows) = Len(attempts)
        /\ \A a \in DOMAIN attempts : Swept(attempts, rows, a)
    BY <1>1, SweepRows
  <2>2. [key |-> k, fence |-> fence[k] + 1, expires |-> clock + Lease, outcome |-> "open"]
          \in Attempt
    BY <1>1, <1>3, LedgerConstants DEF Attempt, Outcome, TypeOK
  <2>3. /\ \A a \in DOMAIN attempts : attempts'[a] = rows[a]
        /\ attempts' \in Seq(Attempt) /\ Len(attempts') = n /\ DOMAIN attempts' = 1 .. n
        /\ attempts'[n] = [key |-> k, fence |-> fence[k] + 1,
                           expires |-> clock + Lease, outcome |-> "open"]
    BY <1>0, <1>1, <1>2, <2>1, <2>2, InsertRow
  <2> QED
    BY <2>1, <2>3 DEF Swept
<1>5. \A a \in DOMAIN attempts : /\ attempts'[a].key = attempts[a].key
                                 /\ attempts'[a].fence = attempts[a].fence
  BY <1>4 DEF Swept
<1>6. \A a \in DOMAIN attempts : /\ attempts[a].key \in Key
                                 /\ attempts[a].fence \in 1 .. fence[attempts[a].key]
  BY <1>1, RowTypes DEF IInv, LeasesNumbered
<1>7. DOMAIN attempts' = DOMAIN attempts \cup {n} /\ n \notin DOMAIN attempts /\ n # 0
  BY <1>0, <1>1, <1>4
<1>8. TypeOK'
  <2>1. held' \in [Consumer -> Nat]
    BY <1>0, <1>1, <1>2 DEF TypeOK
  <2> QED
    BY <1>1, <1>2, <1>3, <1>4, <2>1 DEF TypeOK, Status
<1>9. LeasesNumbered'
  <2>1. \A a \in DOMAIN attempts : attempts'[a].fence \in 1 .. fence'[attempts'[a].key]
    BY <1>3, <1>5, <1>6
  <2>2. attempts'[n].fence \in 1 .. fence'[attempts'[n].key]
    BY <1>3, <1>4
  <2>3. \A a \in DOMAIN attempts : ~(attempts'[a].key = k /\ attempts'[a].fence = fence[k] + 1)
    BY <1>3, <1>5, <1>6
  <2>4. \A a, b \in DOMAIN attempts :
           attempts'[a].key = attempts'[b].key /\ attempts'[a].fence = attempts'[b].fence
             => a = b
    BY <1>5 DEF IInv, LeasesNumbered
  <2>5. attempts'[n].key = k /\ attempts'[n].fence = fence[k] + 1
    BY <1>4
  <2>6. \A a, b \in DOMAIN attempts' :
           attempts'[a].key = attempts'[b].key /\ attempts'[a].fence = attempts'[b].fence
             => a = b
    BY <1>7, <2>3, <2>4, <2>5
  <2> QED
    BY <1>7, <2>1, <2>2, <2>6 DEF LeasesNumbered
<1>10. ClaimedIffOpenLease'
  <2> SUFFICES ASSUME NEW o \in Key
               PROVE  status'[o] = "claimed" <=>
                        \E a \in DOMAIN attempts' : /\ attempts'[a].key = o
                                                   /\ attempts'[a].fence = fence'[o]
                                                   /\ attempts'[a].outcome = "open"
    BY DEF ClaimedIffOpenLease
  <2>1. CASE o = k
    BY <1>3, <1>4, <1>7, <2>1
  <2>2. CASE o # k
    <3>1. \A a \in DOMAIN attempts :
            attempts[a].key = o /\ attempts[a].fence = fence[o]
              => attempts'[a].outcome = attempts[a].outcome
      BY <1>3, <1>4 DEF Swept, Superseded
    <3>2. (\E a \in DOMAIN attempts' : /\ attempts'[a].key = o
                                      /\ attempts'[a].fence = fence'[o]
                                      /\ attempts'[a].outcome = "open")
          <=> (\E a \in DOMAIN attempts : /\ attempts[a].key = o
                                         /\ attempts[a].fence = fence[o]
                                         /\ attempts[a].outcome = "open")
      <4>1. attempts'[n].key # o /\ fence'[o] = fence[o]
        BY <1>3, <1>4, <2>2
      <4> QED
        BY <1>5, <1>7, <3>1, <4>1
    <3> QED
      BY <1>3, <2>2, <3>2 DEF IInv, ClaimedIffOpenLease
  <2> QED
    BY <2>1, <2>2
<1>11. OneResultPerLease'
  BY <1>2 DEF IInv, OneResultPerLease
<1>12. ResultResolvesLease'
  <2>1. \A r \in DOMAIN results : results[r].attempt \in DOMAIN attempts'
    BY <1>7 DEF IInv, ResultResolvesLease
  <2> QED
    BY <1>2, <1>4, <1>5, <2>1 DEF IInv, ResultResolvesLease, Swept
<1>13. CompletedIffSuccess'
  <2>1. \A r \in DOMAIN results : KeyOfResult(r)' = KeyOfResult(r) /\ KeyOfResult(r) \in Key
    BY <1>1, <1>2, <1>5, ResultKeys DEF IInv, ResultResolvesLease, KeyOfResult
  <2> QED
    BY <1>2, <1>3, <2>1 DEF IInv, CompletedIffSuccess
<1>14. HoldersAreLeases' /\ HoldersAreDistinct'
  <2>1. \A d \in Consumer : held[d] \in 0 .. Len(attempts) /\ held[d] # n
    BY <1>0, <1>1 DEF IInv, HoldersAreLeases
  <2>2. ASSUME NEW d \in Consumer
        PROVE  held'[d] = held[d] \/ (d = c /\ held'[d] = n)
    <3>1. held \in [Consumer -> Nat]
      BY <1>1 DEF TypeOK
    <3>2. CASE UNCHANGED held
      BY <3>2
    <3>3. CASE held' = [held EXCEPT ![c] = n]
      BY <3>1, <3>3
    <3> QED
      BY <1>2, <3>2, <3>3
  <2>3. HoldersAreLeases'
    <3>1. ASSUME NEW d \in Consumer
          PROVE  held'[d] \in 0 .. n
      <4>1. held[d] \in 0 .. n /\ n \in 0 .. n
        BY <1>0, <1>1, <2>1
      <4> QED
        BY <2>2, <4>1
    <3> QED
      BY <1>4, <3>1 DEF HoldersAreLeases
  <2>4. HoldersAreDistinct'
    BY <2>1, <2>2 DEF IInv, HoldersAreDistinct
  <2> QED
    BY <2>3, <2>4
<1>15. ExpiredIsSuperseded'
  <2>1. \A a \in DOMAIN attempts :
           attempts'[a].outcome = "expired" => attempts[a].fence < fence[attempts[a].key]
    BY <1>4 DEF IInv, ExpiredIsSuperseded, Superseded, Swept
  <2>2. attempts'[n].outcome # "expired"
    BY <1>4
  <2>3. \A a \in DOMAIN attempts :
           attempts'[a].outcome = "expired" => attempts'[a].fence < fence'[attempts'[a].key]
    BY <1>3, <1>5, <1>6, <2>1
  <2> QED
    BY <1>7, <2>2, <2>3 DEF ExpiredIsSuperseded, Superseded
<1> QED
  BY <1>8, <1>9, <1>10, <1>11, <1>12, <1>13, <1>14, <1>15 DEF IInv

LEMMA ClaimInvariant ==
    ASSUME IInv, NEW c \in Consumer, ClaimNextOccurrence(c)
    PROVE  IInv'
<1>1. PICK rows \in {attempts, ExpireSupersededAttempts} :
         \/ /\ attempts' = rows
            /\ UNCHANGED <<status, fence, target, kind, results, jobRow, held, clock>>
         \/ \E k \in Key : Claimable(k, Serves[c]) /\ GrantLease(c, k, rows)
  BY DEF ClaimNextOccurrence
<1>2. held[c] = 0
  BY DEF ClaimNextOccurrence
<1>3. CASE /\ attempts' = rows
           /\ UNCHANGED <<status, fence, target, kind, results, jobRow, held, clock>>
  BY <1>3, SweepInvariant
<1>4. CASE \E k \in Key : Claimable(k, Serves[c]) /\ GrantLease(c, k, rows)
  <2>1. PICK k \in Key : Claimable(k, Serves[c]) /\ GrantLease(c, k, rows)
    BY <1>4
  <2>2. status[k] \in {"pending", "claimed"}
    BY <2>1 DEF Claimable
  <2> QED
    BY <1>2, <2>1, <2>2, GrantInvariant
<1> QED
  BY <1>1, <1>3, <1>4

\* Every step of the ledger keeps the invariant.
LEMMA StepInvariant ==
    ASSUME IInv, [Next]_vars
    PROVE  IInv'
<1>1. CASE UNCHANGED vars
  <2>1. clock' \in Int
    BY <1>1 DEF IInv, TypeOK, vars
  <2> QED
    BY <1>1, <2>1, TablesUnchanged DEF vars
<1>2. ASSUME NEW k \in Key, NEW cause \in Cause, NEW tgt \in Target,
             FireOccurrence(k, cause, tgt)
      PROVE  IInv'
  BY <1>2, FireInvariant
<1>3. ASSUME NEW c \in Consumer, ClaimNextOccurrence(c)
      PROVE  IInv'
  BY <1>3, ClaimInvariant
<1>4. ASSUME NEW c \in Consumer, AcceptOccurrence(c)
      PROVE  IInv'
  <2>1. Writeback("completed", "accepted", "success")
    BY DEF Writeback
  <2> QED
    BY <1>4, <2>1, WritebackInvariant DEF AcceptOccurrence
<1>5. ASSUME NEW c \in Consumer, ReportFailureOccurrence(c)
      PROVE  IInv'
  <2>1. Writeback("failed", "abandoned", "failure")
    BY DEF Writeback
  <2> QED
    BY <1>5, <2>1, WritebackInvariant DEF ReportFailureOccurrence
<1>6. ASSUME NEW c \in Consumer, ConsumerCrash(c)
      PROVE  IInv'
  BY <1>6, ConsumerCrashInvariant
<1>7. ASSUME NEW k \in Key, RetryOccurrence(k)
      PROVE  IInv'
  BY <1>7, RetryInvariant
<1>8. ASSUME NEW k \in Key, CancelOccurrence(k)
      PROVE  IInv'
  BY <1>8, CancelInvariant
<1>9. CASE Tick
  <2>1. clock' \in Int
    BY <1>9 DEF Tick, IInv, TypeOK
  <2> QED
    BY <1>9, <2>1, TablesUnchanged DEF Tick
<1>10. CASE ClockSetBack
  <2>1. clock' \in Int
    BY <1>10 DEF ClockSetBack, IInv, TypeOK
  <2> QED
    BY <1>10, <2>1, TablesUnchanged DEF ClockSetBack
<1> QED
  BY <1>1, <1>2, <1>3, <1>4, <1>5, <1>6, <1>7, <1>8, <1>9, <1>10 DEF Next

-----------------------------------------------------------------------------
(* The theorems *)

\* The inductive invariant: every state the ledger reaches, whatever the
\* order of claims, late reports, crashes, requests and clock steps.
THEOREM Invariance == Spec => []IInv
<1>1. Init => IInv
  BY InitInvariant
<1>2. IInv /\ [Next]_vars => IInv'
  BY StepInvariant
<1> QED
  BY <1>1, <1>2, PTL DEF Spec

\* Every table holds rows of its type, whatever the clock does.
THEOREM TypeCorrect == Spec => []TypeOK
BY Invariance, PTL DEF IInv

\* A lease number is never handed out twice for one occurrence.
THEOREM LeaseNumbers == Spec => []LeasesNumbered
BY Invariance, PTL DEF IInv

\* A claimed occurrence always has exactly the unresolved lease that can close
\* it, and no other occurrence has one at its current fence.
THEOREM ClaimsHaveLeases == Spec => []ClaimedIffOpenLease
BY Invariance, PTL DEF IInv

\* Repeated and late writebacks never store a second result for a lease.
THEOREM OneResult == Spec => []OneResultPerLease
BY Invariance, PTL DEF IInv

\* A result and the disposition of its lease are stored together and agree.
THEOREM ResultsResolve == Spec => []ResultResolvesLease
BY Invariance, PTL DEF IInv

\* An occurrence is completed exactly when a success stands at its fence.
THEOREM CompletionIsSuccess == Spec => []CompletedIffSuccess
BY Invariance, PTL DEF IInv

\* What the invariant says of the gate: at most one consumer passes for an occurrence,
\* and none on a lease the sweep marked expired.
LEMMA GateIsFenced ==
    ASSUME IInv
    PROVE  ExclusiveWriter /\ ExpiredIsFenced
<1>1. ASSUME NEW c \in Consumer, NEW d \in Consumer, held[c] # 0, held[d] # 0,
             WritebackGate(held[c]), WritebackGate(held[d]),
             attempts[held[c]].key = attempts[held[d]].key
      PROVE  c = d
  <2>1. held[c] \in DOMAIN attempts /\ held[d] \in DOMAIN attempts
    BY <1>1, RowTypes DEF IInv, HoldersAreLeases
  <2>2. held[c] = held[d]
    BY <1>1, <2>1 DEF IInv, LeasesNumbered, WritebackGate
  <2> QED
    BY <1>1, <2>2 DEF IInv, HoldersAreDistinct
<1>2. ASSUME NEW a \in DOMAIN attempts, attempts[a].outcome = "expired", WritebackGate(a)
      PROVE  FALSE
  <2>1. attempts[a].outcome = "open"
    BY <1>2, GateHolder
  <2> QED
    BY <1>2, <2>1
<1> QED
  BY <1>1, <1>2 DEF ExclusiveWriter, ExpiredIsFenced

\* The gate admits at most one consumer to an occurrence.
THEOREM OneWriter == Spec => []ExclusiveWriter
BY GateIsFenced, Invariance, PTL

\* A lease the sweep marked expired never passes the gate.
THEOREM ExpiredFenced == Spec => []ExpiredIsFenced
BY GateIsFenced, Invariance, PTL

\* A step leases only rows of a target, and no step takes a target away.
LEMMA StepLeasesTargets ==
    ASSUME IInv, LegacyNeverLeased, [Next]_vars
    PROVE  LegacyNeverLeased'
<1>1. TypeOK
  BY DEF IInv
<1>2. CASE \E k \in Key, cause \in Cause, tgt \in Target : FireOccurrence(k, cause, tgt)
  <2>1. PICK k \in Key, cause \in Cause, tgt \in Target : FireOccurrence(k, cause, tgt)
    BY <1>2
  <2>2. attempts' = attempts /\ \A a \in DOMAIN attempts : attempts[a].key \in Key
    BY <1>1, <2>1, RowTypes DEF FireOccurrence, vars
  <2>3. \A o \in Key : target'[o] = target[o] \/ target'[o] \in Target
    BY <1>1, <2>1 DEF FireOccurrence, TypeOK, vars
  <2> QED
    BY <2>2, <2>3 DEF LegacyNeverLeased
<1>3. CASE \E c \in Consumer : ClaimNextOccurrence(c)
  <2>1. PICK c \in Consumer : ClaimNextOccurrence(c)
    BY <1>3
  <2>2. target' = target
    BY <2>1 DEF ClaimNextOccurrence, GrantLease
  <2>3. PICK rows \in {attempts, ExpireSupersededAttempts} :
           \/ attempts' = rows
           \/ \E k \in Key : Claimable(k, Serves[c]) /\ GrantLease(c, k, rows)
    BY <2>1 DEF ClaimNextOccurrence
  <2>4. /\ rows \in Seq(Attempt) /\ Len(rows) = Len(attempts)
        /\ \A a \in DOMAIN attempts : Swept(attempts, rows, a)
    BY <1>1, SweepRows
  <2>5. DOMAIN rows = DOMAIN attempts /\ DOMAIN attempts = 1 .. Len(attempts)
    BY <1>1, <2>4, RowTypes
  <2>6. \A a \in DOMAIN rows : target[rows[a].key] \in Target
    BY <2>4, <2>5 DEF LegacyNeverLeased, Swept
  <2>7. CASE attempts' = rows
    BY <2>2, <2>6, <2>7 DEF LegacyNeverLeased
  <2>8. CASE \E k \in Key : Claimable(k, Serves[c]) /\ GrantLease(c, k, rows)
    <3>1. PICK k \in Key : Claimable(k, Serves[c]) /\ GrantLease(c, k, rows)
      BY <2>8
    <3>2. target[k] \in Target
      BY <3>1, LedgerConstants DEF Claimable
    <3>3. PICK row : row = [key |-> k, fence |-> NextFence(k),
                            expires |-> clock + Lease, outcome |-> "open"]
      OBVIOUS
    <3>4. attempts' = Append(rows, row) /\ row.key = k
      BY <3>1, <3>3 DEF GrantLease
    <3>5. \A a \in DOMAIN attempts' : attempts'[a] = row \/ (a \in DOMAIN rows /\ attempts'[a] = rows[a])
      BY <2>4, <3>4
    <3> QED
      BY <2>2, <2>6, <3>2, <3>4, <3>5 DEF LegacyNeverLeased
  <2> QED
    BY <2>3, <2>7, <2>8
<1>4. ASSUME target' = target, DOMAIN attempts' = DOMAIN attempts,
             \A a \in DOMAIN attempts : attempts'[a].key = attempts[a].key
      PROVE  LegacyNeverLeased'
  BY <1>4 DEF LegacyNeverLeased
<1>5. CASE \E c \in Consumer : AcceptOccurrence(c) \/ ReportFailureOccurrence(c)
  <2>1. PICK c \in Consumer : AcceptOccurrence(c) \/ ReportFailureOccurrence(c)
    BY <1>5
  <2>2. target' = target
    BY <2>1 DEF AcceptOccurrence, ReportFailureOccurrence
  <2>3. \A a \in DOMAIN attempts : attempts[a] \in Attempt
    BY <1>1, RowTypes
  <2>4. \A a, b, d : \A rows : rows = [attempts EXCEPT ![a].outcome = d] /\ b \in DOMAIN attempts
           => DOMAIN rows = DOMAIN attempts /\ rows[b].key = attempts[b].key
    BY <2>3 DEF Attempt
  <2>5. PICK a, d : attempts' = [attempts EXCEPT ![a].outcome = d] \/ attempts' = attempts
    BY <2>1 DEF AcceptOccurrence, ReportFailureOccurrence, WritebackTerminal
  <2>6. /\ DOMAIN attempts' = DOMAIN attempts
        /\ \A b \in DOMAIN attempts : attempts'[b].key = attempts[b].key
    BY <2>4, <2>5
  <2> QED
    BY <1>4, <2>2, <2>6
<1>6. CASE \E k \in Key : CancelOccurrence(k)
  <2>1. PICK k \in Key : CancelOccurrence(k)
    BY <1>6
  <2>2. /\ target' = target /\ DOMAIN attempts' = DOMAIN attempts
        /\ \A a \in DOMAIN attempts : attempts'[a].key = attempts[a].key
    BY <2>1 DEF CancelOccurrence, AbandonOpen
  <2> QED
    BY <1>4, <2>2
<1>7. CASE \/ \E c \in Consumer : ConsumerCrash(c)
           \/ \E k \in Key : RetryOccurrence(k)
           \/ Tick \/ ClockSetBack \/ UNCHANGED vars
  BY <1>4, <1>7 DEF ConsumerCrash, RetryOccurrence, Tick, ClockSetBack, vars
<1> QED
  BY <1>2, <1>3, <1>5, <1>6, <1>7 DEF Next

\* Rows the import left without envelope are never handed out, and the claims
\* and the open leases belong together.
THEOREM LeasesAddUp == Spec => []LeasesAccountedFor
<1>1. Init => LegacyNeverLeased
  BY DEF Init, LegacyNeverLeased
<1>2. IInv /\ LegacyNeverLeased /\ [Next]_vars => LegacyNeverLeased'
  BY StepLeasesTargets
<1>3. Spec => []LegacyNeverLeased
  BY <1>1, <1>2, Invariance, PTL DEF Spec
<1> QED
  BY <1>3, Invariance, PTL DEF IInv, LeasesAccountedFor

\* No result is stored twice or against the disposition of its lease, and an
\* occurrence is completed exactly when a success stands at its fence.
THEOREM ResultsAddUp == Spec => []ResultsAgree
BY OneResult, ResultsResolve, CompletionIsSuccess, PTL DEF ResultsAgree

\* Expired, retried and cancelled claims never pass the gate again.
THEOREM ZombiesFenced == Spec => []ZombiesAreFenced
BY OneWriter, ExpiredFenced, PTL DEF ZombiesAreFenced

-----------------------------------------------------------------------------
(* What a step may never do *)

\* One step, seen from one occurrence: what every action does to its row.
RowKept(k) ==
    /\ fence'[k] >= fence[k]
    /\ Recorded(k) => /\ Recorded(k)'
                      /\ target'[k] = target[k]
                      /\ kind'[k] = kind[k]
    /\ status[k] \in {"completed", "skipped", "needs_adoption"} => status'[k] = status[k]

LEMMA StepKeepsRows ==
    ASSUME IInv, [Next]_vars, NEW k \in Key
    PROVE  RowKept(k)
<1>1. /\ \A o \in Key : fence[o] \in Nat
      /\ status \in [Key -> Status]
      /\ fence \in [Key -> Nat]
      /\ target \in [Key -> Target \cup {NoTarget}]
      /\ kind \in [Key -> Kind]
  BY DEF IInv, TypeOK
<1>2. CASE UNCHANGED <<status, fence, target, kind>>
  BY <1>1, <1>2 DEF RowKept, Recorded
<1>3. ASSUME NEW o \in Key, NEW cause \in Cause, NEW tgt \in Target,
             FireOccurrence(o, cause, tgt)
      PROVE  RowKept(k)
  <2>1. CASE Recorded(o)
    BY <1>2, <1>3, <2>1 DEF FireOccurrence, vars
  <2>2. CASE ~Recorded(o)
    <3>1. InitialStatus(KindOf(cause)) # "absent"
      BY DEF InitialStatus
    <3> QED
      BY <1>1, <1>3, <2>2, <3>1 DEF FireOccurrence, Recorded, RowKept
  <2> QED
    BY <2>1, <2>2
<1>4. ASSUME NEW c \in Consumer, ClaimNextOccurrence(c)
      PROVE  RowKept(k)
  <2>1. CASE UNCHANGED <<status, fence, target, kind>>
    BY <1>2, <2>1
  <2>2. CASE \E o \in Key, rows \in {attempts, ExpireSupersededAttempts} :
                Claimable(o, Serves[c]) /\ GrantLease(c, o, rows)
    BY <1>1, <2>2 DEF Claimable, GrantLease, NextFence, RowKept, Recorded
  <2> QED
    BY <1>4, <2>1, <2>2 DEF ClaimNextOccurrence
<1>5. ASSUME NEW c \in Consumer, AcceptOccurrence(c) \/ ReportFailureOccurrence(c)
      PROVE  RowKept(k)
  <2>1. UNCHANGED <<fence, target, kind>>
    BY <1>5 DEF AcceptOccurrence, ReportFailureOccurrence
  <2>2. CASE UNCHANGED status
    BY <1>2, <2>1, <2>2
  <2>3. CASE ~UNCHANGED status
    <3>1. PICK terminal \in {"completed", "failed"} :
            /\ WritebackGate(held[c])
            /\ status' = [status EXCEPT ![attempts[held[c]].key] = terminal]
      BY <1>5, <2>3 DEF AcceptOccurrence, ReportFailureOccurrence, WritebackTerminal
    <3> QED
      BY <1>1, <2>1, <3>1 DEF WritebackGate, RowKept, Recorded
  <2> QED
    BY <2>2, <2>3
<1>6. ASSUME NEW o \in Key, RetryOccurrence(o) \/ CancelOccurrence(o)
      PROVE  RowKept(k)
  BY <1>1, <1>6 DEF RetryOccurrence, Retryable, CancelOccurrence, RowKept, Recorded
<1>7. ASSUME (\E c \in Consumer : ConsumerCrash(c)) \/ Tick \/ ClockSetBack \/ UNCHANGED vars
      PROVE  RowKept(k)
  BY <1>2, <1>7 DEF ConsumerCrash, Tick, ClockSetBack, vars
<1> QED
  BY <1>3, <1>4, <1>5, <1>6, <1>7 DEF Next

\* No step deletes a recorded firing, replaces its first envelope, takes its
\* fence back or reopens one that is final.
THEOREM HistoryKept == Spec => HistoryIsKept
<1>1. ASSUME IInv, [Next]_vars
      PROVE  \A k \in Key : RowKept(k)
  BY <1>1, StepKeepsRows
<1> QED
  BY <1>1, Invariance, PTL DEF Spec, HistoryIsKept, RowKept

\* One step, seen from one live lease.
LeaseKept(k) ==
    status[k] = "claimed" /\ LeaseLive(k) => fence'[k] = fence[k] \/ status'[k] = "skipped"

LEMMA StepKeepsLeases ==
    ASSUME IInv, [Next]_vars, NEW k \in Key
    PROVE  LeaseKept(k)
<1>1. status \in [Key -> Status] /\ fence \in [Key -> Nat]
  BY DEF IInv, TypeOK
<1>2. CASE UNCHANGED fence
  BY <1>2 DEF LeaseKept
<1>3. ASSUME NEW c \in Consumer, ClaimNextOccurrence(c)
      PROVE  LeaseKept(k)
  <2>1. CASE \E o \in Key, rows \in {attempts, ExpireSupersededAttempts} :
                Claimable(o, Serves[c]) /\ GrantLease(c, o, rows)
    BY <1>1, <2>1 DEF Claimable, GrantLease, LeaseKept
  <2> QED
    BY <1>2, <1>3, <2>1 DEF ClaimNextOccurrence
<1>4. ASSUME NEW o \in Key, RetryOccurrence(o) \/ CancelOccurrence(o)
      PROVE  LeaseKept(k)
  BY <1>1, <1>4 DEF RetryOccurrence, Retryable, CancelOccurrence, LeaseKept
<1>5. ASSUME NEW c \in Consumer,
             AcceptOccurrence(c) \/ ReportFailureOccurrence(c) \/ ConsumerCrash(c)
      PROVE  LeaseKept(k)
  BY <1>2, <1>5 DEF AcceptOccurrence, ReportFailureOccurrence, ConsumerCrash
<1>6. ASSUME NEW o \in Key, NEW cause \in Cause, NEW tgt \in Target,
             FireOccurrence(o, cause, tgt)
      PROVE  LeaseKept(k)
  BY <1>2, <1>6 DEF FireOccurrence, vars
<1>7. CASE Tick \/ ClockSetBack \/ UNCHANGED vars
  BY <1>2, <1>7 DEF Tick, ClockSetBack, vars
<1> QED
  BY <1>3, <1>4, <1>5, <1>6, <1>7 DEF Next

\* A lease that has not lapsed is taken from its holder by a cancellation only.
THEOREM LiveLeaseKept == Spec => LiveLeaseIsKept
<1>1. ASSUME IInv, [Next]_vars
      PROVE  \A k \in Key : LeaseKept(k)
  BY <1>1, StepKeepsLeases
<1> QED
  BY <1>1, Invariance, PTL DEF Spec, LiveLeaseIsKept, LeaseKept

-----------------------------------------------------------------------------
(* The ledger implements the lifecycle of a firing *)

Verdicts == {<<KeyOfResult(r), results[r].fence, results[r].status>> : r \in DOMAIN results}

\* The rows of attempts are never re-keyed, so a step that stores no result
\* leaves the verdicts alone.
LEMMA VerdictsKept ==
    ASSUME IInv, UNCHANGED results,
           \A a \in DOMAIN attempts : attempts'[a].key = attempts[a].key
    PROVE  UNCHANGED Verdicts
<1>1. \A r \in DOMAIN results : KeyOfResult(r)' = KeyOfResult(r)
  BY DEF IInv, ResultResolvesLease, KeyOfResult
<1> QED
  BY <1>1 DEF Verdicts

\* A writeback closes the firing it holds, or is fenced and changes nothing.
LEMMA WritebackCloses ==
    ASSUME IInv, NEW c \in Consumer, held[c] # 0, NEW terminal, NEW disposition, NEW verdict,
           Writeback(terminal, disposition, verdict),
           WritebackTerminal(held[c], terminal, disposition, verdict)
    PROVE  \/ UNCHANGED <<status, Verdicts>>
           \/ \E k \in Key :
                 /\ status[k] = "claimed"
                 /\ status' = [status EXCEPT ![k] = terminal]
                 /\ Verdicts' = Verdicts \cup {<<k, fence[k], verdict>>}
<1> DEFINE a == held[c]
           k == attempts[a].key
<1>1. a \in DOMAIN attempts /\ k \in Key
  BY RowTypes DEF IInv, HoldersAreLeases, TypeOK
<1>2. CASE ~WritebackGate(a)
  <2>1. UNCHANGED <<status, attempts, results>>
    BY <1>2 DEF WritebackTerminal
  <2> QED
    BY <2>1, VerdictsKept
<1>3. CASE WritebackGate(a)
  <2>0. PICK n : n = Len(results) + 1
    OBVIOUS
  <2>1. /\ status' = [status EXCEPT ![k] = terminal]
        /\ attempts' = [attempts EXCEPT ![a].outcome = disposition]
        /\ results' = Append(results, [attempt |-> a, fence |-> attempts[a].fence,
                                       status |-> verdict])
    BY <1>3 DEF WritebackTerminal
  <2>2. status[k] = "claimed" /\ fence[k] = attempts[a].fence
    BY <1>3 DEF WritebackGate
  <2>3. \A b \in DOMAIN attempts : attempts'[b].key = attempts[b].key
    <3>1. attempts[a] \in Attempt
      BY <1>1, RowTypes DEF IInv
    <3>2. attempts'[a] = [attempts[a] EXCEPT !.outcome = disposition]
      BY <1>1, <2>1
    <3>3. attempts'[a].key = attempts[a].key
      BY <3>1, <3>2 DEF Attempt
    <3>4. \A b \in DOMAIN attempts : b # a => attempts'[b] = attempts[b]
      BY <1>1, <2>1
    <3> QED
      BY <3>3, <3>4
  <2>4. /\ DOMAIN results' = DOMAIN results \cup {n}
        /\ \A r \in DOMAIN results : results'[r] = results[r]
        /\ results'[n].attempt = a
        /\ results'[n].fence = attempts[a].fence
        /\ results'[n].status = verdict
    <3>1. results \in Seq(Result) /\ DOMAIN results = 1 .. Len(results) /\ Len(results) \in Nat
      BY RowTypes DEF IInv, TypeOK
    <3>2. [attempt |-> a, fence |-> attempts[a].fence, status |-> verdict] \in Result
      BY <1>1, RowTypes DEF IInv, Writeback, Verdict, Result
    <3> QED
      BY <2>0, <2>1, <3>1, <3>2, InsertRow
  <2>5. \A r \in DOMAIN results : KeyOfResult(r)' = KeyOfResult(r)
    BY <2>3, <2>4 DEF IInv, ResultResolvesLease, KeyOfResult
  <2>6. KeyOfResult(n)' = k
    BY <1>1, <2>3, <2>4 DEF KeyOfResult
  <2>7. Verdicts' = Verdicts \cup {<<k, fence[k], verdict>>}
    BY <2>2, <2>4, <2>5, <2>6 DEF Verdicts
  <2> QED
    BY <1>1, <2>1, <2>2, <2>7
<1> QED
  BY <1>2, <1>3

\* The step of the lifecycle that a step of the ledger stands for, or none.
LEMMA StepImplements ==
    ASSUME IInv, [Next]_vars
    PROVE  [Lifecycle!Next]_(Lifecycle!lifecycle)
<1> DEFINE Stutter == UNCHANGED <<status, fence, Verdicts>>
<1>1. Stutter => UNCHANGED Lifecycle!lifecycle
  BY DEF Lifecycle!lifecycle, Verdicts
<1>2. ASSUME NEW k \in Key, NEW cause \in Cause, NEW tgt \in Target,
             FireOccurrence(k, cause, tgt)
      PROVE  Stutter \/ Lifecycle!Next
  <2>1. CASE UNCHANGED vars
    BY <2>1, VerdictsKept DEF vars
  <2>2. CASE ~UNCHANGED vars
    <3>1. /\ status[k] = "absent"
          /\ status' = [status EXCEPT ![k] = InitialStatus(KindOf(cause))]
          /\ UNCHANGED <<fence, attempts, results>>
      BY <1>2, <2>2 DEF FireOccurrence, Recorded
    <3>2. UNCHANGED Verdicts
      BY <3>1, VerdictsKept
    <3>3. InitialStatus(KindOf(cause)) \in {"pending", "skipped"}
      BY DEF InitialStatus
    <3>4. Lifecycle!Record(k)
      BY <3>1, <3>2, <3>3 DEF Lifecycle!Record, Verdicts
    <3> QED
      BY <3>4 DEF Lifecycle!Next
  <2> QED
    BY <2>1, <2>2
<1>3. ASSUME NEW c \in Consumer, ClaimNextOccurrence(c)
      PROVE  Stutter \/ Lifecycle!Next
  <2>1. TypeOK /\ DOMAIN attempts = 1 .. Len(attempts) /\ Len(attempts) \in Nat
    BY RowTypes DEF IInv
  <2>2. PICK rows \in {attempts, ExpireSupersededAttempts} :
           \/ attempts' = rows /\ UNCHANGED <<status, fence, results>>
           \/ \E k \in Key : Claimable(k, Serves[c]) /\ GrantLease(c, k, rows)
    BY <1>3 DEF ClaimNextOccurrence
  <2>3. /\ rows \in Seq(Attempt) /\ Len(rows) = Len(attempts)
        /\ \A a \in DOMAIN attempts : rows[a].key = attempts[a].key
    BY <2>1, SweepRows DEF Swept
  <2>4. CASE attempts' = rows /\ UNCHANGED <<status, fence, results>>
    BY <2>3, <2>4, VerdictsKept
  <2>5. CASE \E k \in Key : Claimable(k, Serves[c]) /\ GrantLease(c, k, rows)
    <3>1. PICK k \in Key : Claimable(k, Serves[c]) /\ GrantLease(c, k, rows)
      BY <2>5
    <3>2. /\ status' = [status EXCEPT ![k] = "claimed"]
          /\ fence' = [fence EXCEPT ![k] = fence[k] + 1]
          /\ UNCHANGED results
      BY <3>1 DEF GrantLease, NextFence
    <3>3. \A a \in DOMAIN attempts : attempts'[a].key = attempts[a].key
      BY <2>1, <2>3, <3>1 DEF GrantLease
    <3>4. UNCHANGED Verdicts
      BY <3>2, <3>3, VerdictsKept
    <3>5. status[k] \in {"pending", "claimed"}
      BY <3>1 DEF Claimable
    <3>6. Lifecycle!Grant(k)
      BY <3>2, <3>4, <3>5 DEF Lifecycle!Grant, Verdicts
    <3> QED
      BY <3>6 DEF Lifecycle!Next
  <2> QED
    BY <2>2, <2>4, <2>5
<1>4. ASSUME NEW c \in Consumer, AcceptOccurrence(c)
      PROVE  Stutter \/ Lifecycle!Next
  <2>1. \/ UNCHANGED <<status, Verdicts>>
        \/ \E k \in Key :
              /\ status[k] = "claimed"
              /\ status' = [status EXCEPT ![k] = "completed"]
              /\ Verdicts' = Verdicts \cup {<<k, fence[k], "success">>}
    BY <1>4, WritebackCloses DEF AcceptOccurrence, Writeback
  <2>2. UNCHANGED fence
    BY <1>4 DEF AcceptOccurrence
  <2>3. CASE ~UNCHANGED <<status, Verdicts>>
    <3>1. PICK k \in Key : /\ status[k] = "claimed"
                           /\ status' = [status EXCEPT ![k] = "completed"]
                           /\ Verdicts' = Verdicts \cup {<<k, fence[k], "success">>}
      BY <2>1, <2>3
    <3>2. Lifecycle!Close(k)
      BY <2>2, <3>1 DEF Lifecycle!Close, Verdicts
    <3> QED
      BY <3>2 DEF Lifecycle!Next
  <2> QED
    BY <2>2, <2>3
<1>5. ASSUME NEW c \in Consumer, ReportFailureOccurrence(c)
      PROVE  Stutter \/ Lifecycle!Next
  <2>1. \/ UNCHANGED <<status, Verdicts>>
        \/ \E k \in Key :
              /\ status[k] = "claimed"
              /\ status' = [status EXCEPT ![k] = "failed"]
              /\ Verdicts' = Verdicts \cup {<<k, fence[k], "failure">>}
    BY <1>5, WritebackCloses DEF ReportFailureOccurrence, Writeback
  <2>2. UNCHANGED fence
    BY <1>5 DEF ReportFailureOccurrence
  <2>3. CASE ~UNCHANGED <<status, Verdicts>>
    <3>1. PICK k \in Key : /\ status[k] = "claimed"
                           /\ status' = [status EXCEPT ![k] = "failed"]
                           /\ Verdicts' = Verdicts \cup {<<k, fence[k], "failure">>}
      BY <2>1, <2>3
    <3>2. Lifecycle!Close(k)
      BY <2>2, <3>1 DEF Lifecycle!Close, Verdicts
    <3> QED
      BY <3>2 DEF Lifecycle!Next
  <2> QED
    BY <2>2, <2>3
<1>6. ASSUME NEW k \in Key, RetryOccurrence(k)
      PROVE  Stutter \/ Lifecycle!Next
  <2>1. UNCHANGED Verdicts
    BY <1>6, VerdictsKept DEF RetryOccurrence
  <2>2. Lifecycle!Reopen(k)
    BY <1>6, <2>1 DEF RetryOccurrence, Retryable, Lifecycle!Reopen, Verdicts
  <2> QED
    BY <2>2 DEF Lifecycle!Next
<1>7. ASSUME NEW k \in Key, CancelOccurrence(k)
      PROVE  Stutter \/ Lifecycle!Next
  <2>1. UNCHANGED Verdicts
    BY <1>7, VerdictsKept, AbandonRows DEF CancelOccurrence, IInv
  <2>2. Lifecycle!Withdraw(k)
    BY <1>7, <2>1 DEF CancelOccurrence, Lifecycle!Withdraw, Verdicts
  <2> QED
    BY <2>2 DEF Lifecycle!Next
<1>8. ASSUME (\E c \in Consumer : ConsumerCrash(c)) \/ Tick \/ ClockSetBack \/ UNCHANGED vars
      PROVE  Stutter \/ Lifecycle!Next
  <2>1. UNCHANGED <<status, fence, attempts, results>>
    BY <1>8 DEF ConsumerCrash, Tick, ClockSetBack, vars
  <2> QED
    BY <2>1, VerdictsKept
<1>9. Stutter \/ Lifecycle!Next
  BY <1>2, <1>3, <1>4, <1>5, <1>6, <1>7, <1>8 DEF Next
<1> QED
  BY <1>1, <1>9

\* The ledger adds nothing to what a firing can go through: a firing is put on
\* record once, and only the newest grant over it closes it.
THEOREM LifecycleImplemented == Spec => ImplementsLifecycle
<1>1. Init => Lifecycle!Init
  <2> SUFFICES ASSUME Init
               PROVE  Lifecycle!Init
    OBVIOUS
  <2>1. status \in [Key -> {"absent", "pending", "skipped", "needs_adoption"}]
    BY DEF Init
  <2>2. Verdicts = {}
    BY DEF Init, Verdicts
  <2> QED
    BY <2>1, <2>2 DEF Init, Lifecycle!Init, Verdicts
<1>2. IInv /\ [Next]_vars => [Lifecycle!Next]_(Lifecycle!lifecycle)
  BY StepImplements
<1> QED
  BY <1>1, <1>2, Invariance, PTL DEF Spec, ImplementsLifecycle, Lifecycle!Spec

-----------------------------------------------------------------------------
(* Counting: how often a job was advanced, and how many of its firings failed *)

\* The firings that advanced the row of job j.
Advances(j) ==
    {k \in Key : /\ JobOf(k) = j /\ Recorded(k)
                 /\ kind[k] = "scheduled" /\ target[k] # NoTarget}

FailedKeys == {k \in Key : status[k] = "failed"}

\* Only finitely many firings have happened, of a key that need not be finite.
Counted ==
    /\ \A j \in Job : IsFiniteSet(Advances(j))
    /\ IsFiniteSet(FailedKeys)
    /\ AdvancedOncePerFire

\* What a step does to the status of the occurrences: to one at most, which leaves
\* "failed" by a retry and gets "completed" from a claim.
StatusMoves ==
    /\ \E x : \A k \in Key : k # x => status'[k] = status[k]
    /\ \A k \in Key : /\ status[k] = "failed" => status'[k] \in {"failed", "pending"}
                      /\ status'[k] = "completed" => status[k] \in {"completed", "claimed"}

LEMMA StepMovesStatus ==
    ASSUME TypeOK, [Next]_vars
    PROVE  StatusMoves
<1>1. status \in [Key -> Status]
  BY DEF TypeOK
<1>2. CASE UNCHANGED status
  BY <1>2 DEF StatusMoves
<1>3. ASSUME NEW o \in Key, NEW new \in Status, status' = [status EXCEPT ![o] = new],
             status[o] = "failed" => new = "pending",
             new = "completed" => status[o] = "claimed"
      PROVE  StatusMoves
  BY <1>1, <1>3 DEF StatusMoves
<1>4. ASSUME NEW o \in Key, NEW cause \in Cause, NEW tgt \in Target,
             FireOccurrence(o, cause, tgt)
      PROVE  StatusMoves
  <2>1. CASE Recorded(o)
    BY <1>2, <1>4, <2>1 DEF FireOccurrence, vars
  <2>2. CASE ~Recorded(o)
    <3>1. InitialStatus(KindOf(cause)) \in {"pending", "skipped"} /\ status[o] = "absent"
      BY <2>2 DEF InitialStatus, Recorded
    <3>2. status' = [status EXCEPT ![o] = InitialStatus(KindOf(cause))]
      BY <1>4, <2>2 DEF FireOccurrence
    <3> QED  BY <1>3, <3>1, <3>2 DEF Status
  <2> QED  BY <2>1, <2>2
<1>5. ASSUME NEW c \in Consumer, ClaimNextOccurrence(c)
      PROVE  StatusMoves
  <2>1. CASE \E o \in Key, rows \in {attempts, ExpireSupersededAttempts} :
                Claimable(o, Serves[c]) /\ GrantLease(c, o, rows)
    <3>1. PICK o \in Key : status[o] \in {"pending", "claimed"}
                           /\ status' = [status EXCEPT ![o] = "claimed"]
      BY <2>1 DEF Claimable, GrantLease
    <3> QED  BY <1>3, <3>1 DEF Status
  <2> QED  BY <1>2, <1>5, <2>1 DEF ClaimNextOccurrence
<1>6. ASSUME NEW c \in Consumer, AcceptOccurrence(c) \/ ReportFailureOccurrence(c)
      PROVE  StatusMoves
  <2>1. CASE ~UNCHANGED status
    <3>1. PICK terminal \in {"completed", "failed"} :
            /\ WritebackGate(held[c])
            /\ status' = [status EXCEPT ![attempts[held[c]].key] = terminal]
      BY <1>6, <2>1 DEF AcceptOccurrence, ReportFailureOccurrence, WritebackTerminal
    <3>2. status[attempts[held[c]].key] = "claimed"
      BY <3>1 DEF WritebackGate
    <3>3. CASE attempts[held[c]].key \in Key
      BY <1>3, <3>1, <3>2, <3>3 DEF Status
    <3>4. CASE attempts[held[c]].key \notin Key
      BY <1>1, <2>1, <3>1, <3>4
    <3> QED  BY <3>3, <3>4
  <2> QED  BY <1>2, <2>1
<1>7. ASSUME NEW o \in Key, RetryOccurrence(o)
      PROVE  StatusMoves
  BY <1>3, <1>7 DEF RetryOccurrence, Retryable, Status
<1>8. ASSUME NEW o \in Key, CancelOccurrence(o)
      PROVE  StatusMoves
  BY <1>3, <1>8 DEF CancelOccurrence, Status
<1>9. ASSUME (\E c \in Consumer : ConsumerCrash(c)) \/ Tick \/ ClockSetBack \/ UNCHANGED vars
      PROVE  StatusMoves
  BY <1>2, <1>9 DEF ConsumerCrash, Tick, ClockSetBack, vars
<1> QED
  BY <1>4, <1>5, <1>6, <1>7, <1>8, <1>9 DEF Next

\* Every step but a fire leaves what is on record, its envelopes and the jobs alone.
RecordKept ==
    /\ \A k \in Key : Recorded(k)' <=> Recorded(k)
    /\ UNCHANGED <<target, kind, jobRow>>

LEMMA StepKeepsRecord ==
    ASSUME TypeOK, [Next]_vars,
           ~\E k \in Key, cause \in Cause, tgt \in Target :
               ~Recorded(k) /\ FireOccurrence(k, cause, tgt)
    PROVE  RecordKept
<1>1. status \in [Key -> Status]
  BY DEF TypeOK
<1>2. CASE UNCHANGED <<status, target, kind, jobRow>>
  BY <1>2 DEF RecordKept, Recorded
<1>3. ASSUME NEW o, NEW new, status' = [status EXCEPT ![o] = new], new # "absent",
             status[o] # "absent", UNCHANGED <<target, kind, jobRow>>
      PROVE  RecordKept
  BY <1>1, <1>3 DEF RecordKept, Recorded
<1>4. ASSUME NEW o \in Key, NEW cause \in Cause, NEW tgt \in Target,
             FireOccurrence(o, cause, tgt)
      PROVE  RecordKept
  <2>1. UNCHANGED vars
    BY <1>4 DEF FireOccurrence
  <2> QED  BY <1>2, <2>1 DEF vars
<1>5. ASSUME NEW c \in Consumer, ClaimNextOccurrence(c)
      PROVE  RecordKept
  <2>1. CASE \E o \in Key, rows \in {attempts, ExpireSupersededAttempts} :
                Claimable(o, Serves[c]) /\ GrantLease(c, o, rows)
    BY <1>3, <2>1 DEF Claimable, GrantLease
  <2> QED  BY <1>2, <1>5, <2>1 DEF ClaimNextOccurrence
<1>6. ASSUME NEW c \in Consumer, AcceptOccurrence(c) \/ ReportFailureOccurrence(c)
      PROVE  RecordKept
  <2>1. UNCHANGED <<target, kind, jobRow>>
    BY <1>6 DEF AcceptOccurrence, ReportFailureOccurrence
  <2>2. CASE ~UNCHANGED status
    <3>1. PICK terminal \in {"completed", "failed"} :
            /\ WritebackGate(held[c])
            /\ status' = [status EXCEPT ![attempts[held[c]].key] = terminal]
      BY <1>6, <2>2 DEF AcceptOccurrence, ReportFailureOccurrence, WritebackTerminal
    <3> QED  BY <1>3, <2>1, <3>1 DEF WritebackGate
  <2> QED  BY <1>2, <2>1, <2>2
<1>7. ASSUME NEW o \in Key, RetryOccurrence(o) \/ CancelOccurrence(o)
      PROVE  RecordKept
  BY <1>3, <1>7 DEF RetryOccurrence, Retryable, CancelOccurrence
<1>8. ASSUME (\E c \in Consumer : ConsumerCrash(c)) \/ Tick \/ ClockSetBack \/ UNCHANGED vars
      PROVE  RecordKept
  BY <1>2, <1>8 DEF ConsumerCrash, Tick, ClockSetBack, vars
<1> QED
  BY <1>4, <1>5, <1>6, <1>7, <1>8 DEF Next

\* A fire that records its occurrence counts once if it is a scheduled one.
LEMMA FireCounts ==
    ASSUME TypeOK, Counted, NEW k \in Key, NEW cause \in Cause, NEW tgt \in Target,
           ~Recorded(k), FireOccurrence(k, cause, tgt)
    PROVE  \A j \in Job : /\ IsFiniteSet(Advances(j)')
                          /\ jobRow'[j] # Gone => jobRow'[j] = Cardinality(Advances(j)')
<1>1. /\ status \in [Key -> Status] /\ target \in [Key -> Target \cup {NoTarget}]
      /\ kind \in [Key -> Kind] /\ jobRow \in [Job -> Int] /\ JobOf(k) \in Job
  BY DEF TypeOK, JobOf, Key
<1>2. /\ status' = [status EXCEPT ![k] = InitialStatus(KindOf(cause))]
      /\ target' = [target EXCEPT ![k] = tgt]
      /\ kind' = [kind EXCEPT ![k] = KindOf(cause)]
      /\ jobRow' = [jobRow EXCEPT ![JobOf(k)] = Advanced(cause, @)]
  BY DEF FireOccurrence
<1>3. InitialStatus(KindOf(cause)) # "absent" /\ tgt # NoTarget
  BY LedgerConstants DEF InitialStatus
<1>4. \A o \in Key : o # k => /\ Recorded(o)' <=> Recorded(o)
                              /\ kind'[o] = kind[o] /\ target'[o] = target[o]
  BY <1>1, <1>2 DEF Recorded
<1>5. Recorded(k)' /\ kind'[k] = KindOf(cause) /\ target'[k] # NoTarget
  BY <1>1, <1>2, <1>3 DEF Recorded
<1>6. ASSUME NEW j \in Job
      PROVE  /\ IsFiniteSet(Advances(j)')
             /\ jobRow'[j] # Gone => jobRow'[j] = Cardinality(Advances(j)')
  <2>1. /\ IsFiniteSet(Advances(j)) /\ Cardinality(Advances(j)) \in Nat
        /\ jobRow[j] # Gone => jobRow[j] = Cardinality(Advances(j))
        /\ jobRow[j] \in Int
    BY <1>1, FS_CardinalityType DEF Counted, AdvancedOncePerFire, Advances
  <2>2. CASE j # JobOf(k) \/ KindOf(cause) # "scheduled"
    <3>1. Advances(j)' = Advances(j)
      BY <1>4, <1>5, <2>2 DEF Advances
    <3>2. jobRow'[j] = jobRow[j] \/ jobRow'[j] = Gone
      BY <1>1, <1>2, <2>2 DEF KindOf, Advanced
    <3> QED  BY <2>1, <3>1, <3>2
  <2>3. CASE j = JobOf(k) /\ KindOf(cause) = "scheduled"
    <3>1. Advances(j)' = Advances(j) \cup {k} /\ k \notin Advances(j)
      BY <1>4, <1>5, <2>3 DEF Advances
    <3>2. /\ IsFiniteSet(Advances(j)')
          /\ Cardinality(Advances(j)') = Cardinality(Advances(j)) + 1
      BY <2>1, <3>1, FS_AddElement
    <3>3. jobRow'[j] = Gone \/ (jobRow[j] # Gone /\ jobRow'[j] = jobRow[j] + 1)
      BY <1>1, <1>2, <2>3 DEF KindOf, Advanced, Cause
    <3> QED  BY <2>1, <3>2, <3>3
  <2> QED  BY <2>2, <2>3
<1> QED  BY <1>6

\* Every step keeps the counts.
LEMMA StepCounts ==
    ASSUME TypeOK, Counted, [Next]_vars
    PROVE  Counted'
<1>1. IsFiniteSet(FailedKeys')
  <2>1. PICK x : \A k \in Key : k # x => status'[k] = status[k]
    BY StepMovesStatus DEF StatusMoves
  <2>2. FailedKeys' \subseteq FailedKeys \cup {x}
    BY <2>1 DEF FailedKeys
  <2>3. IsFiniteSet(FailedKeys \cup {x})
    BY FS_AddElement DEF Counted
  <2> QED  BY <2>2, <2>3, FS_Subset
<1>2. CASE \E k \in Key, cause \in Cause, tgt \in Target :
              ~Recorded(k) /\ FireOccurrence(k, cause, tgt)
  <2>1. \A j \in Job : /\ IsFiniteSet(Advances(j)')
                       /\ jobRow'[j] # Gone => jobRow'[j] = Cardinality(Advances(j)')
    BY <1>2, FireCounts
  <2> QED  BY <1>1, <2>1 DEF Counted, AdvancedOncePerFire, Advances
<1>3. CASE ~\E k \in Key, cause \in Cause, tgt \in Target :
              ~Recorded(k) /\ FireOccurrence(k, cause, tgt)
  <2>1. RecordKept
    BY <1>3, StepKeepsRecord
  <2>2. \A j : Advances(j)' = Advances(j)
    BY <2>1 DEF RecordKept, Advances
  <2>3. jobRow' = jobRow
    BY <2>1 DEF RecordKept
  <2> QED  BY <1>1, <2>2, <2>3 DEF Counted, AdvancedOncePerFire, Advances
<1> QED  BY <1>2, <1>3

\* In every state finitely many firings have failed and advanced their jobs.
LEMMA Counting == Spec => []Counted
<1>1. Init => Counted
  <2> SUFFICES ASSUME Init PROVE Counted
    OBVIOUS
  <2>1. (\A j \in Job : Advances(j) = {}) /\ FailedKeys = {}
    BY DEF Init, Advances, FailedKeys
  <2>2. \A j \in Job : jobRow[j] # Gone => jobRow[j] = 0
    BY DEF Init
  <2> QED  BY <2>1, <2>2, FS_EmptySet DEF Counted, AdvancedOncePerFire, Advances
<1>2. TypeOK /\ Counted /\ [Next]_vars => Counted'
  BY StepCounts
<1> QED  BY <1>1, <1>2, TypeCorrect, PTL DEF Spec

\* The row of a job that is still there was advanced exactly once for each of its
\* scheduled firings on record: duplicates, manual runs and restarts never advance it.
THEOREM AdvancedOnce == Spec => []AdvancedOncePerFire
<1>1. Counted => AdvancedOncePerFire
  BY DEF Counted
<1> QED  BY <1>1, Counting, PTL

\* What ends the dead-letter state of job j in one step.
DeadLetterEnds(j) ==
    \E k \in Key :
       /\ JobOf(k) = j
       /\ \/ status[k] = "failed" /\ status'[k] = "pending"
          \/ /\ status[k] = "claimed" /\ status'[k] = "completed"
             /\ \E f \in FailureRun(j) : ScheduledAt(f) < ScheduledAt(k)

\* Any other step leaves the run of failures at least as long as it was.
LEMMA FailureRunGrows ==
    ASSUME TypeOK, [Next]_vars, NEW j \in Job, ~DeadLetterEnds(j)
    PROVE  FailureRun(j) \subseteq FailureRun(j)'
<1> SUFFICES ASSUME NEW k \in FailureRun(j)
             PROVE  k \in FailureRun(j)'
  OBVIOUS
<1>1. /\ k \in Key /\ JobOf(k) = j /\ status[k] = "failed"
      /\ \A o \in Key : JobOf(o) = j /\ status[o] = "completed"
                           => ScheduledAt(o) < ScheduledAt(k)
  BY DEF FailureRun
<1>2. StatusMoves
  BY StepMovesStatus
<1>3. status'[k] = "failed"
  BY <1>1, <1>2 DEF StatusMoves, DeadLetterEnds
<1>4. ASSUME NEW o \in Key, JobOf(o) = j, status'[o] = "completed"
      PROVE  ScheduledAt(o) < ScheduledAt(k)
  <2>1. CASE status[o] = "completed"
    BY <1>1, <1>4, <2>1
  <2>2. CASE status[o] = "claimed"
    <3>1. ~(ScheduledAt(k) < ScheduledAt(o))
      BY <1>4, <2>2 DEF DeadLetterEnds
    <3>2. ScheduledAt(k) # ScheduledAt(o)
      BY <1>1, <1>3, <1>4 DEF Key, JobOf, ScheduledAt
    <3>3. ScheduledAt(k) \in Int /\ ScheduledAt(o) \in Int
      BY <1>1, <1>4, LedgerConstants DEF Key, ScheduledAt
    <3> QED  BY <3>1, <3>2, <3>3
  <2> QED  BY <1>2, <1>4, <2>1, <2>2 DEF StatusMoves
<1> QED  BY <1>1, <1>3, <1>4 DEF FailureRun

\* A job leaves the dead-letter state by a retry of a failed occurrence or by the
\* completion of one newer than a failure of its run: no firing, no cancellation and no
\* late success of an older occurrence hides its failures.
THEOREM DeadLettersHold == Spec => DeadLetterHolds
<1>1. ASSUME TypeOK, Counted, Counted', [Next]_vars, NEW j \in Job,
             IsDeadLettered(j), ~IsDeadLettered(j)'
      PROVE  DeadLetterEnds(j)
  <2>1. SUFFICES ASSUME ~DeadLetterEnds(j) PROVE FALSE
    OBVIOUS
  <2>2. FailureRun(j) \subseteq FailureRun(j)'
    BY <1>1, <2>1, FailureRunGrows
  <2>3. FailureRun(j)' \subseteq FailedKeys' /\ IsFiniteSet(FailedKeys')
    BY <1>1 DEF FailureRun, FailedKeys, Counted
  <2>4. IsFiniteSet(FailureRun(j)')
    BY <2>3, FS_Subset
  <2>5. /\ Cardinality(FailureRun(j)) <= Cardinality(FailureRun(j)')
        /\ IsFiniteSet(FailureRun(j))
    BY <2>2, <2>4, FS_Subset
  <2>6. Cardinality(FailureRun(j)) \in Nat /\ Cardinality(FailureRun(j)') \in Nat
    BY <2>4, <2>5, FS_CardinalityType
  <2>7. DeadLetterThreshold \in Nat
    BY LedgerConstants
  <2> QED
    BY <1>1, <2>5, <2>6, <2>7 DEF IsDeadLettered, ConsecutiveFailureCount
<1>2. TypeOK /\ Counted /\ Counted' /\ [Next]_vars =>
        [\A j \in Job : IsDeadLettered(j) /\ ~IsDeadLettered(j)' => DeadLetterEnds(j)]_vars
  BY <1>1
<1> QED
  BY <1>2, Counting, TypeCorrect, PTL DEF Spec, DeadLetterHolds, DeadLetterEnds

=============================================================================
