---------------------------- MODULE Records_proofs ----------------------------
(***************************************************************************)
(* Proofs about module Records, for any tables, callers, retentions and    *)
(* bounds: whatever overlaps, fails or restarts, the tables agree with one *)
(* another, views are counted and nothing is deleted before its time.      *)
(***************************************************************************)
EXTENDS Records, FiniteSetTheorems, TLAPS

Rows == Evaluations \cup Tokens \cup Emails \cup Sessions \cup {Null}
Pcs == {"idle", "existing", "insert", "count", "register", "drop", "cleanup"}
Job == [pc : Pcs, row : Rows, tries : Nat, seen : Nat, doomed : SUBSET Tokens]

\* What a call under way works on is of the kind its step expects.
Fits(j) ==
  /\ j \in Job
  /\ j.pc \in {"existing", "insert"} => j.row \in Evaluations
  /\ j.pc = "count" => j.row \in Tokens
  /\ j.pc = "register" => j.row \in Emails
  /\ j.pc = "drop" => j.row \in Sessions

Types ==
  /\ today \in Nat /\ calls \in Nat /\ served \in [Tokens -> Nat]
  /\ writer \in Threads \cup {Null}
  /\ DOMAIN job = Threads /\ \A t \in Threads : Fits(job[t])

HistoryInv ==
  /\ history \in Seq(Evaluations) /\ Len(history) <= MaxItems
  /\ \A i, j \in DOMAIN history : i # j => history[i] # history[j]

SharesInv ==
  /\ evaluations \in [Evaluations -> Nat \cup {Null}]
  /\ shares \in [Tokens -> Share \cup {Null}]
  /\ \A tok \in Tokens : shares[tok] # Null => evaluations[shares[tok].evaluation] # Null

SessionsInv ==
  /\ users \subseteq Emails /\ sessions \in [Sessions -> Session \cup {Null}]
  /\ \A s \in Sessions : sessions[s] # Null => sessions[s].user \in users

\* A session about to be dropped has expired, and its id is not used again.
DropInv == \A t \in Threads : LET s == job[t].row IN
  job[t].pc = "drop" /\ sessions[s] # Null => sessions[s].expires_at <= today

\* Who has the write lock is inserting a share or cleaning up.
WriterInv == writer # Null => job[writer].pc \in {"insert", "cleanup"}

\* While a clean-up has the write lock, what it has doomed stays where it was,
\* and expired.
CleanupInv == \A t \in Threads : job[t].pc = "cleanup" =>
  /\ writer = t
  /\ \A tok \in job[t].doomed :
       shares[tok] # Null /\ Expired(evaluations[shares[tok].evaluation])

\* Callers about to insert a share of e have found no live one.
Inserting(e) == {t \in Threads : job[t].pc = "insert" /\ job[t].row = e}
RacersInv == \A e \in Evaluations :
  Cardinality(LiveShares(e)) + Cardinality(Inserting(e)) <= Cardinality(Threads)

\* The inductive invariant.
RecordsInv ==
  /\ Types /\ HistoryInv /\ SharesInv /\ SessionsInv
  /\ DropInv /\ WriterInv /\ CleanupInv /\ ViewsCounted /\ RacersInv

-----------------------------------------------------------------------------
(* Frames: what a step may change without touching each part.              *)

LEMMA IdleFits == Fits(Idle) /\ Idle.pc = "idle"
BY DEF Fits, Idle, Job, Pcs, Rows

LEMMA JobSet ==
  ASSUME Types, NEW t \in Threads, NEW j, Fits(j), job' = [job EXCEPT ![t] = j]
  PROVE  /\ DOMAIN job' = Threads /\ \A u \in Threads : Fits(job'[u])
         /\ job'[t] = j /\ \A u \in Threads \ {t} : job'[u] = job[u]
BY DEF Types

SharesShrink == \A tok \in Tokens : shares'[tok] # Null =>
  /\ shares[tok] # Null
  /\ shares'[tok].evaluation = shares[tok].evaluation
  /\ shares'[tok].expires_at = shares[tok].expires_at

NoNewRacer == \A t \in Threads : job'[t].pc = "insert" =>
  job[t].pc = "insert" /\ job'[t].row = job[t].row

LEMMA LiveFinite ==
  ASSUME NEW e \in Evaluations
  PROVE  IsFiniteSet(LiveShares(e)) /\ IsFiniteSet(Inserting(e)) /\ IsFiniteSet(Threads)
<1>1. LiveShares(e) \subseteq Tokens /\ Inserting(e) \subseteq Threads
  BY DEF LiveShares, SharesOf, Inserting
<1>2. QED  BY <1>1, RecordsAssumption, FS_Subset

LEMMA Sums ==
  ASSUME NEW A, NEW B, NEW C, NEW D, NEW n \in Nat,
         IsFiniteSet(A), IsFiniteSet(B), C \subseteq A, D \subseteq B,
         Cardinality(A) + Cardinality(B) <= n
  PROVE  Cardinality(C) + Cardinality(D) <= n
<1>1. /\ IsFiniteSet(C) /\ Cardinality(C) <= Cardinality(A)
      /\ IsFiniteSet(D) /\ Cardinality(D) <= Cardinality(B)
  BY FS_Subset
<1>2. /\ Cardinality(A) \in Nat /\ Cardinality(B) \in Nat
      /\ Cardinality(C) \in Nat /\ Cardinality(D) \in Nat
  BY <1>1, FS_CardinalityType
<1>3. QED  BY <1>1, <1>2

LEMMA OneMore ==
  ASSUME NEW A, NEW x, IsFiniteSet(A)
  PROVE  IsFiniteSet(A \cup {x}) /\ Cardinality(A \cup {x}) <= Cardinality(A) + 1
<1>1. Cardinality(A) \in Nat
  BY FS_CardinalityType
<1>2. CASE x \in A
  <2>1. A \cup {x} = A
    BY <1>2
  <2>2. QED  BY <1>1, <2>1
<1>3. CASE x \notin A
  BY <1>1, <1>3, FS_AddElement
<1>4. QED  BY <1>2, <1>3

LEMMA ThreadCount == Cardinality(Threads) \in Nat
BY RecordsAssumption, FS_CardinalityType

LEMMA LiveShrinks ==
  ASSUME RecordsInv, SharesInv', SharesShrink, today' \in Nat, today' >= today,
         NEW e \in Evaluations
  PROVE  LiveShares(e)' \subseteq LiveShares(e)
<1> SUFFICES ASSUME NEW tok \in Tokens, shares'[tok] # Null, shares'[tok].evaluation = e,
                    shares'[tok].expires_at > today'
             PROVE  shares[tok] # Null /\ shares[tok].evaluation = e /\ shares[tok].expires_at > today
  BY DEF LiveShares, SharesOf, Live
<1>1. shares[tok] # Null /\ shares[tok].evaluation = e
      /\ shares[tok].expires_at = shares'[tok].expires_at
  BY DEF SharesShrink
<1>2. shares[tok].expires_at \in Nat /\ today \in Nat
  BY <1>1 DEF RecordsInv, SharesInv, Share, Types
<1>3. QED  BY <1>1, <1>2

LEMMA RacersFrame ==
  ASSUME RecordsInv, SharesInv', SharesShrink, NoNewRacer, today' \in Nat, today' >= today
  PROVE  RacersInv'
<1> SUFFICES ASSUME NEW e \in Evaluations
             PROVE  Cardinality(LiveShares(e)') + Cardinality(Inserting(e)') <= Cardinality(Threads)
  BY DEF RacersInv
<1>1. LiveShares(e)' \subseteq LiveShares(e)
  BY LiveShrinks
<1>2. Inserting(e)' \subseteq Inserting(e)
  BY DEF Inserting, NoNewRacer
<1>3. Cardinality(LiveShares(e)) + Cardinality(Inserting(e)) <= Cardinality(Threads)
  BY DEF RecordsInv, RacersInv
<1>4. QED  BY <1>1, <1>2, <1>3, LiveFinite, ThreadCount, Sums

LEMMA OneCleans ==
  ASSUME RecordsInv, NEW t \in Threads, job[t].pc = "cleanup"
  PROVE  writer = t
BY DEF RecordsInv, CleanupInv

-----------------------------------------------------------------------------
(* Steps that write no table, and steps that write under nobody else's lock. *)

\* A thread goes on, or returns, having only read.
LEMMA QuietStep ==
  ASSUME RecordsInv, NEW t \in Threads, NEW j, Fits(j), job' = [job EXCEPT ![t] = j],
         job[t].pc \notin {"insert", "cleanup"}, j.pc # "cleanup",
         j.pc = "insert" => LiveShares(j.row) = {},
         j.pc = "drop" /\ sessions[j.row] # Null => sessions[j.row].expires_at <= today,
         calls' \in Nat,
         UNCHANGED <<today, evaluations, shares, users, sessions, history, writer, served>>
  PROVE  RecordsInv'
<1>1. /\ DOMAIN job' = Threads /\ \A u \in Threads : Fits(job'[u])
      /\ job'[t] = j /\ \A u \in Threads \ {t} : job'[u] = job[u]
  BY JobSet DEF RecordsInv
<1>2. Types' /\ HistoryInv' /\ SharesInv' /\ SessionsInv' /\ ViewsCounted'
  BY <1>1 DEF RecordsInv, Types, HistoryInv, SharesInv, SessionsInv, ViewsCounted
<1>3. DropInv'
  BY <1>1 DEF RecordsInv, DropInv
<1>4. WriterInv'
  BY <1>1, RecordsAssumption DEF RecordsInv, WriterInv, Types
<1>5. CleanupInv'
  BY <1>1 DEF RecordsInv, CleanupInv, Expired
<1>6. RacersInv'
  <2>1. CASE j.pc # "insert"
    <3>1. SharesShrink /\ NoNewRacer /\ today' \in Nat /\ today' >= today
      BY <1>1, <2>1 DEF SharesShrink, NoNewRacer, RecordsInv, Types
    <3>2. QED  BY <1>2, <3>1, RacersFrame
  <2>2. CASE j.pc = "insert"
    <3> SUFFICES ASSUME NEW e \in Evaluations
                 PROVE  Cardinality(LiveShares(e)') + Cardinality(Inserting(e)')
                          <= Cardinality(Threads)
      BY DEF RacersInv
    <3>1. LiveShares(e)' = LiveShares(e)
      BY DEF LiveShares, SharesOf, Live
    <3>2. CASE e = j.row
      <4>1. Inserting(e)' \subseteq Threads /\ LiveShares(e) = {}
        BY <3>2, <2>2 DEF Inserting
      <4>2. Cardinality(Inserting(e)') <= Cardinality(Threads)
        BY <4>1, RecordsAssumption, FS_Subset
      <4>3. Cardinality(LiveShares(e)') = 0
        BY <3>1, <4>1, FS_EmptySet
      <4>4. Cardinality(Inserting(e)') \in Nat
        BY <4>1, RecordsAssumption, FS_Subset, FS_CardinalityType
      <4>5. QED  BY <4>2, <4>3, <4>4
    <3>3. CASE e # j.row
      <4>1. Inserting(e)' \subseteq Inserting(e)
        BY <1>1, <3>3 DEF Inserting
      <4>2. Cardinality(LiveShares(e)) + Cardinality(Inserting(e)) <= Cardinality(Threads)
        BY DEF RecordsInv, RacersInv
      <4>3. QED  BY <3>1, <4>1, <4>2, LiveFinite, ThreadCount, Sums
    <3>4. QED  BY <3>2, <3>3
  <2>3. QED  BY <2>1, <2>2
<1>7. QED  BY <1>2, <1>3, <1>4, <1>5, <1>6 DEF RecordsInv

\* The write of t is committed, which ends the call or not; nobody cleans up.
LEMMA WriteStep ==
  ASSUME RecordsInv, NEW t \in Threads,
         \/ (job' = job /\ writer = Null)
         \/ (job' = [job EXCEPT ![t] = Idle] /\ writer \in {Null, t}),
         writer' = Null, today' = today, calls' \in Nat, served' \in [Tokens -> Nat],
         HistoryInv', SharesInv', SessionsInv', ViewsCounted', SharesShrink,
         \A s \in Sessions : sessions'[s] # Null => sessions'[s] = sessions[s] \/ Unheard(s)
  PROVE  RecordsInv'
<1>1. /\ DOMAIN job' = Threads /\ \A u \in Threads : Fits(job'[u])
      /\ \A u \in Threads : job'[u] = job[u] \/ job'[u].pc = "idle"
  <2>1. CASE job' = job
    BY <2>1 DEF RecordsInv, Types
  <2>2. CASE job' = [job EXCEPT ![t] = Idle]
    BY <2>2, JobSet, IdleFits DEF RecordsInv
  <2>3. QED  BY <2>1, <2>2
<1>2. Types'
  BY <1>1 DEF RecordsInv, Types
<1>3. DropInv'
  <2> SUFFICES ASSUME NEW u \in Threads, job'[u].pc = "drop", sessions'[job'[u].row] # Null
               PROVE  sessions'[job'[u].row].expires_at <= today
    BY DEF DropInv
  <2>1. job'[u] = job[u] /\ job[u].row \in Sessions
    BY <1>1 DEF RecordsInv, Types, Fits
  <2>2. sessions'[job[u].row] = sessions[job[u].row]
    BY <2>1 DEF Unheard
  <2>3. QED  BY <2>1, <2>2 DEF RecordsInv, DropInv
<1>4. WriterInv'
  BY DEF WriterInv
<1>5. CleanupInv'
  <2> SUFFICES ASSUME NEW u \in Threads, job'[u].pc = "cleanup"
               PROVE  FALSE
    BY DEF CleanupInv
  <2>1. job'[u] = job[u]
    BY <1>1
  <2>2. writer = u
    BY <2>1, OneCleans
  <2>3. writer = t /\ job'[t] = Idle
    BY <2>2, RecordsAssumption, JobSet, IdleFits DEF RecordsInv
  <2>4. QED  BY <2>2, <2>3, IdleFits
<1>6. RacersInv'
  <2>1. NoNewRacer /\ today' \in Nat /\ today' >= today
    BY <1>1 DEF NoNewRacer, RecordsInv, Types
  <2>2. QED  BY <2>1, RacersFrame
<1>7. QED  BY <1>2, <1>3, <1>4, <1>5, <1>6 DEF RecordsInv

-----------------------------------------------------------------------------
(* Each operation keeps the invariant: first those that only read.         *)

LEMMA SameJob ==
  ASSUME Types, NEW t \in Threads
  PROVE  Fits(job[t]) /\ calls \in Nat /\ today \in Nat
BY DEF Types

LEMMA BeginShareKeeps ==
  ASSUME RecordsInv, NEW t \in Threads, NEW e \in Evaluations, BeginShare(t, e)
  PROVE  RecordsInv'
<1>1. job[t].pc = "idle" /\ calls' \in Nat
  BY SameJob DEF BeginShare, Call, RecordsInv
<1>2. CASE evaluations[e] = Null
  <2>1. job' = [job EXCEPT ![t] = Idle]
    BY <1>2 DEF BeginShare, Return
  <2>2. QED  BY <1>1, <2>1, IdleFits, QuietStep DEF BeginShare
<1>3. CASE evaluations[e] # Null
  <2> DEFINE j == [Idle EXCEPT !.pc = "existing", !.row = e]
  <2>1. job' = [job EXCEPT ![t] = j]
    BY <1>3 DEF BeginShare, Continue
  <2>2. j \in Job /\ j.pc = "existing" /\ j.row = e
    BY DEF Idle, Job, Pcs, Rows
  <2> HIDE DEF j
  <2>3. Fits(j)
    BY <2>2 DEF Fits
  <2>4. QED  BY <1>1, <2>1, <2>2, <2>3, QuietStep DEF BeginShare
<1>4. QED  BY <1>2, <1>3

LEMMA FindExistingKeeps ==
  ASSUME RecordsInv, NEW t \in Threads, FindExisting(t)
  PROVE  RecordsInv'
<1>1. job[t].pc = "existing" /\ calls' \in Nat /\ job[t].row \in Evaluations
  BY SameJob DEF FindExisting, RecordsInv, Fits
<1>2. CASE LiveShares(job[t].row) # {}
  <2>1. job' = [job EXCEPT ![t] = Idle]
    BY <1>2 DEF FindExisting, Return
  <2>2. QED  BY <1>1, <2>1, IdleFits, QuietStep DEF FindExisting
<1>3. CASE LiveShares(job[t].row) = {}
  <2> DEFINE j == [Idle EXCEPT !.pc = "insert", !.row = job[t].row]
  <2>1. job' = [job EXCEPT ![t] = j]
    BY <1>3 DEF FindExisting, Continue
  <2>2. j \in Job /\ j.pc = "insert" /\ j.row = job[t].row
    BY <1>1 DEF Idle, Job, Pcs, Rows
  <2> HIDE DEF j
  <2>3. Fits(j)
    BY <1>1, <2>2 DEF Fits
  <2>4. QED  BY <1>1, <1>3, <2>1, <2>2, <2>3, QuietStep DEF FindExisting
<1>4. QED  BY <1>2, <1>3

LEMMA BeginViewKeeps ==
  ASSUME RecordsInv, NEW t \in Threads, NEW tok \in Tokens, BeginView(t, tok)
  PROVE  RecordsInv'
<1> DEFINE j == [Idle EXCEPT !.pc = "count", !.row = tok, !.seen = shares[tok].view_count]
<1>1. job[t].pc = "idle" /\ calls' \in Nat /\ job' = [job EXCEPT ![t] = j]
  BY SameJob DEF BeginView, Call, RecordsInv
<1>2. shares[tok].view_count \in Nat
  BY DEF BeginView, Viewable, RecordsInv, SharesInv, Share
<1>3. j \in Job /\ j.pc = "count" /\ j.row = tok
  BY <1>2 DEF Idle, Job, Pcs, Rows
<1> HIDE DEF j
<1>4. Fits(j)
  BY <1>3 DEF Fits
<1>5. QED  BY <1>1, <1>3, <1>4, QuietStep DEF BeginView

LEMMA BeginRegisterKeeps ==
  ASSUME RecordsInv, NEW t \in Threads, NEW email \in Emails, BeginRegister(t, email)
  PROVE  RecordsInv'
<1>1. job[t].pc = "idle" /\ calls' \in Nat
  BY SameJob DEF BeginRegister, Call, RecordsInv
<1>2. CASE email \in users
  <2>1. job' = [job EXCEPT ![t] = Idle]
    BY <1>2 DEF BeginRegister, Return
  <2>2. QED  BY <1>1, <2>1, IdleFits, QuietStep DEF BeginRegister
<1>3. CASE email \notin users
  <2> DEFINE j == [Idle EXCEPT !.pc = "register", !.row = email]
  <2>1. job' = [job EXCEPT ![t] = j]
    BY <1>3 DEF BeginRegister, Continue
  <2>2. j \in Job /\ j.pc = "register" /\ j.row = email
    BY DEF Idle, Job, Pcs, Rows
  <2> HIDE DEF j
  <2>3. Fits(j)
    BY <2>2 DEF Fits
  <2>4. QED  BY <1>1, <2>1, <2>2, <2>3, QuietStep DEF BeginRegister
<1>4. QED  BY <1>2, <1>3

LEMMA GetSessionKeeps ==
  ASSUME RecordsInv, NEW t \in Threads, NEW s \in Sessions, GetSession(t, s)
  PROVE  RecordsInv'
<1>1. job[t].pc = "idle" /\ calls' \in Nat
  BY SameJob DEF GetSession, Call, RecordsInv
<1>2. CASE IsValid(sessions[s].expires_at)
  <2>1. job' = [job EXCEPT ![t] = Idle]
    BY <1>2 DEF GetSession, Return
  <2>2. QED  BY <1>1, <2>1, IdleFits, QuietStep DEF GetSession
<1>3. CASE ~IsValid(sessions[s].expires_at)
  <2> DEFINE j == [Idle EXCEPT !.pc = "drop", !.row = s]
  <2>1. job' = [job EXCEPT ![t] = j]
    BY <1>3 DEF GetSession, Continue
  <2>2. j \in Job /\ j.pc = "drop" /\ j.row = s
    BY DEF Idle, Job, Pcs, Rows
  <2> HIDE DEF j
  <2>3. Fits(j)
    BY <2>2 DEF Fits
  <2>4. sessions[s].expires_at \in Nat /\ today \in Nat
    BY SameJob DEF GetSession, RecordsInv, SessionsInv, Session
  <2>5. sessions[s].expires_at <= today
    BY <1>3, <2>4 DEF IsValid
  <2>6. QED  BY <1>1, <2>1, <2>2, <2>3, <2>5, QuietStep DEF GetSession
<1>4. QED  BY <1>2, <1>3

LEMMA LockedOutKeeps ==
  ASSUME RecordsInv, NEW t \in Threads, LockedOut(t)
  PROVE  RecordsInv'
<1>1. job[t].pc \notin {"insert", "cleanup"} /\ calls' \in Nat /\ job' = [job EXCEPT ![t] = Idle]
  BY SameJob DEF LockedOut, Return, RecordsInv
<1>2. QED  BY <1>1, IdleFits, QuietStep DEF LockedOut

-----------------------------------------------------------------------------
(* Evaluations and shares.                                                 *)

LEMMA NobodyCleans ==
  ASSUME RecordsInv, NEW t \in Threads, CanWrite(t), job[t].pc # "cleanup"
  PROVE  \A u \in Threads : job[u].pc # "cleanup"
BY OneCleans, RecordsAssumption DEF CanWrite

LEMMA HistoryGrows ==
  ASSUME HistoryInv, NEW e \in Evaluations, AddToHistory(e),
         \A i \in DOMAIN history : history[i] # e
  PROVE  HistoryInv'
<1> DEFINE longer == <<e>> \o history
<1>1. /\ longer \in Seq(Evaluations) /\ Len(longer) = Len(history) + 1
      /\ \A i \in 1..Len(longer) : longer[i] = IF i = 1 THEN e ELSE history[i - 1]
  BY DEF HistoryInv
<1>2. \A i, j \in 1..Len(longer) : i # j => longer[i] # longer[j]
  BY <1>1 DEF HistoryInv
<1>3. \/ (history' = longer /\ Len(longer) <= MaxItems)
      \/ (history' = SubSeq(longer, 1, MaxItems) /\ Len(longer) > MaxItems)
  BY <1>1, RecordsAssumption DEF AddToHistory, Evict, HistoryInv
<1> HIDE DEF longer
<1>4. CASE history' = longer /\ Len(longer) <= MaxItems
  BY <1>1, <1>2, <1>4 DEF HistoryInv
<1>5. CASE history' = SubSeq(longer, 1, MaxItems) /\ Len(longer) > MaxItems
  <2>1. /\ history' \in Seq(Evaluations) /\ Len(history') = MaxItems
        /\ \A i \in 1..MaxItems : history'[i] = longer[i]
    BY <1>1, <1>5, RecordsAssumption
  <2>2. QED  BY <1>1, <1>2, <1>5, <2>1, RecordsAssumption DEF HistoryInv
<1>6. QED  BY <1>3, <1>4, <1>5

LEMMA EvaluateKeeps ==
  ASSUME RecordsInv, NEW t \in Threads, NEW e \in Evaluations, NEW saved \in BOOLEAN,
         Evaluate(t, e, saved)
  PROVE  RecordsInv'
<1>1. HistoryInv'
  BY HistoryGrows DEF Evaluate, RecordsInv
<1>2. Types'
  BY DEF Evaluate, Call, RecordsInv, Types
<1>3. evaluations' \in [Evaluations -> Nat \cup {Null}]
      /\ \A f \in Evaluations : evaluations[f] # Null => evaluations'[f] = evaluations[f]
  <2>1. today + Retention \in Nat
    BY RecordsAssumption DEF RecordsInv, Types
  <2>2. QED  BY <2>1 DEF Evaluate, RecordsInv, SharesInv
<1>4. \A tok \in Tokens : shares[tok] # Null =>
        /\ evaluations[shares[tok].evaluation] # Null
        /\ evaluations'[shares[tok].evaluation] = evaluations[shares[tok].evaluation]
  BY <1>3 DEF RecordsInv, SharesInv, Share
<1>5. SharesInv'
  BY <1>3, <1>4 DEF Evaluate, RecordsInv, SharesInv
<1>6. CleanupInv'
  <2> SUFFICES ASSUME NEW u \in Threads, job[u].pc = "cleanup"
               PROVE  writer = u /\ \A tok \in job[u].doomed :
                        shares[tok] # Null /\ Expired(evaluations'[shares[tok].evaluation])
    BY DEF CleanupInv, Evaluate, Expired
  <2>1. job[u].doomed \subseteq Tokens
    BY DEF RecordsInv, Types, Fits, Job
  <2>2. QED  BY <1>4, <2>1 DEF RecordsInv, CleanupInv
<1>7. SessionsInv' /\ DropInv' /\ WriterInv' /\ ViewsCounted'
  BY DEF Evaluate, RecordsInv, SessionsInv, DropInv, WriterInv, ViewsCounted
<1>8. RacersInv'
  <2>1. SharesShrink /\ NoNewRacer /\ today' \in Nat /\ today' >= today
    BY DEF Evaluate, SharesShrink, NoNewRacer, RecordsInv, Types
  <2>2. QED  BY <1>5, <2>1, RacersFrame
<1>9. QED  BY <1>1, <1>2, <1>5, <1>6, <1>7, <1>8 DEF RecordsInv

LEMMA InsertShareKeeps ==
  ASSUME RecordsInv, NEW t \in Threads, NEW tok \in Tokens, InsertShare(t, tok)
  PROVE  RecordsInv'
<1> DEFINE row == [evaluation |-> job[t].row, expires_at |-> today + ShareDays, view_count |-> 0]
<1>1. job[t].pc = "insert" /\ job[t].row \in Evaluations
  BY DEF InsertShare, RecordsInv, Types, Fits
<1>2. row \in Share
  BY <1>1, RecordsAssumption DEF Share, RecordsInv, Types
<1>3. shares' = [shares EXCEPT ![tok] = row] /\ shares'[tok] = row
      /\ \A other \in Tokens \ {tok} : shares'[other] = shares[other]
  BY DEF InsertShare, RecordsInv, SharesInv
<1>4. /\ DOMAIN job' = Threads /\ \A u \in Threads : Fits(job'[u])
      /\ job'[t] = Idle /\ \A u \in Threads \ {t} : job'[u] = job[u]
  BY JobSet, IdleFits DEF InsertShare, Return, RecordsInv
<1>5. Types' /\ HistoryInv' /\ SessionsInv' /\ WriterInv'
  BY <1>4 DEF InsertShare, RecordsInv, Types, HistoryInv, SessionsInv, WriterInv
<1>6. SharesInv'
  <2>1. row.evaluation = job[t].row /\ evaluations[job[t].row] # Null
    BY DEF InsertShare
  <2> HIDE DEF row
  <2>2. QED  BY <1>2, <1>3, <2>1 DEF InsertShare, RecordsInv, SharesInv
<1>7. DropInv'
  BY <1>4, IdleFits DEF InsertShare, RecordsInv, DropInv
<1>8. CleanupInv'
  <2>1. \A u \in Threads : job[u].pc # "cleanup"
    BY <1>1, NobodyCleans DEF InsertShare
  <2>2. QED  BY <1>4, <2>1, IdleFits DEF CleanupInv
<1>9. ViewsCounted'
  <2>1. row.view_count = 0 /\ served'[tok] = 0
        /\ \A other \in Tokens \ {tok} : served'[other] = served[other]
    BY DEF InsertShare, RecordsInv, Types
  <2> HIDE DEF row
  <2>2. QED  BY <1>3, <2>1 DEF RecordsInv, ViewsCounted
<1>10. RacersInv'
  <2> SUFFICES ASSUME NEW e \in Evaluations
               PROVE  Cardinality(LiveShares(e)') + Cardinality(Inserting(e)') <= Cardinality(Threads)
    BY DEF RacersInv
  <2>1. Cardinality(LiveShares(e)) + Cardinality(Inserting(e)) <= Cardinality(Threads)
    BY DEF RecordsInv, RacersInv
  <2>2. CASE e = job[t].row
    <3>1. LiveShares(e)' \subseteq LiveShares(e) \cup {tok}
      BY <1>3 DEF InsertShare, LiveShares, SharesOf, Live
    <3>2. Inserting(e)' \subseteq Inserting(e) \ {t} /\ t \in Inserting(e)
      BY <1>1, <1>4, <2>2, IdleFits DEF Inserting
    <3>3. /\ IsFiniteSet(LiveShares(e) \cup {tok})
          /\ Cardinality(LiveShares(e) \cup {tok}) <= Cardinality(LiveShares(e)) + 1
      BY LiveFinite, OneMore
    <3>4. /\ IsFiniteSet(Inserting(e) \ {t})
          /\ Cardinality(Inserting(e) \ {t}) = Cardinality(Inserting(e)) - 1
      BY <3>2, LiveFinite, FS_RemoveElement
    <3>5. /\ Cardinality(LiveShares(e)) \in Nat /\ Cardinality(Inserting(e)) \in Nat
          /\ Cardinality(LiveShares(e) \cup {tok}) \in Nat
          /\ Cardinality(Inserting(e) \ {t}) \in Nat
      BY <3>3, <3>4, LiveFinite, FS_CardinalityType
    <3>6. Cardinality(LiveShares(e) \cup {tok}) + Cardinality(Inserting(e) \ {t})
            <= Cardinality(Threads)
      BY <2>1, <3>3, <3>4, <3>5, ThreadCount
    <3>7. QED  BY <3>1, <3>2, <3>3, <3>4, <3>6, ThreadCount, Sums
  <2>3. CASE e # job[t].row
    <3>1. row.evaluation # e
      BY <2>3
    <3> HIDE DEF row
    <3>2. LiveShares(e)' \subseteq LiveShares(e)
      BY <1>3, <3>1 DEF InsertShare, LiveShares, SharesOf, Live
    <3>3. Inserting(e)' \subseteq Inserting(e)
      BY <1>4, IdleFits DEF Inserting
    <3>4. QED  BY <2>1, <3>2, <3>3, LiveFinite, ThreadCount, Sums
  <2>4. QED  BY <2>2, <2>3
<1>11. QED  BY <1>5, <1>6, <1>7, <1>8, <1>9, <1>10 DEF RecordsInv

LEMMA InsertFailsKeeps ==
  ASSUME RecordsInv, NEW t \in Threads, NEW tok \in Tokens, InsertFails(t, tok)
  PROVE  RecordsInv'
<1>1. job[t].pc = "insert"
  BY DEF InsertFails
<1>2. PICK j : /\ Fits(j) /\ job' = [job EXCEPT ![t] = j]
               /\ j = Idle \/ (j.pc = "insert" /\ j.row = job[t].row)
               /\ CanWrite(t) /\ j = Idle => writer' = Null
               /\ CanWrite(t) /\ j # Idle => writer' = t
               /\ ~CanWrite(t) => writer' = writer
  <2>1. CASE job[t].tries + 1 = Attempts
    BY <2>1, IdleFits DEF InsertFails, Return
  <2>2. CASE job[t].tries + 1 # Attempts
    <3> DEFINE j == [job[t] EXCEPT !.tries = @ + 1]
    <3>1. job' = [job EXCEPT ![t] = j]
      BY <2>2 DEF InsertFails, RecordsInv, Types
    <3>2. Fits(job[t])
      BY SameJob DEF RecordsInv
    <3>3. j \in Job /\ j.pc = "insert" /\ j.row = job[t].row
      BY <1>1, <3>2 DEF Fits, Job
    <3> HIDE DEF j
    <3>4. Fits(j)
      BY <1>1, <3>2, <3>3 DEF Fits
    <3>5. j # Idle
      BY <3>3, IdleFits
    <3>6. QED  BY <2>2, <3>1, <3>3, <3>4, <3>5 DEF InsertFails
  <2>3. QED  BY <2>1, <2>2
<1>3. /\ DOMAIN job' = Threads /\ \A u \in Threads : Fits(job'[u])
      /\ job'[t] = j /\ \A u \in Threads \ {t} : job'[u] = job[u]
  BY <1>2, JobSet DEF RecordsInv
<1>4. Types'
  BY <1>2, <1>3 DEF InsertFails, RecordsInv, Types
<1>5. HistoryInv' /\ SharesInv' /\ SessionsInv' /\ ViewsCounted'
  BY DEF InsertFails, RecordsInv, HistoryInv, SharesInv, SessionsInv, ViewsCounted
<1>6. DropInv'
  BY <1>2, <1>3, IdleFits DEF InsertFails, RecordsInv, DropInv
<1>7. WriterInv'
  <2>1. CASE CanWrite(t)
    BY <1>2, <1>3, <2>1 DEF WriterInv
  <2>2. CASE ~CanWrite(t)
    <3>1. writer' = writer /\ writer \in Threads \ {t}
      BY <1>2, <2>2 DEF CanWrite, RecordsInv, Types
    <3>2. QED  BY <1>3, <3>1 DEF RecordsInv, WriterInv
  <2>3. QED  BY <2>1, <2>2
<1>8. CleanupInv'
  <2>1. j.pc # "cleanup"
    BY <1>2, IdleFits
  <2>2. CASE CanWrite(t)
    <3>1. \A u \in Threads : job[u].pc # "cleanup"
      BY <1>1, <2>2, NobodyCleans
    <3>2. QED  BY <1>3, <2>1, <3>1 DEF CleanupInv
  <2>3. CASE ~CanWrite(t)
    BY <1>2, <1>3, <2>1, <2>3 DEF InsertFails, RecordsInv, CleanupInv, Expired
  <2>4. QED  BY <2>2, <2>3
<1>9. RacersInv'
  <2>1. SharesShrink /\ NoNewRacer /\ today' \in Nat /\ today' >= today
    BY <1>1, <1>2, <1>3, IdleFits DEF InsertFails, SharesShrink, NoNewRacer, RecordsInv, Types
  <2>2. QED  BY <1>5, <2>1, RacersFrame
<1>10. QED  BY <1>4, <1>5, <1>6, <1>7, <1>8, <1>9 DEF RecordsInv

\* Deleting rows of shares keeps what the table must satisfy.
LEMMA SharesDeleted ==
  ASSUME RecordsInv, NEW toks, evaluations' = evaluations, served' = served,
         shares' = [tok \in Tokens |-> IF tok \in toks THEN Null ELSE shares[tok]]
  PROVE  SharesInv' /\ ViewsCounted' /\ SharesShrink
BY DEF RecordsInv, SharesInv, ViewsCounted, SharesShrink

LEMMA DeleteShareKeeps ==
  ASSUME RecordsInv, NEW t \in Threads, NEW tok \in Tokens, DeleteShare(t, tok)
  PROVE  RecordsInv'
<1>1. shares' = [k \in Tokens |-> IF k \in {tok} THEN Null ELSE shares[k]]
  BY DEF DeleteShare, RecordsInv, SharesInv
<1>2. SharesInv' /\ ViewsCounted' /\ SharesShrink
  BY <1>1, SharesDeleted DEF DeleteShare
<1>3. /\ HistoryInv' /\ SessionsInv' /\ calls' \in Nat /\ served' \in [Tokens -> Nat]
      /\ \A s \in Sessions : sessions'[s] = sessions[s]
  BY DEF DeleteShare, Call, RecordsInv, Types, HistoryInv, SessionsInv
<1>4. QED  BY <1>2, <1>3, WriteStep DEF DeleteShare

LEMMA CleanupSharesKeeps ==
  ASSUME RecordsInv, NEW t \in Threads, CleanupShares(t)
  PROVE  RecordsInv'
<1> DEFINE gone == {tok \in Tokens : shares[tok] # Null /\ Expired(shares[tok].expires_at)}
<1>1. shares' = [tok \in Tokens |-> IF tok \in gone THEN Null ELSE shares[tok]]
  BY DEF CleanupShares
<1> HIDE DEF gone
<1>2. SharesInv' /\ ViewsCounted' /\ SharesShrink
  BY <1>1, SharesDeleted DEF CleanupShares
<1>3. /\ HistoryInv' /\ SessionsInv' /\ calls' \in Nat /\ served' \in [Tokens -> Nat]
      /\ \A s \in Sessions : sessions'[s] = sessions[s]
  BY DEF CleanupShares, Call, RecordsInv, Types, HistoryInv, SessionsInv
<1>4. QED  BY <1>2, <1>3, WriteStep DEF CleanupShares

LEMMA CountViewKeeps ==
  ASSUME RecordsInv, NEW t \in Threads, CountView(t)
  PROVE  RecordsInv'
<1> DEFINE tok == job[t].row
<1>1. tok \in Tokens /\ job' = [job EXCEPT ![t] = Idle]
  BY DEF CountView, Return, RecordsInv, Types, Fits
<1> HIDE DEF tok
<1>2. served' \in [Tokens -> Nat] /\ SharesInv' /\ ViewsCounted' /\ SharesShrink
  <2>1. CASE shares[tok] = Null
    BY <2>1 DEF CountView, tok, RecordsInv, Types, SharesInv, ViewsCounted, SharesShrink
  <2>2. CASE shares[tok] # Null
    <3> DEFINE row == [shares[tok] EXCEPT !.view_count = shares[tok].view_count + 1]
    <3>1. shares[tok] \in Share
      BY <1>1, <2>2 DEF RecordsInv, SharesInv
    <3>2. /\ row \in Share /\ row.evaluation = shares[tok].evaluation
          /\ row.expires_at = shares[tok].expires_at
          /\ row.view_count = shares[tok].view_count + 1
      BY <3>1 DEF Share
    <3>3. /\ shares' = [shares EXCEPT ![tok] = row]
          /\ served' = [served EXCEPT ![tok] = served[tok] + 1]
      BY <1>1, <2>2 DEF CountView, Counted, tok, RecordsInv, SharesInv, Types
    <3> HIDE DEF row
    <3>4. /\ shares'[tok] = row /\ served'[tok] = served[tok] + 1
          /\ \A k \in Tokens \ {tok} : shares'[k] = shares[k] /\ served'[k] = served[k]
          /\ shares' \in [Tokens -> Share \cup {Null}]
      BY <1>1, <3>2, <3>3 DEF RecordsInv, SharesInv, Types
    <3>5. served' \in [Tokens -> Nat]
      BY <1>1, <3>3 DEF RecordsInv, Types
    <3>6. SharesInv'
      BY <2>2, <3>2, <3>4 DEF CountView, RecordsInv, SharesInv
    <3>7. ViewsCounted'
      BY <2>2, <3>2, <3>4 DEF RecordsInv, ViewsCounted
    <3>8. SharesShrink
      BY <2>2, <3>2, <3>4 DEF SharesShrink
    <3>9. QED  BY <3>5, <3>6, <3>7, <3>8
  <2>3. QED  BY <2>1, <2>2
<1>3. /\ HistoryInv' /\ SessionsInv' /\ calls' \in Nat
      /\ \A s \in Sessions : sessions'[s] = sessions[s]
  BY DEF CountView, RecordsInv, Types, HistoryInv, SessionsInv
<1>4. QED  BY <1>1, <1>2, <1>3, WriteStep DEF CountView

LEMMA BeginCleanupKeeps ==
  ASSUME RecordsInv, NEW t \in Threads, BeginCleanup(t)
  PROVE  RecordsInv'
<1> DEFINE toks == SharesIn(ExpiredEvaluations)
           j == [Idle EXCEPT !.pc = "cleanup", !.doomed = toks]
<1>1. toks \subseteq Tokens
  BY DEF SharesIn
<1>2. \A tok \in toks : shares[tok] # Null /\ Expired(evaluations[shares[tok].evaluation])
  BY DEF SharesIn, ExpiredEvaluations
<1> HIDE DEF toks
<1>3. /\ job' = [job EXCEPT ![t] = j] /\ writer = Null /\ writer' = t /\ calls' \in Nat
      /\ job[t].pc = "idle"
  BY SameJob DEF BeginCleanup, Call, toks, RecordsInv
<1>4. j \in Job /\ j.pc = "cleanup" /\ j.doomed = toks
  BY <1>1 DEF Idle, Job, Pcs, Rows
<1> HIDE DEF j
<1>5. Fits(j)
  BY <1>4 DEF Fits
<1>6. /\ DOMAIN job' = Threads /\ \A u \in Threads : Fits(job'[u])
      /\ job'[t] = j /\ \A u \in Threads \ {t} : job'[u] = job[u]
  BY <1>3, <1>5, JobSet DEF RecordsInv
<1>7. Types' /\ HistoryInv' /\ SharesInv' /\ SessionsInv' /\ ViewsCounted'
  BY <1>3, <1>6 DEF BeginCleanup, RecordsInv, Types, HistoryInv, SharesInv, SessionsInv, ViewsCounted
<1>8. DropInv' /\ WriterInv'
  BY <1>3, <1>4, <1>6 DEF BeginCleanup, RecordsInv, DropInv, WriterInv
<1>9. CleanupInv'
  <2> SUFFICES ASSUME NEW u \in Threads, job'[u].pc = "cleanup"
               PROVE  writer' = u /\ \A tok \in job'[u].doomed :
                        shares[tok] # Null /\ Expired(evaluations[shares[tok].evaluation])
    BY DEF CleanupInv, BeginCleanup, Expired
  <2>1. \A v \in Threads : job[v].pc # "cleanup"
    BY <1>3, NobodyCleans DEF CanWrite
  <2>2. u = t
    BY <1>6, <2>1
  <2>3. QED  BY <1>2, <1>3, <1>4, <1>6, <2>2
<1>10. RacersInv'
  <2>1. SharesShrink /\ NoNewRacer /\ today' \in Nat /\ today' >= today
    BY <1>4, <1>6 DEF BeginCleanup, SharesShrink, NoNewRacer, RecordsInv, Types
  <2>2. QED  BY <1>7, <2>1, RacersFrame
<1>11. QED  BY <1>7, <1>8, <1>9, <1>10 DEF RecordsInv

\* What a clean-up that is not refused leaves of evaluations and shares.
LEMMA FinishCleanupKeeps ==
  ASSUME RecordsInv, NEW t \in Threads, FinishCleanup(t)
  PROVE  RecordsInv'
<1>1. job[t].pc = "cleanup" /\ writer = t /\ job' = [job EXCEPT ![t] = Idle]
  BY OneCleans DEF FinishCleanup, Return
<1>2. SharesInv' /\ ViewsCounted' /\ SharesShrink
  <2>1. CASE SharesIn(ExpiredEvaluations) \subseteq job[t].doomed
    <3> DEFINE toks == job[t].doomed
               ids == ExpiredEvaluations
    <3>1. /\ evaluations' = [e \in Evaluations |-> IF e \in ids THEN Null ELSE evaluations[e]]
          /\ shares' = [tok \in Tokens |-> IF tok \in toks THEN Null ELSE shares[tok]]
      BY <2>1 DEF FinishCleanup
    <3>2. \A tok \in Tokens \ toks : shares[tok] # Null => shares[tok].evaluation \notin ids
      BY <2>1 DEF SharesIn
    <3> HIDE DEF toks, ids
    <3>3. evaluations' \in [Evaluations -> Nat \cup {Null}]
          /\ shares' \in [Tokens -> Share \cup {Null}]
      BY <3>1 DEF RecordsInv, SharesInv
    <3>4. \A tok \in Tokens : shares'[tok] # Null => evaluations'[shares'[tok].evaluation] # Null
      BY <3>1, <3>2 DEF RecordsInv, SharesInv, Share
    <3>5. SharesInv'
      BY <3>3, <3>4 DEF SharesInv
    <3>6. ViewsCounted' /\ SharesShrink
      BY <3>1 DEF FinishCleanup, RecordsInv, ViewsCounted, SharesShrink
    <3>7. QED  BY <3>5, <3>6
  <2>2. CASE ~(SharesIn(ExpiredEvaluations) \subseteq job[t].doomed)
    BY <2>2 DEF FinishCleanup, RecordsInv, SharesInv, ViewsCounted, SharesShrink
  <2>3. QED  BY <2>1, <2>2
<1>3. /\ HistoryInv' /\ SessionsInv' /\ calls' \in Nat /\ served' \in [Tokens -> Nat]
      /\ \A s \in Sessions : sessions'[s] = sessions[s]
  BY DEF FinishCleanup, RecordsInv, Types, HistoryInv, SessionsInv
<1>4. QED  BY <1>1, <1>2, <1>3, WriteStep DEF FinishCleanup

-----------------------------------------------------------------------------
(* Users and sessions.                                                     *)

\* A step that leaves evaluations and shares alone.
LEMMA SameShares ==
  ASSUME RecordsInv, evaluations' = evaluations, shares' = shares, served' = served,
         history' = history
  PROVE  /\ SharesInv' /\ ViewsCounted' /\ SharesShrink /\ HistoryInv'
         /\ served' \in [Tokens -> Nat]
BY DEF RecordsInv, SharesInv, ViewsCounted, SharesShrink, HistoryInv, Types

LEMMA FinishRegisterKeeps ==
  ASSUME RecordsInv, NEW t \in Threads, FinishRegister(t)
  PROVE  RecordsInv'
<1>1. job' = [job EXCEPT ![t] = Idle] /\ job[t].row \in Emails
  BY DEF FinishRegister, Return, RecordsInv, Types, Fits
<1>2. SessionsInv' /\ calls' \in Nat /\ \A s \in Sessions : sessions'[s] = sessions[s]
  BY <1>1 DEF FinishRegister, RecordsInv, Types, SessionsInv
<1>3. /\ SharesInv' /\ ViewsCounted' /\ SharesShrink /\ HistoryInv'
      /\ served' \in [Tokens -> Nat]
  BY SameShares DEF FinishRegister
<1>4. QED  BY <1>1, <1>2, <1>3, WriteStep DEF FinishRegister

LEMMA CreateSessionKeeps ==
  ASSUME RecordsInv, NEW t \in Threads, NEW s \in Sessions, NEW email \in Emails,
         CreateSession(t, s, email)
  PROVE  RecordsInv'
<1> DEFINE row == [user |-> email, expires_at |-> today + SessionDays]
<1>1. row \in Session /\ row.user = email /\ email \in users
  BY RecordsAssumption DEF CreateSession, Session, RecordsInv, Types
<1>2. sessions' = [sessions EXCEPT ![s] = row]
  BY DEF CreateSession
<1> HIDE DEF row
<1>3. SessionsInv'
  BY <1>1, <1>2 DEF CreateSession, RecordsInv, SessionsInv
<1>4. calls' \in Nat /\ \A k \in Sessions : sessions'[k] = sessions[k] \/ Unheard(k)
  BY <1>2 DEF CreateSession, Call, RecordsInv, Types, SessionsInv
<1>5. /\ SharesInv' /\ ViewsCounted' /\ SharesShrink /\ HistoryInv'
      /\ served' \in [Tokens -> Nat]
  BY SameShares DEF CreateSession
<1>6. QED  BY <1>3, <1>4, <1>5, WriteStep DEF CreateSession

LEMMA DropSessionKeeps ==
  ASSUME RecordsInv, NEW t \in Threads, DropSession(t)
  PROVE  RecordsInv'
<1>1. job' = [job EXCEPT ![t] = Idle]
  BY DEF DropSession, Return
<1>2. /\ SessionsInv' /\ calls' \in Nat
      /\ \A s \in Sessions : sessions'[s] # Null => sessions'[s] = sessions[s]
  BY DEF DropSession, RecordsInv, Types, SessionsInv
<1>3. /\ SharesInv' /\ ViewsCounted' /\ SharesShrink /\ HistoryInv'
      /\ served' \in [Tokens -> Nat]
  BY SameShares DEF DropSession
<1>4. QED  BY <1>1, <1>2, <1>3, WriteStep DEF DropSession

LEMMA DeleteSessionsKeeps ==
  ASSUME RecordsInv, NEW t \in Threads, NEW ids, DeleteSessions(t, ids)
  PROVE  RecordsInv'
<1>1. /\ SessionsInv' /\ calls' \in Nat
      /\ \A s \in Sessions : sessions'[s] # Null => sessions'[s] = sessions[s]
  BY DEF DeleteSessions, Call, RecordsInv, Types, SessionsInv
<1>2. /\ SharesInv' /\ ViewsCounted' /\ SharesShrink /\ HistoryInv'
      /\ served' \in [Tokens -> Nat]
  BY SameShares DEF DeleteSessions
<1>3. QED  BY <1>1, <1>2, WriteStep DEF DeleteSessions

-----------------------------------------------------------------------------
(* Restarts and time.                                                      *)

LEMMA RestartKeeps ==
  ASSUME RecordsInv, Restart
  PROVE  RecordsInv'
<1>1. DOMAIN job' = Threads /\ \A t \in Threads : job'[t] = Idle
  BY DEF Restart
<1>2. Types' /\ HistoryInv'
  BY <1>1, IdleFits, RecordsAssumption DEF Restart, RecordsInv, Types, HistoryInv
<1>3. SharesInv' /\ SessionsInv' /\ ViewsCounted'
  BY DEF Restart, RecordsInv, SharesInv, SessionsInv, ViewsCounted
<1>4. DropInv' /\ WriterInv' /\ CleanupInv'
  BY <1>1, IdleFits DEF Restart, DropInv, WriterInv, CleanupInv
<1>5. SharesShrink /\ NoNewRacer /\ today' \in Nat /\ today' >= today
  BY <1>1, IdleFits DEF Restart, SharesShrink, NoNewRacer, RecordsInv, Types
<1>6. RacersInv'
  BY <1>3, <1>5, RacersFrame
<1>7. QED  BY <1>2, <1>3, <1>4, <1>6 DEF RecordsInv

\* Time passes, the history is cleared, or nothing happens.
LEMMA TimeKeeps ==
  ASSUME RecordsInv, today' \in Nat, today' >= today,
         UNCHANGED <<evaluations, shares, users, sessions, writer, job, calls, served>>,
         history' = history \/ history' = <<>>
  PROVE  RecordsInv'
<1>1. Types' /\ SharesInv' /\ SessionsInv' /\ ViewsCounted' /\ WriterInv'
  BY DEF RecordsInv, Types, SharesInv, SessionsInv, ViewsCounted, WriterInv
<1>2. HistoryInv'
  <2>1. CASE history' = history
    BY <2>1 DEF RecordsInv, HistoryInv
  <2>2. CASE history' = <<>>
    BY <2>2, RecordsAssumption DEF HistoryInv
  <2>3. QED  BY <2>1, <2>2
<1>3. today \in Nat
  BY DEF RecordsInv, Types
<1>4. DropInv'
  <2> SUFFICES ASSUME NEW t \in Threads, job[t].pc = "drop", sessions[job[t].row] # Null
               PROVE  sessions[job[t].row].expires_at <= today'
    BY DEF DropInv
  <2>1. sessions[job[t].row].expires_at <= today
    BY DEF RecordsInv, DropInv
  <2>2. sessions[job[t].row].expires_at \in Nat
    BY DEF RecordsInv, Types, Fits, SessionsInv, Session
  <2>3. QED  BY <1>3, <2>1, <2>2
<1>5. CleanupInv'
  <2> SUFFICES ASSUME NEW t \in Threads, job[t].pc = "cleanup"
               PROVE  writer = t /\ \A tok \in job[t].doomed :
                        shares[tok] # Null /\ evaluations[shares[tok].evaluation] < today'
    BY DEF CleanupInv, Expired
  <2>1. writer = t
    BY OneCleans
  <2>2. ASSUME NEW tok \in job[t].doomed
        PROVE  shares[tok] # Null /\ evaluations[shares[tok].evaluation] < today'
    <3>1. shares[tok] # Null /\ evaluations[shares[tok].evaluation] < today
      BY <2>2 DEF RecordsInv, CleanupInv, Expired
    <3>2. tok \in Tokens
      BY <2>2 DEF RecordsInv, Types, Fits, Job
    <3>3. evaluations[shares[tok].evaluation] \in Nat
      BY <3>1, <3>2 DEF RecordsInv, SharesInv, Share
    <3>4. QED  BY <1>3, <3>1, <3>3
  <2>3. QED  BY <2>1, <2>2
<1>6. SharesShrink /\ NoNewRacer
  BY DEF SharesShrink, NoNewRacer
<1>7. RacersInv'
  BY <1>1, <1>6, RacersFrame
<1>8. QED  BY <1>1, <1>2, <1>4, <1>5, <1>7 DEF RecordsInv

-----------------------------------------------------------------------------
(* The theorems.                                                           *)

LEMMA InitHolds ==
  ASSUME RecordsInit
  PROVE  RecordsInv
<1>1. Types
  BY IdleFits DEF RecordsInit, Types
<1>2. HistoryInv
  BY RecordsAssumption DEF RecordsInit, HistoryInv
<1>3. SharesInv /\ SessionsInv /\ ViewsCounted
  BY DEF RecordsInit, SharesInv, SessionsInv, ViewsCounted
<1>4. DropInv /\ WriterInv /\ CleanupInv
  BY IdleFits DEF RecordsInit, DropInv, WriterInv, CleanupInv
<1>5. RacersInv
  <2> SUFFICES ASSUME NEW e \in Evaluations
               PROVE  Cardinality(LiveShares(e)) + Cardinality(Inserting(e)) <= Cardinality(Threads)
    BY DEF RacersInv
  <2>1. LiveShares(e) = {} /\ Inserting(e) = {}
    BY IdleFits DEF RecordsInit, LiveShares, SharesOf, Inserting
  <2>2. QED  BY <2>1, ThreadCount, FS_EmptySet
<1>6. QED  BY <1>1, <1>2, <1>3, <1>4, <1>5 DEF RecordsInv

LEMMA CallKeeps ==
  ASSUME RecordsInv, NEW t \in Threads,
         \/ EvaluateProxy(t) \/ CreateShareLink(t) \/ ViewSharedResult(t)
         \/ Signup(t) \/ Login(t) \/ GetCurrentUser(t) \/ Logout(t)
         \/ Maintenance(t) \/ LockedOut(t)
  PROVE  RecordsInv'
<1>1. CASE EvaluateProxy(t)
  BY <1>1, EvaluateKeeps DEF EvaluateProxy
<1>2. CASE CreateShareLink(t)
  BY <1>2, FindExistingKeeps, BeginShareKeeps, InsertShareKeeps, InsertFailsKeeps
     DEF CreateShareLink
<1>3. CASE ViewSharedResult(t)
  BY <1>3, CountViewKeeps, BeginViewKeeps DEF ViewSharedResult
<1>4. CASE Signup(t)
  BY <1>4, FinishRegisterKeeps, BeginRegisterKeeps DEF Signup
<1>5. CASE Login(t)
  BY <1>5, CreateSessionKeeps DEF Login
<1>6. CASE GetCurrentUser(t)
  BY <1>6, DropSessionKeeps, GetSessionKeeps DEF GetCurrentUser
<1>7. CASE Logout(t)
  BY <1>7, DeleteSessionsKeeps DEF Logout, InvalidateSession
<1>8. CASE Maintenance(t)
  BY <1>8, BeginCleanupKeeps, FinishCleanupKeeps, CleanupSharesKeeps, DeleteSessionsKeeps,
     DeleteShareKeeps DEF Maintenance, CleanupExpiredSessions, InvalidateUserSessions
<1>9. CASE LockedOut(t)
  BY <1>9, LockedOutKeeps
<1>10. QED  BY <1>1, <1>2, <1>3, <1>4, <1>5, <1>6, <1>7, <1>8, <1>9

LEMMA StepKeeps ==
  ASSUME RecordsInv, [RecordsNext]_recordVars
  PROVE  RecordsInv'
<1>1. today \in Nat /\ today + 1 \in Nat /\ today + 1 >= today /\ today >= today
  BY DEF RecordsInv, Types
<1>2. CASE Restart
  BY <1>2, RestartKeeps
<1>3. CASE ClearHistory
  BY <1>1, <1>3, TimeKeeps DEF ClearHistory
<1>4. CASE NextDay
  BY <1>1, <1>4, TimeKeeps DEF NextDay
<1>5. CASE UNCHANGED recordVars
  BY <1>1, <1>5, TimeKeeps DEF recordVars
<1>6. QED  BY <1>2, <1>3, <1>4, <1>5, CallKeeps DEF RecordsNext

LEMMA RecordsInvHolds == RecordsSpec => []RecordsInv
BY InitHolds, StepKeeps, PTL DEF RecordsSpec

\* The tables and the history have their types and their keys, and the write
\* lock is held only by an insertion that failed or by a clean-up.
THEOREM RecordsTypeCorrect == RecordsSpec => []RecordsTypeOK
<1>1. RecordsInv => RecordsTypeOK
  BY DEF RecordsInv, RecordsTypeOK, HistoryInv, SharesInv, SessionsInv, WriterInv
<1>2. QED  BY <1>1, RecordsInvHolds, PTL

\* Keys refer to rows that are there, and racing callers make at most one live
\* share each of an evaluation (create_share checks, then inserts).
THEOREM TablesAlwaysAgree == RecordsSpec => []TablesAgree
<1>1. RecordsInv => SharesBounded
  <2> SUFFICES ASSUME RecordsInv, NEW e \in Evaluations
               PROVE  Cardinality(LiveShares(e)) <= Cardinality(Threads)
    BY DEF SharesBounded
  <2>1. Cardinality(LiveShares(e)) + Cardinality(Inserting(e)) <= Cardinality(Threads)
    BY DEF RecordsInv, RacersInv
  <2>2. Cardinality(LiveShares(e)) \in Nat /\ Cardinality(Inserting(e)) \in Nat
    BY LiveFinite, FS_CardinalityType
  <2>3. QED  BY <2>1, <2>2, ThreadCount
<1>2. QED  BY <1>1, RecordsInvHolds, RecordsTypeCorrect, PTL DEF TablesAgree

\* The count of views is the number of times the share was served, however many
\* views, shares and clean-ups overlap.
THEOREM ViewsAlwaysCounted == RecordsSpec => []ViewsCounted
<1>1. RecordsInv => ViewsCounted
  BY DEF RecordsInv
<1>2. QED  BY <1>1, RecordsInvHolds, PTL

LEMMA EvaluationsKept ==
  ASSUME RecordsInv, RecordsNext, NEW e \in Evaluations,
         evaluations[e] # Null, evaluations'[e] = Null
  PROVE  evaluations[e] < today
<1>1. \/ evaluations' = evaluations
      \/ \E t \in Threads, f \in Evaluations, saved \in BOOLEAN : Evaluate(t, f, saved)
      \/ \E t \in Threads : FinishCleanup(t)
  BY DEF RecordsNext, EvaluateProxy, CreateShareLink, FindExisting, BeginShare, InsertShare,
         InsertFails, ViewSharedResult, CountView, BeginView, Signup, FinishRegister,
         BeginRegister, Login, CreateSession, GetCurrentUser, DropSession, GetSession, Logout,
         InvalidateSession, DeleteSessions, Maintenance, BeginCleanup, CleanupShares,
         CleanupExpiredSessions, DeleteShare, InvalidateUserSessions, LockedOut, Restart,
         ClearHistory, NextDay
<1>2. ASSUME NEW t \in Threads, NEW f \in Evaluations, NEW saved \in BOOLEAN, Evaluate(t, f, saved)
      PROVE  FALSE
  BY <1>2 DEF Evaluate, RecordsInv, SharesInv
<1>3. ASSUME NEW t \in Threads, FinishCleanup(t)
      PROVE  e \in ExpiredEvaluations
  BY <1>3 DEF FinishCleanup
<1>4. QED  BY <1>1, <1>2, <1>3 DEF ExpiredEvaluations, Expired

LEMMA SharesKept ==
  ASSUME RecordsInv, RecordsNext, NEW tok \in Tokens, shares[tok] # Null, shares'[tok] = Null
  PROVE  \/ shares[tok].expires_at < today
         \/ evaluations'[shares[tok].evaluation] = Null
         \/ \E t \in Threads : DeleteShare(t, tok)
<1>1. \/ shares' = shares
      \/ \E t \in Threads, k \in Tokens : InsertShare(t, k)
      \/ \E t \in Threads : CountView(t)
      \/ \E t \in Threads, k \in Tokens : DeleteShare(t, k)
      \/ \E t \in Threads : FinishCleanup(t)
      \/ \E t \in Threads : CleanupShares(t)
  BY DEF RecordsNext, EvaluateProxy, Evaluate, CreateShareLink, FindExisting, BeginShare,
         InsertFails, ViewSharedResult, BeginView, Signup, FinishRegister,
         BeginRegister, Login, CreateSession, GetCurrentUser, DropSession, GetSession, Logout,
         InvalidateSession, DeleteSessions, Maintenance, BeginCleanup,
         CleanupExpiredSessions, InvalidateUserSessions, LockedOut, Restart,
         ClearHistory, NextDay
<1>2. ASSUME NEW t \in Threads, NEW k \in Tokens, InsertShare(t, k)
      PROVE  FALSE
  BY <1>2 DEF InsertShare, RecordsInv, SharesInv
<1>3. ASSUME NEW t \in Threads, CountView(t)
      PROVE  FALSE
  <2> DEFINE row == [shares[tok] EXCEPT !.view_count = shares[tok].view_count + 1]
  <2>1. shares[tok] \in Share
    BY DEF RecordsInv, SharesInv
  <2>2. row \in Share
    BY <2>1 DEF Share
  <2>3. shares'[tok] = shares[tok] \/ shares'[tok] = row
    BY <1>3 DEF CountView, Counted, RecordsInv, SharesInv
  <2> HIDE DEF row
  <2>4. QED  BY <2>2, <2>3, NullIsNoValue
<1>4. ASSUME NEW t \in Threads, NEW k \in Tokens, DeleteShare(t, k)
      PROVE  k = tok
  BY <1>4 DEF DeleteShare, RecordsInv, SharesInv
<1>5. ASSUME NEW t \in Threads, FinishCleanup(t)
      PROVE  evaluations'[shares[tok].evaluation] = Null
  <2>1. SharesIn(ExpiredEvaluations) \subseteq job[t].doomed /\ tok \in job[t].doomed
    BY <1>5 DEF FinishCleanup
  <2>2. Expired(evaluations[shares[tok].evaluation]) /\ shares[tok].evaluation \in Evaluations
        /\ evaluations[shares[tok].evaluation] # Null
    BY <1>5, <2>1 DEF FinishCleanup, RecordsInv, CleanupInv, SharesInv, Share
  <2>3. QED  BY <1>5, <2>1, <2>2 DEF FinishCleanup, ExpiredEvaluations
<1>6. ASSUME NEW t \in Threads, CleanupShares(t)
      PROVE  shares[tok].expires_at < today
  BY <1>6 DEF CleanupShares, Expired
<1>7. QED  BY <1>1, <1>2, <1>3, <1>4, <1>5, <1>6

LEMMA SessionsKept ==
  ASSUME RecordsInv, RecordsNext, NEW s \in Sessions, sessions[s] # Null, sessions'[s] = Null
  PROVE  \/ sessions[s].expires_at <= today
         \/ \E t \in Threads : InvalidateSession(t, s) \/ InvalidateUserSessions(t, sessions[s].user)
<1>1. \/ sessions' = sessions
      \/ \E t \in Threads, k \in Sessions, email \in Emails : CreateSession(t, k, email)
      \/ \E t \in Threads : DropSession(t)
      \/ \E t \in Threads, k \in Sessions : InvalidateSession(t, k)
      \/ \E t \in Threads : CleanupExpiredSessions(t)
      \/ \E t \in Threads, email \in Emails : InvalidateUserSessions(t, email)
  BY DEF RecordsNext, EvaluateProxy, Evaluate, CreateShareLink, FindExisting, BeginShare,
         InsertShare, InsertFails, ViewSharedResult, CountView, BeginView, Signup,
         FinishRegister, BeginRegister, Login, GetCurrentUser, GetSession, Logout,
         Maintenance, BeginCleanup, FinishCleanup, CleanupShares, DeleteShare, LockedOut,
         Restart, ClearHistory, NextDay
<1>2. sessions[s].expires_at \in Nat /\ today \in Nat
  BY DEF RecordsInv, SessionsInv, Session, Types
<1>3. ASSUME NEW t \in Threads, NEW k \in Sessions, NEW email \in Emails, CreateSession(t, k, email)
      PROVE  FALSE
  BY <1>3 DEF CreateSession, RecordsInv, SessionsInv
<1>4. ASSUME NEW t \in Threads, DropSession(t)
      PROVE  sessions[s].expires_at <= today
  <2>1. job[t].row = s
    BY <1>4 DEF DropSession, RecordsInv, SessionsInv
  <2>2. QED  BY <1>4, <2>1 DEF DropSession, RecordsInv, DropInv
<1>5. ASSUME NEW t \in Threads, NEW k \in Sessions, InvalidateSession(t, k)
      PROVE  k = s
  BY <1>5 DEF InvalidateSession, DeleteSessions
<1>6. ASSUME NEW t \in Threads, CleanupExpiredSessions(t)
      PROVE  sessions[s].expires_at <= today
  BY <1>2, <1>6 DEF CleanupExpiredSessions, DeleteSessions, ExpiredSessions, Expired
<1>7. ASSUME NEW t \in Threads, NEW email \in Emails, InvalidateUserSessions(t, email)
      PROVE  email = sessions[s].user
  BY <1>7 DEF InvalidateUserSessions, DeleteSessions, SessionsOf
<1>8. QED  BY <1>1, <1>3, <1>4, <1>5, <1>6, <1>7

\* No row goes before its time: the clean-up's two DELETEs, each with a clock of
\* its own, never take a share whose evaluation stays, nor a session that lives.
THEOREM AlwaysKeptUntilExpiry == RecordsSpec => KeptUntilExpiry
<1>1. RecordsInv /\ [RecordsNext]_recordVars => [KeptUntilExpiryA]_recordVars
  <2> SUFFICES ASSUME RecordsInv, RecordsNext
               PROVE  KeptUntilExpiryA
    OBVIOUS
  <2>1. QED  BY EvaluationsKept, SharesKept, SessionsKept DEF KeptUntilExpiryA
<1>2. QED  BY <1>1, RecordsInvHolds, PTL DEF RecordsSpec, KeptUntilExpiry
=============================================================================
