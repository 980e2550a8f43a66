------------------------------- MODULE Records -------------------------------
(***************************************************************************)
(* What is kept of evaluations and accounts: the evaluations, shares,      *)
(* users and sessions tables (persistence/, auth/) and the in-memory       *)
(* history (app/history_store.py), used by concurrent callers, each on a   *)
(* connection of its own (persistence/db.py: "one connection per thread"). *)
(*                                                                         *)
(* SQLite commits statement by statement outside a transaction; a SELECT   *)
(* opens none, the first INSERT, UPDATE or DELETE of a with-block does and *)
(* keeps the database's only write lock until the block ends.  So a call   *)
(* of one write is a step, and a call that reads and then writes is two:   *)
(* anything may be committed in between.                                   *)
(***************************************************************************)
EXTENDS Integers, Sequences, FiniteSets

CONSTANTS
  Threads,
  Evaluations,    \* ids of evaluations and of their history items
  Tokens,         \* what _generate_token may draw
  Emails,
  Sessions,       \* ids of sessions
  Null,           \* SQL NULL, Python's None
  Retention,      \* DEFAULT_RETENTION_DAYS
  ShareDays,      \* DEFAULT_SHARE_DAYS
  SessionDays,    \* duration_days
  Attempts,       \* the tokens create_share tries
  MaxItems,       \* HistoryStore.max_items
  LastDay,        \* bound: the clock stops here
  MaxCalls        \* bound: calls started

ASSUME RecordsAssumption ==
  /\ Retention \in Nat /\ ShareDays \in Nat /\ SessionDays \in Nat
  /\ Attempts \in Nat \ {0} /\ MaxItems \in Nat \ {0}
  /\ LastDay \in Nat /\ MaxCalls \in Nat
  /\ IsFiniteSet(Threads) /\ IsFiniteSet(Tokens)
  /\ Null \notin Threads \cup Evaluations \cup Tokens \cup Emails \cup Sessions

VARIABLES
  today,        \* datetime.utcnow()
  evaluations,  \* the table: expires_at by id, Null for no row
  shares,       \* the table by token
  users,        \* the emails of the users table
  sessions,     \* the table: expires_at by id
  history,      \* HistoryStore._order, newest first
  writer,       \* the thread whose transaction has the write lock, or Null
  job,          \* what each thread is doing
  calls,        \* calls started
  served        \* history variable: views served per token

recordVars == <<today, evaluations, shares, users, sessions, history, writer, job, calls, served>>

Idle == [pc |-> "idle", row |-> Null, tries |-> 0, seen |-> 0, doomed |-> {}]

RecordsInit ==
  /\ today = 0 /\ history = <<>> /\ writer = Null /\ calls = 0
  /\ evaluations = [e \in Evaluations |-> Null]
  /\ shares = [tok \in Tokens |-> Null]
  /\ users = {} /\ sessions = [s \in Sessions |-> Null]
  /\ job = [t \in Threads |-> Idle]
  /\ served = [tok \in Tokens |-> 0]

\* Live in a query ("expires_at > ?"), expired for a cleanup
\* ("expires_at < ?"): in the instant of expiry a row is neither.
Live(expires_at)    == expires_at > today
Expired(expires_at) == expires_at < today

Call(t) == job[t].pc = "idle" /\ calls < MaxCalls /\ calls' = calls + 1
Continue(t, pc, row) == job' = [job EXCEPT ![t] = [Idle EXCEPT !.pc = pc, !.row = row]]
Return(t) == job' = [job EXCEPT ![t] = Idle]

\* A uuid is never drawn twice: a name nothing refers to stands for a new one.
Unheard(id) == \A t \in Threads : job[t].row # id

-----------------------------------------------------------------------------
(* Evaluations: the evaluate route records its result in the database, and *)
(* in the history even when the database refused it.                       *)

\* HistoryStore.add evicts from the end of _order.
Evict(items) == SubSeq(items, 1, MaxItems)
AddToHistory(e) ==
  history' = IF Len(history) + 1 > MaxItems THEN Evict(<<e>> \o history) ELSE <<e>> \o history

Evaluate(t, e, saved) ==
  /\ Call(t) /\ Unheard(e)
  /\ evaluations[e] = Null /\ \A i \in DOMAIN history : history[i] # e
  /\ saved => writer = Null
  /\ evaluations' = IF saved THEN [evaluations EXCEPT ![e] = today + Retention] ELSE evaluations
  /\ AddToHistory(e)
  /\ UNCHANGED <<today, shares, users, sessions, writer, job, served>>

\* The process is restarted; a transaction in the middle is rolled back.
Restart ==
  /\ history' = <<>> /\ writer' = Null /\ job' = [t \in Threads |-> Idle]
  /\ UNCHANGED <<today, evaluations, shares, users, sessions, calls, served>>

\* HistoryStore.clear
ClearHistory ==
  /\ history # <<>> /\ history' = <<>>
  /\ UNCHANGED <<today, evaluations, shares, users, sessions, writer, job, calls, served>>

-----------------------------------------------------------------------------
(* shares.create_share                                                     *)

\* "SELECT 1 FROM evaluations": an expired evaluation still counts.
BeginShare(t, e) ==
  /\ Call(t)
  /\ IF evaluations[e] = Null THEN Return(t) ELSE Continue(t, "existing", e)
  /\ UNCHANGED <<today, evaluations, shares, users, sessions, history, writer, served>>

SharesOf(e) == {tok \in Tokens : shares[tok] # Null /\ shares[tok].evaluation = e}

\* Mutant: an expired share is looked for.
MutExpiredShares(e) == {tok \in SharesOf(e) : ~Live(shares[tok].expires_at)}
LiveShares(e) == {tok \in SharesOf(e) : Live(shares[tok].expires_at)}

\* A live share is returned, else one is inserted.
FindExisting(t) ==
  /\ job[t].pc = "existing"
  /\ IF LiveShares(job[t].row) # {} THEN Return(t) ELSE Continue(t, "insert", job[t].row)
  /\ UNCHANGED <<today, evaluations, shares, users, sessions, history, writer, calls, served>>

CanWrite(t) == writer \in {Null, t}

InsertShare(t, tok) ==
  /\ job[t].pc = "insert" /\ CanWrite(t)
  /\ shares[tok] = Null /\ evaluations[job[t].row] # Null
  /\ shares' = [shares EXCEPT ![tok] =
       [evaluation |-> job[t].row, expires_at |-> today + ShareDays, view_count |-> 0]]
  /\ served' = [served EXCEPT ![tok] = 0]
  /\ writer' = Null
  /\ Return(t)
  /\ UNCHANGED <<today, evaluations, users, sessions, history, calls>>

\* Whatever the INSERT raises is taken for a collision: the token is taken,
\* the evaluation was deleted (the foreign key), or somebody else has the
\* write lock.  But for the last the transaction stays open.  After the last
\* attempt the caller gets None.
InsertFails(t, tok) ==
  /\ job[t].pc = "insert"
  /\ CanWrite(t) => shares[tok] # Null \/ evaluations[job[t].row] = Null
  /\ IF job[t].tries + 1 = Attempts
     THEN /\ Return(t)
          /\ writer' = IF CanWrite(t) THEN Null ELSE writer
     ELSE /\ job' = [job EXCEPT ![t].tries = @ + 1]
          /\ writer' = IF CanWrite(t) THEN t ELSE writer
  /\ UNCHANGED <<today, evaluations, shares, users, sessions, history, calls, served>>

\* shares.delete_share
DeleteShare(t, tok) ==
  /\ Call(t) /\ writer = Null /\ shares[tok] # Null
  /\ shares' = [shares EXCEPT ![tok] = Null]
  /\ UNCHANGED <<today, evaluations, users, sessions, history, writer, job, served>>

-----------------------------------------------------------------------------
(* evaluations.get_evaluation_by_token                                     *)

Viewable(tok) == /\ shares[tok] # Null /\ Live(shares[tok].expires_at)
                 /\ evaluations[shares[tok].evaluation] # Null
                 /\ Live(evaluations[shares[tok].evaluation])

BeginView(t, tok) ==
  /\ Call(t) /\ Viewable(tok)
  /\ job' = [job EXCEPT ![t] =
       [Idle EXCEPT !.pc = "count", !.row = tok, !.seen = shares[tok].view_count]]
  /\ UNCHANGED <<today, evaluations, shares, users, sessions, history, writer, served>>

\* Mutant: the count that was read is written back, plus one.
MutCountSeen(row, seen) == [row EXCEPT !.view_count = seen + 1]

\* "SET view_count = view_count + 1"
Counted(row, seen) == [row EXCEPT !.view_count = row.view_count + 1]

\* The UPDATE finds the row, another row of the same token, or none.
CountView(t) ==
  LET tok == job[t].row IN
  /\ job[t].pc = "count" /\ writer = Null
  /\ IF shares[tok] = Null THEN UNCHANGED <<shares, served>>
     ELSE /\ shares' = [shares EXCEPT ![tok] = Counted(@, job[t].seen)]
          /\ served' = [served EXCEPT ![tok] = @ + 1]
  /\ Return(t)
  /\ UNCHANGED <<today, evaluations, users, sessions, history, writer, calls>>

-----------------------------------------------------------------------------
(* evaluations.cleanup_expired: two DELETEs, each with a clock of its own, *)
(* in one transaction.                                                     *)

ExpiredEvaluations ==
  {e \in Evaluations : evaluations[e] # Null /\ Expired(evaluations[e])}
SharesIn(ids) == {tok \in Tokens : shares[tok] # Null /\ shares[tok].evaluation \in ids}

\* Mutant: the first DELETE is committed by itself.
MutAutocommit(t) ==
  /\ Call(t) /\ writer = Null
  /\ shares' = [tok \in Tokens |->
       IF tok \in SharesIn(ExpiredEvaluations) THEN Null ELSE shares[tok]]
  /\ writer' = t
  /\ job' = [job EXCEPT ![t] = [Idle EXCEPT !.pc = "cleanup"]]
  /\ UNCHANGED <<today, evaluations, users, sessions, history, served>>

BeginCleanup(t) ==
  /\ Call(t) /\ writer = Null
  /\ writer' = t
  /\ job' = [job EXCEPT ![t] =
       [Idle EXCEPT !.pc = "cleanup", !.doomed = SharesIn(ExpiredEvaluations)]]
  /\ UNCHANGED <<today, evaluations, shares, users, sessions, history, served>>

\* An evaluation that has expired since the first DELETE still has its share:
\* the foreign key refuses, and everything is rolled back.
FinishCleanup(t) ==
  /\ job[t].pc = "cleanup"
  /\ IF SharesIn(ExpiredEvaluations) \subseteq job[t].doomed
     THEN /\ evaluations' = [e \in Evaluations |->
               IF e \in ExpiredEvaluations THEN Null ELSE evaluations[e]]
          /\ shares' = [tok \in Tokens |-> IF tok \in job[t].doomed THEN Null ELSE shares[tok]]
     ELSE UNCHANGED <<evaluations, shares>>
  /\ writer' = Null
  /\ Return(t)
  /\ UNCHANGED <<today, users, sessions, history, calls, served>>

\* shares.cleanup_expired
CleanupShares(t) ==
  /\ Call(t) /\ writer = Null
  /\ shares' = [tok \in Tokens |->
       IF shares[tok] # Null /\ Expired(shares[tok].expires_at) THEN Null ELSE shares[tok]]
  /\ UNCHANGED <<today, evaluations, users, sessions, history, writer, job, served>>

-----------------------------------------------------------------------------
(* auth/service.py                                                         *)

\* create_user looks the email up, hashes the password, inserts.
BeginRegister(t, email) ==
  /\ Call(t)
  /\ IF email \in users THEN Return(t) ELSE Continue(t, "register", email)
  /\ UNCHANGED <<today, evaluations, shares, users, sessions, history, writer, served>>

\* The UNIQUE email refuses the second of two racing registrations.
FinishRegister(t) ==
  /\ job[t].pc = "register" /\ writer = Null
  /\ users' = users \cup {job[t].row}
  /\ Return(t)
  /\ UNCHANGED <<today, evaluations, shares, sessions, history, writer, calls, served>>

CreateSession(t, s, email) ==
  /\ Call(t) /\ writer = Null /\ email \in users
  /\ sessions[s] = Null /\ Unheard(s)
  /\ sessions' = [sessions EXCEPT ![s] = [user |-> email, expires_at |-> today + SessionDays]]
  /\ UNCHANGED <<today, evaluations, shares, users, history, writer, job, served>>

\* Session.is_valid
IsValid(expires_at) == today < expires_at

\* get_session invalidates a session it finds expired.
GetSession(t, s) ==
  /\ Call(t) /\ sessions[s] # Null
  /\ IF IsValid(sessions[s].expires_at) THEN Return(t) ELSE Continue(t, "drop", s)
  /\ UNCHANGED <<today, evaluations, shares, users, sessions, history, writer, served>>
DropSession(t) ==
  /\ job[t].pc = "drop" /\ writer = Null
  /\ sessions' = [sessions EXCEPT ![job[t].row] = Null]
  /\ Return(t)
  /\ UNCHANGED <<today, evaluations, shares, users, history, writer, calls, served>>

\* A write while another transaction has the lock raises after its timeout.
LockedOut(t) ==
  /\ job[t].pc \in {"register", "drop", "count"} /\ writer # Null
  /\ Return(t)
  /\ UNCHANGED <<today, evaluations, shares, users, sessions, history, writer, calls, served>>

SessionsOf(email) == {s \in Sessions : sessions[s] # Null /\ sessions[s].user = email}
ExpiredSessions   == {s \in Sessions : sessions[s] # Null /\ Expired(sessions[s].expires_at)}
DeleteSessions(t, ids) ==
  /\ Call(t) /\ writer = Null /\ ids # {}
  /\ sessions' = [s \in Sessions |-> IF s \in ids THEN Null ELSE sessions[s]]
  /\ UNCHANGED <<today, evaluations, shares, users, history, writer, job, served>>

InvalidateSession(t, s)          == sessions[s] # Null /\ DeleteSessions(t, {s})
InvalidateUserSessions(t, email) == DeleteSessions(t, SessionsOf(email))
CleanupExpiredSessions(t)        == DeleteSessions(t, ExpiredSessions)

-----------------------------------------------------------------------------
NextDay == /\ today < LastDay /\ today' = today + 1
        /\ UNCHANGED <<evaluations, shares, users, sessions, history, writer, job, calls, served>>

\* The routes, and the maintenance nobody schedules.
EvaluateProxy(t)    == \E e \in Evaluations, saved \in BOOLEAN : Evaluate(t, e, saved)
CreateShareLink(t)  == \/ FindExisting(t) \/ \E e \in Evaluations : BeginShare(t, e)
                       \/ \E tok \in Tokens : InsertShare(t, tok) \/ InsertFails(t, tok)
ViewSharedResult(t) == CountView(t) \/ \E tok \in Tokens : BeginView(t, tok)
Signup(t)           == FinishRegister(t) \/ \E email \in Emails : BeginRegister(t, email)
Login(t)            == \E s \in Sessions, email \in Emails : CreateSession(t, s, email)
GetCurrentUser(t)   == DropSession(t) \/ \E s \in Sessions : GetSession(t, s)
Logout(t)           == \E s \in Sessions : InvalidateSession(t, s)
Maintenance(t) ==
  \/ BeginCleanup(t) \/ FinishCleanup(t) \/ CleanupShares(t) \/ CleanupExpiredSessions(t)
  \/ \E tok \in Tokens : DeleteShare(t, tok)
  \/ \E email \in Emails : InvalidateUserSessions(t, email)

RecordsNext ==
  \/ \E t \in Threads : \/ EvaluateProxy(t) \/ CreateShareLink(t) \/ ViewSharedResult(t)
                        \/ Signup(t) \/ Login(t) \/ GetCurrentUser(t) \/ Logout(t)
                        \/ Maintenance(t) \/ LockedOut(t)
  \/ Restart \/ ClearHistory \/ NextDay

RecordsSpec == RecordsInit /\ [][RecordsNext]_recordVars

-----------------------------------------------------------------------------
(* Properties                                                              *)

Share == [evaluation : Evaluations, expires_at : Nat, view_count : Nat]
Session == [user : Emails, expires_at : Nat]

ASSUME NullIsNoValue == Null \notin Nat \cup Share \cup Session

\* The tables have their types and their keys: every share is of an
\* evaluation that exists and every session of a registered user.  The
\* history is at most MaxItems long and lists nothing twice.
RecordsTypeOK ==
  /\ evaluations \in [Evaluations -> Nat \cup {Null}]
  /\ shares \in [Tokens -> Share \cup {Null}] /\ sessions \in [Sessions -> Session \cup {Null}]
  /\ \A tok \in Tokens : shares[tok] # Null => evaluations[shares[tok].evaluation] # Null
  /\ \A s \in Sessions : sessions[s] # Null => sessions[s].user \in users
  /\ Len(history) <= MaxItems
  /\ \A i, j \in DOMAIN history : i # j => history[i] # history[j]
  /\ writer # Null => job[writer].pc \in {"insert", "cleanup"}

\* The count of views of a share is the number of times it was served, however
\* many views overlap (evaluations.py: the UPDATE adds to the row it finds).
ViewsCounted == \A tok \in Tokens : shares[tok] # Null => shares[tok].view_count = served[tok]

\* create_share gives a live share back rather than make another; it checks
\* before it inserts, so an evaluation has at most one live share for each
\* caller that may be in between.
SharesBounded == \A e \in Evaluations : Cardinality(LiveShares(e)) <= Cardinality(Threads)

\* Whatever overlaps, fails or restarts, the tables agree with one another: keys
\* refer to rows that are there, and a slip is shared once per racing caller.
TablesAgree == RecordsTypeOK /\ SharesBounded

\* No row goes before its time: an evaluation when it has expired; a share
\* when it has, when it is deleted by name, or in the same commit as its
\* evaluation, which may cut its days short: see ShareLinksLast; a session when
\* it has expired or its user logs out.
KeptUntilExpiryA ==
  /\ \A e \in Evaluations : evaluations[e] # Null /\ evaluations'[e] = Null => evaluations[e] < today
  /\ \A tok \in Tokens : shares[tok] # Null /\ shares'[tok] = Null =>
       \/ shares[tok].expires_at < today \/ evaluations'[shares[tok].evaluation] = Null
       \/ \E t \in Threads : DeleteShare(t, tok)
  /\ \A s \in Sessions : sessions[s] # Null /\ sessions'[s] = Null =>
       \/ sessions[s].expires_at <= today
       \/ \E t \in Threads : InvalidateSession(t, s) \/ InvalidateUserSessions(t, sessions[s].user)
KeptUntilExpiry == [][KeptUntilExpiryA]_recordVars

=============================================================================
