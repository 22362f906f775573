----------------------------- MODULE AuditRetention -----------------------------
(***************************************************************************)
(* Purging the audit log (scripts/purge_audit_logs.py) under the trigger   *)
(* that makes it append-only (alembic/versions/f6a7b8c9d0e1), while the    *)
(* application goes on writing to it and the script may be run twice.      *)
(*                                                                         *)
(* PostgreSQL is external: an insert takes a lock on the table that only   *)
(* excludes DDL, DROP TRIGGER takes one that excludes everybody, a request *)
(* for that one holds back everybody behind it, locks last to the end of   *)
(* the transaction, and what a transaction did is seen when it commits.    *)
(***************************************************************************)
EXTENDS Naturals, FiniteSets

CONSTANTS
  Purge,      \* runs of the script
  Writer,     \* sessions of the application
  Keep,       \* --older-than-days
  MaxDay      \* bound: the last day

ASSUME RetentionAssumption == Keep \in Nat \ {0} /\ MaxDay \in Nat
ASSUME SessionsFinite == IsFiniteSet(Writer)

VARIABLES
  day,
  audit_logs,   \* committed rows
  trigger,      \* is audit_logs_immutable there, as committed?
  script,       \* the purges
  writer        \* the sessions

retentionVars == <<day, audit_logs, trigger, script, writer>>

Entry(by, action, at, count) == [by |-> by, action |-> action, at |-> at, count |-> count]

RetentionTypeOK ==
  /\ day \in 0..MaxDay
  /\ audit_logs \subseteq
       [by : Purge \cup Writer, action : {"used", "audit.purge_initiated", "audit.purge_completed"},
        at : 0..MaxDay, count : 0..Cardinality(Writer)]
  /\ trigger \in BOOLEAN
  /\ script \in [Purge -> [pc : {"ready", "initiated", "waiting", "dropped", "deleted",
                                 "recreated", "done", "failed"},
                           start : 0..MaxDay, gone : SUBSET audit_logs]]
  /\ writer \in [Writer -> [pc : {"ready", "open", "done", "failed", "refused"}, at : 0..MaxDay]]

RetentionInit ==
  /\ day = 0
  /\ audit_logs = {}
  /\ trigger = TRUE
  /\ script = [p \in Purge |-> [pc |-> "ready", start |-> 0, gone |-> {}]]
  /\ writer = [w \in Writer |-> [pc |-> "ready", at |-> 0]]

NextDay ==
  /\ day < MaxDay
  /\ day' = day + 1
  /\ UNCHANGED <<audit_logs, trigger, script, writer>>

--------------------------------------------------------------------------------
\* Locks on the table

Writing(p) == script[p].pc \in {"initiated", "waiting"}
Exclusive(p) == script[p].pc \in {"dropped", "deleted", "recreated"}

\* A statement of another session runs: nobody has, or waits for, the exclusive lock.
Admitted == \A p \in Purge : script[p].pc # "waiting" /\ ~Exclusive(p)

\* Everybody else is out.
Alone(p) ==
  /\ \A q \in Purge \ {p} : ~Writing(q) /\ ~Exclusive(q)
  /\ \A w \in Writer : writer[w].pc # "open"

--------------------------------------------------------------------------------
\* The application

\* record_audit: created_at is when the transaction began.
WriterInsert(w) ==
  /\ writer[w].pc = "ready" /\ Admitted
  /\ writer' = [writer EXCEPT ![w] = [pc |-> "open", at |-> day]]
  /\ UNCHANGED <<day, audit_logs, trigger, script>>

WriterCommit(w) ==
  /\ writer[w].pc = "open"
  /\ audit_logs' = audit_logs \cup {Entry(w, "used", writer[w].at, 0)}
  /\ writer' = [writer EXCEPT ![w].pc = "done"]
  /\ UNCHANGED <<day, trigger, script>>

WriterFail(w) ==
  /\ writer[w].pc = "open"
  /\ writer' = [writer EXCEPT ![w].pc = "failed"]
  /\ UNCHANGED <<day, audit_logs, trigger, script>>

\* Any session tries to delete a row: the trigger raises.
WriterDelete(w) ==
  /\ writer[w].pc = "ready" /\ Admitted
  /\ \E entry \in audit_logs :
       IF trigger
       THEN /\ writer' = [writer EXCEPT ![w].pc = "refused"]
            /\ UNCHANGED audit_logs
       ELSE /\ writer' = [writer EXCEPT ![w].pc = "done"]
            /\ audit_logs' = audit_logs \ {entry}
  /\ UNCHANGED <<day, trigger, script>>

--------------------------------------------------------------------------------
\* The script, one action per statement

Initiate(p) ==
  /\ script[p].pc = "ready" /\ Admitted
  /\ script' = [script EXCEPT ![p].pc = "initiated", ![p].start = day]
  /\ UNCHANGED <<day, audit_logs, trigger, writer>>

\* DROP TRIGGER asks for its lock,
AskForTable(p) ==
  /\ script[p].pc = "initiated"
  /\ script' = [script EXCEPT ![p].pc = "waiting"]
  /\ UNCHANGED <<day, audit_logs, trigger, writer>>

\* Mutant: the script has no BEGIN, and every statement is committed on its own.
DropTriggerAtOnce(p) ==
  /\ script[p].pc = "waiting" /\ Alone(p)
  /\ script' = [script EXCEPT ![p].pc = "dropped"]
  /\ trigger' = FALSE
  /\ UNCHANGED <<day, audit_logs, writer>>

\* and gets it.
DropTrigger(p) ==
  /\ script[p].pc = "waiting" /\ Alone(p)
  /\ script' = [script EXCEPT ![p].pc = "dropped"]
  /\ UNCHANGED <<day, audit_logs, trigger, writer>>

\* Mutant: earlier purges are purged too.
AllExpired(start) == {entry \in audit_logs : entry.at + Keep < start}

\* What the DELETE deletes: now() is when the transaction began.
Expired(start) ==
  {entry \in audit_logs : entry.at + Keep < start /\ entry.action = "used"}

\* The DELETE, and the completion record with its count
DeleteExpired(p) ==
  /\ script[p].pc = "dropped"
  /\ script' = [script EXCEPT ![p].pc = "deleted", ![p].gone = Expired(script[p].start)]
  /\ UNCHANGED <<day, audit_logs, trigger, writer>>

CreateTrigger(p) ==
  /\ script[p].pc = "deleted"
  /\ script' = [script EXCEPT ![p].pc = "recreated"]
  /\ UNCHANGED <<day, audit_logs, trigger, writer>>

CommitPurge(p) ==
  /\ script[p].pc = "recreated"
  /\ audit_logs' = (audit_logs \ script[p].gone) \cup
       {Entry(p, "audit.purge_initiated", script[p].start, 0),
        Entry(p, "audit.purge_completed", script[p].start, Cardinality(script[p].gone))}
  /\ trigger' = TRUE
  /\ script' = [script EXCEPT ![p].pc = "done", ![p].gone = {}]
  /\ UNCHANGED <<day, writer>>

\* A statement fails, psql or the server dies, the operator gives up, or the deadlock
\* detector picks this one of two scripts that wait for each other: all is rolled back.
FailPurge(p) ==
  /\ script[p].pc \notin {"ready", "done", "failed"}
  /\ script' = [script EXCEPT ![p].pc = "failed", ![p].gone = {}]
  /\ UNCHANGED <<day, audit_logs, trigger, writer>>

RetentionNext ==
  \/ NextDay
  \/ \E w \in Writer : WriterInsert(w) \/ WriterCommit(w) \/ WriterFail(w) \/ WriterDelete(w)
  \/ \E p \in Purge : \/ Initiate(p) \/ AskForTable(p) \/ DropTrigger(p) \/ DeleteExpired(p)
                      \/ CreateTrigger(p) \/ CommitPurge(p) \/ FailPurge(p)

RetentionSpec == RetentionInit /\ [][RetentionNext]_retentionVars

--------------------------------------------------------------------------------

\* Whatever the interleaving of purges, writers and failures, rows leave the log only
\* together, old enough, never the record of a purge, and with a completion record that
\* counts exactly them: the deletion of history is itself part of the history.
RemovalsAccounted ==
  [][LET gone == audit_logs \ audit_logs'
     IN gone # {} =>
          /\ \A entry \in gone : entry.action = "used" /\ entry.at + Keep < day
          /\ \E entry \in audit_logs' \ audit_logs :
               entry.action = "audit.purge_completed" /\ entry.count = Cardinality(gone)]_audit_logs
================================================================================
