------------------------------ MODULE SessionRules ------------------------------
(***************************************************************************)
(* What the statements of an endpoint have to keep to, in whatever order   *)
(* requests run them: the context before a protected table, and the audit  *)
(* entry after a change.                                                   *)
(***************************************************************************)
EXTENDS Naturals, Sequences

\* Statements on a table with a row policy, and those that end a transaction.
Looks == {"find", "list", "write", "put", "entry"}
Ends == {"commit", "save", "close"}

\* Every statement on a protected table comes in a transaction that has a
\* context, or in a session in which a service function has committed; scoped
\* and saved say which of the two already hold when todo begins.
InScope(todo, scoped, saved) ==
  \A i \in 1..Len(todo) : todo[i] \in Looks =>
    \/ scoped /\ \A j \in 1..(i - 1) : todo[j] \notin Ends
    \/ saved /\ \A j \in 1..(i - 1) : todo[j] # "close"
    \/ \E k \in 1..(i - 1) :
         /\ todo[k] \in {"context", "bypass"}
         /\ \A j \in (k + 1)..(i - 1) : todo[j] \notin Ends
    \/ \E k \in 1..(i - 1) :
         /\ todo[k] = "save"
         /\ \A j \in (k + 1)..(i - 1) : todo[j] # "close"

\* What is not committed with the audit entry of the change before it.
Breaks == {"write", "join", "commit", "save", "close", "seed"}

\* After the k-th statement a commit comes before any of these.
Sealed(todo, k) ==
  \E j \in (k + 1)..Len(todo) :
    todo[j] \in {"commit", "save"} /\ \A m \in (k + 1)..(j - 1) : todo[m] \notin Breaks

\* After the i-th statement an audit entry is made and committed.
Entered(todo, i) == \E k \in (i + 1)..Len(todo) : todo[k] = "entry" /\ Sealed(todo, k)

\* Every change that has to be audited has its entry made and committed after
\* it; unsaved and owes say what has been changed before todo begins.
Settles(todo, unsaved, owes) ==
  /\ \A i \in 1..Len(todo) : todo[i] \in {"write", "join"} => Entered(todo, i)
  /\ owes \/ unsaved = "change" =>
       Entered(todo, 0) \/ (unsaved = "entry" /\ Sealed(todo, 0))

KeepsContext(scripts) == \A script \in scripts : InScope(script, FALSE, FALSE)
KeepsRecords(scripts) == \A script \in scripts : Settles(script, "nothing", FALSE)
================================================================================
