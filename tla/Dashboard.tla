------------------------------- MODULE Dashboard -------------------------------
(***************************************************************************)
(* The dashboard of one tenant (app/dashboard): transactions and KPIs are  *)
(* recorded, deals are moved along, and pages are put together from        *)
(* several selects.  An action is a statement or a commit; under READ      *)
(* COMMITTED each select sees what is committed when it runs.              *)
(*                                                                         *)
(* Approvals and audit entries, which the briefing also counts, are kept   *)
(* by other modules.                                                       *)
(***************************************************************************)
EXTENDS AIGateway, Integers, FiniteSets

CONSTANTS
  Visit,      \* requests to /dashboard
  Deal,       \* sales deals
  Stage,      \* the values of DealStage in use
  Amount,     \* amounts of transactions: any number is taken, a negative one included
  Limit,      \* rows a list shows: 20 transactions, 100 KPIs
  MaxClock    \* bound: where the clock stops

ASSUME DashboardAssumption ==
  /\ {"lead", "won", "lost"} \subseteq Stage /\ "none" \notin Stage
  /\ Amount \subseteq Int /\ Limit \in Nat \ {0} /\ MaxClock \in Nat

VARIABLES
  clock,
  rows,      \* financial_transactions and kpi_metrics, in the order of commits
  total,     \* the sum of the amounts of each kind: rows are never changed or deleted
  deals,     \* sales_deals: the stage of each, "none" if it does not exist
  moves,     \* audit log: <<deal, stage>> of each deal.created and deal.stage_updated
  mixed,     \* history: deals with two updates at once, or one cut before its audit entry
  visit      \* the requests

dashVars == <<clock, rows, total, deals, moves, mixed, visit>>

Kind == {"income", "expense", "kpi"}

\* Mutant: the expenses are summed first.
ExpensesFirst(page) ==
  CASE page = "financial_summary" -> <<"expense", "income", "recent">>
    [] page = "ceo_briefing" -> <<"open", "expense", "income">>
    [] page = "list_kpis" -> <<"kpis">>
    [] page = "list_pipeline" -> <<"pipeline">>

\* Mutant: the list is read before the sums.
ListFirst(page) ==
  CASE page = "financial_summary" -> <<"recent", "income", "expense">>
    [] page = "ceo_briefing" -> <<"open", "income", "expense">>
    [] page = "list_kpis" -> <<"kpis">>
    [] page = "list_pipeline" -> <<"pipeline">>

\* The selects of each page, in order.
Selects(page) ==
  CASE page = "financial_summary" -> <<"income", "expense", "recent">>
    [] page = "ceo_briefing" -> <<"open", "income", "expense">>
    [] page = "list_kpis" -> <<"kpis">>
    [] page = "list_pipeline" -> <<"pipeline">>
Page == {"financial_summary", "ceo_briefing", "list_kpis", "list_pipeline"}

\* What a sum adds up: the total of the first rows, those committed when it was read.
NoBooks == [rows |-> 0, income |-> 0, expense |-> 0]
Books == [rows |-> Len(rows), income |-> total.income, expense |-> total.expense]

Unread == [income |-> NoBooks, expense |-> NoBooks, recent |-> {}, kpis |-> {},
           open |-> {}, pipeline |-> {}]

NewVisit == [pc |-> "new", op |-> "none", at |-> 0, amount |-> 0, deal |-> "none",
             stage |-> "none", loaded |-> "none", todo |-> <<>>, shown |-> Unread,
             narrative |-> FALSE]

DashboardTypeOK ==
  /\ clock \in 0..MaxClock
  /\ rows \in Seq([kind : Kind, at : 0..MaxClock, amount : Int])
  /\ total \in [income : Int, expense : Int]
  /\ deals \in [Deal -> Stage \cup {"none"}]
  /\ moves \in Seq(Deal \X Stage)
  /\ mixed \subseteq Deal
  /\ \A v \in Visit :
       /\ visit[v].pc \in {"new", "save", "audit", "read", "synthesize", "done", "cut"}
       /\ visit[v].op \in Kind \cup Page \cup {"none", "create_deal", "update_deal_stage"}
       /\ visit[v].shown.recent \subseteq DOMAIN rows

DashboardInit ==
  /\ clock = 0
  /\ rows = <<>>
  /\ total = [income |-> 0, expense |-> 0]
  /\ deals \in [Deal -> {"none", "lead"}]
  /\ moves = <<>>
  /\ mixed = {}
  /\ visit = [v \in Visit |-> NewVisit]

Tick ==
  /\ clock < MaxClock
  /\ clock' = clock + 1
  /\ UNCHANGED <<rows, total, deals, moves, mixed, visit>>

--------------------------------------------------------------------------------
\* record_transaction, record_kpi: recorded_at is when the transaction began.  A KPI has
\* a value of its own, in a table of its own.

BeginRecord(v) ==
  /\ visit[v].pc = "new"
  /\ \E kind \in Kind : \E amount \in IF kind = "kpi" THEN {0} ELSE Amount :
       visit' = [visit EXCEPT ![v].pc = "save", ![v].op = kind, ![v].at = clock,
                              ![v].amount = amount]
  /\ UNCHANGED <<clock, rows, total, deals, moves, mixed>>

SaveRecord(v) ==
  /\ visit[v].pc = "save" /\ visit[v].op \in Kind
  /\ rows' = Append(rows, [kind |-> visit[v].op, at |-> visit[v].at,
                            amount |-> visit[v].amount])
  /\ total' = [kind \in {"income", "expense"} |->
                 total[kind] + IF kind = visit[v].op THEN visit[v].amount ELSE 0]
  /\ visit' = [visit EXCEPT ![v].pc = "audit"]
  /\ UNCHANGED <<clock, deals, moves, mixed>>

AuditRecord(v) ==
  /\ visit[v].pc = "audit" /\ visit[v].op \in Kind
  /\ visit' = [visit EXCEPT ![v].pc = "done"]
  /\ UNCHANGED <<clock, rows, total, deals, moves, mixed>>

--------------------------------------------------------------------------------
\* create_deal, update_deal_stage

BeginCreate(v) ==
  /\ visit[v].pc = "new"
  /\ \E d \in Deal :
       /\ deals[d] = "none"
       /\ \A w \in Visit : visit[w].op = "create_deal" => visit[w].deal # d    \* a fresh id
       /\ visit' = [visit EXCEPT ![v].pc = "save", ![v].op = "create_deal", ![v].deal = d,
                                 ![v].stage = "lead"]
  /\ UNCHANGED <<clock, rows, total, deals, moves, mixed>>

\* Requests between their select, or insert, of d and its audit entry.
Moving(d) == {w \in Visit : visit[w].deal = d /\ visit[w].pc \in {"save", "audit"}}

\* Mutant: one session serves every request, and its identity map answers with the
\* object it loaded first.
LoadStaleDeal(v) ==
  /\ visit[v].pc = "new"
  /\ \E d \in Deal, stage \in Stage :
       /\ visit' = IF deals[d] = "none"
                   THEN [visit EXCEPT ![v].pc = "done", ![v].op = "update_deal_stage"]
                   ELSE [visit EXCEPT ![v].pc = "save", ![v].op = "update_deal_stage",
                                      ![v].deal = d, ![v].stage = stage, ![v].loaded = "lead"]
       /\ mixed' = IF deals[d] # "none" /\ Moving(d) # {} THEN mixed \cup {d} ELSE mixed
  /\ UNCHANGED <<clock, rows, total, deals, moves>>

\* 404 if there is no such deal
LoadDeal(v) ==
  /\ visit[v].pc = "new"
  /\ \E d \in Deal, stage \in Stage :
       /\ visit' = IF deals[d] = "none"
                   THEN [visit EXCEPT ![v].pc = "done", ![v].op = "update_deal_stage"]
                   ELSE [visit EXCEPT ![v].pc = "save", ![v].op = "update_deal_stage",
                                      ![v].deal = d, ![v].stage = stage, ![v].loaded = deals[d]]
       /\ mixed' = IF deals[d] # "none" /\ Moving(d) # {} THEN mixed \cup {d} ELSE mixed
  /\ UNCHANGED <<clock, rows, total, deals, moves>>

\* An object is written only if it differs from what was loaded.
SaveDeal(v) ==
  /\ visit[v].pc = "save" /\ visit[v].op \in {"create_deal", "update_deal_stage"}
  /\ deals' = IF visit[v].stage = visit[v].loaded THEN deals
              ELSE [deals EXCEPT ![visit[v].deal] = visit[v].stage]
  /\ visit' = [visit EXCEPT ![v].pc = "audit"]
  /\ UNCHANGED <<clock, rows, total, moves, mixed>>

AuditDeal(v) ==
  /\ visit[v].pc = "audit" /\ visit[v].op \in {"create_deal", "update_deal_stage"}
  /\ moves' = Append(moves, <<visit[v].deal, visit[v].stage>>)
  /\ visit' = [visit EXCEPT ![v].pc = "done"]
  /\ UNCHANGED <<clock, rows, total, deals, mixed>>

--------------------------------------------------------------------------------
\* Pages

OfKind(kinds) == {i \in DOMAIN rows : rows[i].kind \in kinds}

\* The newest rows of a set, ties in any order
Newest(set) ==
  {top \in SUBSET set :
     /\ Cardinality(top) = IF Cardinality(set) < Limit THEN Cardinality(set) ELSE Limit
     /\ \A i \in top, j \in set \ top : rows[i].at >= rows[j].at}

\* What a select may return
Result(select) ==
  CASE select \in {"income", "expense"} -> {Books}
    [] select = "recent" -> Newest(OfKind({"income", "expense"}))
    [] select = "kpis" -> Newest(OfKind({"kpi"}))
    [] select = "open" -> {{d \in Deal : deals[d] \notin {"none", "won", "lost"}}}
    [] select = "pipeline" -> {{d \in Deal : deals[d] # "none"}}

BeginPage(v) ==
  /\ visit[v].pc = "new"
  /\ \E page \in Page :
       visit' = [visit EXCEPT ![v].pc = "read", ![v].op = page, ![v].todo = Selects(page)]
  /\ UNCHANGED <<clock, rows, total, deals, moves, mixed>>

ReadNext(v) ==
  /\ visit[v].pc = "read"
  /\ \E result \in Result(Head(visit[v].todo)) :
       visit' = [visit EXCEPT ![v].shown[Head(visit[v].todo)] = result,
                              ![v].todo = Tail(@),
                              ![v].pc = IF Len(visit[v].todo) > 1 THEN "read"
                                        ELSE IF visit[v].op = "ceo_briefing" THEN "synthesize"
                                        ELSE "done"]
  /\ UNCHANGED <<clock, rows, total, deals, moves, mixed>>

\* The narrative of the briefing; without an answer the figures are shown alone.
Synthesize(v) ==
  /\ visit[v].pc = "synthesize"
  /\ \E reply \in GenerateOutcomes("executive_office", "briefing_synthesis", Provider) :
       visit' = [visit EXCEPT ![v].pc = "done", ![v].narrative = (reply # NoAnswer)]
  /\ UNCHANGED <<clock, rows, total, deals, moves, mixed>>

\* The request stops between two awaits.
CutVisit(v) ==
  /\ visit[v].pc \notin {"new", "done", "cut"}
  /\ visit' = [visit EXCEPT ![v].pc = "cut"]
  /\ mixed' = IF visit[v].pc = "audit" /\ visit[v].deal \in Deal
              THEN mixed \cup {visit[v].deal} ELSE mixed
  /\ UNCHANGED <<clock, rows, total, deals, moves>>

VisitStep(v) ==
  \/ BeginRecord(v) \/ SaveRecord(v) \/ AuditRecord(v)
  \/ BeginCreate(v) \/ LoadDeal(v) \/ SaveDeal(v) \/ AuditDeal(v)
  \/ BeginPage(v) \/ ReadNext(v) \/ Synthesize(v) \/ CutVisit(v)

DashboardNext == Tick \/ \E v \in Visit : VisitStep(v)

DashboardSpec == DashboardInit /\ [][DashboardNext]_dashVars

--------------------------------------------------------------------------------

Complete(v) == visit[v].pc \in {"synthesize", "done"}

\* A transaction of this kind with a negative amount, a refund say, was committed between
\* the reads of two sums.
Refunded(kind, first, last) ==
  \E i \in (first.rows + 1)..last.rows : rows[i].kind = kind /\ rows[i].amount < 0

\* Income and expense are two selects, and what is committed in between may make the net of
\* a summary or a briefing wrong about every moment.  It is above the net at the first
\* select only by a negative expense recorded in between, above the net at the second only
\* by a negative income recorded in between; amounts of zero or more never overstate it.
OverstatedByRefundsOnly ==
  \A v \in Visit : Complete(v) /\ visit[v].op \in {"financial_summary", "ceo_briefing"} =>
    LET first == visit[v].shown.income
        last == visit[v].shown.expense
        net == first.income - last.expense
    IN  /\ net > first.income - first.expense => Refunded("expense", first, last)
        /\ net > last.income - last.expense => Refunded("income", first, last)

\* The transactions in the totals of a page
Counted(v) ==
  {i \in DOMAIN rows : \/ rows[i].kind = "income" /\ i <= visit[v].shown.income.rows
                       \/ rows[i].kind = "expense" /\ i <= visit[v].shown.expense.rows}

\* Every transaction in the totals of a summary is in its list of recent transactions,
\* unless the list is full of transactions at least as recent.
CountedThenListed ==
  \A v \in Visit : Complete(v) /\ visit[v].op = "financial_summary" =>
    \A i \in Counted(v) \ visit[v].shown.recent :
      /\ Cardinality(visit[v].shown.recent) = Limit
      /\ \A j \in visit[v].shown.recent : rows[j].at >= rows[i].at

\* What the totals of a page say, together: only a refund recorded while the page is put
\* together overstates its net, and it counts nothing its list could show and does not.
TotalsStand == OverstatedByRefundsOnly /\ CountedThenListed

\* The stage of a deal according to the audit log
Audited(d) == {i \in DOMAIN moves : moves[i][1] = d}
LastWord(d) == moves[CHOOSE i \in Audited(d) : \A j \in Audited(d) : j <= i][2]

\* The stage of a deal is the last one audited, unless updates of it overlapped or one
\* stopped before its audit entry, or one is just being made: a save that finds nothing
\* to write, and a request for what the deal already is, do not part the two.
LastWordStands ==
  \A d \in Deal \ mixed : Audited(d) # {} /\ Moving(d) = {} => deals[d] = LastWord(d)
================================================================================
