--------------------------- MODULE StorytimeReview ---------------------------
(***************************************************************************)
(* One item of content under moderation: its removal and restoration by    *)
(* administrators, the appeals of its owner, the reports of one member     *)
(* and the audit trail, of which the last act on the content and the       *)
(* appeals recorded as decided are kept.                                   *)
(***************************************************************************)
EXTENDS Naturals, FiniteSets

CONSTANTS
  None,
  Requests,  \* concurrent handlers
  Appeals,   \* ids of appeal rows
  Reports    \* ids of the member's report rows

AppealStatus == {"SUBMITTED", "UPHELD", "REJECTED", "WITHDRAWN"}
ReportStatus == {"OPEN", "UNDER_REVIEW", "ACTIONED", "DISMISSED"}
Spent == {"SUBMITTED", "UPHELD", "REJECTED"}
LiveStatuses == {"OPEN", "UNDER_REVIEW"}

VARIABLES
  content,   \* moderationStatus
  appeal, report,   \* status of every row, or None
  trail,     \* the last audit entry about the content, and the appeals in it
  table,     \* what each handler is about to do
  upheld     \* history: appeals upheld since the last removal

vars == <<content, appeal, report, trail, table, upheld>>

Idle == [op |-> "idle", key |-> None, status |-> None]
Hold(r, op, key, status) == table' = [table EXCEPT ![r] = [op |-> op, key |-> key, status |-> status]]
Done(r) == table' = [table EXCEPT ![r] = Idle]
At(r, op) == table[r].op = op
Free(r) == table[r] = Idle

Decisions == <<appeal, report>>

(***************************************************************************)
(* Removal and restoration.                                                *)
(***************************************************************************)
RemoveContent(r) ==
  /\ Free(r) /\ content = "ACTIVE"
  /\ Hold(r, "content", None, "REMOVED")
  /\ UNCHANGED <<content, Decisions, trail, upheld>>

RestoreContent(r) ==
  /\ Free(r) /\ content = "REMOVED"
  /\ Hold(r, "content", None, "ACTIVE")
  /\ UNCHANGED <<content, Decisions, trail, upheld>>

SaveContent(r) ==
  /\ At(r, "content")
  /\ content' = table[r].status
  /\ upheld' = IF content' = "REMOVED" THEN {} ELSE upheld
  /\ Hold(r, "record", table[r].key, table[r].status)
  /\ UNCHANGED <<Decisions, trail>>

\* record, of an act on the content; an upheld appeal is recorded next.
Record(r) ==
  /\ At(r, "record")
  /\ trail' = [trail EXCEPT !.act = table[r].status]
  /\ IF table[r].key = None THEN Done(r) ELSE Hold(r, "decided", table[r].key, None)
  /\ UNCHANGED <<content, Decisions, upheld>>

(***************************************************************************)
(* Appeals.                                                                *)
(***************************************************************************)
RaiseAppeal(r, a) ==
  /\ Free(r) /\ content = "REMOVED"
  /\ appeal[a] = None /\ \A b \in Appeals : appeal[b] \notin Spent
  /\ \A q \in Requests : table[q].key # a
  /\ Hold(r, "raise", a, "SUBMITTED")
  /\ UNCHANGED <<content, Decisions, trail, upheld>>

Withdraw(r, a) ==
  /\ Free(r) /\ appeal[a] = "SUBMITTED"
  /\ Hold(r, "raise", a, "WITHDRAWN")
  /\ UNCHANGED <<content, Decisions, trail, upheld>>

\* Mutant of Decide: an answer that only adds notes leaves the appeal open.
DecideLeavingOpen(r, a, uphold) ==
  /\ Free(r) /\ appeal[a] = "SUBMITTED"
  /\ Hold(r, "decide", a, IF uphold THEN "UPHELD" ELSE "SUBMITTED")
  /\ UNCHANGED <<content, Decisions, trail, upheld>>

Decide(r, a, uphold) ==
  /\ Free(r) /\ appeal[a] = "SUBMITTED"
  /\ Hold(r, "decide", a, IF uphold THEN "UPHELD" ELSE "REJECTED")
  /\ UNCHANGED <<content, Decisions, trail, upheld>>

\* The save that ends create and withdraw.
SaveAppeal(r) ==
  /\ At(r, "raise")
  /\ appeal' = [appeal EXCEPT ![table[r].key] = table[r].status]
  /\ Done(r)
  /\ UNCHANGED <<content, report, trail, upheld>>

\* Mutant of SaveDecision: an upheld appeal is saved like a rejected one.
SaveDecisionOnly(r) ==
  /\ At(r, "decide")
  /\ appeal' = [appeal EXCEPT ![table[r].key] = table[r].status]
  /\ upheld' = IF table[r].status = "UPHELD" THEN upheld \cup {table[r].key} ELSE upheld
  /\ Hold(r, "decided", table[r].key, None)
  /\ UNCHANGED <<content, report, trail>>

\* decide saves its answer first; an upheld one then restores the content.
SaveDecision(r) ==
  /\ At(r, "decide")
  /\ appeal' = [appeal EXCEPT ![table[r].key] = table[r].status]
  /\ upheld' = IF table[r].status = "UPHELD" THEN upheld \cup {table[r].key} ELSE upheld
  /\ Hold(r, IF table[r].status = "UPHELD" THEN "restore" ELSE "decided", table[r].key, None)
  /\ UNCHANGED <<content, report, trail>>

\* restore refuses content that somebody restored already, and decide with it.
RestoreUpheld(r) ==
  /\ At(r, "restore")
  /\ IF content = "REMOVED" THEN Hold(r, "content", table[r].key, "ACTIVE") ELSE Done(r)
  /\ UNCHANGED <<content, Decisions, trail, upheld>>

RecordDecision(r) ==
  /\ At(r, "decided")
  /\ trail' = [trail EXCEPT !.appeals = @ \cup {table[r].key}]
  /\ Done(r)
  /\ UNCHANGED <<content, Decisions, upheld>>

(***************************************************************************)
(* Reports.                                                                *)
(***************************************************************************)
\* UQ_storytime_report_one_live_per_target.
OneLive(reports) == \A p, q \in Reports : {reports[p], reports[q]} \subseteq LiveStatuses => p = q

CreateReport(r, p) ==
  /\ Free(r) /\ report[p] = None
  /\ \A q \in Reports : report[q] \notin LiveStatuses
  /\ \A q \in Requests : table[q].key # p
  /\ Hold(r, "report", p, "OPEN")
  /\ UNCHANGED <<content, Decisions, trail, upheld>>

\* resolve accepts any status for a report of any status.
ResolveReport(r, p, status) ==
  /\ Free(r) /\ report[p] # None
  /\ Hold(r, "report", p, status)
  /\ UNCHANGED <<content, Decisions, trail, upheld>>

\* The audit entry of a resolved report is not about the content.
SaveReport(r) ==
  LET reports == [report EXCEPT ![table[r].key] = table[r].status] IN
  /\ At(r, "report")
  /\ report' = IF OneLive(reports) THEN reports ELSE report
  /\ Done(r)
  /\ UNCHANGED <<content, appeal, trail, upheld>>

\* A statement fails, or the process dies: the rest of the handler is not run.
Fail(r) ==
  /\ ~Free(r) /\ Done(r)
  /\ UNCHANGED <<content, Decisions, trail, upheld>>

Init ==
  /\ content = "ACTIVE"
  /\ appeal = [a \in Appeals |-> None] /\ report = [p \in Reports |-> None]
  /\ trail = [act |-> "ACTIVE", appeals |-> {}]
  /\ table = [r \in Requests |-> Idle]
  /\ upheld = {}

Handle(r) ==
  \/ RemoveContent(r) \/ RestoreContent(r) \/ SaveContent(r) \/ Record(r)
  \/ \E a \in Appeals : RaiseAppeal(r, a) \/ Withdraw(r, a)
  \/ \E a \in Appeals, uphold \in BOOLEAN : Decide(r, a, uphold)
  \/ SaveAppeal(r) \/ SaveDecision(r) \/ RestoreUpheld(r) \/ RecordDecision(r)
  \/ \E p \in Reports : CreateReport(r, p)
  \/ \E p \in Reports, status \in ReportStatus : ResolveReport(r, p, status)
  \/ SaveReport(r)

Next == \E r \in Requests : Handle(r) \/ Fail(r)

Spec == Init /\ [][Next]_vars

\* One handler at a time, and none of its statements fails.
Alone == Cardinality({r \in Requests : ~Free(r)}) <= 1
Serial == (\E r \in Requests : Handle(r)) /\ Alone'
SerialSpec == Init /\ [][Serial]_vars

(***************************************************************************)
(* Properties.                                                             *)
(***************************************************************************)
TypeOK ==
  /\ content \in {"ACTIVE", "REMOVED"}
  /\ appeal \in [Appeals -> AppealStatus \cup {None}]
  /\ report \in [Reports -> ReportStatus \cup {None}]
  /\ trail \in [act : {"ACTIVE", "REMOVED"}, appeals : SUBSET Appeals]
  /\ upheld \subseteq Appeals

\* An answer is final: although answers race with withdrawals and with each
\* other, and handlers fail half way, no appeal is ever put back to be answered
\* again.
AnsweredForGood ==
  [][\A a \in Appeals : appeal'[a] = "SUBMITTED" => appeal[a] \in {None, "SUBMITTED"}]_vars

\* With one handler at a time, upholding an appeal restores the content as part
\* of the same act, one appeal is spent at most, the trail tells what became of
\* the content, and no member has two reports of it waiting.
ReviewSettled ==
  (\A r \in Requests : Free(r)) =>
    /\ upheld # {} => content = "ACTIVE"
    /\ Cardinality({a \in Appeals : appeal[a] \in Spent}) <= 1
    /\ trail.act = content
    /\ OneLive(report)
=============================================================================
