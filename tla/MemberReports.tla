---------------------------- MODULE MemberReports -----------------------------
(***************************************************************************)
(* The reports members make about one member, and what disabling that      *)
(* member does to them (moderation/report.service.ts and                   *)
(* user-moderation.service.ts).                                            *)
(***************************************************************************)
EXTENDS Naturals, FiniteSets

CONSTANTS
  None,
  Requests,   \* concurrent handlers
  Reporters,
  Complaints  \* ids of report rows

VARIABLES
  complaint,  \* user_report: who made it, its status, whether it was reviewed
  disabled,   \* isAccountDisabled of the member they name
  review,     \* what each handler is about to write
  takenUp     \* history: the reports updated since the member was last disabled

vars == <<complaint, disabled, review, takenUp>>

Unresolved == {"OPEN", "UNDER_REVIEW"}
Statuses == Unresolved \cup {"ACTIONED", "DISMISSED"}
ComplaintRow == [by : Reporters, status : Statuses, reviewed : BOOLEAN]

Nothing == [op |-> "none", of |-> None, row |-> None]
Soon(r, op, of, row) == review' = [review EXCEPT ![r] = [op |-> op, of |-> of, row |-> row]]
Done(r) == review' = [review EXCEPT ![r] = Nothing]
Open(c) == IF complaint[c] = None THEN FALSE ELSE complaint[c].status \in Unresolved

\* reportMember: only an active member can be reported, and only once until the
\* report is resolved.
ReportMember(r, u) ==
  /\ review[r] = Nothing /\ ~disabled
  /\ \A c \in Complaints : Open(c) => complaint[c].by # u
  /\ Soon(r, "insert", None, [by |-> u, status |-> "OPEN", reviewed |-> FALSE])
  /\ UNCHANGED <<complaint, disabled, takenUp>>

\* updateForAdmin: any status may follow any other.
UpdateForAdmin(r, c, status) ==
  /\ review[r] = Nothing /\ complaint[c] # None
  /\ Soon(r, "save", c, [complaint[c] EXCEPT !.status = status, !.reviewed = TRUE])
  /\ UNCHANGED <<complaint, disabled, takenUp>>

\* disableUser: the account is saved first, its sessions are revoked (see
\* AuthSession), then the reports are actioned.
DisableUser(r) ==
  /\ review[r] = Nothing
  /\ disabled' = TRUE
  /\ Soon(r, "action", None, None)
  /\ UNCHANGED <<complaint, takenUp>>

EnableUser(r) ==
  /\ review[r] = Nothing
  /\ disabled' = FALSE
  /\ UNCHANGED <<complaint, review, takenUp>>

Write(r) ==
  LET v == review[r] IN
  /\ \/ /\ v.op = "insert"
        /\ \E c \in Complaints :
             complaint[c] = None /\ complaint' = [complaint EXCEPT ![c] = v.row]
        /\ UNCHANGED takenUp
     \/ /\ v.op = "save"
        /\ complaint' = [complaint EXCEPT ![v.of] = v.row]
        /\ takenUp' = takenUp \cup {v.of}
  /\ Done(r) /\ UNCHANGED disabled

\* Mutant of ActionReports: what an administrator works on is left to them.
ActionOpenReports(r) ==
  /\ review[r].op = "action"
  /\ complaint' = [c \in Complaints |->
       IF Open(c) /\ ~complaint[c].reviewed
       THEN [complaint[c] EXCEPT !.status = "ACTIONED", !.reviewed = TRUE] ELSE complaint[c]]
  /\ takenUp' = {}
  /\ Done(r) /\ UNCHANGED disabled

\* actionReportsAgainst closes every unresolved report in one statement.
ActionReports(r) ==
  /\ review[r].op = "action"
  /\ complaint' = [c \in Complaints |->
       IF Open(c) THEN [complaint[c] EXCEPT !.status = "ACTIONED", !.reviewed = TRUE] ELSE complaint[c]]
  /\ takenUp' = {}
  /\ Done(r) /\ UNCHANGED disabled

Init ==
  /\ complaint = [c \in Complaints |-> None] /\ disabled = FALSE
  /\ review = [r \in Requests |-> Nothing] /\ takenUp = {}

Next ==
  \E r \in Requests :
    \/ \E u \in Reporters : ReportMember(r, u)
    \/ \E c \in Complaints, status \in Statuses : UpdateForAdmin(r, c, status)
    \/ DisableUser(r) \/ EnableUser(r) \/ Write(r) \/ ActionReports(r)

Spec == Init /\ [][Next]_vars

\* One handler at a time.
Serial == Next /\ Cardinality({r \in Requests : review'[r] # Nothing}) <= 1
SerialSpec == Init /\ [][Serial]_vars

TypeOK ==
  /\ complaint \in [Complaints -> ComplaintRow \cup {None}]
  /\ disabled \in BOOLEAN /\ takenUp \subseteq Complaints
  /\ \A r \in Requests : review[r].op \in {"insert", "save"} => review[r].row \in ComplaintRow

\* With one handler at a time, disabling a member closes the reports that led
\* there in the same breath: the queue offers none of them afterwards, unless
\* an administrator takes one up again.
ActedOnIsClosed ==
  disabled /\ (\A r \in Requests : review[r] = Nothing) =>
    \A c \in Complaints : Open(c) => c \in takenUp
===============================================================================
