------------------------------ MODULE MailEvents ------------------------------
(***************************************************************************)
(* What Amazon reports about the mail the site sends: SNS delivers each    *)
(* notice at least once, and again for as long as it gets no 2xx answer    *)
(* (webhooks/ses/ses-webhook.service.ts).                                  *)
(***************************************************************************)
EXTENDS Naturals, Sequences

CONSTANTS
  None,
  Requests,    \* concurrent handlers
  Notices,     \* MessageIds
  Recipients,  \* the addresses of each notice, in order
  Suppressing  \* the permanent bounces, complaints and rejects among them

VARIABLES
  event,       \* _audit_ses_event: the address recorded per MessageId, or None
  post,        \* what each handler is writing: a notice and its next address
  answered     \* history: the notices SNS got a 200 for whose records are still kept

vars == <<event, post, answered>>

Waiting == [notice |-> None, next |-> 0]
Done(r) == post' = [post EXCEPT ![r] = Waiting]

\* Mutant of ProcessNotification: the answer is sent before the records are.
ProcessNotificationEarly(r, n) ==
  /\ post[r] = Waiting
  /\ answered' = answered \cup {n}
  /\ IF event[n] # None
     THEN UNCHANGED post
     ELSE post' = [post EXCEPT ![r] = [notice |-> n, next |-> 1]]
  /\ UNCHANGED event

\* A notice recorded before is skipped, and answered.
ProcessNotification(r, n) ==
  /\ post[r] = Waiting
  /\ IF event[n] # None
     THEN answered' = answered \cup {n} /\ UNCHANGED post
     ELSE post' = [post EXCEPT ![r] = [notice |-> n, next |-> 1]] /\ UNCHANGED answered
  /\ UNCHANGED event

\* handleBounce, handleComplaint, handleDelivery and handleReject: a row per
\* recipient, all with the notice's MessageId, which is unique.  A refused row
\* ends the handler with a 500.
Record(r) ==
  LET n == post[r].notice  k == post[r].next IN
  /\ n # None
  /\ IF event[n] # None
     THEN Done(r) /\ UNCHANGED <<event, answered>>
     ELSE /\ event' = [event EXCEPT ![n] = Recipients[n][k]]
          /\ IF k = Len(Recipients[n])
             THEN Done(r) /\ answered' = answered \cup {n}
             ELSE post' = [post EXCEPT ![r].next = k + 1] /\ UNCHANGED answered

\* The database or the process fails, and SNS gets no answer.
Fail(r) == post[r] # Waiting /\ Done(r) /\ UNCHANGED <<event, answered>>

\* The audit's clean-up (ses-audit-cleanup.service.ts): one of its two deletions
\* takes the records that are older than their retention, "once deleted, the
\* address is no longer suppressed".
Cleanup(ns) ==
  /\ event' = [n \in Notices |-> IF n \in ns THEN None ELSE event[n]]
  /\ answered' = answered \ ns
  /\ UNCHANGED post

Init ==
  /\ event = [n \in Notices |-> None]
  /\ post = [r \in Requests |-> Waiting] /\ answered = {}

Next ==
  \/ \E r \in Requests :
       \/ \E n \in Notices : ProcessNotification(r, n)
       \/ Record(r) \/ Fail(r)
  \/ \E ns \in SUBSET {n \in Notices : event[n] # None} : Cleanup(ns)

Spec == Init /\ [][Next]_vars

TypeOK ==
  /\ \A n \in Notices : event[n] # None => \E k \in 1..Len(Recipients[n]) : event[n] = Recipients[n][k]
  /\ \A r \in Requests :
       post[r] # Waiting => post[r].next \in 1..Len(Recipients[post[r].notice])
  /\ answered \subseteq Notices

\* isSuppressed.
IsSuppressed(address) == \E n \in Suppressing : event[n] = address

\* Once SNS has its answer every address of a hard bounce, a complaint or a
\* reject is suppressed until the clean-up takes the record, however often the
\* notice came and whatever failed.
AnsweredIsSuppressed ==
  \A n \in answered \cap Suppressing : \A k \in 1..Len(Recipients[n]) : IsSuppressed(Recipients[n][k])
===============================================================================
