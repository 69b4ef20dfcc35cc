--------------------------- MODULE TrackingSerial ---------------------------
(***************************************************************************)
(* CustomTracking with one request or one run of the job at a time, and no *)
(* crash: what the clean-up queue and the order of the purge promise.      *)
(***************************************************************************)
EXTENDS CustomTracking

Alone == Cardinality({s \in Slots : slots[s] # Idle}) <= 1
Serial == Work /\ Alone'

\* Statements that began end, and the job gets its turn every night.
Continue ==
  /\ Alone
  /\ \E s \in Slots : slots[s] # Idle /\ (Attempt(s) \/ (s \in Requests /\ Statement(s)))
Nightly == ~Busy /\ PurgeExpired
Fairness == WF_vars(Continue) /\ SF_vars(Nightly)

SerialSpec == Init /\ [][Serial]_vars /\ Fairness

\* No picture is forgotten: each one in the image store is pointed at, queued,
\* or in the hands of its uploader.
NothingForgotten ==
  stored \subseteq Referenced \cup ToSet(queue) \cup {slots[r].picture : r \in Requests}

\* Below a Section or a Tab that was deleted, or that the purge took, nothing is
\* live, so every table can be purged by its own deletedAt.
NothingLiveBelowDeleted ==
  \A n \in Nodes : ~Live(n) => \A k \in Below({n}) : ~Live(k)

\* While one batch takes every Field that has expired, nothing is deleted that
\* something that survives still refers to, so no foreign key refuses the purge,
\* whatever Sections, Tabs and Options its other batches choose.
BatchNeverRefused ==
  Cardinality(Expired(Fields)) <= PurgeBatch =>
    \A ss \in Batches(Sections), ts \in Batches(Tabs), fs \in Batches(Fields) :
      ~Restricted(fs, ss \cup ts)

\* The queue is normally empty: whatever is queued, and although the image
\* store refuses some deletions, it empties again and again.
QueueDrains == []<>(queue = <<>>)
=============================================================================
