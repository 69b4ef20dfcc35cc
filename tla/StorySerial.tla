------------------------------ MODULE StorySerial ------------------------------
(***************************************************************************)
(* StorytimePublication with one handler, or one run of the job, at a time.*)
(***************************************************************************)
EXTENDS StorytimePublication

Busy == {r \in Slots : ~At(r, "idle")}

Serial == Next /\ Cardinality(Busy') <= 1
SerialSpec == Init /\ [][Serial]_vars

\* Publishing or withdrawing a Chapter leaves the exact count in the same step
\* (saveWithStoryCount), and no step moves the count to a wrong value, even after
\* a moderation, a rescheduling or a failure has left it stale.
CountFollows ==
  [][/\ story'.count # story.count => story'.count = Cardinality(Readable')
     /\ (\E r \in Slots : At(r, "txCommit") /\ req'[r].pc # "txCommit" /\ chapter' # chapter) =>
          story'.count = Cardinality(Readable')]_vars
================================================================================
