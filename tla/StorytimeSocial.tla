---------------------------- MODULE StorytimeSocial ----------------------------
(***************************************************************************)
(* What members say about one Story: their votes and the counts kept on    *)
(* the Story's row, and their comments, which an author may take back, the *)
(* Story's owner may hide and an administrator may remove.                 *)
(***************************************************************************)
EXTENDS Naturals, FiniteSets

CONSTANTS
  None,
  Requests,  \* concurrent handlers
  Voters,
  Comments   \* ids of comment rows

VARIABLES
  vote,      \* storytime_reaction: a value per member, or None
  counts,    \* upVoteCount and downVoteCount of the Story
  comment,   \* a row per comment, or None
  voting,    \* what each handler holds
  policed    \* history: the comments an administrator ever removed

vars == <<vote, counts, comment, voting, policed>>

Reactions == {"THUMBS_UP", "THUMBS_DOWN"}
CommentStatus == {"VISIBLE", "DELETED_BY_AUTHOR", "HIDDEN_BY_OWNER", "REMOVED_BY_ADMIN"}
CommentRow == [status : CommentStatus, edited : BOOLEAN, parent : Comments \cup {None}]

Idle == [op |-> "idle", key |-> None, value |-> None, fresh |-> FALSE, counts |-> None, row |-> None]
Free(r) == voting[r] = Idle
Hold(r, op, key, value, fresh, found) ==
  voting' = [voting EXCEPT ![r] = [op |-> op, key |-> key, value |-> value, fresh |-> fresh,
                                   counts |-> found, row |-> None]]
Done(r) == voting' = [voting EXCEPT ![r] = Idle]

(***************************************************************************)
(* Votes.                                                                  *)
(***************************************************************************)
Of(votes, value) == Cardinality({u \in Voters : votes[u] = value})
Tally(votes) == [up |-> Of(votes, "THUMBS_UP"), down |-> Of(votes, "THUMBS_DOWN")]

\* react: the same value again takes the vote back.
React(r, u, value) ==
  /\ Free(r)
  /\ Hold(r, "vote", u, IF vote[u] = value THEN None ELSE value, vote[u] = None, None)
  /\ UNCHANGED <<vote, counts, comment, policed>>

RemoveVote(r, u) ==
  /\ Free(r)
  /\ Hold(r, "vote", u, None, FALSE, None)
  /\ UNCHANGED <<vote, counts, comment, policed>>

\* Mutant of WriteVote: the recount comes before the write.
WriteVoteRecounted(r) ==
  LET v == voting[r] IN
  /\ v.op = "vote"
  /\ \A q \in Requests : voting[q].op = "commit" => voting[q].key # v.key
  /\ IF v.fresh /\ vote[v.key] # None THEN Done(r)
     ELSE Hold(r, "commit", v.key, v.value, FALSE, Tally(vote))
  /\ UNCHANGED <<vote, counts, comment, policed>>

\* The transaction writes its row, which others do not see yet, and counts the
\* committed rows and its own.  It waits for another one on the same row; the
\* unique key refuses a second new row.
WriteVote(r) ==
  LET v == voting[r] IN
  /\ v.op = "vote"
  /\ \A q \in Requests : voting[q].op = "commit" => voting[q].key # v.key
  /\ IF v.fresh /\ vote[v.key] # None THEN Done(r)
     ELSE Hold(r, "commit", v.key, v.value, FALSE, Tally([vote EXCEPT ![v.key] = v.value]))
  /\ UNCHANGED <<vote, counts, comment, policed>>

\* The counts are written and the transaction commits.
CommitVote(r) ==
  LET v == voting[r] IN
  /\ v.op = "commit"
  /\ vote' = [vote EXCEPT ![v.key] = v.value]
  /\ counts' = v.counts
  /\ Done(r)
  /\ UNCHANGED <<comment, policed>>

(***************************************************************************)
(* Comments.                                                               *)
(***************************************************************************)
\* create: replies go one level deep.
PostComment(r, c, parent) ==
  /\ comment[c] = None /\ Free(r)
  /\ parent # None => comment[parent] # None /\ comment[parent].parent = None
  /\ comment' = [comment EXCEPT ![c] = [status |-> "VISIBLE", edited |-> FALSE, parent |-> parent]]
  /\ UNCHANGED <<vote, counts, voting, policed>>

\* The row a handler changes and is about to save.
Load(r, c, row) ==
  /\ Free(r)
  /\ voting' = [voting EXCEPT ![r] = [Idle EXCEPT !.op = "comment", !.key = c, !.row = row]]
  /\ UNCHANGED <<vote, counts, comment, policed>>

EditComment(r, c) ==
  /\ comment[c] # None /\ comment[c].status = "VISIBLE"
  /\ Load(r, c, [comment[c] EXCEPT !.edited = TRUE])

DeleteOwn(r, c) == comment[c] # None /\ Load(r, c, [comment[c] EXCEPT !.status = "DELETED_BY_AUTHOR"])

HideComment(r, c) == comment[c] # None /\ Load(r, c, [comment[c] EXCEPT !.status = "HIDDEN_BY_OWNER"])

UnhideComment(r, c) ==
  /\ comment[c] # None /\ comment[c].status = "HIDDEN_BY_OWNER"
  /\ Load(r, c, [comment[c] EXCEPT !.status = "VISIBLE"])

RemoveAsAdmin(r, c) == comment[c] # None /\ Load(r, c, [comment[c] EXCEPT !.status = "REMOVED_BY_ADMIN"])

SaveComment(r) ==
  LET v == voting[r] IN
  /\ v.op = "comment"
  /\ comment' = [comment EXCEPT ![v.key] = v.row]
  /\ policed' = IF v.row.status = "REMOVED_BY_ADMIN" THEN policed \cup {v.key} ELSE policed
  /\ Done(r)
  /\ UNCHANGED <<vote, counts>>

Init ==
  /\ vote = [u \in Voters |-> None] /\ counts = [up |-> 0, down |-> 0]
  /\ comment = [c \in Comments |-> None]
  /\ voting = [r \in Requests |-> Idle] /\ policed = {}

Handle(r) ==
  \/ \E u \in Voters : RemoveVote(r, u) \/ \E value \in Reactions : React(r, u, value)
  \/ WriteVote(r) \/ CommitVote(r) \/ SaveComment(r)
  \/ \E c \in Comments :
       \/ \E parent \in Comments \cup {None} : PostComment(r, c, parent)
       \/ EditComment(r, c) \/ DeleteOwn(r, c) \/ HideComment(r, c)
       \/ UnhideComment(r, c) \/ RemoveAsAdmin(r, c)

Next == \E r \in Requests : Handle(r)
Spec == Init /\ [][Next]_vars

\* One handler at a time.
Serial == Next /\ Cardinality({r \in Requests : voting'[r] # Idle}) <= 1
SerialSpec == Init /\ [][Serial]_vars

TypeOK ==
  /\ vote \in [Voters -> Reactions \cup {None}]
  /\ counts \in [up : Nat, down : Nat]
  /\ comment \in [Comments -> CommentRow \cup {None}]
  /\ policed \subseteq Comments

\* With one handler at a time the counts on the Story are the votes there are,
\* after every toggle, change and withdrawal.
VotesCounted == counts = Tally(vote)

\* A comment an administrator removed is not its owner's to restore: it is never
\* shown again.
RemovedStaysRemoved ==
  \A c \in policed : comment[c].status # "VISIBLE"
=============================================================================
