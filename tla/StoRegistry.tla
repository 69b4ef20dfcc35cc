------------------------------ MODULE StoRegistry ------------------------------
(***************************************************************************)
(* A member's Star Trek Online Accounts and Captains (AccountService,      *)
(* CharacterService), and the pages of the registry a visitor reads them   *)
(* on (RegistryService, PublicMemberService).  Counts, lists and pages come *)
(* from queries of their own, and pages are found by slugs that lookups    *)
(* compare without case.                                                   *)
(***************************************************************************)
EXTENDS Naturals, Sequences
LOCAL INSTANCE FiniteSetsExt

CONSTANTS
  Handles, Names,              \* pairs <<word, whether it is written in capitals>>
  MaxAccounts, MaxCaptains,    \* bounds on the rows ever created
  MaxHidden                    \* bound on what is kept from the visitor at a time

VARIABLES
  account,   \* rows [handle, public, deleted]
  character, \* rows [account, name, full, public, deleted]; full is the name and
             \* the Account's handle as they were when it was written
  gate       \* the profile is public, the member active, a block with the visitor

vars == <<account, character, gate>>

LiveAccounts == {i \in DOMAIN account : ~account[i].deleted}
LiveCaptains == {k \in DOMAIN character : ~character[k].deleted}

\* What a lookup compares: LOWER of the stored slug and of the one asked for.
Lower(handle) == handle[1]
LowerFull(full) == <<Lower(full[1]), Lower(full[2])>>

\* Mutant of Normalized: capitals tell the rows apart.
AsWritten(handle) == handle

\* What the unique indexes over the live rows compare.
Normalized(handle) == handle[1]
NormalizedFull(full) == <<Normalized(full[1]), Normalized(full[2])>>

HandleFree(handle, self) ==
  \A i \in LiveAccounts \ {self} : Normalized(account[i].handle) # Normalized(handle)
FullHandleFree(i, full, self) ==
  \A k \in LiveCaptains \ {self} :
    character[k].account = i => NormalizedFull(character[k].full) # NormalizedFull(full)

CreateAccount(handle, public) ==
  /\ gate.active /\ HandleFree(handle, 0)
  /\ Len(account) < MaxAccounts
  /\ account' = Append(account, [handle |-> handle, public |-> public, deleted |-> FALSE])
  /\ UNCHANGED <<character, gate>>

\* The Captains keep the full handles they have.
UpdateAccount(i, handle, public) ==
  /\ gate.active /\ i \in LiveAccounts
  /\ handle # account[i].handle => HandleFree(handle, i)
  /\ account' = [account EXCEPT ![i].handle = handle, ![i].public = public]
  /\ UNCHANGED <<character, gate>>

\* The Captains stay live.
RemoveAccount(i) ==
  /\ gate.active /\ i \in LiveAccounts
  /\ account' = [account EXCEPT ![i].deleted = TRUE]
  /\ UNCHANGED <<character, gate>>

CreateCaptain(i, name, public) ==
  /\ gate.active /\ i \in LiveAccounts
  /\ FullHandleFree(i, <<name, account[i].handle>>, 0)
  /\ Len(character) < MaxCaptains
  /\ character' = Append(character, [account |-> i, name |-> name, public |-> public,
                                     full |-> <<name, account[i].handle>>, deleted |-> FALSE])
  /\ UNCHANGED <<account, gate>>

\* A Captain is found with its Account, and not without one.
FindOneForUser(k) == k \in LiveCaptains /\ character[k].account \in LiveAccounts

\* The full handle is written anew with the name, after the Account the Captain
\* leaves; the index judges it on the Account the Captain comes to.
UpdateCaptain(k, name, to, public) ==
  LET from == character[k].account
      full == IF name = character[k].name THEN character[k].full
              ELSE <<name, account[from].handle>>
  IN /\ gate.active /\ FindOneForUser(k)
     /\ name # character[k].name => FullHandleFree(from, full, k)
     /\ FullHandleFree(to, full, k)
     /\ character' = [character EXCEPT ![k].name = name, ![k].full = full,
                                       ![k].account = to, ![k].public = public]
     /\ UNCHANGED <<account, gate>>

RemoveCaptain(k) ==
  /\ gate.active /\ FindOneForUser(k)
  /\ character' = [character EXCEPT ![k].deleted = TRUE]
  /\ UNCHANGED <<account, gate>>

UpdateProfile(public) ==
  /\ gate.active /\ gate' = [gate EXCEPT !.profile = public]
  /\ UNCHANGED <<account, character>>

\* disableUser and enableUser.
SetActive(active) ==
  /\ gate' = [gate EXCEPT !.active = active]
  /\ UNCHANGED <<account, character>>

\* block and unblock, by either of the two.
SetBlocked(blocked) ==
  /\ gate' = [gate EXCEPT !.blocked = blocked]
  /\ UNCHANGED <<account, character>>

--------------------------------------------------------------------------------
(* The pages.  A query that finds nothing answers 404.                      *)

PublicAccounts == {i \in LiveAccounts : account[i].public}
PublicCaptainsOf(i) == {k \in LiveCaptains : character[k].account = i /\ character[k].public}

\* publicProfilesQuery, without the members a block hides.
RequireProfile == gate.profile /\ gate.active /\ ~gate.blocked

\* findProfileByUsername: the Accounts listed, and the count shown with each.
ListedAccounts == IF RequireProfile THEN PublicAccounts ELSE {}
CountPublicCharacters(i) == Cardinality(PublicCaptainsOf(i))

\* getPublicMemberStats: a join of the public Accounts with their public Captains.
MemberStats ==
  [accountCount   |-> Cardinality(PublicAccounts),
   characterCount |-> Cardinality({p \in PublicAccounts \X LiveCaptains :
                                     /\ character[p[2]].account = p[1]
                                     /\ character[p[2]].public})]

\* The Accounts a slug is right for; getOne takes any one of them.
RequireAccount(slug) ==
  {i \in PublicAccounts : RequireProfile /\ Lower(account[i].handle) = Lower(slug)}

FindCharacter(accountSlug, characterSlug) ==
  {k \in LiveCaptains : /\ character[k].public
                        /\ character[k].account \in RequireAccount(accountSlug)
                        /\ LowerFull(character[k].full) = LowerFull(characterSlug)}

--------------------------------------------------------------------------------

Hidden ==
  Cardinality({i \in DOMAIN account : account[i].deleted \/ ~account[i].public})
  + Cardinality({k \in DOMAIN character : character[k].deleted \/ ~character[k].public})
  + Cardinality({g \in {"profile", "active"} : ~gate[g]}) + (IF gate.blocked THEN 1 ELSE 0)

Init ==
  /\ account = <<>> /\ character = <<>>
  /\ gate = [profile |-> TRUE, active |-> TRUE, blocked |-> FALSE]

Operation ==
  \/ \E h \in Handles, b \in BOOLEAN :
       CreateAccount(h, b) \/ \E i \in DOMAIN account : UpdateAccount(i, h, b)
  \/ \E n \in Names, i \in DOMAIN account, b \in BOOLEAN :
       CreateCaptain(i, n, b) \/ \E k \in DOMAIN character : UpdateCaptain(k, n, i, b)
  \/ \E i \in DOMAIN account : RemoveAccount(i)
  \/ \E k \in DOMAIN character : RemoveCaptain(k)
  \/ \E b \in BOOLEAN : UpdateProfile(b) \/ SetActive(b) \/ SetBlocked(b)

Next == Operation /\ Hidden' <= MaxHidden

Spec == Init /\ [][Next]_vars

--------------------------------------------------------------------------------
(* Properties.                                                              *)

\* The counts a visitor is shown are those of the rows they then find, every link
\* listed opens the row it stands for and no other, and no page opens that is not
\* listed: whatever was renamed, moved, hidden or removed under it.
PagesAgree ==
  /\ RequireProfile =>
       /\ MemberStats.accountCount = Cardinality(ListedAccounts)
       /\ MemberStats.characterCount = MapThenSumSet(CountPublicCharacters, ListedAccounts)
  /\ \A i \in ListedAccounts :
       /\ RequireAccount(account[i].handle) = {i}
       /\ \A k \in PublicCaptainsOf(i) :
            FindCharacter(account[i].handle, character[k].full) = {k}
  /\ \A h \in Handles : RequireAccount(h) \subseteq ListedAccounts
  /\ \A h \in Handles, n \in Names, g \in Handles :
       FindCharacter(h, <<n, g>>) \subseteq UNION {PublicCaptainsOf(i) : i \in ListedAccounts}
================================================================================
