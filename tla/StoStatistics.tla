----------------------------- MODULE StoStatistics -----------------------------
(***************************************************************************)
(* The figures of one member's dashboard (StatsService) over the rows they *)
(* are made of: STO Accounts, Captains, and the nodes of the endeavour     *)
(* perks an Account has earned (EndeavourService).  A figure is asked for  *)
(* all the member's Accounts or for one of them.                           *)
(***************************************************************************)
EXTENDS Integers, FiniteSets, FiniteSetsExt

CONSTANTS
  None,
  StoAccounts, Captains,
  Catalogue,  \* the perks: [name, category]; a name is unique in its category only
  MaxNodes,   \* of a perk
  Data,       \* what a Captain is saved with: [level, faction], each perhaps None
  Tiers,      \* the rank tiers: pairs of the first and the last level
  Factions,   \* the names a Captain may have; and the platforms of an Account
  MaxRows     \* bound on the Captains and rows of progress stored

VARIABLES
  sheet,      \* the Accounts: [deleted, platform]
  roster,     \* the Captains: None, or [deleted, account, level, faction]
  gone,    \* the platforms deleted
  nodes       \* account_endeavour_progress: None, or currentNodes

vars == <<sheet, roster, gone, nodes>>

\* An Account deleted is found by no query, and none of its Captains is: the join
\* leaves out what was deleted.
LiveAccounts == {a \in StoAccounts : ~sheet[a].deleted}
LiveCaptains ==
  {k \in Captains : /\ roster[k] # None /\ ~roster[k].deleted
                    /\ roster[k].account \in LiveAccounts}

Stored ==
  Cardinality({k \in Captains : roster[k] # None})
    + Cardinality({x \in StoAccounts \X Catalogue : nodes[x[1]][x[2]] # None})

--------------------------------------------------------------------------------
(* The handlers.                                                            *)

UpdateAccount(a, platform) ==
  /\ a \in LiveAccounts /\ platform \notin gone
  /\ sheet' = [sheet EXCEPT ![a].platform = platform]
  /\ UNCHANGED <<roster, gone, nodes>>

RemoveAccount(a) ==
  /\ a \in LiveAccounts
  /\ sheet' = [sheet EXCEPT ![a].deleted = TRUE]
  /\ UNCHANGED <<roster, gone, nodes>>

SaveCaptain(k, a, data) ==
  /\ roster[k] = None \/ k \in LiveCaptains
  /\ a \in LiveAccounts
  /\ roster' = [roster EXCEPT ![k] = [deleted |-> FALSE, account |-> a,
                                      level |-> data.level, faction |-> data.faction]]
  /\ UNCHANGED <<sheet, gone, nodes>>

RemoveCaptain(k) ==
  /\ k \in LiveCaptains
  /\ roster' = [roster EXCEPT ![k].deleted = TRUE]
  /\ UNCHANGED <<sheet, gone, nodes>>

\* EndeavourService.updateProgress, the number checked by the request's type.
UpdateNodes(a, p, n) ==
  /\ a \in LiveAccounts
  /\ nodes' = [nodes EXCEPT ![a][p] = n]
  /\ UNCHANGED <<sheet, roster, gone>>

\* PlatformService.softRemove: the Accounts keep pointing at it.
SoftRemovePlatform(p) ==
  /\ gone' = gone \cup {p} /\ UNCHANGED <<sheet, roster, nodes>>

--------------------------------------------------------------------------------
(* The figures.  A scope is the set of Accounts a figure is asked for.      *)

Nearest(n, d) == (2 * n + d) \div (2 * d)
Count(f, S) == MapThenSumSet(LAMBDA x : f[x], S)

\* characterBaseQb.
In(scope) == {k \in LiveCaptains : roster[k].account \in scope}

LevelStats(scope) ==
  LET given == {k \in In(scope) : roster[k].level # None}
      above == {k \in given : roster[k].level > 0}
      levels == {roster[k].level : k \in given}
  IN [characterCount |-> Cardinality(In(scope)),
      avgLevel |-> IF above = {} THEN 0
                   ELSE Nearest(MapThenSumSet(LAMBDA k : roster[k].level, above), Cardinality(above)),
      minLevel |-> IF given = {} THEN 0 ELSE Min(levels),
      maxLevel |-> IF given = {} THEN 0 ELSE Max(levels)]

\* Every name of the catalogue, and what was counted under another.
MergeWithAllNames(raw, names) ==
  [n \in names \cup DOMAIN raw |-> IF n \in DOMAIN raw THEN raw[n] ELSE 0]

\* characterDimensionQuery, and getAccountGroupStats: grouped by the joined name.
Grouped(rows, name) ==
  [n \in {name[x] : x \in rows} |-> Cardinality({x \in rows : name[x] = n})]

ByFaction(scope) ==
  MergeWithAllNames(
    Grouped(In(scope), [k \in In(scope) |-> IF roster[k].faction = None THEN "Unknown"
                                            ELSE roster[k].faction]),
    Factions)

ByPlatform(scope) ==
  MergeWithAllNames(
    Grouped(scope, [a \in scope |-> IF sheet[a].platform \in gone \cup {None} THEN "Unknown"
                                    ELSE sheet[a].platform]),
    Factions \ gone)

ByLevelRange(scope) ==
  [t \in Tiers |-> Cardinality({k \in In(scope) : /\ roster[k].level # None
                                                  /\ roster[k].level \in t[1]..t[2]})]

Recorded(scope) == {x \in scope \X Catalogue : nodes[x[1]][x[2]] # None}
Earned(scope, perks) ==
  MapThenSumSet(LAMBDA x : nodes[x[1]][x[2]], {x \in Recorded(scope) : x[2] \in perks})
Of(category) == {p \in Catalogue : p.category = category}

\* The rows of the query, one of a perk; of those of one name mergeWithAllNames keeps
\* the last, and they come in no order.
RowsNamed(scope, name) == {p \in Catalogue : p.name = name /\ \E a \in scope : nodes[a][p] # None}
Kept(scope) ==
  {last \in [{p.name : p \in Catalogue} -> Catalogue \cup {None}] :
     \A n \in DOMAIN last :
       IF RowsNamed(scope, n) = {} THEN last[n] = None ELSE last[n] \in RowsNamed(scope, n)}
PerkNodes(scope, last, p) == IF last[p.name] = None THEN 0 ELSE Earned(scope, {last[p.name]})

Active(scope) == Cardinality({x[1] : x \in Recorded(scope)})

\* What byEndeavourPerk, and byEndeavourPerkAvg, may be.
ByEndeavourPerk(scope) == {[p \in Catalogue |-> PerkNodes(scope, last, p)] : last \in Kept(scope)}
ByEndeavourPerkAvg(scope) ==
  {[p \in Catalogue |->
      IF Active(scope) = 0 THEN 0 ELSE Nearest(PerkNodes(scope, last, p), Active(scope))] :
   last \in Kept(scope)}

EndeavourStats(scope) ==
  LET Percent(c) == LET most == Active(scope) * Cardinality(Of(c)) * MaxNodes
                    IN IF most = 0 THEN 0 ELSE Nearest(100 * Earned(scope, Of(c)), most)
  IN [total |-> Earned(scope, Catalogue),
      most |-> Cardinality(scope) * Cardinality(Catalogue) * MaxNodes,
      byCategory |-> [c \in {"Space", "Ground"} |-> Earned(scope, Of(c))],
      percent |-> [c \in {"Space", "Ground"} |-> Percent(c)]]

\* EndeavourService.getSummary of one Account.
Summary(a) ==
  LET of(perks) == MapThenSumSet(LAMBDA p : IF nodes[a][p] = None THEN 0 ELSE nodes[a][p], perks)
  IN [totalNodes |-> of(Catalogue), spaceNodes |-> of(Of("Space")), groundNodes |-> of(Of("Ground")),
      maxedPerks |-> Cardinality({p \in Catalogue : nodes[a][p] = MaxNodes})]

--------------------------------------------------------------------------------

Init ==
  /\ sheet = [a \in StoAccounts |-> [deleted |-> FALSE, platform |-> None]]
  /\ roster = [k \in Captains |-> None]
  /\ gone = {}
  /\ nodes = [a \in StoAccounts |-> [p \in Catalogue |-> None]]

Next ==
  /\ \/ \E a \in StoAccounts :
          \/ RemoveAccount(a)
          \/ \E p \in Factions : UpdateAccount(a, p)
          \/ \E p \in Catalogue, n \in 0..MaxNodes : UpdateNodes(a, p, n)
     \/ \E k \in Captains :
          \/ RemoveCaptain(k)
          \/ \E a \in StoAccounts, d \in Data : SaveCaptain(k, a, d)
     \/ \E p \in Factions : SoftRemovePlatform(p)
  /\ Stored' <= MaxRows

Spec == Init /\ [][Next]_vars

--------------------------------------------------------------------------------
(* Properties.                                                              *)

Scopes == {LiveAccounts} \cup {{a} : a \in LiveAccounts}

\* Whatever was deleted, moved or never filled in under it, the grouping of Captains
\* by a dimension, of Accounts by platform and of nodes by category account for each
\* row once, parts are within their wholes, the figures of the Accounts make up
\* those of the member, and the summary of one Account says what the dashboard says
\* of it.  Of the groupings by perk this holds only of perks alone in their name: of
\* two that share one, the rows are merged into one figure, shown for both.
StatisticsAddUp ==
  /\ \A s \in Scopes :
       LET l == LevelStats(s)
           e == EndeavourStats(s)
       IN /\ Count(ByFaction(s), DOMAIN ByFaction(s)) = l.characterCount
          /\ Count(ByPlatform(s), DOMAIN ByPlatform(s)) = Cardinality(s)
          /\ Count(ByLevelRange(s), Tiers) <= l.characterCount
          /\ l.minLevel <= l.avgLevel /\ l.avgLevel <= l.maxLevel
          /\ e.byCategory["Space"] + e.byCategory["Ground"] = e.total /\ e.total <= e.most
          /\ \A c \in {"Space", "Ground"} : e.percent[c] \in 0..100
          /\ \A p \in Catalogue : (\A q \in Catalogue \ {p} : q.name # p.name) =>
               /\ \A r \in ByEndeavourPerk(s) : r[p] = Earned(s, {p})
               /\ \A r \in ByEndeavourPerkAvg(s) : r[p] \in 0..MaxNodes
  /\ \A f \in Factions \cup {"Unknown"} :
       LET of(s) == IF f \in DOMAIN ByFaction(s) THEN ByFaction(s)[f] ELSE 0
       IN of(LiveAccounts) = MapThenSumSet(LAMBDA a : of({a}), LiveAccounts)
  /\ EndeavourStats(LiveAccounts).total =
       MapThenSumSet(LAMBDA a : Summary(a).totalNodes, LiveAccounts)
  /\ \A a \in LiveAccounts :
       /\ Summary(a).spaceNodes = EndeavourStats({a}).byCategory["Space"]
       /\ Summary(a).groundNodes = EndeavourStats({a}).byCategory["Ground"]
       /\ Summary(a).maxedPerks = Cardinality(Catalogue)
            <=> EndeavourStats({a}).total = EndeavourStats({a}).most
================================================================================
