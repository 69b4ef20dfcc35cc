----------------------------- MODULE SiteSettings -----------------------------
(***************************************************************************)
(* One operational switch: its row in the database and the copy each       *)
(* instance of the backend keeps for a while (settings.service.ts).        *)
(***************************************************************************)
EXTENDS Integers

CONSTANTS
  None,
  Requests,   \* concurrent handlers
  Instances,  \* processes of the backend
  Values,
  MaxTime,    \* bound on the clock
  TTL         \* SETTING_CACHE_TTL_MS

VARIABLES
  setting,    \* the value in the row
  cache,      \* per instance: the value and when it was read, or None
  clock,
  calls,      \* what each handler is about to do
  lastHeld    \* history: when the row last had each value, -1 for never

vars == <<setting, cache, clock, calls, lastHeld>>

Entry == [value : Values, readAt : 0..MaxTime]
Free == [op |-> "free", at |-> None, value |-> None, readAt |-> 0]
Then(r, op, i, value, t) ==
  calls' = [calls EXCEPT ![r] = [op |-> op, at |-> i, value |-> value, readAt |-> t]]

Usable(i) == cache[i] # None /\ clock - cache[i].readAt < TTL

\* getRaw, with no copy fresh enough: the time is taken before the query.
GetRaw(r, i) ==
  /\ calls[r] = Free /\ ~Usable(i)
  /\ Then(r, "find", i, None, clock)
  /\ UNCHANGED <<setting, cache, clock, lastHeld>>

Find(r) ==
  LET c == calls[r] IN
  /\ c.op = "find"
  /\ Then(r, "store", c.at, setting, c.readAt)
  /\ UNCHANGED <<setting, cache, clock, lastHeld>>

\* Mutant of Store: the time of reading is taken when the copy is kept.
StoreStamped(r) ==
  LET c == calls[r] IN
  /\ c.op = "store"
  /\ cache' = [cache EXCEPT ![c.at] = [value |-> c.value, readAt |-> clock]]
  /\ calls' = [calls EXCEPT ![r] = Free]
  /\ UNCHANGED <<setting, clock, lastHeld>>

Store(r) ==
  LET c == calls[r] IN
  /\ c.op = "store"
  /\ cache' = [cache EXCEPT ![c.at] = [value |-> c.value, readAt |-> c.readAt]]
  /\ calls' = [calls EXCEPT ![r] = Free]
  /\ UNCHANGED <<setting, clock, lastHeld>>

\* setValue writes the row, then drops the copy of its own instance.
SetValue(r, i, value) ==
  /\ calls[r] = Free /\ value # setting
  /\ setting' = value
  /\ lastHeld' = [lastHeld EXCEPT ![setting] = clock, ![value] = clock]
  /\ Then(r, "drop", i, None, 0)
  /\ UNCHANGED <<cache, clock>>

Drop(r) ==
  /\ calls[r].op = "drop"
  /\ cache' = [cache EXCEPT ![calls[r].at] = None]
  /\ calls' = [calls EXCEPT ![r] = Free]
  /\ UNCHANGED <<setting, clock, lastHeld>>

Tick ==
  /\ clock < MaxTime
  /\ clock' = clock + 1
  /\ lastHeld' = [lastHeld EXCEPT ![setting] = clock + 1]
  /\ UNCHANGED <<setting, cache, calls>>

Init ==
  /\ setting \in Values
  /\ cache = [i \in Instances |-> None] /\ clock = 0
  /\ calls = [r \in Requests |-> Free]
  /\ lastHeld = [v \in Values |-> IF v = setting THEN 0 ELSE -1]

Next ==
  \/ \E r \in Requests :
       \/ Find(r) \/ Store(r) \/ Drop(r)
       \/ \E i \in Instances : GetRaw(r, i) \/ \E v \in Values : SetValue(r, i, v)
  \/ Tick

Spec == Init /\ [][Next]_vars

TypeOK ==
  /\ setting \in Values
  /\ cache \in [Instances -> Entry \cup {None}]
  /\ clock \in 0..MaxTime
  /\ lastHeld \in [Values -> -1..MaxTime]
  /\ \A r \in Requests : calls[r].op = "store" => calls[r].value \in Values

\* A change takes at most SETTING_CACHE_TTL_MS to reach every instance: however
\* slow the queries and whatever else is written, no instance answers from its
\* copy with a value the row gave up longer ago.
ReachesEveryInstance ==
  \A i \in Instances : Usable(i) => clock - lastHeld[cache[i].value] < TTL
===============================================================================
