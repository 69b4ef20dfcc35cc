----------------------------- MODULE FieldAnswers -----------------------------
(***************************************************************************)
(* One custom Field from its configuration to its answer: what a           *)
(* configuration may say (custom-tracking-field-configuration.service.ts)  *)
(* and which answers a save then takes                                     *)
(* (custom-tracking-value-validation.service.ts).  A text is its length    *)
(* once trimmed, a date its day, and a decimal or a percentage counts      *)
(* halves, so that an odd one has a decimal place.                         *)
(***************************************************************************)
EXTENDS Integers, Sequences, SequencesExt

CONSTANTS
  None,
  Refused, Cleared,  \* a BadRequestException; an empty answer
  Options,           \* options of a choice Field
  Numbers,           \* bound on the figures
  Hundred,           \* 100 %
  MaxText,           \* MAX_TEXT_VALUE_LENGTH
  MaxComponent,      \* MAX_DURATION_COMPONENT
  RatingMaxima,      \* CUSTOM_TRACKING_RATING_MAXIMA
  Palette            \* the site's colours

VARIABLES
  field,       \* the Field's type and configuration, or None
  withdrawn,   \* its soft-deleted Options
  answer,      \* the stored answer, or None
  upToDate     \* history: the configuration is the one the answer was saved under

\* The types, a type for those that are checked alike.
FieldTypes ==
  {"TEXT", "INTEGER", "DECIMAL", "PERCENTAGE", "RANGE", "RATING", "PROGRESS", "DATE",
   "DATE_RANGE", "YEAR", "DATE_TIME", "DATE_TIME_RANGE", "DURATION", "COLOUR", "CHOICE",
   "CHOICES", "IMAGE"}

vars == <<field, withdrawn, answer, upToDate>>

Or(x, default) == IF x = None THEN default ELSE x
AtLeast(v, low) == v >= Or(low, v)
AtMost(v, high) == v <= Or(high, v)
Within(v, c) == AtLeast(v, c.minimum) /\ AtMost(v, c.maximum)
Positive == Nat \ {0}
Day == 24
Places(v) == IF v % 2 = 0 THEN 0 ELSE 1

--------------------------------------------------------------------------------
(* Configurations.                                                          *)

BoundsOrdered(c) == c.minimum # None => AtMost(c.minimum, c.maximum)

StepFits(c) == c.step # None => Places(c.step) <= c.precision /\ c.step > 0

\* assertCoherent: how the settings of each type have to agree.
Coherent(type, c) ==
  CASE type \in {"TEXT", "INTEGER", "PROGRESS", "DATE", "DATE_RANGE", "YEAR", "CHOICES"} -> BoundsOrdered(c)
    [] type = "DECIMAL" -> BoundsOrdered(c) /\ StepFits(c)
    [] type = "PERCENTAGE" ->
         BoundsOrdered(c) /\ StepFits(c) /\ Or(c.minimum, 0) >= 0 /\ Or(c.maximum, Hundred) <= Hundred
    [] type = "RANGE" -> c.minimum < c.maximum /\ c.step <= c.maximum - c.minimum
    [] type = "DURATION" -> c.units # {}
    [] OTHER -> TRUE

\* normalise: what is stored spells the limits of a percentage out.
Normalised(type, c) ==
  IF type = "PERCENTAGE"
  THEN [c EXCEPT !.minimum = Or(c.minimum, 0), !.maximum = Or(c.maximum, Hundred)] ELSE c

Plain == [minimum |-> None, maximum |-> None, step |-> None, precision |-> 0, units |-> {}]
Limited(low, high) == [Plain EXCEPT !.minimum = low, !.maximum = high]
Bounded(lows, highs) == {Limited(a, b) : a \in lows, b \in highs}
Optional(S) == S \cup {None}

\* The configurations whose properties are each well formed (the DTOs).
Configurations(type) ==
  CASE type = "TEXT" -> Bounded(Optional(Numbers \cap 0..MaxText), Optional(Numbers \cap 1..MaxText))
    [] type = "CHOICES" -> Bounded(Optional(Numbers \cap Nat), Optional(Numbers \cap Positive))
    [] type = "INTEGER" ->
         {[c EXCEPT !.step = s] :
            c \in Bounded(Optional(Numbers), Optional(Numbers)), s \in Optional(Numbers \cap Positive)}
    [] type \in {"DECIMAL", "PERCENTAGE"} ->
         {[c EXCEPT !.step = s, !.precision = p] :
            c \in Bounded(Optional(Numbers), Optional(Numbers)), s \in Optional(Numbers), p \in {0, 1}}
    [] type = "RANGE" ->
         {[c EXCEPT !.step = s] : c \in Bounded(Numbers, Numbers), s \in Numbers \cap Positive}
    [] type \in {"PROGRESS", "DATE", "DATE_RANGE", "YEAR"} -> Bounded(Optional(Numbers), Optional(Numbers))
    [] type = "RATING" -> Bounded({None}, RatingMaxima)
    [] type = "DURATION" -> {[Plain EXCEPT !.units = u] : u \in SUBSET {"hours", "minutes"}}
    [] OTHER -> {Plain}

--------------------------------------------------------------------------------
(* Answers: each check returns the answer to store, Cleared or Refused.     *)

Take(acceptable, value) == IF acceptable THEN value ELSE Refused

\* Math.round(offset / step), for a positive step.
Rounded(offset, step) == (2 * offset + step) \div (2 * step)

\* Mutant of OnStep: the steps are counted from zero.
OnStepFromZero(v, c) == c.step # None => Rounded(v, c.step) * c.step = v

\* assertOnStep counts from the minimum where there is one.
OnStep(v, c) ==
  c.step # None =>
    LET offset == v - Or(c.minimum, 0) IN Rounded(offset, c.step) * c.step = offset

Text(c, length) ==
  IF length = 0 THEN Cleared
  ELSE Take(length <= Or(c.maximum, MaxText) /\ AtLeast(length, c.minimum), length)

Integer(c, v) == Take(Within(v, c) /\ OnStep(v, c), v)

\* decimal, for a percentage too: the step is not looked at.
Decimal(c, v) == Take(Places(v) <= c.precision /\ Within(v, c), v)

Rating(c, v) == Take(v \in 1..c.maximum, v)

Progress(c, s) ==
  Take(/\ s.maximum > 0 /\ s.current <= s.maximum
       /\ AtLeast(s.current, c.minimum) /\ AtMost(s.maximum, c.maximum), s)

WithinBounds(c, v) == Take(Within(v, c), v)

DateRange(c, s) == Take(Within(s.start, c) /\ Within(s.end, c) /\ s.start <= s.end, s)

\* Two zones, in hours: in one the clocks go forward at hour 2, and hour 2 does
\* not exist; in the other they go back at hour 1, and hour 1 comes twice.
Zones == {"forward", "back"}
OffsetAt(instant, zone) == IF (zone = "forward") = (instant >= (IF zone = "forward" THEN 2 ELSE 1)) THEN 1 ELSE 0

ToLocal(instant, zone) == instant + OffsetAt(instant, zone)

\* The offsets of a day before and a day after are tried, and each candidate is
\* converted back; the earlier of two is taken.
ToUtcInstant(local, zone) ==
  LET candidates == {local - OffsetAt(local - Day, zone), local - OffsetAt(local + Day, zone)}
      valid == {c \in candidates : ToLocal(c, zone) = local} IN
  IF valid = {} THEN None ELSE Min(valid)

\* toInstant: a time that does not exist is refused.
DateTime(s) ==
  LET instant == ToUtcInstant(s.local, s.zone) IN
  Take(instant # None, [instant |-> instant, zone |-> s.zone])

DateTimeRange(s) ==
  LET start == ToUtcInstant(s.start, s.zone)  end == ToUtcInstant(s.end, s.zone) IN
  IF None \in {start, end} THEN Refused
  ELSE Take(start <= end, [start |-> start, end |-> end, zone |-> s.zone])

\* A component that was left out counts as 0.
Duration(c, s) ==
  LET full == [u \in {"hours", "minutes"} |-> Or(s[u], 0)] IN
  Take(\A u \in {"hours", "minutes"} :
         /\ full[u] \in 0..MaxComponent
         /\ u \notin c.units => full[u] = 0, full)

Colour(s) ==
  IF (s.token = None) = (s.literal = None) THEN Refused
  ELSE Take(s.token # None => s.token \in Palette, s)

\* Mutant of Choosable: a withdrawn option is never taken.
ChoosableStrictly(ids, gone, previously) == ToSet(ids) \subseteq Options \ gone

\* assertChoosable: a withdrawn option is taken only where it was chosen before.
Choosable(ids, gone, previously) == ToSet(ids) \subseteq Options \ (gone \ previously)

\* The ids without their repetitions, in their first order.
Distinct(ids) ==
  LET firsts == {n \in DOMAIN ids : \A m \in 1..(n - 1) : ids[m] # ids[n]}
      Rank(n) == Cardinality({m \in firsts : m <= n}) IN
  [k \in 1..Cardinality(firsts) |-> ids[CHOOSE n \in firsts : Rank(n) = k]]

SingleChoice(s, gone, previously) ==
  LET ids == Distinct(s) IN
  IF ids = <<>> THEN Cleared ELSE Take(Len(ids) = 1 /\ Choosable(ids, gone, previously), ids)

MultipleChoice(c, s, gone, previously) ==
  LET ids == Distinct(s) IN
  IF ids = <<>> THEN Cleared ELSE Take(Within(Len(ids), c) /\ Choosable(ids, gone, previously), ids)

\* validate: the check of each type.
Validate(f, s, gone, previously) ==
  LET c == f.configuration  type == f.type IN
  IF s = None THEN Cleared
  ELSE CASE type = "TEXT" -> Text(c, s)
         [] type \in {"INTEGER", "RANGE"} -> Integer(c, s)
         [] type \in {"DECIMAL", "PERCENTAGE"} -> Decimal(c, s)
         [] type = "RATING" -> Rating(c, s)
         [] type = "PROGRESS" -> Progress(c, s)
         [] type \in {"DATE", "YEAR"} -> WithinBounds(c, s)
         [] type = "DATE_RANGE" -> DateRange(c, s)
         [] type = "DATE_TIME" -> DateTime(s)
         [] type = "DATE_TIME_RANGE" -> DateTimeRange(s)
         [] type = "DURATION" -> Duration(c, s)
         [] type = "COLOUR" -> Colour(s)
         [] type = "CHOICE" -> SingleChoice(s, gone, previously)
         [] type = "CHOICES" -> MultipleChoice(c, s, gone, previously)
         [] type = "IMAGE" -> Refused

\* What a save may send.
Submissions(type) ==
  Optional(
    CASE type \in {"CHOICE", "CHOICES"} -> UNION {[1..n -> Options] : n \in 0..3}
      [] type = "TEXT" -> Numbers \cap Nat
      [] type = "PROGRESS" -> [current : Numbers, maximum : Numbers]
      [] type = "DATE_RANGE" -> [start : Numbers, end : Numbers]
      [] type = "DATE_TIME" -> [local : Numbers, zone : Zones]
      [] type = "DATE_TIME_RANGE" -> [start : Numbers, end : Numbers, zone : Zones]
      [] type = "DURATION" -> [{"hours", "minutes"} -> Optional(Numbers)]
      [] type = "COLOUR" -> [token : Palette \cup {None, "puce"}, literal : {None, "#00ff00"}]
      [] OTHER -> Numbers)

--------------------------------------------------------------------------------
(* The Field's life.                                                        *)

Type == IF field = None THEN None ELSE field.type

\* create, or update: the type is the stored one and never changes.
Configure(type, c) ==
  /\ Type \in {None, type}
  /\ Coherent(type, c)
  /\ field' = [type |-> type, configuration |-> Normalised(type, c)]
  /\ upToDate' = (upToDate /\ field' = field)
  /\ UNCHANGED <<withdrawn, answer>>

DeleteOption(o) ==
  /\ Type \in {"CHOICE", "CHOICES"} /\ o \notin withdrawn
  /\ withdrawn' = withdrawn \cup {o}
  /\ UNCHANGED <<field, answer, upToDate>>

Chosen == IF answer # None /\ field.type \in {"CHOICE", "CHOICES"} THEN ToSet(answer) ELSE {}

\* saveRecord with this Field in it.
SaveRecord(s) ==
  /\ field # None
  /\ LET result == Validate(field, s, withdrawn, Chosen) IN
     /\ result # Refused
     /\ answer' = IF result = Cleared THEN None ELSE result
     /\ upToDate' = TRUE
  /\ UNCHANGED <<field, withdrawn>>

Init == field = None /\ withdrawn = {} /\ answer = None /\ upToDate = TRUE

Next ==
  \/ \E type \in FieldTypes : \E c \in Configurations(type) : Configure(type, c)
  \/ \E o \in Options : DeleteOption(o)
  \/ field # None /\ \E s \in Submissions(field.type) : SaveRecord(s)

Spec == Init /\ [][Next]_vars

--------------------------------------------------------------------------------
(* Properties.                                                              *)

\* The answer as the editor sends it back.
Sent ==
  CASE field.type = "DATE_TIME" -> [local |-> ToLocal(answer.instant, answer.zone), zone |-> answer.zone]
    [] field.type = "DATE_TIME_RANGE" ->
         [answer EXCEPT !.start = ToLocal(@, answer.zone), !.end = ToLocal(@, answer.zone)]
    [] OTHER -> answer

\* A member can keep the answer they gave: as long as the Field is configured as
\* it was, saving the record again takes the stored answer and does not change
\* it, although Options it chose have been withdrawn since.
SavedAnswerStands ==
  answer # None /\ upToDate => Validate(field, Sent, withdrawn, Chosen) = answer

\* A figure that was accepted is one the Field offers: a whole number or a slider
\* stands a whole number of steps from its minimum, within its bounds, and a
\* decimal within its bounds at its precision.
AnswerFits ==
  answer # None /\ upToDate =>
    LET c == field.configuration IN
    CASE field.type \in {"INTEGER", "RANGE"} ->
           /\ Within(answer, c)
           /\ c.step # None => (answer - Or(c.minimum, 0)) % c.step = 0
      [] field.type \in {"DECIMAL", "PERCENTAGE"} -> Within(answer, c) /\ Places(answer) <= c.precision
      [] OTHER -> TRUE

===============================================================================
