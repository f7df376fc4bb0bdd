------------------------------- MODULE Tables -------------------------------
(***************************************************************************)
(* What every analytics answer is built with: app/core/analytics/ordering  *)
(* and schemas, and the day ranges of app/core/query_filters.  Counts are  *)
(* functions from a key to a number; None is the key of unknown.           *)
(***************************************************************************)
EXTENDS Nulls, SequencesExt, FiniteSetsExt, Functions, Integers, TLC

CONSTANTS
    DayLength,   \* instants in a day
    WeekLength,  \* days in a week
    KeyRank      \* the order of keys and labels as text

\* timestamptz >= the first day and < the day after the last; NULL is neither.
Between(instant, range) ==
    /\ range[1] # None => instant # None /\ instant >= DayLength * range[1]
    /\ range[2] # None => instant # None /\ instant < DayLength * (range[2] + 1)

\* _validate_range of the controller: an inverted range is refused.
ValidRange(range) == range[1] # None /\ range[2] # None => range[1] <= range[2]

StepOf(granularity) == IF granularity = "week" THEN WeekLength ELSE 1

\* Day 0 is a Monday.
PeriodStart(day, granularity) == day - (day % StepOf(granularity))
PeriodOf(instant, granularity) == PeriodStart(instant \div DayLength, granularity)

\* Mutant: the range is not brought back to the start of its period.
FillPeriods_Ragged(starts, range, granularity) ==
    IF range[1] = None /\ starts = {} THEN {}
    ELSE LET first == IF range[1] # None THEN range[1] ELSE Min(starts)
             last == IF range[2] # None THEN range[2]
                     ELSE IF starts # {} THEN Max(starts) ELSE first
         IN  {p \in first .. last : (p - first) % StepOf(granularity) = 0}

\* Every period start from one end to the other; a missing end is the data's.
FillPeriods(starts, range, granularity) ==
    IF range[1] = None /\ starts = {} THEN {}
    ELSE LET first == IF range[1] # None THEN PeriodStart(range[1], granularity)
                      ELSE Min(starts)
             last == IF range[2] # None THEN PeriodStart(range[2], granularity)
                     ELSE IF starts # {} THEN Max(starts) ELSE first
         IN  {p \in first .. last : (p - first) % StepOf(granularity) = 0}

Filled(counts, periods) ==
    [p \in periods |-> IF p \in DOMAIN counts THEN counts[p] ELSE 0]

Tally(counts) == FoldFunction(LAMBDA a, b : a + b, 0, counts)
Grouped(rows, KeyOf(_)) ==
    [k \in {KeyOf(r) : r \in rows} |-> Cardinality({r \in rows : KeyOf(r) = k})]

CountAt(counts, key) == IF key \in DOMAIN counts THEN counts[key] ELSE 0
Item(key, n) == [key |-> key, count |-> n]

\* Mutant: keys nobody knows of are dropped.
OrderFixed_KnownOnly(counts, known) ==
    [i \in DOMAIN known |-> Item(known[i], CountAt(counts, known[i]))]
    \o (IF CountAt(counts, None) > 0 THEN <<Item(None, counts[None])>> ELSE <<>>)

\* Rule 1: the known keys in their order and all of them, the rest by key, and
\* last the unknown ones if there are any.
OrderFixed(counts, known) ==
    LET strays == (DOMAIN counts \ {None}) \ Range(known)
    IN  [i \in DOMAIN known |-> Item(known[i], CountAt(counts, known[i]))]
        \o [i \in 1 .. Cardinality(strays) |->
              LET k == SetToSortSeq(strays, LAMBDA a, b : KeyRank[a] < KeyRank[b])[i]
              IN  Item(k, counts[k])]
        \o (IF CountAt(counts, None) > 0 THEN <<Item(None, counts[None])>> ELSE <<>>)

\* Mutant: equal counts are left in the order the database returned them.
RankedBefore_Untied(r, q) ==
    IF (r.key = None) # (q.key = None) THEN q.key = None ELSE r.count >= q.count

\* Rules 2 and 3: the unassigned row last, the largest first, then by key.
RankedBefore(r, q) ==
    IF (r.key = None) # (q.key = None) THEN q.key = None
    ELSE IF r.count # q.count THEN r.count > q.count
    ELSE r.key # None /\ KeyRank[r.key] < KeyRank[q.key]
Ranked(items) == SortSeq(items, RankedBefore)

\* ratio: no rate over nothing.
Ratio(part, whole) == IF whole = 0 THEN None ELSE <<part, whole>>
IsShare(rate) == rate = None \/ (0 <= rate[1] /\ rate[1] <= rate[2])
=============================================================================
