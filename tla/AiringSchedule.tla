---------------------------- MODULE AiringSchedule ----------------------------
(***************************************************************************)
(* get_airing_schedules_in_range: the schedule of an anime is kept by the  *)
(* month, each month with eight days before and after it, and a range is   *)
(* answered from the months that are there and those that are fetched.     *)
(***************************************************************************)
EXTENDS Integers, Sequences, FiniteSets

CONSTANTS
    MonthStart, \* when each of consecutive months begins, and when the last one ends: a sequence
    Unit        \* moments in a day; users' days start at any of them

Months == 1..Len(MonthStart) - 1
Days(n) == n * Unit

ASSUME AiringAssumption ==
    /\ Unit \in Nat \ {0}
    /\ MonthStart \in Seq(Nat) /\ Len(MonthStart) > 0 /\ MonthStart[1] = 0
    /\ \A m, n \in DOMAIN MonthStart : m < n => MonthStart[m] + Days(28) <= MonthStart[n]

MonthOf(t) == CHOOSE m \in Months : MonthStart[m] <= t /\ t < MonthStart[m + 1]

VARIABLES
    months, \* the months recorded for the anime
    ask,      \* the request in flight: its range, the months it needs and has, its answer
    answered

airingVars == <<months, ask, answered>>

NoAsk == [from |-> 0, to |-> 0, missing |-> {}, fetched |-> {}]

AiringInit ==
    /\ months \in SUBSET Months
    /\ ask = NoAsk /\ answered = {}

\* A slip: no margin before the month.
WindowAfter(m) == MonthStart[m]..(MonthStart[m + 1] + Days(8) - 1)

\* What is fetched for a month: a week and a day more on both sides.
Window(m) == (MonthStart[m] - Days(8))..(MonthStart[m + 1] + Days(8) - 1)

\* The range of a day, a week or a month; a user's month begins less than a day
\* from the month of UTC.
Ranges ==
    LET end == MonthStart[Len(MonthStart)]
        all == {<<from, from + Days(n)>> : from \in 0..end - 1, n \in {1, 7}}
               \union {<<MonthStart[m] + late, MonthStart[m + 1] + late>> :
                           m \in Months, late \in 1 - Unit..Unit - 1}
    IN  {r \in all : r[1] >= 0 /\ r[2] <= end}

\* Up to seven whole days need one month only, if the range is in two.
EitherMonth(r) == r[2] - r[1] - 1 < Days(8)

Needed(r) == {MonthOf(r[1]), MonthOf(r[2] - 1)}

\* Nothing recorded: all that is needed, or any one of two; otherwise what is
\* missing, unless either does. A forced request fetches all.
Missing(r, forced) ==
    LET here == Needed(r) \intersect months
    IN  CASE forced                           -> {Needed(r)}
          [] ~forced /\ here = {} /\ EitherMonth(r) -> {{m} : m \in Needed(r)}
          [] ~forced /\ here # {} /\ EitherMonth(r) -> {{}}
          [] OTHER                            -> {Needed(r) \ here}

\* What the answer holds of a record: the part in the range.
Part(r, m) == Window(m) \intersect (r[1]..r[2] - 1)

AskSchedule(r, forced) ==
    /\ ask = NoAsk
    /\ \E need \in Missing(r, forced) :
        ask' = [from |-> r[1], to |-> r[2], missing |-> need, fetched |-> {}]
    /\ answered' = UNION {Part(r, m) : m \in IF forced THEN {} ELSE Needed(r) \intersect months}
    /\ UNCHANGED months

FetchMonth(m) ==
    /\ m \in ask.missing
    /\ ask' = [ask EXCEPT !.missing = @ \ {m}, !.fetched = @ \union {m}]
    /\ answered' = answered \union Part(<<ask.from, ask.to>>, m)
    /\ UNCHANGED months

\* The answer is given, and the transaction with the months fetched commits.
AnswerSchedule ==
    /\ ask # NoAsk /\ ask.missing = {}
    /\ months' = months \union ask.fetched
    /\ ask' = NoAsk /\ answered' = {}

\* AniList fails: no answer, no month.
ScheduleFails ==
    /\ ask # NoAsk /\ ask.missing # {}
    /\ ask' = NoAsk /\ answered' = {}
    /\ UNCHANGED months

\* delete_monthly_updated_older_than, of an anime nobody has seen lately.
ForgetMonth(m) ==
    /\ m \in months
    /\ months' = months \ {m}
    /\ UNCHANGED <<ask, answered>>

AiringNext ==
    \/ \E r \in Ranges, forced \in BOOLEAN : AskSchedule(r, forced)
    \/ \E m \in Months : FetchMonth(m) \/ ForgetMonth(m)
    \/ AnswerSchedule \/ ScheduleFails

AiringSpec == AiringInit /\ [][AiringNext]_airingVars

-----------------------------------------------------------------------------
AiringTypeOK ==
    /\ months \subseteq Months
    /\ ask.missing \union ask.fetched \subseteq Months
    /\ ask.missing \intersect ask.fetched = {}

\* Whatever months were recorded before, and wherever the user's day begins, the
\* answer leaves out no moment of the day, week or month asked for, though a week
\* over two months is answered from either one.
RangeIsCovered ==
    ask # NoAsk /\ ask.missing = {} => answered = ask.from..ask.to - 1
=============================================================================
