---------------------------- MODULE EpisodeRanges ----------------------------
(***************************************************************************)
(* How one line of a mapping between AniList and TVDB turns an episode     *)
(* number of one side into episodes of the other, and which lines a user   *)
(* may store.                                                              *)
(***************************************************************************)
EXTENDS Integers

CONSTANT Open  \* the upper end of a range that has none

ASSUME OpenAssumption == Open \notin Int

Bound == Int \union {Open}

\* The numeric part of a line: step > 1 joins that many episodes of the source
\* into one, step < -1 spreads one over that many.
Line == [from: Int, to: Bound, tfrom: Int, tto: Bound, step: Int]

Upto(n, last)          == last = Open \/ n <= last
Within(n, first, last) == first <= n /\ Upto(n, last)

\* part 0: the target is a whole episode.
Joined(l, n) ==
    [episode |-> l.tfrom + ((n - l.from) \div l.step),
     part    |-> IF l.step > 1 THEN ((n - l.from) % l.step) + 1 ELSE 0,
     ceiling |-> IF l.step > 1 THEN l.step ELSE 0]

SpreadFrom(l, n) == l.tfrom + (n - l.from) * (-l.step)

Spread(l, n) ==
    {[episode |-> t, part |-> 0, ceiling |-> 0] :
        t \in {t \in SpreadFrom(l, n)..(SpreadFrom(l, n) - l.step - 1) : Upto(t, l.tto)}}

\* Where episode n of the source goes by this line alone.
Targets(l, n) ==
    IF ~Within(n, l.from, l.to) \/ l.step = 0 THEN {}
    ELSE IF l.step > 0 THEN {t \in {Joined(l, n)} : Upto(t.episode, l.tto)}
    ELSE Spread(l, n)

Hits(l, n) == {t.episode : t \in Targets(l, n)}

\* A slip: only a join is turned round.
TurnedJoins(step) == IF step >= 2 THEN -step ELSE step

Turned(step) == IF step >= 2 \/ step <= -2 THEN -step ELSE step

\* The same line read from the other side.
Reversed(l) == [l EXCEPT !.from = l.tfrom, !.to = l.tto, !.tfrom = l.from, !.tto = l.to,
                         !.step = Turned(l.step)]

Count(first, last) == last - first + 1

\* A slip: the counts are compared only without a step.
ValidRangesUncounted(l) ==
    /\ l.step >= 1 \/ l.step <= -2
    /\ (l.to = Open) <=> (l.tto = Open)
    /\ l.to # Open => l.from <= l.to /\ l.tfrom <= l.tto
    /\ l.to # Open /\ l.step = 1 => Count(l.from, l.to) = Count(l.tfrom, l.tto)

\* What MappingAPIComponent lets through.
ValidRanges(l) ==
    /\ l.step >= 1 \/ l.step <= -2
    /\ (l.to = Open) <=> (l.tto = Open)
    /\ l.to # Open =>
        /\ l.from <= l.to /\ l.tfrom <= l.tto
        /\ l.step >= 1  => Count(l.from, l.to) = l.step * Count(l.tfrom, l.tto)
        /\ l.step <= -2 => Count(l.tfrom, l.tto) = -l.step * Count(l.from, l.to)

\* The two sides agree: every episode of the line has a target, and from each
\* of its targets one comes back to it.
RoundTrips(l, n) ==
    Within(n, l.from, l.to) =>
        /\ Hits(l, n) # {}
        /\ \A t \in Hits(l, n) : Within(t, l.tfrom, l.tto) /\ n \in Hits(Reversed(l), t)
=============================================================================
