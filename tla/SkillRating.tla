---------------------------- MODULE SkillRating ----------------------------
(***************************************************************************)
(* A player's card: packages/skill-engine rates the whole log of a player's *)
(* skill events every time it is asked.  Points are counted in quarters,    *)
(* which makes the multipliers of rules-v0.json whole numbers.              *)
(***************************************************************************)
EXTENDS Integers, Sequences, FiniteSets, FiniteSetsExt

CONSTANTS
  Taxonomy,        \* skill -> [area, tier, counts]: counts in the little-league card
  PracticeDays,    \* the days a drill of FirstSkill may have been done on
  FirstSkill,
  Offered,         \* what else may be appended: [type, skill, day, source]
  MaxAppends,      \* bound: events appended after the first drills
  WindowDays,      \* rules.restDay.windowDays
  Logarithms,      \* r \in 1..99 |-> -ln(1 - r/100) in hundred-thousandths, rounded up
  NoSource

ASSUME SkillAssumption ==
  /\ IsFiniteSet(DOMAIN Taxonomy)
  /\ \A s \in DOMAIN Taxonomy : Taxonomy[s].tier \in 1 .. 4
  /\ PracticeDays \in SUBSET Int /\ IsFiniteSet(PracticeDays) /\ PracticeDays # {}
  /\ FirstSkill \in DOMAIN Taxonomy
  /\ \A o \in Offered : o.day \in Int /\ o.skill \in DOMAIN Taxonomy /\ o.type # "void"
  /\ WindowDays \in Nat
  /\ Logarithms \in [1 .. 99 -> Nat]

VARIABLE skillEvents   \* the log: a set of events with distinct ids

Skills == DOMAIN Taxonomy

\* rules-v0.json: points by tier, quarters by streak length, k by tier.
TierPoints == <<1, 2, 3, 5>>
StreakTable == <<[minDays |-> 1, quarters |-> 4], [minDays |-> 3, quarters |-> 5],
                 [minDays |-> 7, quarters |-> 6], [minDays |-> 14, quarters |-> 7],
                 [minDays |-> 30, quarters |-> 8]>>
RatingConstants == <<60, 150, 300, 600>>
StreakMultiplied == {"drill_completed", "module_completed", "check_passed"}

----------------------------------------------------------------------------
\* The streak timeline over the days T with a drill, earliest first.

CanBridgeBug(missed, lastBridged) ==
  lastBridged = {} \/ \A b \in lastBridged : missed - b >= WindowDays

CanBridge(missed, lastBridged) ==
  lastBridged = {} \/ \A b \in lastBridged : missed - b > WindowDays

Earlier(T, d) == {t \in T : t < d}

Advance(entries, d) ==
  LET previous == CHOOSE e \in entries : TRUE
      missed == d - previous.day - 1
  IN IF entries = {} THEN [day |-> d, length |-> 1, lastBridged |-> {}]
     ELSE IF missed = 0
     THEN [day |-> d, length |-> previous.length + 1, lastBridged |-> previous.lastBridged]
     ELSE IF missed = 1 /\ CanBridge(previous.day + 1, previous.lastBridged)
     THEN [day |-> d, length |-> previous.length + 1, lastBridged |-> {previous.day + 1}]
     ELSE [day |-> d, length |-> 1, lastBridged |-> previous.lastBridged]

Timeline(T) ==
  LET entry[d \in T] ==
        Advance(IF Earlier(T, d) = {} THEN {} ELSE {entry[Max(Earlier(T, d))]}, d)
  IN entry

\* The streak on any day d: a day without a drill keeps the last one's streak
\* while tomorrow's drill could still extend it.
StreakOn(T, d) ==
  LET last == Timeline(T)[Max(Earlier(T, d))]
      missed == d - last.day - 1
  IN CASE d \in T -> Timeline(T)[d].length
       [] d \notin T /\ Earlier(T, d) = {} -> 0
       [] OTHER -> IF missed = 0 \/ (missed = 1 /\ CanBridge(last.day + 1, last.lastBridged))
                   THEN last.length ELSE 0

StreakMultiplier(days) ==
  LET reached == {i \in DOMAIN StreakTable : days >= StreakTable[i].minDays}
  IN IF reached = {} THEN StreakTable[1].quarters ELSE StreakTable[Max(reached)].quarters

----------------------------------------------------------------------------
\* The card of a log E.

Counted(E) ==
  {e \in E : e.type # "void" /\ \A v \in E : v.type = "void" => v.voids # e.id}

TrainingDays(E) == {e.day : e \in {f \in Counted(E) : f.type = "drill_completed"}}

Before(e, f) == e.at < f.at \/ (e.at = f.at /\ e.id < f.id)

\* Only the first completion of one version of a module earns anything.
Earns(E, e) ==
  \/ e.type # "module_completed"
  \/ \A f \in Counted(E) :
       f.type = "module_completed" /\ f.source = e.source => f = e \/ Before(e, f)

BasePoints(e) ==
  CASE e.type = "drill_completed" -> TierPoints[Taxonomy[e.skill].tier]
    [] e.type = "module_completed" -> 10 * Taxonomy[e.skill].tier
    [] e.type = "card_collected" -> 0
    [] OTHER -> 1

EventPoints(E, e) ==
  BasePoints(e) * (IF e.type \in StreakMultiplied
                   THEN StreakMultiplier(StreakOn(TrainingDays(E), e.day)) ELSE 4)

SkillPoints(E, s) ==
  MapThenSumSet(LAMBDA e : EventPoints(E, e),
                {e \in Counted(E) : e.type # "card_collected" /\ e.skill = s /\ Earns(E, e)})

\* A rating of r is reached with k * -ln(1 - r/100) points.
RatingFromPoints(points, k) ==
  Cardinality({r \in 1 .. 99 : 100000 * points >= 4 * k * Logarithms[r]})

SkillRatings(E) ==
  [s \in Skills |-> RatingFromPoints(SkillPoints(E, s), RatingConstants[Taxonomy[s].tier])]

FloorMean(n, total) == IF n = 0 THEN 0 ELSE total \div n

Rated(area) == {s \in Skills : Taxonomy[s].area = area /\ Taxonomy[s].counts}

Areas == {a \in {Taxonomy[s].area : s \in Skills} : Rated(a) # {}}

AreaRating(ratings, area) ==
  FloorMean(Cardinality(Rated(area)), MapThenSumSet(LAMBDA s : ratings[s], Rated(area)))

Overall(ratings) ==
  FloorMean(Cardinality(Areas), MapThenSumSet(LAMBDA a : AreaRating(ratings, a), Areas))

----------------------------------------------------------------------------
\* The log starts with a drill on each day of some set; ids are days.
SkillInit ==
  \E T \in SUBSET PracticeDays :
    skillEvents = {[id |-> d, at |-> d, day |-> d, type |-> "drill_completed",
                    skill |-> FirstSkill, source |-> NoSource] : d \in T}

NewId == 1000 + Cardinality(skillEvents)
Latest == Max({0} \cup {e.at : e \in skillEvents})
MayAppend ==
  Cardinality({e \in skillEvents : e.id > 1000}) < MaxAppends

\* An event is inserted: recorded now, or reported late about the first moment.
AppendEvent ==
  \E o \in Offered, at \in {0, Latest + 1} :
    /\ MayAppend
    /\ skillEvents' = skillEvents \cup
         {[id |-> NewId, at |-> at, day |-> o.day, type |-> o.type, skill |-> o.skill,
           source |-> o.source]}

AppendVoid ==
  \E e \in skillEvents :
    /\ MayAppend
    /\ skillEvents' = skillEvents \cup
         {[id |-> NewId, at |-> Latest + 1, day |-> Latest + 1, type |-> "void", voids |-> e.id]}

SkillNext == AppendEvent \/ AppendVoid

SkillSpec == SkillInit /\ [][SkillNext]_skillEvents

----------------------------------------------------------------------------
\* What a streak is, without a timeline: a missed day between two days of
\* training is rested when no earlier rested day lies within the window, and a
\* streak counts the days of training back to the last day neither trained nor
\* rested.
RestedDays(T) ==
  LET isolated == {m \in {t + 1 : t \in T} : m \notin T /\ m + 1 \in T}
  IN CHOOSE B \in SUBSET isolated :
       \A m \in isolated : m \in B <=> ~\E b \in B : b < m /\ m - b <= WindowDays

StreakOfTraining(T, d) ==
  Cardinality({x \in T : x <= d /\ x .. d \subseteq T \cup RestedDays(T)})

\* streak.ts: the one-pass timeline computes these streaks, on days with training
\* and on days without, where the streak is what training today would extend.
StreaksAreRuns ==
  LET T == TrainingDays(skillEvents)
  IN \A d \in PracticeDays \cup {Max(PracticeDays) + i : i \in 1 .. 2} :
       StreakOn(T, d) = IF d \in T THEN StreakOfTraining(T, d)
                        ELSE StreakOfTraining(T \cup {d}, d) - 1

\* rate.test.ts, "no decay": an event recorded after every other, on a day none
\* is later than, has lowered no skill's points, no rating of a skill or an area
\* and not the overall rating.
RatingNeverDecays ==
  \A e \in skillEvents :
    LET before == skillEvents \ {e}
        were == SkillRatings(before)
        are == SkillRatings(skillEvents)
    IN e.type # "void" /\ (\A f \in before : f.at < e.at /\ f.day <= e.day) =>
         /\ \A s \in Skills :
              SkillPoints(skillEvents, s) >= SkillPoints(before, s) /\ are[s] >= were[s]
         /\ \A a \in Areas : AreaRating(are, a) >= AreaRating(were, a)
         /\ Overall(are) >= Overall(were)
=============================================================================
