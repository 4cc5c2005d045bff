-------------------------- MODULE MCSurroundings --------------------------
EXTENDS Surroundings

CONSTANTS h1, h2, q1, q2, kit, kat, s1

Symmetry == Permutations({h1, h2})

\* Seedings: one reel's drill, and an answer's id with a void of a drill.
MCBatches ==
  {{[id |-> s1, kind |-> "drill"]},
   {[id |-> <<kit, q1>>, kind |-> "check_passed"], [id |-> s1, kind |-> "void"]}}

----------------------------------------------------------------------------
\* Events that end the same day, after midnight and a day later, and a series.
MCStoredEvents ==
  {[localTime |-> 1020, durationMinutes |-> d, weekly |-> FALSE, byWeekday |-> {},
    startDate |-> 4, untilDate |-> Blank] : d \in {90, 480, 1440}}
  \cup {[localTime |-> 0, durationMinutes |-> 1020, weekly |-> TRUE, byWeekday |-> {0, 3},
         startDate |-> 4, untilDate |-> 9]}
MCNewEvent == [date |-> 4, start |-> 1020, end |-> 1080]

----------------------------------------------------------------------------
\* Two skills of the card's infield, one of another area that does not count.
MCTaxonomy ==
  [throwing |-> [area |-> "infield", tier |-> 1, counts |-> TRUE],
   fielding |-> [area |-> "infield", tier |-> 3, counts |-> TRUE],
   composure |-> [area |-> "mental", tier |-> 2, counts |-> FALSE]]

MCOffered ==
  {[type |-> type, skill |-> "fielding", day |-> day,
    source |-> IF type = "module_completed" THEN "v1" ELSE NoSource] :
     type \in {"drill_completed", "module_completed", "check_passed"}, day \in {5, 10, 11}}
  \cup {[type |-> "card_collected", skill |-> "fielding", day |-> 10, source |-> NoSource],
        [type |-> "high_five", skill |-> "composure", day |-> 10, source |-> NoSource]}

MCLogarithms ==
  <<1006, 2021, 3046, 4083, 5130, 6188, 7258, 8339, 9432, 10537, 11654, 12784, 13927, 15083,
    16252, 17436, 18633, 19846, 21073, 22315, 23573, 24847, 26137, 27444, 28769, 30111, 31472,
    32851, 34250, 35668, 37107, 38567, 40048, 41552, 43079, 44629, 46204, 47804, 49430, 51083,
    52764, 54473, 56212, 57982, 59784, 61619, 63488, 65393, 67335, 69315, 71335, 73397, 75503,
    77653, 79851, 82099, 84398, 86751, 89160, 91630, 94161, 96759, 99426, 102166, 104983,
    107881, 110867, 113944, 117119, 120398, 123788, 127297, 130934, 134708, 138630, 142712,
    146968, 151413, 156065, 160944, 166074, 171480, 177196, 183259, 189712, 196612, 204023,
    212027, 220728, 230259, 240795, 252573, 265927, 281342, 299574, 321888, 350656, 391203,
    460518>>

----------------------------------------------------------------------------
\* Day 0 is a Thursday; a walk may start before it, and never end.
MCSchedules ==
  [frequency : {"weekly"}, byWeekday : {{}, {2}, {0, 4}, 1 .. 5}, start : {-9, -1, 0, 3},
   until : {-2, 5, 12, 60}]
  \cup [frequency : {"once"}, byWeekday : {{}}, start : {-1, 3}, until : {0}]

\* Offsets that move an hour either way, west and east, and one that stays.
MCZones ==
  {[before |-> o[1], after |-> o[2], at |-> at] :
     o \in {<<-8, -7>>, <<-7, -8>>, <<10, 11>>, <<11, 10>>, <<0, 1>>, <<5, 5>>},
     at \in {10, -13}}

----------------------------------------------------------------------------
Values == {<<>>, <<LETTER>>, <<QUOTE>>, <<LETTER, LF>>, <<DELIMITER>>, <<LETTER, LETTER, LETTER>>}
Rows == {<<v>> : v \in Values} \cup {<<v, w>> : v \in Values, w \in {<<>>, <<LETTER>>, <<LF, QUOTE>>}}
          \cup {<< <<>>, <<>>, <<>> >>}
MCTables == {<<r>> : r \in Rows} \cup {<<r, s>> : r, s \in Rows}
              \cup {<< << <<>> >>, << <<>> >>, << <<>> >> >>}

Cols == [kind : {"child", "birth", "email", "adult_email", "other"}, slot : {0}]
          \cup [kind : {"rel", "name"}, slot : {1, 2}]

\* Every table under a plain header, and a plain table under every header.
MCUploads ==
  [table : MCTables, header : {<<[kind |-> "child", slot |-> 0]>>}]
  \cup [table : {<< << <<LETTER>> >> >>},
        header : [1 .. 3 -> Cols] \cup [1 .. 2 -> Cols]]
  \cup {[table |-> <<>>, header |-> <<>>]}

----------------------------------------------------------------------------
File(x) == [kind |-> "file", data |-> x]
Link(x) == [kind |-> "link", data |-> x]
Directory == [kind |-> "directory", data |-> "none"]
Device == [kind |-> "device", data |-> "none"]
Missing == [kind |-> "absent", data |-> "none"]

\* A release of a server and something beside it; another release, what may
\* lie on the disk instead, and a configuration of either.
Release(extra) == [server |-> File("new"), extra |-> extra]
Previous == [server |-> File("old"), extra |-> Missing]
Archives == {Release(e) : e \in {Missing, Directory, Link("server"), Link("outside"), Device}} \cup {Previous}

MCHosts ==
  {[archive |-> a, commit |-> c,
    expected |-> [digest |-> <<x, "main">>, commit |-> "main"], tree |-> t] :
     a \in Archives, c \in {"main", "branch"},
     x \in {Release(e) : e \in {Missing, Directory, Link("server"), Link("outside"), Device}},
     t \in {Release(e) : e \in {Missing, Link("server"), Link("outside"), Device, File("new")}}
             \cup {Previous}}

----------------------------------------------------------------------------
Rule(m, gs) == [matches |-> m, forward |-> {[group |-> g, weight |-> 1] : g \in gs}]
HTTPS(rules) == [port |-> 443, secure |-> TRUE, rules |-> rules]
Base == [names |-> Names, origin |-> {1}, balancer |-> {1,2},
  listeners |-> {HTTPS({Rule("default", {"main"})})},
  targets |-> [main |-> {"api-instance"}, old |-> {"old-instance"}],
  serves |-> [i \in {"api-instance","old-instance","elsewhere"} |-> [release |-> IF i = "api-instance" THEN "target" ELSE "previous", ready |-> TRUE, devSignIn |-> FALSE]],
  attached |-> [api |-> {"api-sg"}, database |-> {"db-sg"}],
  ingress |-> ("api-sg" :> {[port |-> 3000, from |-> "lb-sg"]} @@ "db-sg" :> {[port |-> 5432, from |-> "api-sg"]} @@ "open-sg" :> {[port |-> 3000, from |-> "world"]}),
  snapshot |-> 3]
One(c) == {c} \cup
 {[c EXCEPT !.names = @ \ {n}] : n \in {"account", "manual encrypted snapshot"}} \cup
 {[c EXCEPT !.origin = o] : o \in {{}, {3}, {1,3}}} \cup
 {[c EXCEPT !.listeners = l] : l \in {{}, {HTTPS({Rule("default",{"main"}), Rule("app", {"old"})})}, {HTTPS({Rule("default",{"main","old"})})}, {HTTPS({Rule("default", {"old"})})},
   {[port |-> 80, secure |-> FALSE, rules |-> {Rule("default",{"main"})}]},  {HTTPS({Rule("default",{"main"})}), [port |-> 80, secure |-> FALSE, rules |-> {Rule("default",{"main"})}]}}} \cup
 {[c EXCEPT !.targets.main = t] : t \in {{}, {"api-instance","old-instance"}, {"old-instance"}}} \cup
 {[c EXCEPT !.serves["api-instance"] = s] : s \in {[release |-> "previous", ready |-> TRUE, devSignIn |-> FALSE],[release |-> "target", ready |-> FALSE, devSignIn |-> FALSE],[release |-> "target", ready |-> TRUE, devSignIn |-> TRUE]}} \cup
 {[c EXCEPT !.serves["old-instance"].release = "target"]} \cup
 {[c EXCEPT !.attached.api = @ \cup {"open-sg"}], [c EXCEPT !.ingress["api-sg"] = @ \cup {[port |-> 3000, from |-> "world"]}], [c EXCEPT !.ingress["db-sg"] = {}]} \cup
 {[c EXCEPT !.snapshot = s] : s \in {-1, 0, 24, 25}}
MCClouds == UNION {One(c) : c \in One(Base)}
=============================================================================
