------------------------------- MODULE Lessons -------------------------------
(***************************************************************************)
(* The lesson of the week and what it is worth: an adult answers a question *)
(* for a child (apps/web/app/lessons/lessons.ts), the first correct answer  *)
(* adds an event to the child's skill log (apps/web/app/skills/             *)
(* skill-events.ts), and the page that sent it refreshes the card           *)
(* (lesson-answers.tsx, player-card-updates.ts).  Development servers also   *)
(* take whole batches of events (apps/web/app/dev/skill-events.ts).         *)
(*                                                                          *)
(* One team, and one week: the lesson does not change.  A reply is a        *)
(* message of its own that may be lost, and replies arrive in any order.    *)
(***************************************************************************)
EXTENDS Naturals, FiniteSets, Database

CONSTANTS
  Parents, Pupils,
  Questions,
  Mapped,        \* the questions whose reel skill the taxonomy knows
  Batches,       \* what a development seeding may send: sets of events
  Posts,         \* requests in flight
  MaxPosts,      \* bound on what a behaviour sends
  NoQuestion

ASSUME LessonsAssumption == Mapped \subseteq Questions

VARIABLES
  guardians,     \* <<adult, child>>: who may answer for whom
  graded,        \* committed lesson_answers: an outcome by child and question
  skillLog,      \* committed skill_events
  post,          \* each request and how far it is
  waitingOn,     \* the question whose buttons each adult's page has disabled
  marks,         \* the outcomes each adult's page shows
  generation,    \* each page's newest card refresh of each child
  refreshes,     \* the refreshes in flight
  cards,         \* the log rows each page's card was rated from
  posted         \* requests and refreshes sent so far

lessonVars == <<database, guardians, graded, skillLog, post, waitingOn, marks,
                generation, refreshes, cards, posted>>

pageVars == <<waitingOn, marks, generation, refreshes, cards>>

----------------------------------------------------------------------------
\* checkPassedEventId: the id is made of the child and the question.
CheckPassedId(k, q) == <<k, q>>
CheckPassed(k, q) == [id |-> CheckPassedId(k, q), pupil |-> k, kind |-> "check_passed"]

\* The log's primary key: rows with an id already there.
Clashes(events) == {e \in events : \E r \in skillLog : r.id = e.id}
LogOf(k) == {r \in skillLog : r.pupil = k}

MayAnswer(p, k) == <<p, k>> \in guardians
MayReadCard(p, k) == MayAnswer(p, k)

InTransaction == [h \in Posts |-> IF post[h].op \in {"graded", "sorted"} THEN post[h] ELSE Idle]
Goes(h, to) == post' = [post EXCEPT ![h] = to]

----------------------------------------------------------------------------
(* The page.                                                                *)

\* choose: a question's buttons are disabled only while it is the last asked.
Choose(h) ==
  /\ post[h] = Idle /\ posted < MaxPosts /\ posted' = posted + 1
  /\ \E p \in Parents, k \in Pupils, outcome \in {"correct", "try_again"} :
     \E q \in Questions \ {waitingOn[p]} :
       /\ waitingOn' = [waitingOn EXCEPT ![p] = q]
       /\ Goes(h, [op |-> "answer", by |-> p, pupil |-> k, question |-> q,
                   outcome |-> outcome])
  /\ UNCHANGED <<database, guardians, graded, skillLog, marks, generation, refreshes, cards>>

\* A reply reaches the page: it shows the stored outcome, and a correct one
\* starts a refresh of the child's card.
Receive(h) ==
  LET r == post[h] IN
  /\ r.op = "reply" /\ Goes(h, Idle)
  /\ waitingOn' = [waitingOn EXCEPT ![r.by] = NoQuestion]
  /\ marks' = [marks EXCEPT ![r.by][r.pupil][r.question] = r.outcome]
  /\ IF r.outcome = "correct"
     THEN LET g == generation[r.by][r.pupil] + 1 IN
          /\ generation' = [generation EXCEPT ![r.by][r.pupil] = g]
          /\ refreshes' = refreshes \cup
               {[by |-> r.by, pupil |-> r.pupil, generation |-> g, at |-> "sent", rows |-> {}]}
     ELSE UNCHANGED <<generation, refreshes>>
  /\ UNCHANGED <<database, guardians, graded, skillLog, cards, posted>>

\* A refusal, a failure or a lost reply: the page says the answer did not save.
ReceiveNothing(h) ==
  /\ post[h].op \in {"reply", "failed"} /\ Goes(h, Idle)
  /\ waitingOn' = [waitingOn EXCEPT ![post[h].by] = NoQuestion]
  /\ UNCHANGED <<database, guardians, graded, skillLog, marks, generation, refreshes,
                 cards, posted>>

\* fetchPlayerCardUpdate: the server rates the rows it reads.
ReadCard(f) ==
  /\ f.at = "sent" /\ MayReadCard(f.by, f.pupil)
  /\ refreshes' = (refreshes \ {f}) \cup {[f EXCEPT !.at = "read", !.rows = LogOf(f.pupil)]}
  /\ UNCHANGED <<database, guardians, graded, skillLog, post, waitingOn, marks, generation,
                 cards, posted>>

\* createPlayerCardRefresher drops an answer that a newer refresh overtook.
IsNewestRefresh(f) == generation[f.by][f.pupil] = f.generation

ShowCard(f) ==
  /\ f.at = "read" /\ refreshes' = refreshes \ {f}
  /\ cards' = IF IsNewestRefresh(f) THEN [cards EXCEPT ![f.by][f.pupil] = f.rows] ELSE cards
  /\ UNCHANGED <<database, guardians, graded, skillLog, post, waitingOn, marks, generation,
                 posted>>

DropRefresh(f) ==
  /\ refreshes' = refreshes \ {f}
  /\ UNCHANGED <<database, guardians, graded, skillLog, post, waitingOn, marks, generation,
                 cards, posted>>

----------------------------------------------------------------------------
(* The server.                                                              *)

\* recordLessonAnswer up to its SELECT of the earlier answer.
ReadPrevious(h) ==
  LET r == post[h] IN
  /\ r.op = "answer" /\ TransactionMayBegin(InTransaction)
  /\ Goes(h, IF MayAnswer(r.by, r.pupil)
             THEN [op |-> "graded", by |-> r.by, pupil |-> r.pupil, question |-> r.question,
                   outcome |-> r.outcome, previous |-> graded[r.pupil][r.question]]
             ELSE [r EXCEPT !.op = "failed"])
  /\ UNCHANGED <<database, guardians, graded, skillLog, pageVars, posted>>

\* The upsert keeps a correct answer whatever is sent after it.
Kept(old, new) == IF old = "correct" THEN old ELSE new

IsNewlyCorrectBug(r, stored) == r.outcome = "correct" /\ stored # "correct"
IsNewlyCorrect(r, stored) == r.outcome = "correct" /\ r.previous # "correct"

\* The upsert, the SELECT of what it stored, appendCheckPassed (whose INSERT
\* does nothing where the id is there) and the commit.
Grade(h) ==
  LET r == post[h]
      stored == Kept(graded[r.pupil][r.question], r.outcome)
      event == CheckPassed(r.pupil, r.question) IN
  /\ r.op = "graded"
  /\ graded' = [graded EXCEPT ![r.pupil][r.question] = stored]
  /\ skillLog' = IF IsNewlyCorrect(r, stored) /\ r.question \in Mapped /\ Clashes({event}) = {}
                 THEN skillLog \cup {event} ELSE skillLog
  /\ Goes(h, [op |-> "reply", by |-> r.by, pupil |-> r.pupil, question |-> r.question,
              outcome |-> stored])
  /\ UNCHANGED <<database, guardians, pageVars, posted>>

PostFails(h) ==
  /\ post[h].op \in {"answer", "graded"}
  /\ Goes(h, [post[h] EXCEPT !.op = "failed"])
  /\ UNCHANGED <<database, guardians, graded, skillLog, pageVars, posted>>

\* claimsAnotherCheckPassedId: only the event it is made of may bear such an id.
CheckIds == {CheckPassedId(k, q) : k \in Pupils, q \in Questions}
ClaimsAnother(e) == e.id \in CheckIds /\ \A q \in Questions : e # CheckPassed(e.pupil, q)

\* seedSkillEvents: the batch is refused when an event repeats or claims another's
\* id or differs from the row that has its id; the rows to insert are the others.
SortBatch(h) ==
  /\ post[h] = Idle /\ posted < MaxPosts /\ posted' = posted + 1
  /\ TransactionMayBegin(InTransaction)
  /\ \E p \in Parents, k \in Pupils, batch \in Batches :
       LET events == {[id |-> e.id, pupil |-> k, kind |-> e.kind] : e \in batch} IN
       /\ MayAnswer(p, k)
       /\ \A e, f \in events : e.id = f.id => e = f
       /\ \A e \in events : ~ClaimsAnother(e)
       /\ Clashes(events) \subseteq skillLog
       /\ Goes(h, [op |-> "sorted", fresh |-> events \ skillLog])
  /\ UNCHANGED <<database, guardians, graded, skillLog, pageVars>>

\* All of them, or none: an id another transaction took meanwhile ends this one.
InsertBatch(h) ==
  /\ post[h].op = "sorted" /\ Goes(h, Idle)
  /\ skillLog' = IF Clashes(post[h].fresh) = {} THEN skillLog \cup post[h].fresh ELSE skillLog
  /\ UNCHANGED <<database, guardians, graded, pageVars, posted>>

\* Guardianship, roster and team membership change at other requests.
ChangeGuardian ==
  /\ TransactionMayBegin(InTransaction)
  /\ \E p \in Parents, k \in Pupils :
       guardians' = IF MayAnswer(p, k) THEN guardians \ {<<p, k>>} ELSE guardians \cup {<<p, k>>}
  /\ UNCHANGED <<database, graded, skillLog, post, pageVars, posted>>

LessonsInit ==
  /\ database \in Databases
  /\ guardians = Parents \X Pupils
  /\ graded = [k \in Pupils |-> [q \in Questions |-> "none"]]
  /\ skillLog = {}
  /\ post = [h \in Posts |-> Idle]
  /\ waitingOn = [p \in Parents |-> NoQuestion]
  /\ marks = [p \in Parents |-> graded]
  /\ generation = [p \in Parents |-> [k \in Pupils |-> 0]]
  /\ refreshes = {}
  /\ cards = [p \in Parents |-> [k \in Pupils |-> {}]]
  /\ posted = 0

LessonsNext ==
  \/ ChangeGuardian
  \/ \E h \in Posts :
       \/ Choose(h)
       \/ ReadPrevious(h)
       \/ Grade(h)
       \/ PostFails(h)
       \/ Receive(h)
       \/ ReceiveNothing(h)
       \/ SortBatch(h)
       \/ InsertBatch(h)
  \/ \E f \in refreshes :
       \/ ReadCard(f)
       \/ ShowCard(f)
       \/ DropRefresh(f)

LessonsSpec == LessonsInit /\ [][LessonsNext]_lessonVars

----------------------------------------------------------------------------
\* A correct answer to a question with a skill has its one event in the child's
\* own log, whichever of two overlapping answers committed last; and a page
\* says "correct" only of what is stored so.
CorrectAnswersAreCredited ==
  /\ \A k \in Pupils, q \in Mapped :
       graded[k][q] = "correct" => CheckPassed(k, q) \in skillLog
  /\ \A r, s \in skillLog : r.id = s.id => r = s
  /\ \A p \in Parents, k \in Pupils, q \in Questions :
       marks[p][k][q] = "correct" => graded[k][q] = "correct"

\* What a child has earned is not taken back: a correct answer stays correct,
\* and a page's card is never replaced by an older one that answered late.
LearningIsKept ==
  [][/\ \A k \in Pupils, q \in Questions :
          graded[k][q] = "correct" => graded'[k][q] = "correct"
     /\ \A p \in Parents, k \in Pupils : cards[p][k] \subseteq cards'[p][k]]_lessonVars
=============================================================================
