------------------------- MODULE SurroundingsProofs -------------------------
(***************************************************************************)
(* For any number of slots, drafts, invitations, adults, children and       *)
(* requests: what the pages and sheets show, what a lesson earns, what a    *)
(* projection discloses, and all of what stands around the records together.*)
(***************************************************************************)
EXTENDS Surroundings, CalculationsProofs, FiniteSetTheorems, TLAPS

----------------------------------------------------------------------------
(* The duties board *)

PendingAction ==
  [n : Nat, slot : Slots, from : [Slots -> Nat], row : Nat,
   at : {"sent", "row", "done", "lost", "raced", "listed", "relisted"}]

BoardTyped ==
  /\ slotAt \in [Slots -> Nat] /\ boardAt \in [Slots -> Nat]
  /\ commits \in Nat /\ clicks \in Nat
  /\ action \subseteq PendingAction

\* Nothing else is sent while an action is pending (duties-board.tsx, run).
OneActionPends == \A a, b \in action : a = b

\* The page and the server count the same commits.
CommitsAreCounted ==
  \A s \in Slots : boardAt[s] <= slotAt[s] /\ slotAt[s] <= commits

\* What an action brings back is no older than what the page shows.
RepliesAreRecent ==
  \A a \in action :
    /\ \A s \in Slots : boardAt[s] <= a.from[s] /\ a.from[s] <= slotAt[s]
    /\ a.at = "row" => boardAt[a.slot] <= a.row /\ a.row <= slotAt[a.slot]

BoardInv == BoardTyped /\ OneActionPends /\ CommitsAreCounted /\ RepliesAreRecent

LEMMA BoardInitInv == BoardInit => BoardInv
BY DEF BoardInit, BoardInv, BoardTyped, OneActionPends, CommitsAreCounted, RepliesAreRecent

\* The server writes: what was recent stays so.
LEMMA WriteIs ==
  ASSUME BoardInv, NEW s \in Slots, Write(s)
  PROVE  /\ commits' = commits + 1 /\ commits' \in Nat
         /\ slotAt' \in [Slots -> Nat] /\ slotAt'[s] = commits'
         /\ \A t \in Slots : t # s => slotAt'[t] = slotAt[t]
         /\ \A t \in Slots : slotAt[t] <= slotAt'[t] /\ slotAt'[t] <= commits'
BY DEF Write, BoardInv, BoardTyped, CommitsAreCounted

LEMMA RunActionInv == BoardInv /\ RunAction => BoardInv'
<1> SUFFICES ASSUME BoardInv, RunAction PROVE BoardInv'
  OBVIOUS
<1>1. PICK s \in Slots :
        action' = action \cup {[n |-> clicks', slot |-> s, from |-> boardAt, at |-> "sent", row |-> 0]}
  BY DEF RunAction
<1>2. action = {} /\ clicks' \in Nat /\ UNCHANGED <<slotAt, commits, boardAt>>
  BY DEF RunAction, MayRun, BoardInv, BoardTyped
<1>. QED
  BY <1>1, <1>2 DEF BoardInv, BoardTyped, PendingAction, OneActionPends, CommitsAreCounted,
     RepliesAreRecent

\* An action moves on without showing anything.
LEMMA ActionMoves ==
  ASSUME BoardInv, NEW a \in action, NEW b \in PendingAction, Becomes(a, b),
         slotAt' \in [Slots -> Nat], commits' \in Nat, clicks' \in Nat, boardAt' = boardAt,
         \A t \in Slots : slotAt[t] <= slotAt'[t] /\ slotAt'[t] <= commits',
         \A t \in Slots : boardAt[t] <= b.from[t] /\ b.from[t] <= slotAt'[t],
         b.at = "row" => boardAt[b.slot] <= b.row /\ b.row <= slotAt'[b.slot]
  PROVE  BoardInv'
<1>1. action' = {b}
  BY DEF Becomes, BoardInv, OneActionPends
<1>2. CommitsAreCounted'
  BY DEF BoardInv, BoardTyped, CommitsAreCounted
<1>. QED
  BY <1>1, <1>2 DEF BoardInv, BoardTyped, OneActionPends, RepliesAreRecent

LEMMA ServeActionInv == ASSUME BoardInv, NEW a \in action, ServeAction(a) PROVE BoardInv'
<1>1. a \in PendingAction
  BY DEF BoardInv, BoardTyped
<1>2. /\ clicks' \in Nat /\ boardAt' = boardAt
      /\ \A t \in Slots : boardAt[t] <= a.from[t] /\ a.from[t] <= slotAt[t]
      /\ boardAt \in [Slots -> Nat] /\ slotAt \in [Slots -> Nat] /\ commits \in Nat
      /\ a.slot \in Slots /\ a.from \in [Slots -> Nat]
  BY <1>1 DEF ServeAction, BoardInv, BoardTyped, RepliesAreRecent, PendingAction
<1>3. CASE Write(a.slot)
  <2>1. /\ commits' = commits + 1 /\ commits' \in Nat
        /\ slotAt' \in [Slots -> Nat] /\ slotAt'[a.slot] = commits'
        /\ \A t \in Slots : slotAt[t] <= slotAt'[t] /\ slotAt'[t] <= commits'
    BY <1>2, <1>3, WriteIs
  <2>2. PICK b \in {[a EXCEPT !.at = "row", !.row = commits'], [a EXCEPT !.at = "done"],
                    [a EXCEPT !.at = "lost"], [a EXCEPT !.at = "raced"]} : Becomes(a, b)
    BY DEF ServeAction
  <2>3. /\ b \in PendingAction /\ b.from = a.from /\ b.slot = a.slot
        /\ b.at = "row" => b.row = commits'
    BY <1>1, <2>1, <2>2 DEF PendingAction
  <2>4. \A t \in Slots : boardAt[t] <= b.from[t] /\ b.from[t] <= slotAt'[t]
    BY <1>2, <2>1, <2>3
  <2>5. b.at = "row" => boardAt[b.slot] <= b.row /\ b.row <= slotAt'[b.slot]
    BY <1>2, <2>1, <2>3
  <2>. QED
    BY <1>2, <2>1, <2>2, <2>3, <2>4, <2>5, ActionMoves
<1>4. CASE UNCHANGED <<slotAt, commits>> /\ ~Write(a.slot)
  <2>1. PICK b \in {[a EXCEPT !.at = "raced"], [a EXCEPT !.at = "lost"]} : Becomes(a, b)
    BY <1>4 DEF ServeAction
  <2>2. b \in PendingAction /\ b.from = a.from /\ b.slot = a.slot /\ b.at # "row"
    BY <1>1, <2>1 DEF PendingAction
  <2>3. \A t \in Slots : slotAt[t] <= slotAt'[t] /\ slotAt'[t] <= commits'
    BY <1>2, <1>4 DEF BoardInv, CommitsAreCounted
  <2>. QED
    BY <1>2, <1>4, <2>1, <2>2, <2>3, ActionMoves
<1>. QED
  BY <1>3, <1>4 DEF ServeAction

LEMMA ReadListInv == ASSUME BoardInv, NEW a \in action, ReadList(a) PROVE BoardInv'
<1> DEFINE b == [a EXCEPT !.at = IF a.at = "done" THEN "listed" ELSE "relisted", !.from = slotAt]
<1>1. a \in PendingAction /\ Becomes(a, b)
  BY DEF BoardInv, BoardTyped, ReadList
<1>2. b \in PendingAction /\ b.from = slotAt /\ b.slot = a.slot /\ b.at # "row"
  BY <1>1 DEF PendingAction, BoardInv, BoardTyped
<1>3. /\ UNCHANGED <<slotAt, commits, boardAt, clicks>> /\ slotAt \in [Slots -> Nat]
      /\ commits \in Nat /\ clicks \in Nat
      /\ \A t \in Slots : boardAt[t] <= slotAt[t] /\ slotAt[t] <= commits
  BY DEF ReadList, BoardInv, BoardTyped, CommitsAreCounted
<1>4. \A t \in Slots : slotAt[t] <= slotAt[t]
  BY <1>3
<1> HIDE DEF b
<1>. QED
  BY <1>1, <1>2, <1>3, <1>4, ActionMoves

\* An action ends: what it shows is no older than what was shown.
LEMMA ActionEnds ==
  ASSUME BoardInv, NEW a \in action, Finish(a), UNCHANGED <<slotAt, commits, clicks>>,
         boardAt' \in [Slots -> Nat], \A t \in Slots : boardAt'[t] <= slotAt[t]
  PROVE  BoardInv'
<1>1. action' = {}
  BY DEF Finish, BoardInv, OneActionPends
<1>. QED
  BY <1>1 DEF BoardInv, BoardTyped, OneActionPends, CommitsAreCounted, RepliesAreRecent

LEMMA EndingIs ==
  ASSUME BoardInv, NEW a \in action, ShowRow(a) \/ ShowList(a) \/ ListFails(a) \/ NothingArrives(a)
  PROVE  /\ Finish(a) /\ UNCHANGED <<slotAt, commits, clicks>>
         /\ boardAt' \in [Slots -> Nat]
         /\ \A t \in Slots : boardAt[t] <= boardAt'[t] /\ boardAt'[t] <= slotAt[t]
<1>1. /\ a \in PendingAction /\ boardAt \in [Slots -> Nat]
      /\ \A t \in Slots : boardAt[t] <= a.from[t] /\ a.from[t] <= slotAt[t]
      /\ \A t \in Slots : boardAt[t] <= boardAt[t] /\ boardAt[t] <= slotAt[t]
      /\ a.at = "row" => boardAt[a.slot] <= a.row /\ a.row <= slotAt[a.slot]
  BY DEF BoardInv, BoardTyped, RepliesAreRecent, CommitsAreCounted
<1>2. a.from \in [Slots -> Nat] /\ a.slot \in Slots /\ a.row \in Nat
  BY <1>1 DEF PendingAction
<1>3. CASE ShowRow(a)
  BY <1>1, <1>2, <1>3 DEF ShowRow
<1>4. CASE ShowList(a)
  BY <1>1, <1>2, <1>4 DEF ShowList
<1>5. CASE ListFails(a) \/ NothingArrives(a)
  BY <1>1, <1>5 DEF ListFails, NothingArrives
<1>. QED
  BY <1>3, <1>4, <1>5

LEMMA OthersWriteInv == BoardInv /\ OthersWrite => BoardInv'
<1> SUFFICES ASSUME BoardInv, OthersWrite PROVE BoardInv'
  OBVIOUS
<1>1. PICK s \in Slots : Write(s)
  BY DEF OthersWrite
<1>2. /\ commits' \in Nat /\ slotAt' \in [Slots -> Nat]
      /\ \A t \in Slots : slotAt[t] <= slotAt'[t] /\ slotAt'[t] <= commits'
  BY <1>1, WriteIs
<1>3. BoardTyped' /\ OneActionPends'
  BY <1>2 DEF OthersWrite, BoardInv, BoardTyped, OneActionPends
<1>4. CommitsAreCounted'
  BY <1>2 DEF OthersWrite, BoardInv, BoardTyped, CommitsAreCounted
<1>5. RepliesAreRecent'
  BY <1>2 DEF OthersWrite, BoardInv, BoardTyped, RepliesAreRecent, PendingAction
<1>. QED
  BY <1>3, <1>4, <1>5 DEF BoardInv

LEMMA BoardNextInv == BoardInv /\ [BoardNext]_boardVars => BoardInv'
<1> SUFFICES ASSUME BoardInv, [BoardNext]_boardVars PROVE BoardInv'
  OBVIOUS
<1>1. CASE UNCHANGED boardVars
  BY <1>1 DEF boardVars, BoardInv, BoardTyped, OneActionPends, CommitsAreCounted, RepliesAreRecent
<1>2. CASE RunAction \/ OthersWrite
  BY <1>2, RunActionInv, OthersWriteInv
<1>3. ASSUME NEW a \in action, ServeAction(a) \/ ReadList(a)
      PROVE  BoardInv'
  BY <1>3, ServeActionInv, ReadListInv
<1>4. ASSUME NEW a \in action, ShowRow(a) \/ ShowList(a) \/ ListFails(a) \/ NothingArrives(a)
      PROVE  BoardInv'
  BY <1>4, EndingIs, ActionEnds
<1>. QED
  BY <1>1, <1>2, <1>3, <1>4 DEF BoardNext

LEMMA BoardInvariant == BoardSpec => []BoardInv
BY BoardInitInv, BoardNextInv, PTL DEF BoardSpec

\* duties-board.tsx and duties-model.ts: no reply undoes on the screen what an
\* earlier one, or a refresh, brought.
THEOREM BoardOnlyAdvances == BoardSpec => BoardNeverGoesBack
<1>1. ASSUME BoardInv, [BoardNext]_boardVars
      PROVE  [\A s \in Slots : boardAt'[s] >= boardAt[s]]_boardVars
  <2>1. CASE UNCHANGED boardAt
    BY <1>1, <2>1 DEF BoardInv, BoardTyped
  <2>2. ASSUME NEW a \in action, ShowRow(a) \/ ShowList(a) \/ ListFails(a) \/ NothingArrives(a)
        PROVE  \A s \in Slots : boardAt'[s] >= boardAt[s]
    BY <1>1, <2>2, EndingIs DEF BoardInv, BoardTyped
  <2>. QED
    BY <1>1, <2>1, <2>2 DEF BoardNext, boardVars, RunAction, OthersWrite, ServeAction, ReadList
<1>. QED
  BY <1>1, BoardInvariant, PTL DEF BoardSpec, BoardNeverGoesBack

----------------------------------------------------------------------------
(* The panels of the event and team pages *)

AskStates == {"idle", "sent", "replied", "merged", "listed", "unlisted", "failed"}

Requests == {"none", "record", "send", "resend", "revoke", "grant", "create", "cancel"}

ToldRecords ==
  [kind : {"none", "ok", "error"}, op : Requests, entry : Entries, saved : Nat, list : AsOf]

PanelsTyped ==
  /\ panel \in Panels
  /\ entryAt \in AsOf /\ viewAt \in AsOf /\ saves \in Nat /\ link \in Nat /\ presses \in Nat
  /\ meddled \in BOOLEAN /\ listStale \in BOOLEAN
  /\ late \subseteq [entry : Entries, op : Requests]
  /\ ask \in [op : Requests, entry : Entries, at : AskStates, saved : Nat, list : AsOf]
  /\ told \in ToldRecords

\* The page and the server count the same commits.
ViewsAreCounted ==
  \A e \in Entries : viewAt[e] <= entryAt[e] /\ entryAt[e] <= saves

\* What an answer brings back is no older than what the page shows.
AnswersAreRecent ==
  /\ ask.at \in {"replied", "merged", "listed", "unlisted"} =>
       /\ ask.saved <= entryAt[ask.entry] /\ ask.saved <= ask.list[ask.entry]
       /\ \A e \in Entries : ask.list[e] <= entryAt[e]
  /\ ask.at = "replied" =>
       viewAt[ask.entry] <= ask.saved /\ \A e \in Entries : viewAt[e] <= ask.list[e]
  /\ ask.at = "merged" => ask.saved <= viewAt[ask.entry]
  /\ ask.at = "listed" => \A e \in Entries : viewAt[e] <= ask.list[e]
  /\ ask.at = "unlisted" => ask.saved <= viewAt[ask.entry]
  /\ ask.at \in {"merged", "unlisted"} => panel = "invitations"
  /\ ask.at = "idle" <=> ask = NoAsk

\* The commit of the request under way is the entry's newest.
NewestIsAnswered ==
  ~meddled /\ ask.at \in {"replied", "merged", "listed", "unlisted"} =>
    entryAt[ask.entry] = ask.saved

\* A request is only under way when nothing is said of the one before.
NothingIsTold == ask # NoAsk => told = NothingTold

FeedIsOneEntry == panel = "feed" => ask.entry = TheFeed

PanelsInv ==
  /\ PanelsTyped /\ ViewsAreCounted /\ AnswersAreRecent /\ NewestIsAnswered
  /\ NothingIsTold /\ FeedIsOneEntry /\ SavedIsShown /\ LinksWork

LEMMA ButtonsAreNamed ==
  ASSUME NEW p \in Panels, NEW op \in Buttons[p] PROVE op \in Requests /\ op # "none"
BY DEF Buttons, Panels, Requests

LEMMA NothingYet ==
  /\ [e \in Entries |-> 0] \in AsOf
  /\ NoAsk \in [op : Requests, entry : Entries, at : AskStates, saved : Nat, list : AsOf]
  /\ NothingTold \in ToldRecords
<1>1. [e \in Entries |-> 0] \in AsOf
  BY DEF AsOf
<1>2. NoAsk \in [op : Requests, entry : Entries, at : AskStates, saved : Nat, list : AsOf]
  BY <1>1, PanelsAssumption DEF NoAsk, Requests, AskStates
<1>3. NothingTold \in ToldRecords
  BY <1>1, PanelsAssumption DEF NothingTold, ToldRecords, Requests
<1>. QED
  BY <1>1, <1>2, <1>3

LEMMA PanelsInitInv == PanelsInit => PanelsInv
<1> SUFFICES ASSUME PanelsInit PROVE PanelsInv
  OBVIOUS
<1>1. /\ entryAt = [e \in Entries |-> 0] /\ viewAt = [e \in Entries |-> 0]
      /\ saves = 0 /\ link = 0 /\ ask = NoAsk /\ told = NothingTold
  BY DEF PanelsInit
<1>2. PanelsTyped
  BY NothingYet DEF PanelsInit, PanelsTyped
<1>3. ViewsAreCounted
  <2>1. ASSUME NEW e \in Entries PROVE viewAt[e] = 0 /\ entryAt[e] = 0
    BY <1>1
  <2>2. ASSUME NEW e \in Entries PROVE viewAt[e] <= entryAt[e] /\ entryAt[e] <= saves
    BY <1>1, <2>1
  <2>. QED
    BY <2>2 DEF ViewsAreCounted
<1>4. AnswersAreRecent /\ NewestIsAnswered /\ FeedIsOneEntry
  BY DEF PanelsInit, AnswersAreRecent, NewestIsAnswered, FeedIsOneEntry, NoAsk
<1>5. NothingIsTold /\ SavedIsShown /\ LinksWork
  BY DEF PanelsInit, NothingIsTold, SavedIsShown, LinksWork, NothingTold
<1>. QED
  BY <1>2, <1>3, <1>4, <1>5 DEF PanelsInv

LEMMA PressInv == PanelsInv /\ Press => PanelsInv'
<1> SUFFICES ASSUME PanelsInv, Press PROVE PanelsInv'
  OBVIOUS
<1>1. PICK e \in (IF panel = "feed" THEN {TheFeed} ELSE Entries), op \in Buttons[panel] :
        ask' = [NoAsk EXCEPT !.op = op, !.entry = e, !.at = "sent"]
  BY DEF Press
<1>2. /\ UNCHANGED <<panel, entryAt, saves, late, meddled, viewAt, listStale, link>>
      /\ told' = NothingTold /\ presses' = presses + 1
  BY DEF Press
<1>3. e \in Entries /\ (panel = "feed" => e = TheFeed) /\ op \in Requests /\ op # "none"
  BY PanelsAssumption, ButtonsAreNamed DEF PanelsInv, PanelsTyped
<1>4. /\ ask' = [op |-> op, entry |-> e, at |-> "sent", saved |-> 0, list |-> [f \in Entries |-> 0]]
      /\ ask' # NoAsk
  BY <1>1, <1>3 DEF NoAsk
<1>. QED
  <2>1. PanelsTyped' /\ ViewsAreCounted'
    BY <1>2, <1>3, <1>4, NothingYet DEF PanelsInv, PanelsTyped, ViewsAreCounted, AskStates
  <2>2. AnswersAreRecent' /\ NewestIsAnswered' /\ FeedIsOneEntry'
    BY <1>2, <1>3, <1>4 DEF AnswersAreRecent, NewestIsAnswered, FeedIsOneEntry
  <2>3. NothingIsTold' /\ SavedIsShown' /\ LinksWork'
    BY <1>2, <1>4 DEF NothingIsTold, SavedIsShown, LinksWork, NothingTold
  <2>. QED
    BY <2>1, <2>2, <2>3 DEF PanelsInv

\* The server commits: what was shown and answered is no newer than before.
LEMMA SaveIs ==
  ASSUME PanelsInv, NEW e \in Entries, Save(e)
  PROVE  /\ saves' = saves + 1 /\ saves' \in Nat
         /\ entryAt' \in AsOf /\ entryAt'[e] = saves'
         /\ \A f \in Entries : entryAt[f] <= entryAt'[f] /\ entryAt'[f] <= saves'
BY DEF Save, PanelsInv, PanelsTyped, ViewsAreCounted, AsOf

LEMMA ServeAskInv == PanelsInv /\ ServeAsk => PanelsInv'
<1> SUFFICES ASSUME PanelsInv, ServeAsk PROVE PanelsInv'
  OBVIOUS
<1>1. /\ ask.at = "sent" /\ ask # NoAsk /\ told = NothingTold
      /\ UNCHANGED <<late, panel, viewAt, listStale, link, told, presses>>
  BY DEF ServeAsk, PageWaits, PanelsInv, AnswersAreRecent, NothingIsTold
<1>2. CASE /\ Save(ask.entry) /\ meddled' = FALSE
           /\ ask' = [ask EXCEPT !.at = "replied", !.saved = saves', !.list = entryAt']
  <2>1. ask.entry \in Entries
    BY DEF PanelsInv, PanelsTyped
  <2>2. ask' # NoAsk
    BY <1>2 DEF NoAsk, PanelsInv, PanelsTyped
  <2>. QED
    <3>1. PanelsTyped'
      BY <1>1, <1>2, <2>1, SaveIs DEF PanelsInv, PanelsTyped, AskStates
    <3>5. ViewsAreCounted'
      BY <1>1, <1>2, <2>1, SaveIs DEF PanelsInv, PanelsTyped, ViewsAreCounted, AsOf
    <3>2. AnswersAreRecent'
      BY <1>1, <1>2, <2>1, <2>2, SaveIs
      DEF PanelsInv, PanelsTyped, ViewsAreCounted, AnswersAreRecent, AsOf
    <3>3. NewestIsAnswered' /\ FeedIsOneEntry'
      BY <1>1, <1>2, <2>1, SaveIs DEF PanelsInv, PanelsTyped, NewestIsAnswered, FeedIsOneEntry
    <3>4. NothingIsTold' /\ SavedIsShown' /\ LinksWork'
      BY <1>1, <2>2 DEF NothingIsTold, SavedIsShown, LinksWork, NothingTold
    <3>. QED
      BY <3>1, <3>2, <3>3, <3>4, <3>5 DEF PanelsInv
<1>3. CASE Save(ask.entry) /\ meddled' = FALSE /\ ask' = [ask EXCEPT !.at = "failed"]
  <2>1. ask.entry \in Entries
    BY DEF PanelsInv, PanelsTyped
  <2>2. ask' # NoAsk
    BY <1>3 DEF NoAsk, PanelsInv, PanelsTyped
  <2>. QED
    <3>1. PanelsTyped'
      BY <1>1, <1>3, <2>1, SaveIs DEF PanelsInv, PanelsTyped, AskStates
    <3>5. ViewsAreCounted'
      BY <1>1, <1>3, <2>1, SaveIs DEF PanelsInv, PanelsTyped, ViewsAreCounted, AsOf
    <3>2. AnswersAreRecent' /\ NewestIsAnswered' /\ FeedIsOneEntry'
      BY <1>1, <1>3, <2>2
      DEF PanelsInv, PanelsTyped, AnswersAreRecent, NewestIsAnswered, FeedIsOneEntry
    <3>3. NothingIsTold' /\ SavedIsShown' /\ LinksWork'
      BY <1>1, <2>2 DEF NothingIsTold, SavedIsShown, LinksWork, NothingTold
    <3>. QED
      BY <3>1, <3>2, <3>3, <3>5 DEF PanelsInv
<1>4. CASE ask' = [ask EXCEPT !.at = "failed"] /\ UNCHANGED <<entryAt, saves, meddled>>
  <2>1. ask' # NoAsk
    BY <1>4 DEF NoAsk, PanelsInv, PanelsTyped
  <2>. QED
    BY <1>1, <1>4, <2>1
    DEF PanelsInv, PanelsTyped, ViewsAreCounted, AnswersAreRecent, NewestIsAnswered, NothingIsTold,
        FeedIsOneEntry, SavedIsShown, LinksWork, AsOf, NothingTold, AskStates
<1>. QED
  BY <1>2, <1>3, <1>4 DEF ServeAsk

LEMMA DisconnectInv == PanelsInv /\ Disconnect => PanelsInv'
<1> SUFFICES ASSUME PanelsInv, Disconnect PROVE PanelsInv'
  OBVIOUS
<1>1. /\ ask.at = "sent" /\ ask # NoAsk /\ told = NothingTold
      /\ UNCHANGED <<entryAt, saves, meddled, panel, viewAt, listStale, link, told, presses>>
      /\ ask' = [ask EXCEPT !.at = "failed"]
      /\ late' = late \cup {[entry |-> ask.entry, op |-> ask.op]}
  BY DEF Disconnect, PageWaits, PanelsInv, AnswersAreRecent, NothingIsTold
<1>2. ask' # NoAsk
  BY <1>1 DEF NoAsk, PanelsInv, PanelsTyped
<1>. QED
  BY <1>1, <1>2
  DEF PanelsInv, PanelsTyped, ViewsAreCounted, AnswersAreRecent, NewestIsAnswered, NothingIsTold,
      FeedIsOneEntry, SavedIsShown, LinksWork, AsOf, NothingTold, AskStates

LEMMA MeddlingInv == PanelsInv /\ (ServeLate \/ OthersSave) => PanelsInv'
<1> SUFFICES ASSUME PanelsInv, ServeLate \/ OthersSave PROVE PanelsInv'
  OBVIOUS
<1>1. PICK e \in Entries : Save(e)
  BY DEF ServeLate, OthersSave, PanelsInv, PanelsTyped
<1>2. /\ meddled' = TRUE /\ late' \subseteq late
      /\ UNCHANGED <<ask, panel, viewAt, listStale, link, told, presses>>
  BY DEF ServeLate, OthersSave, PageWaits
<1>. QED
  BY <1>1, <1>2, SaveIs
  DEF PanelsInv, PanelsTyped, ViewsAreCounted, AnswersAreRecent, NewestIsAnswered, NothingIsTold,
      FeedIsOneEntry, SavedIsShown, LinksWork, AsOf, NoAsk, NothingTold, AskStates

LEMMA ReadBackInv == PanelsInv /\ (ReadBack \/ ReadBackFails) => PanelsInv'
<1> SUFFICES ASSUME PanelsInv, ReadBack \/ ReadBackFails PROVE PanelsInv'
  OBVIOUS
<1>1. /\ ask.at \in {"replied", "merged"} /\ ask # NoAsk /\ told = NothingTold
      /\ UNCHANGED <<panel, entryAt, saves, late, meddled, presses, viewAt, listStale, link, told>>
  BY DEF ReadBack, ReadBackFails, ServerRests, PanelsInv, AnswersAreRecent, NothingIsTold
<1>2. CASE ReadBack
  <2>1. ask' = [ask EXCEPT !.at = "listed", !.list = entryAt] /\ ask' # NoAsk
    BY <1>2 DEF ReadBack, NoAsk, PanelsInv, PanelsTyped
  <2>2. PanelsTyped' /\ ViewsAreCounted'
    BY <1>1, <2>1 DEF PanelsInv, PanelsTyped, ViewsAreCounted, AskStates
  <2>3. AnswersAreRecent'
    BY <1>1, <2>1 DEF PanelsInv, PanelsTyped, ViewsAreCounted, AnswersAreRecent, AsOf
  <2>4. NewestIsAnswered' /\ FeedIsOneEntry'
    BY <1>1, <2>1 DEF PanelsInv, PanelsTyped, NewestIsAnswered, FeedIsOneEntry
  <2>5. NothingIsTold' /\ SavedIsShown' /\ LinksWork'
    BY <1>1, <2>1 DEF NothingIsTold, SavedIsShown, LinksWork, NothingTold
  <2>. QED
    BY <2>2, <2>3, <2>4, <2>5 DEF PanelsInv
<1>3. CASE ReadBackFails
  <2>1. /\ \/ ask' = [ask EXCEPT !.at = "failed"]
           \/ /\ panel = "invitations" /\ ask.at = "merged"
              /\ ask' = [ask EXCEPT !.at = "unlisted"]
        /\ ask' # NoAsk
    BY <1>3 DEF ReadBackFails, NoAsk, PanelsInv, PanelsTyped
  <2>2. PanelsTyped' /\ ViewsAreCounted'
    BY <1>1, <2>1 DEF PanelsInv, PanelsTyped, ViewsAreCounted, AskStates
  <2>3. AnswersAreRecent'
    BY <1>1, <2>1 DEF PanelsInv, PanelsTyped, AnswersAreRecent
  <2>4. NewestIsAnswered' /\ FeedIsOneEntry'
    BY <1>1, <2>1 DEF PanelsInv, PanelsTyped, NewestIsAnswered, FeedIsOneEntry
  <2>5. NothingIsTold' /\ SavedIsShown' /\ LinksWork'
    BY <1>1, <2>1 DEF NothingIsTold, SavedIsShown, LinksWork, NothingTold
  <2>. QED
    BY <2>2, <2>3, <2>4, <2>5 DEF PanelsInv
<1>. QED
  BY <1>2, <1>3

LEMMA ShowInvitationInv == PanelsInv /\ ShowInvitation => PanelsInv'
<1> SUFFICES ASSUME PanelsInv, ShowInvitation PROVE PanelsInv'
  OBVIOUS
<1>1. /\ ask.at = "replied" /\ panel = "invitations" /\ ask # NoAsk /\ told = NothingTold
      /\ UNCHANGED <<panel, entryAt, saves, late, meddled, presses, listStale, link, told>>
      /\ viewAt' = [viewAt EXCEPT ![ask.entry] = ask.saved]
      /\ ask' = [ask EXCEPT !.at = "merged"]
  BY DEF ShowInvitation, Merged, ServerRests, PanelsInv, AnswersAreRecent, NothingIsTold
<1>2. ask' # NoAsk
  BY <1>1 DEF NoAsk, PanelsInv, PanelsTyped
<1>. QED
  BY <1>1, <1>2
  DEF PanelsInv, PanelsTyped, ViewsAreCounted, AnswersAreRecent, NewestIsAnswered, NothingIsTold,
      FeedIsOneEntry, SavedIsShown, LinksWork, AsOf, NothingTold, AskStates

\* A request ends: nothing is under way, and the page shows no less.
LEMMA PanelsAnswered ==
  ASSUME PanelsInv, ask' = NoAsk,
         UNCHANGED <<panel, entryAt, saves, late, meddled, presses>>,
         told' \in ToldRecords,
         viewAt' \in AsOf, listStale' \in BOOLEAN, link' \in Nat,
         \A e \in Entries : viewAt'[e] <= entryAt[e],
         SavedIsShown', LinksWork'
  PROVE  PanelsInv'
BY PanelsAssumption, NothingYet
DEF PanelsInv, PanelsTyped, ViewsAreCounted, AnswersAreRecent, NewestIsAnswered, NothingIsTold,
    FeedIsOneEntry, AsOf, NoAsk, AskStates

LEMMA ShowsInv ==
  ASSUME PanelsInv, ShowAttendance \/ ShowInvitations \/ ShowMember
  PROVE  PanelsInv'
<1>1. /\ UNCHANGED <<panel, entryAt, saves, late, meddled, presses, link>>
      /\ ask' = NoAsk /\ ask # NoAsk
      /\ told' = [kind |-> "ok", op |-> ask.op, entry |-> ask.entry, saved |-> ask.saved,
                  list |-> ask.list]
      /\ panel # "feed"
  BY DEF ShowAttendance, ShowInvitations, ShowMember, ServerRests, TellOf, PanelsInv, AnswersAreRecent
<1>2. /\ viewAt' \in AsOf /\ listStale' \in BOOLEAN
      /\ \A e \in Entries : viewAt'[e] <= entryAt[e]
      /\ SavedIsShown'
  <2>1. CASE ShowAttendance
    BY <1>1, <2>1 DEF ShowAttendance, PanelsInv, PanelsTyped, ViewsAreCounted, AnswersAreRecent,
       SavedIsShown, AsOf
  <2>2. CASE ShowInvitations /\ ask.at = "listed"
    BY <1>1, <2>2 DEF ShowInvitations, PanelsInv, PanelsTyped, ViewsAreCounted, AnswersAreRecent,
       SavedIsShown, AsOf
  <2>3. CASE ShowInvitations /\ ask.at = "unlisted"
    <3>1. viewAt' = viewAt /\ listStale' = TRUE
      BY <2>3 DEF ShowInvitations
    <3>. QED
      BY <1>1, <2>3, <3>1 DEF PanelsInv, PanelsTyped, ViewsAreCounted, AnswersAreRecent,
         SavedIsShown, AsOf
  <2>4. CASE ShowMember
    BY <1>1, <2>4 DEF ShowMember, Merged, PanelsInv, PanelsTyped, ViewsAreCounted, AnswersAreRecent,
       SavedIsShown, AsOf
  <2>. QED
    BY <2>1, <2>2, <2>3, <2>4 DEF ShowInvitations
<1>3. LinksWork'
  BY <1>1 DEF ShowAttendance, ShowInvitations, ShowMember, LinksWork, PanelsInv, NewestIsAnswered
<1>. QED
  BY <1>1, <1>2, <1>3, PanelsAnswered DEF PanelsInv, PanelsTyped, ToldRecords

LEMMA ShowFeedInv == ASSUME PanelsInv, ShowFeed PROVE PanelsInv'
<1>1. /\ UNCHANGED <<panel, entryAt, saves, late, meddled, presses, listStale>>
      /\ ask' = NoAsk /\ told' = NothingTold /\ panel = "feed" /\ ask.entry = TheFeed
      /\ viewAt' = [viewAt EXCEPT ![ask.entry] = ask.saved] /\ ask.at = "replied"
      /\ link' = IF ask.op = "create" THEN ask.saved ELSE 0
  BY DEF ShowFeed, ServerRests, Merged, PanelsInv, FeedIsOneEntry
<1>2. /\ viewAt' \in AsOf /\ \A e \in Entries : viewAt'[e] <= entryAt[e]
      /\ link' \in Nat /\ listStale' \in BOOLEAN
  BY <1>1 DEF PanelsInv, PanelsTyped, ViewsAreCounted, AnswersAreRecent, AsOf
<1>3. SavedIsShown' /\ LinksWork'
  BY <1>1 DEF SavedIsShown, LinksWork, NothingTold, PanelsInv, NewestIsAnswered
<1>. QED
  BY <1>1, <1>2, <1>3, NothingYet, PanelsAnswered

LEMMA LeavePageInv == ASSUME PanelsInv, LeavePage PROVE PanelsInv'
<1>1. /\ UNCHANGED <<panel, entryAt, saves, late, meddled, presses, listStale, link>>
      /\ ask' = NoAsk /\ told' = NothingTold /\ panel # "feed" /\ viewAt' = entryAt
  BY DEF LeavePage, ServerRests
<1>2. viewAt' \in AsOf /\ (\A e \in Entries : viewAt'[e] <= entryAt[e])
  BY <1>1 DEF PanelsInv, PanelsTyped, ViewsAreCounted, AsOf
<1>3. SavedIsShown' /\ LinksWork'
  BY <1>1 DEF SavedIsShown, LinksWork, NothingTold
<1>. QED
  BY <1>1, <1>2, <1>3, NothingYet, PanelsAnswered DEF PanelsInv, PanelsTyped

LEMMA ShowFailureInv == ASSUME PanelsInv, ShowFailure PROVE PanelsInv'
<1>1. /\ UNCHANGED <<panel, entryAt, saves, late, meddled, presses, viewAt, listStale, link>>
      /\ ask' = NoAsk
      /\ told' = [kind |-> "error", op |-> ask.op, entry |-> ask.entry, saved |-> ask.saved,
                  list |-> ask.list]
  BY DEF ShowFailure, ServerRests, TellOf
<1>2. /\ viewAt' \in AsOf /\ listStale' \in BOOLEAN /\ link' \in Nat
      /\ \A e \in Entries : viewAt'[e] <= entryAt[e]
      /\ told' \in ToldRecords
  BY <1>1 DEF PanelsInv, PanelsTyped, ViewsAreCounted, ToldRecords
<1>3. SavedIsShown' /\ LinksWork'
  BY <1>1 DEF SavedIsShown, LinksWork
<1>. QED
  BY <1>1, <1>2, <1>3, PanelsAnswered

LEMMA PanelsNextInv == PanelsInv /\ [PanelsNext]_panelVars => PanelsInv'
<1> SUFFICES ASSUME PanelsInv, [PanelsNext]_panelVars PROVE PanelsInv'
  OBVIOUS
<1>1. CASE UNCHANGED panelVars
  BY <1>1 DEF panelVars, PanelsInv, PanelsTyped, ViewsAreCounted, AnswersAreRecent, NewestIsAnswered,
     NothingIsTold, FeedIsOneEntry, SavedIsShown, LinksWork, AsOf, NoAsk, NothingTold
<1>2. CASE PanelsNext
  BY <1>2, PressInv, ServeAskInv, DisconnectInv, MeddlingInv, ReadBackInv, ShowInvitationInv, ShowsInv,
     ShowFeedInv, LeavePageInv, ShowFailureInv DEF PanelsNext
<1>. QED
  BY <1>1, <1>2

LEMMA PanelsInvariant == PanelsSpec => []PanelsInv
<1>. QED
  BY PanelsInitInv, PanelsNextInv, PTL DEF PanelsSpec

\* attendance-panel.tsx, team-invitations-panel.tsx, team-members.tsx and
\* team-calendar-feed.tsx: what is said to be saved is shown, and a link on
\* display works, whatever is refused, lost or served late.
THEOREM PanelsTellTheTruth == PanelsSpec => []SavedIsShown /\ []LinksWork
<1>1. PanelsInv => SavedIsShown /\ LinksWork
  BY DEF PanelsInv
<1>. QED
  BY <1>1, PanelsInvariant, PTL

\* The same panels: no answer takes an entry back.
THEOREM PanelsOnlyAdvance == PanelsSpec => PanelsNeverGoBack
<1>1. PanelsInv /\ [PanelsNext]_panelVars
        => [\A e \in Entries : viewAt'[e] >= viewAt[e]]_panelVars
  <2> SUFFICES ASSUME PanelsInv, PanelsNext PROVE \A e \in Entries : viewAt'[e] >= viewAt[e]
    OBVIOUS
  <2>1. CASE viewAt' = viewAt
    BY <2>1 DEF PanelsInv, PanelsTyped, AsOf
  <2>2. CASE ShowAttendance \/ ShowInvitations \/ ShowInvitation \/ ShowMember \/ ShowFeed
    BY <2>2 DEF ShowAttendance, ShowInvitations, ShowInvitation, ShowMember, ShowFeed, Merged, PanelsInv,
       PanelsTyped, AnswersAreRecent, AsOf
  <2>3. CASE LeavePage
    BY <2>3 DEF LeavePage, PanelsInv, PanelsTyped, ViewsAreCounted, AsOf
  <2>. QED
    BY <2>1, <2>2, <2>3
    DEF PanelsNext, Press, ServeAsk, Disconnect, ServeLate, OthersSave, ReadBack, ReadBackFails,
        ShowFailure, PageWaits, ServerRests
<1>. QED
  BY <1>1, PanelsInvariant, PTL DEF PanelsSpec, PanelsNeverGoBack

----------------------------------------------------------------------------
(* Drafts of an event *)

DraftRequests == inFlight \cup created

DraftsTyped ==
  /\ submitted \in Seq(Drafts) /\ draft \in Drafts
  /\ lastAttempt.id \in Nat /\ lastAttempt.id <= Len(submitted)
  /\ \A r \in DraftRequests :
       /\ r.n \in 1 .. Len(submitted) /\ r.draft = submitted[r.n]
       /\ r.id \in Nat /\ r.id <= Len(submitted)

\* The last attempt is what was sent last, and its id goes on being used for it.
LastAttemptIsKept ==
  /\ submitted # <<>> => lastAttempt.draft = submitted[Len(submitted)]
  /\ \A r \in DraftRequests :
       (\A k \in r.n .. Len(submitted) : submitted[k] = r.draft) => r.id = lastAttempt.id

OneIdPerAttempt == \A q, r \in DraftRequests : OneAttempt(q, r) => q.id = r.id

OneDraftPerId ==
  /\ \A q, r \in DraftRequests : q.id = r.id => q.draft = r.draft
  /\ \A r \in DraftRequests : r.id = lastAttempt.id => r.draft = lastAttempt.draft

\* The server's receipts: an id is looked up before an event is made.
OneEventPerId == \A e, f \in created : e.id = f.id => e = f

DraftsInv == DraftsTyped /\ LastAttemptIsKept /\ OneIdPerAttempt /\ OneDraftPerId /\ OneEventPerId

LEMMA DraftsInitInv == DraftsInit => DraftsInv
BY DEF DraftsInit, NoAttemptYet, DraftRequests, DraftsInv, DraftsTyped, LastAttemptIsKept,
   OneIdPerAttempt, OneDraftPerId, OneEventPerId

\* A step that sends nothing and makes no event of what was not sent.
LEMMA NothingSent ==
  ASSUME DraftsInv, DraftRequests' \subseteq DraftRequests, draft' \in Drafts, OneEventPerId',
         UNCHANGED <<lastAttempt, submitted>>
  PROVE  DraftsInv'
BY DEF DraftsInv, DraftsTyped, LastAttemptIsKept, OneIdPerAttempt, OneDraftPerId, OneAttempt

LEMMA SubmitKeepsInv == ASSUME DraftsInv, SubmitDraft PROVE DraftsInv'
<1> DEFINE n == Len(submitted) + 1
           id == RequestId(n)
           new == [n |-> n, id |-> id, draft |-> draft]
<1>1. /\ submitted' = Append(submitted, draft)
      /\ lastAttempt' = [draft |-> draft, id |-> id]
      /\ inFlight' = inFlight \cup {new}
      /\ UNCHANGED <<draft, created>>
  BY DEF SubmitDraft
<1>2. /\ submitted \in Seq(Drafts) /\ draft \in Drafts /\ Len(submitted) \in Nat
      /\ submitted' \in Seq(Drafts) /\ Len(submitted') = n /\ submitted'[n] = draft
      /\ \A k \in 1 .. Len(submitted) : submitted'[k] = submitted[k]
  BY <1>1 DEF DraftsInv, DraftsTyped
<1>3. id \in Nat /\ id <= n
  BY <1>2 DEF DraftsInv, DraftsTyped, RequestId
<1>4. /\ DraftRequests' = DraftRequests \cup {new}
      /\ new.n = n /\ new.id = id /\ new.draft = draft
      /\ lastAttempt'.draft = draft /\ lastAttempt'.id = id
  BY <1>1 DEF DraftRequests
<1>5. \A r \in DraftRequests :
        /\ r.n \in 1 .. Len(submitted) /\ r.draft = submitted[r.n]
        /\ r.id \in Nat /\ r.id <= Len(submitted)
  BY DEF DraftsInv, DraftsTyped
<1>6. DraftsTyped'
  BY <1>1, <1>2, <1>3, <1>4, <1>5 DEF DraftsTyped
\* An attempt that reaches this send was the last attempt.
<1>7. ASSUME NEW r \in DraftRequests, \A k \in r.n .. n : submitted'[k] = r.draft
      PROVE  r.id = id /\ r.draft = draft
  <2>1. r.n \in 1 .. Len(submitted) /\ Len(submitted) \in r.n .. n /\ n \in r.n .. n
    BY <1>2, <1>5
  <2>2. \A k \in r.n .. Len(submitted) : k \in r.n .. n /\ k \in 1 .. Len(submitted)
    BY <1>2, <2>1
  <2>3. \A k \in r.n .. Len(submitted) : submitted[k] = r.draft
    BY <1>2, <1>7, <2>2
  <2>4. r.id = lastAttempt.id
    BY <2>3 DEF DraftsInv, LastAttemptIsKept
  <2>5. submitted # <<>> /\ submitted[Len(submitted)] = r.draft
    BY <1>2, <2>1, <2>3
  <2>6. lastAttempt.draft = r.draft
    BY <2>5 DEF DraftsInv, LastAttemptIsKept
  <2>7. r.draft = draft
    BY <1>2, <1>7, <2>1
  <2>. QED
    BY <2>4, <2>6, <2>7 DEF RequestId
<1>8. LastAttemptIsKept'
  BY <1>2, <1>4, <1>7 DEF LastAttemptIsKept
<1>9. OneIdPerAttempt'
  <2> SUFFICES ASSUME NEW q \in DraftRequests \cup {new}, NEW r \in DraftRequests \cup {new},
                      q.n <= r.n, \A k \in q.n .. r.n : submitted'[k] = q.draft
               PROVE  q.id = r.id
    BY <1>4 DEF OneIdPerAttempt, OneAttempt
  <2>1. CASE q = new /\ r = new
    BY <2>1
  <2>2. CASE q = new /\ r \in DraftRequests
    BY <2>2, <1>2, <1>4, <1>5
  <2>3. CASE q \in DraftRequests /\ r = new
    BY <2>3, <1>4, <1>7
  <2>4. CASE q \in DraftRequests /\ r \in DraftRequests
    <3>1. \A k \in q.n .. r.n : k \in 1 .. Len(submitted)
      BY <2>4, <1>2, <1>5
    <3>2. OneAttempt(q, r)
      BY <3>1, <1>2 DEF OneAttempt
    <3>. QED
      BY <2>4, <3>2 DEF DraftsInv, OneIdPerAttempt
  <2>. QED
    BY <2>1, <2>2, <2>3, <2>4
\* An id that was used is taken again for the draft it was used for only.
<1>10. ASSUME NEW r \in DraftRequests, r.id = id PROVE r.draft = draft
  <2>1. CASE lastAttempt.draft = draft
    BY <2>1, <1>10 DEF RequestId, DraftsInv, OneDraftPerId
  <2>2. CASE lastAttempt.draft # draft
    BY <2>2, <1>2, <1>5, <1>10 DEF RequestId
  <2>. QED
    BY <2>1, <2>2
<1>11. OneDraftPerId'
  <2>1. \A q, r \in DraftRequests : q.id = r.id => q.draft = r.draft
    BY DEF DraftsInv, OneDraftPerId
  <2>. QED
    BY <1>4, <1>10, <2>1 DEF OneDraftPerId
<1>12. OneEventPerId'
  BY <1>1 DEF DraftsInv, OneEventPerId
<1>. QED
  BY <1>6, <1>8, <1>9, <1>11, <1>12 DEF DraftsInv

LEMMA DraftsNextInv == DraftsInv /\ [DraftsNext]_draftVars => DraftsInv'
<1> SUFFICES ASSUME DraftsInv, [DraftsNext]_draftVars PROVE DraftsInv'
  OBVIOUS
<1>1. draft \in Drafts /\ OneEventPerId
  BY DEF DraftsInv, DraftsTyped
<1>2. CASE UNCHANGED draftVars
  BY <1>1, <1>2, NothingSent DEF draftVars, DraftRequests, OneEventPerId
<1>3. CASE EditDraft
  BY <1>1, <1>3, NothingSent DEF EditDraft, DraftRequests, OneEventPerId
<1>4. CASE SubmitDraft
  BY <1>4, SubmitKeepsInv
<1>5. CASE StopWaiting
  BY <1>1, <1>5, NothingSent DEF StopWaiting, DraftRequests, OneEventPerId
<1>6. ASSUME NEW r \in inFlight, ServeDraft(r) PROVE DraftsInv'
  <2>1. OneEventPerId'
    BY <1>1, <1>6 DEF ServeDraft, OneEventPerId
  <2>2. DraftRequests' \subseteq DraftRequests
    BY <1>6 DEF ServeDraft, DraftRequests
  <2>. QED
    BY <1>1, <1>6, <2>1, <2>2, NothingSent DEF ServeDraft
<1>. QED
  BY <1>2, <1>3, <1>4, <1>5, <1>6 DEF DraftsNext

LEMMA DraftsInvariant == DraftsSpec => []DraftsInv
BY DraftsInitInv, DraftsNextInv, PTL DEF DraftsSpec

\* CreateEventFormModel, event-form.tsx and createEvent: a draft makes one event
\* until another one is sent, through edits undone, answers lost and requests
\* delivered twice; and no event's id stands for another draft.
THEOREM DraftsMakeOneEvent == DraftsSpec => []OneEventPerDraft
<1>1. DraftsInv => OneEventPerDraft
  BY DEF DraftsInv, DraftRequests, OneIdPerAttempt, OneDraftPerId, OneEventPerId, OneEventPerDraft
<1>. QED
  BY <1>1, DraftsInvariant, PTL

----------------------------------------------------------------------------
(* The event form *)

FieldsTyped ==
  fields \in [title : {"blank", "text"}, date : CalendarDays \cup {Blank},
              start : TimesOfDay \cup {Blank}, end : (0 .. (MinutesPerDay - 1)) \cup {Blank},
              nextDay : BOOLEAN, stored : (5 .. MinutesPerDay) \cup {Blank}, weekly : BOOLEAN,
              weekdays : SUBSET WeekdayNumbers, until : CalendarDays \cup {Blank},
              snackDuty : BOOLEAN, snackLabel : {"blank", "text"}]

\* A stored duration stands for the times that it was shown as.
StoredIsShown ==
  fields.stored # Blank =>
    /\ fields.start # Blank
    /\ fields.end = EndAfter(fields.start, fields.stored).end
    /\ fields.nextDay = EndAfter(fields.start, fields.stored).nextDay

UntouchedIsStored == Editing /\ touches = 0 => fields = FieldsOf(opened)

EventFormInv ==
  /\ FieldsTyped /\ opened \in StoredEvents \cup {NoEvent} /\ touches \in Nat
  /\ StoredIsShown /\ UntouchedIsStored /\ SendsWhatItShows

\* format.ts: endAfter and durationBetween are each other's inverse.
LEMMA TimesShowTheDuration ==
  ASSUME NEW start \in 0 .. (MinutesPerDay - 1), NEW duration \in 5 .. MinutesPerDay
  PROVE  LET shown == EndAfter(start, duration) IN
         /\ shown.end \in 0 .. (MinutesPerDay - 1) /\ shown.nextDay \in BOOLEAN
         /\ DurationBetween(start, shown.end, shown.nextDay) = duration
<1> DEFINE shown == EndAfter(start, duration)
<1>0. /\ shown.end = (start + duration) % MinutesPerDay
      /\ shown.nextDay = (start + duration >= MinutesPerDay)
  BY DEF EndAfter
<1>. HIDE DEF shown
<1>1. CASE start + duration < MinutesPerDay
  <2>1. (start + duration) % MinutesPerDay = start + duration
    BY <1>1 DEF MinutesPerDay
  <2>2. shown.end = start + duration /\ shown.nextDay = FALSE
    <3>1. (start + duration >= MinutesPerDay) = FALSE
      BY <1>1 DEF MinutesPerDay
    <3>. QED
      BY <1>0, <2>1, <3>1, Zenon
  <2>3. /\ shown.end \in 0 .. (MinutesPerDay - 1) /\ shown.nextDay = FALSE
        /\ shown.end = start + duration /\ shown.end # Blank /\ start # Blank
    BY <1>1, <2>2, EventFormAssumption DEF MinutesPerDay
  <2>4. DurationBetween(start, shown.end, shown.nextDay) = duration
    BY <2>3 DEF DurationBetween, MinutesPerDay
  <2>. QED
    BY <2>3, <2>4 DEF shown
<1>2. CASE start + duration >= MinutesPerDay
  <2>1. (start + duration) % MinutesPerDay = start + duration - MinutesPerDay
    BY <1>2, SMTT(30) DEF MinutesPerDay
  <2>2. shown.end = start + duration - MinutesPerDay /\ shown.nextDay = TRUE
    <3>1. (start + duration >= MinutesPerDay) = TRUE
      BY <1>2 DEF MinutesPerDay
    <3>. QED
      BY <1>0, <2>1, <3>1, Zenon
  <2>3. /\ shown.end \in 0 .. (MinutesPerDay - 1) /\ shown.nextDay = TRUE
        /\ shown.end = start + duration - MinutesPerDay /\ shown.end # Blank /\ start # Blank
    BY <1>2, <2>2, EventFormAssumption DEF MinutesPerDay
  <2>4. DurationBetween(start, shown.end, shown.nextDay) = duration
    BY <2>3 DEF DurationBetween, MinutesPerDay
  <2>. QED
    BY <2>3, <2>4 DEF shown
<1>3. start + duration < MinutesPerDay \/ start + duration >= MinutesPerDay
  BY DEF MinutesPerDay
<1>. QED
  BY <1>1, <1>2, <1>3, Zenon DEF shown

LEMMA EventFormInitInv == EventFormInit => EventFormInv
<1> SUFFICES ASSUME EventFormInit PROVE EventFormInv
  OBVIOUS
<1>1. CASE Editing
  <2>1. opened \in EventSchedules /\ fields = FieldsOf(opened)
    BY <1>1, EventFormAssumption DEF EventFormInit, Editing
  <2>2. /\ opened.localTime \in TimesOfDay /\ opened.localTime \in 0 .. (MinutesPerDay - 1)
        /\ opened.durationMinutes \in 5 .. MinutesPerDay /\ opened.weekly \in BOOLEAN
        /\ opened.byWeekday \in SUBSET WeekdayNumbers
        /\ opened.startDate \in CalendarDays /\ opened.untilDate \in CalendarDays \cup {Blank}
    <3>1. /\ opened.localTime \in TimesOfDay /\ opened.durationMinutes \in 5 .. MinutesPerDay
          /\ opened.weekly \in BOOLEAN /\ opened.byWeekday \in SUBSET WeekdayNumbers
          /\ opened.startDate \in CalendarDays /\ opened.untilDate \in CalendarDays \cup {Blank}
      BY <2>1 DEF EventSchedules
    <3>. QED
      BY <3>1, EventFormAssumption
  <2>3. FieldsTyped
    BY <2>1, <2>2, TimesShowTheDuration DEF FieldsTyped, FieldsOf
  <2>4. StoredIsShown
    BY <2>1, <2>2, EventFormAssumption DEF StoredIsShown, FieldsOf, MinutesPerDay
  <2>. QED
    BY <2>1, <2>3, <2>4 DEF EventFormInit, EventFormInv, UntouchedIsStored, SendsWhatItShows
<1>2. CASE ~Editing
  <2>1. fields = FieldsOfNew
    BY <1>2 DEF EventFormInit
  <2>2. FieldsTyped /\ StoredIsShown
    BY <2>1, EventFormAssumption DEF FieldsTyped, StoredIsShown, FieldsOfNew, WeekdayNumbers
  <2>. QED
    BY <1>2, <2>2 DEF EventFormInit, EventFormInv, UntouchedIsStored, SendsWhatItShows
<1>. QED
  BY <1>1, <1>2

\* What is typed does not undo the form's invariant, while nothing is sent.
LEMMA TouchInv ==
  ASSUME EventFormInv, NEW values, Touch(values), FieldsTyped', StoredIsShown'
  PROVE  EventFormInv'
BY DEF EventFormInv, Touch, UntouchedIsStored, SendsWhatItShows, Editing

LEMMA ChangesKeepTheForm ==
  ASSUME EventFormInv, UpdateField \/ UpdateTime \/ SetRepeat \/ ToggleWeekday
  PROVE  EventFormInv'
<1>1. ASSUME UpdateField PROVE EventFormInv'
  <2>1. ASSUME NEW words \in {"blank", "text"},
               Touch([fields EXCEPT !.title = words]) \/ Touch([fields EXCEPT !.snackLabel = words])
        PROVE  EventFormInv'
    BY <2>1, TouchInv DEF EventFormInv, FieldsTyped, StoredIsShown, Touch
  <2>2. ASSUME NEW day \in CalendarDays \cup {Blank},
               Touch([fields EXCEPT !.date = day]) \/ Touch([fields EXCEPT !.until = day])
        PROVE  EventFormInv'
    BY <2>2, TouchInv DEF EventFormInv, FieldsTyped, StoredIsShown, Touch
  <2>3. ASSUME NEW b \in BOOLEAN, Touch([fields EXCEPT !.snackDuty = b]) PROVE EventFormInv'
    BY <2>3, TouchInv DEF EventFormInv, FieldsTyped, StoredIsShown, Touch
  <2>. QED
    BY <1>1, <2>1, <2>2, <2>3 DEF UpdateField
<1>2. ASSUME UpdateTime PROVE EventFormInv'
  <2>1. ASSUME NEW t \in TimesOfDay \cup {Blank},
               \/ Touch([fields EXCEPT !.stored = Blank, !.start = t])
               \/ Touch([fields EXCEPT !.stored = Blank, !.end = t])
        PROVE  EventFormInv'
    <3>1. t \in (0 .. (MinutesPerDay - 1)) \cup {Blank}
      BY EventFormAssumption
    <3>2. FieldsTyped'
      <4>1. \/ fields' = [fields EXCEPT !.stored = Blank, !.start = t]
            \/ fields' = [fields EXCEPT !.stored = Blank, !.end = t]
        BY <2>1 DEF Touch
      <4>2. CASE fields' = [fields EXCEPT !.stored = Blank, !.start = t]
        BY <2>1, <4>2 DEF EventFormInv, FieldsTyped
      <4>3. CASE fields' = [fields EXCEPT !.stored = Blank, !.end = t]
        BY <3>1, <4>3 DEF EventFormInv, FieldsTyped
      <4>. QED
        BY <4>1, <4>2, <4>3
    <3>3. StoredIsShown'
      BY <2>1 DEF EventFormInv, FieldsTyped, StoredIsShown, Touch
    <3>. QED
      BY <2>1, <3>2, <3>3, TouchInv
  <2>2. ASSUME NEW b \in BOOLEAN, Touch([fields EXCEPT !.stored = Blank, !.nextDay = b])
        PROVE  EventFormInv'
    BY <2>2, TouchInv DEF EventFormInv, FieldsTyped, StoredIsShown, Touch
  <2>. QED
    BY <1>2, <2>1, <2>2 DEF UpdateTime, WithTimesChanged
<1>3. ASSUME SetRepeat PROVE EventFormInv'
  <2>1. PICK weekly \in BOOLEAN : 
          Touch([fields EXCEPT !.weekly = weekly,
            !.weekdays = IF weekly /\ @ = {} /\ fields.date # Blank THEN {WeekdayOf(fields.date)} ELSE @])
    BY <1>3 DEF SetRepeat
  <2>2. fields.date # Blank => WeekdayOf(fields.date) \in WeekdayNumbers
    <3>1. ASSUME NEW day \in Int PROVE WeekdayOf(day) \in WeekdayNumbers
      BY DEF WeekdayOf, WeekdayNumbers
    <3>. QED
      BY <3>1, EventFormAssumption DEF EventFormInv, FieldsTyped
  <2>3. PICK chosen \in SUBSET WeekdayNumbers :
          Touch([fields EXCEPT !.weekly = weekly, !.weekdays = chosen])
    BY <2>1, <2>2 DEF EventFormInv, FieldsTyped
  <2>. QED
    BY <2>3, TouchInv DEF EventFormInv, FieldsTyped, StoredIsShown, Touch
<1>4. ASSUME ToggleWeekday PROVE EventFormInv'
  <2>1. PICK day \in WeekdayNumbers, checked \in BOOLEAN :
          Touch([fields EXCEPT !.weekdays = IF checked THEN @ \cup {day} ELSE @ \ {day}])
    BY <1>4 DEF ToggleWeekday
  <2>2. ASSUME NEW chosen \in SUBSET WeekdayNumbers, Touch([fields EXCEPT !.weekdays = chosen])
        PROVE  EventFormInv'
    BY <2>2, TouchInv DEF EventFormInv, FieldsTyped, StoredIsShown, Touch
  <2>. QED
    BY <2>1, <2>2 DEF EventFormInv, FieldsTyped
<1>. QED
  BY <1>1, <1>2, <1>3, <1>4

\* buildEventInput: an input in which nothing is wrong is what the form shows.
LEMMA NothingWrongIsSent ==
  ASSUME EventFormInv, WrongFields = {}
  PROVE  /\ ServerTakes(EventInput)
         /\ DurationBetween(fields.start, fields.end, fields.nextDay)
              = EventInput.schedule.durationMinutes
         /\ Editing /\ touches = 0 => EventInput.schedule = opened
<1>1. /\ fields.title # "blank" /\ fields.date # Blank /\ Duration \in 5 .. MinutesPerDay
      /\ fields.weekly => /\ fields.weekdays # {} /\ fields.until # Blank
                          /\ ~(fields.until < fields.date)
      /\ WithSnack => fields.snackLabel # "blank"
  <2>1. "title" \notin WrongFields /\ "date" \notin WrongFields /\ "endTime" \notin WrongFields
    OBVIOUS
  <2>2. "weekdays" \notin WrongFields /\ "untilDate" \notin WrongFields /\ "snackLabel" \notin WrongFields
    OBVIOUS
  <2>3. fields.title # "blank" /\ fields.date # Blank /\ Duration \in 5 .. MinutesPerDay
    BY <2>1 DEF WrongFields
  <2>4. fields.weekly => fields.weekdays # {}
    BY <2>2 DEF WrongFields
  <2>5. fields.weekly => fields.until # Blank /\ ~(fields.until < fields.date)
    BY <2>2, <2>3 DEF WrongFields
  <2>6. WithSnack => fields.snackLabel # "blank"
    BY <2>2 DEF WrongFields
  <2>. QED
    BY <2>3, <2>4, <2>5, <2>6
<1>2. /\ fields.start # Blank
      /\ DurationBetween(fields.start, fields.end, fields.nextDay) = Duration
  <2>1. CASE fields.stored = Blank
    <3>1. Duration = DurationBetween(fields.start, fields.end, fields.nextDay)
      BY <2>1 DEF Duration
    <3>2. Duration # Blank
      BY <1>1, EventFormAssumption DEF MinutesPerDay
    <3>3. fields.start # Blank
      BY <3>1, <3>2 DEF DurationBetween
    <3>. QED
      BY <3>1, <3>3
  <2>2. CASE fields.stored # Blank
    <3>1. /\ fields.start # Blank /\ fields.start \in 0 .. (MinutesPerDay - 1)
          /\ fields.stored \in 5 .. MinutesPerDay /\ Duration = fields.stored
      BY <2>2, EventFormAssumption DEF EventFormInv, FieldsTyped, StoredIsShown, Duration
    <3>. QED
      BY <2>2, <3>1, TimesShowTheDuration DEF EventFormInv, StoredIsShown
  <2>. QED
    BY <2>1, <2>2
<1>3. /\ fields.weekly \in BOOLEAN /\ fields.title \in {"blank", "text"}
      /\ fields.snackLabel \in {"blank", "text"}
      /\ fields.date \in Int /\ (fields.weekly => fields.until \in Int)
  BY <1>1, EventFormAssumption DEF EventFormInv, FieldsTyped
<1>4. IsSchedule(EventInput.schedule)
  BY <1>1, <1>2, <1>3 DEF IsSchedule, EventInput
<1>5. ServerTakes(EventInput)
  BY <1>1, <1>3, <1>4 DEF ServerTakes, EventInput, WithSnack
<1>6. ASSUME Editing, touches = 0 PROVE EventInput.schedule = opened
  <2>1. opened \in EventSchedules /\ fields = FieldsOf(opened)
    BY <1>6, EventFormAssumption DEF EventFormInv, UntouchedIsStored, Editing
  <2>2. /\ opened = [localTime |-> opened.localTime, durationMinutes |-> opened.durationMinutes,
                     weekly |-> opened.weekly, byWeekday |-> opened.byWeekday,
                     startDate |-> opened.startDate, untilDate |-> opened.untilDate]
        /\ IsSchedule(opened)
    BY <2>1 DEF EventSchedules
  <2>3. Duration = opened.durationMinutes
    BY <2>1, <2>2, EventFormAssumption DEF IsSchedule, Duration, FieldsOf, MinutesPerDay
  <2>4. /\ fields.start = opened.localTime /\ fields.weekly = opened.weekly
        /\ fields.weekdays = opened.byWeekday /\ fields.date = opened.startDate
        /\ fields.until = opened.untilDate
    BY <2>1 DEF FieldsOf
  <2>5. /\ (IF fields.weekly THEN fields.weekdays ELSE {}) = opened.byWeekday
        /\ (IF fields.weekly THEN fields.until ELSE Blank) = opened.untilDate
    BY <1>3, <2>2, <2>4 DEF IsSchedule
  <2>. QED
    BY <2>2, <2>3, <2>4, <2>5 DEF EventInput
<1>. QED
  BY <1>2, <1>5, <1>6 DEF EventInput

LEMMA EventFormNextInv == EventFormInv /\ [EventFormNext]_eventFormVars => EventFormInv'
<1> SUFFICES ASSUME EventFormInv, [EventFormNext]_eventFormVars PROVE EventFormInv'
  OBVIOUS
<1>1. CASE UNCHANGED eventFormVars
  BY <1>1 DEF eventFormVars, EventFormInv, FieldsTyped, StoredIsShown, UntouchedIsStored,
     SendsWhatItShows, Editing
<1>2. CASE UpdateField \/ UpdateTime \/ SetRepeat \/ ToggleWeekday
  BY <1>2, ChangesKeepTheForm
<1>3. CASE SubmitForm
  <2>1. UNCHANGED <<opened, fields, touches>>
    BY <1>3 DEF SubmitForm
  <2>2. sending' # NotSent => WrongFields = {} /\ sending' = EventInput
    BY <1>3 DEF SubmitForm
  <2>3. SendsWhatItShows'
    BY <2>1, <2>2, NothingWrongIsSent DEF SendsWhatItShows, Editing
  <2>. QED
    BY <2>1, <2>3 DEF EventFormInv, FieldsTyped, StoredIsShown, UntouchedIsStored, Editing
<1>4. CASE AnswerForm
  BY <1>4 DEF AnswerForm, EventFormInv, FieldsTyped, StoredIsShown, UntouchedIsStored,
     SendsWhatItShows, Editing
<1>. QED
  BY <1>1, <1>2, <1>3, <1>4 DEF EventFormNext

\* event-form.tsx, schedule-actions.ts and format.ts: on whatever times, dates and
\* stored series a form is opened, and however its fields are changed, what it
\* sends is what it shows, and the server takes it.
THEOREM FormsSendWhatTheyShow == EventFormSpec => []SendsWhatItShows
<1>1. EventFormInv => SendsWhatItShows
  BY DEF EventFormInv
<1>. QED
  BY <1>1, EventFormInitInv, EventFormNextInv, PTL DEF EventFormSpec

----------------------------------------------------------------------------
(* Projections *)

\* During a request, whoever is entitled now is remembered to have been.
EntitledIsRemembered ==
  LET now == EntitledNow(roles, guards) IN
  visit.step # "idle" =>
    /\ now.read \subseteq entitled.read /\ now.manage \subseteq entitled.manage
    /\ now.children \subseteq entitled.children /\ now.edges \subseteq entitled.edges

\* What the request has gathered so far was seen by someone entitled.
GatheredIsEntitled ==
  /\ visit.readable \subseteq entitled.children
  /\ \A e \in visit.guardians : e \in entitled.edges /\ e[2] \in entitled.children
  /\ \A x \in visit.teams : x.team \in entitled.read /\ (x.manage => x.team \in entitled.manage)

Visits == [kind : {"none", "roster", "teams"},
           step : {"idle", "access", "roster", "children", "answered", "joined", "teams"},
           pending : SUBSET (Clubs \cup Players), readable : SUBSET Players,
           guardians : SUBSET (Kin \X Players), teams : SUBSET [team : Clubs, manage : BOOLEAN]]

ReadsTyped ==
  /\ roles \in [Clubs -> {"none", "adult", "coach", "owner"}]
  /\ guards \subseteq Kin \X Players
  /\ visit \in Visits
  /\ entitled \in [read : SUBSET Clubs, manage : SUBSET Clubs, children : SUBSET Players,
                   edges : SUBSET (Kin \X Players)]

ReadsInv == ReadsTyped /\ EntitledIsRemembered /\ GatheredIsEntitled

LEMMA ReadsInitInv == ReadsInit => ReadsInv
BY DEF ReadsInit, NobodyVisits, NoVisit, Nothing, ReadsInv, ReadsTyped, Visits,
   EntitledIsRemembered, GatheredIsEntitled

LEMMA EntitledIsTyped ==
  ASSUME ReadsTyped
  PROVE  EntitledNow(roles, guards) \in
           [read : SUBSET Clubs, manage : SUBSET Clubs, children : SUBSET Players,
            edges : SUBSET (Kin \X Players)]
BY DEF ReadsTyped, EntitledNow

\* Observing adds what the viewer may see afterwards.
LEMMA ObserveAdds ==
  ASSUME ReadsTyped, roles' \in [Clubs -> {"none", "adult", "coach", "owner"}],
         guards' \subseteq Kin \X Players, NEW fresh \in BOOLEAN, Observe(roles', guards', fresh)
  PROVE  LET now == EntitledNow(roles', guards')
             before == IF fresh THEN EntitledNow(roles, guards) ELSE entitled
         IN /\ entitled'.read = before.read \cup now.read
            /\ entitled'.manage = before.manage \cup now.manage
            /\ entitled'.children = before.children \cup now.children
            /\ entitled'.edges = before.edges \cup now.edges
            /\ entitled' \in [read : SUBSET Clubs, manage : SUBSET Clubs, children : SUBSET Players,
                              edges : SUBSET (Kin \X Players)]
<1> DEFINE now == EntitledNow(roles', guards')
           before == IF fresh THEN EntitledNow(roles, guards) ELSE entitled
           Shapes == [read : SUBSET Clubs, manage : SUBSET Clubs, children : SUBSET Players,
                      edges : SUBSET (Kin \X Players)]
<1>1. now \in Shapes
  BY DEF EntitledNow
<1>2. before \in Shapes
  BY EntitledIsTyped DEF ReadsTyped
<1>3. DOMAIN now = {"read", "manage", "children", "edges"}
  BY DEF EntitledNow
<1>4. entitled' = [k \in DOMAIN now |-> before[k] \cup now[k]]
  BY DEF Observe
<1> HIDE DEF now, before
<1>5. entitled' = [read |-> before.read \cup now.read, manage |-> before.manage \cup now.manage,
                   children |-> before.children \cup now.children,
                   edges |-> before.edges \cup now.edges]
  BY <1>3, <1>4
<1>6. entitled' \in Shapes
  BY <1>1, <1>2, <1>5
<1>. QED
  BY <1>5, <1>6 DEF now, before

\* Grants and edges change: the request keeps what it gathered.
LEMMA SurroundingsChange ==
  ASSUME ReadsInv, roles' \in [Clubs -> {"none", "adult", "coach", "owner"}],
         guards' \subseteq Kin \X Players, visit' = visit, Observe(roles', guards', FALSE)
  PROVE  ReadsInv'
<1> DEFINE now == EntitledNow(roles', guards')
<1>1. /\ entitled'.read = entitled.read \cup now.read
      /\ entitled'.manage = entitled.manage \cup now.manage
      /\ entitled'.children = entitled.children \cup now.children
      /\ entitled'.edges = entitled.edges \cup now.edges
      /\ entitled' \in [read : SUBSET Clubs, manage : SUBSET Clubs, children : SUBSET Players,
                        edges : SUBSET (Kin \X Players)]
  BY ObserveAdds DEF ReadsInv
<1>2. ReadsTyped'
  BY <1>1 DEF ReadsInv, ReadsTyped
<1>3. EntitledNow(roles, guards)' = now
  BY DEF EntitledNow
<1> HIDE DEF now
<1>4. EntitledIsRemembered'
  BY <1>1, <1>3 DEF EntitledIsRemembered
<1>5. GatheredIsEntitled'
  BY <1>1 DEF ReadsInv, GatheredIsEntitled
<1>. QED
  BY <1>2, <1>4, <1>5 DEF ReadsInv

\* The request goes on, and gathers only what the viewer is entitled to now.
LEMMA ContinueInv ==
  ASSUME ReadsInv, NEW next \in Visits, next.step # "idle", Continue(next),
         visit.step = "idle" => next.readable = {} /\ next.guardians = {} /\ next.teams = {},
         next.readable \subseteq visit.readable \cup EntitledNow(roles, guards).children,
         \A e \in next.guardians :
           \/ e \in visit.guardians
           \/ e \in guards /\ e[2] \in visit.readable,
         \A x \in next.teams :
           \/ x \in visit.teams
           \/ /\ x.team \in EntitledNow(roles, guards).read
              /\ x.manage => x.team \in EntitledNow(roles, guards).manage
  PROVE  ReadsInv'
<1> DEFINE now == EntitledNow(roles, guards)
           before == IF visit.step = "idle" THEN now ELSE entitled
<1>1. UNCHANGED <<roles, guards>> /\ visit' = next /\ Observe(roles', guards', visit.step = "idle")
  BY DEF Continue
<1>2. EntitledNow(roles', guards') = now /\ EntitledNow(roles, guards)' = now
  BY <1>1 DEF EntitledNow
<1>3. /\ entitled'.read = before.read \cup now.read
      /\ entitled'.manage = before.manage \cup now.manage
      /\ entitled'.children = before.children \cup now.children
      /\ entitled'.edges = before.edges \cup now.edges
      /\ entitled' \in [read : SUBSET Clubs, manage : SUBSET Clubs, children : SUBSET Players,
                        edges : SUBSET (Kin \X Players)]
  BY <1>1, <1>2, ObserveAdds DEF ReadsInv, ReadsTyped
<1>4. ReadsTyped'
  BY <1>1, <1>3 DEF ReadsInv, ReadsTyped
<1>5. now.edges = guards
  BY DEF EntitledNow
<1> HIDE DEF now
<1>6. EntitledIsRemembered'
  BY <1>2, <1>3 DEF EntitledIsRemembered
<1>7. GatheredIsEntitled'
  <2>1. CASE visit.step = "idle"
    BY <1>1, <1>3, <2>1 DEF GatheredIsEntitled
  <2>2. CASE visit.step # "idle"
    BY <1>1, <1>3, <1>5, <2>2 DEF ReadsInv, GatheredIsEntitled, now
  <2>. QED
    BY <2>1, <2>2
<1>. QED
  BY <1>4, <1>6, <1>7 DEF ReadsInv

LEMMA ChangesInv ==
  ASSUME ReadsInv, (\E t \in Clubs : ChangeRole(t)) \/ (\E c \in Players : ChangeEdge(c))
  PROVE  ReadsInv'
<1>1. ASSUME NEW t \in Clubs, ChangeRole(t) PROVE ReadsInv'
  <2>1. /\ roles' \in [Clubs -> {"none", "adult", "coach", "owner"}]
        /\ guards' = guards /\ guards' \subseteq Kin \X Players /\ visit' = visit
    BY <1>1 DEF ChangeRole, ReadsInv, ReadsTyped
  <2>2. Observe(roles', guards', FALSE)
    BY <1>1, <2>1 DEF ChangeRole
  <2>. QED
    BY <2>1, <2>2, SurroundingsChange
<1>2. ASSUME NEW c \in Players, ChangeEdge(c) PROVE ReadsInv'
  <2>1. /\ visit' = visit /\ roles' = roles
        /\ roles' \in [Clubs -> {"none", "adult", "coach", "owner"}]
        /\ guards \subseteq Kin \X Players
    BY <1>2 DEF ChangeEdge, ReadsInv, ReadsTyped
  <2>3. \A p \in Kin : <<p, c>> \in Kin \X Players
    BY <1>2
  <2>4. PICK p \in Kin : guards' \subseteq guards \cup {<<p, c>>}
    BY <1>2 DEF ChangeEdge
  <2>5. guards' \subseteq Kin \X Players
    BY <2>1, <2>3, <2>4
  <2>2. Observe(roles', guards', FALSE)
    BY <1>2, <2>1 DEF ChangeEdge
  <2>. QED
    BY <2>1, <2>2, <2>5, SurroundingsChange
<1>. QED
  BY <1>1, <1>2

\* The steps of a roster's projection.
LEMMA RosterReadInv ==
  ASSUME ReadsInv, BeginRoster \/ CheckAccess \/ (\E c \in Players : CheckChild(c)) \/ ReadGuardians
  PROVE  ReadsInv'
<1>1. visit \in Visits
  BY DEF ReadsInv, ReadsTyped
<1>2. CASE BeginRoster
  <2>1. [NoVisit EXCEPT !.kind = "roster", !.step = "access"] \in Visits
    BY DEF NoVisit, Visits
  <2>. QED
    BY <1>2, <2>1, ContinueInv DEF BeginRoster, NoVisit
<1>3. CASE CheckAccess
  <2>1. PICK next \in {[visit EXCEPT !.step = "answered"], [visit EXCEPT !.step = "roster"],
                       [visit EXCEPT !.step = "children", !.pending = Players]} : Continue(next)
    BY <1>3 DEF CheckAccess
  <2>2. /\ next \in Visits /\ next.step # "idle" /\ next.readable = visit.readable
        /\ next.guardians = visit.guardians /\ next.teams = visit.teams
    BY <1>1, <2>1 DEF Visits
  <2>. QED
    BY <1>3, <2>1, <2>2, ContinueInv DEF CheckAccess
<1>4. ASSUME NEW c \in Players, CheckChild(c) PROVE ReadsInv'
  <2> DEFINE seen == IF MayReadChild(c) THEN visit.readable \cup {c} ELSE visit.readable
             next == [visit EXCEPT !.pending = visit.pending \ {c}, !.readable = seen]
  <2>1. Continue(next) /\ visit.step = "children"
    BY <1>4 DEF CheckChild
  <2>2. /\ next \in Visits /\ next.step = visit.step
        /\ next.guardians = visit.guardians /\ next.teams = visit.teams
        /\ next.readable = seen
    <3>1. seen \in SUBSET Players /\ visit.pending \ {c} \in SUBSET (Clubs \cup Players)
      BY <1>1, <1>4 DEF Visits
    <3> HIDE DEF seen
    <3>. QED
      BY <1>1, <3>1 DEF Visits
  <2>3. MayReadChild(c) => c \in EntitledNow(roles, guards).children
    BY <1>4, ReadsAssumption DEF MayReadChild, EntitledNow, ReadsInv, ReadsTyped
  <2> HIDE DEF next
  <2>. QED
    BY <2>1, <2>2, <2>3, ContinueInv
<1>5. CASE ReadGuardians
  <2> DEFINE next == [visit EXCEPT !.step = "answered",
                        !.guardians = {e \in guards : e[2] \in visit.readable}]
  <2>1. Continue(next) /\ visit.step = "children"
    BY <1>5 DEF ReadGuardians
  <2>2. /\ next \in Visits /\ next.step = "answered" /\ next.teams = visit.teams
        /\ next.readable = visit.readable
        /\ next.guardians = {e \in guards : e[2] \in visit.readable}
    BY <1>1 DEF Visits, ReadsInv, ReadsTyped
  <2> HIDE DEF next
  <2>. QED
    BY <2>1, <2>2, ContinueInv
<1>. QED
  BY <1>2, <1>3, <1>4, <1>5

\* The steps of the list of teams.
LEMMA TeamsReadInv ==
  ASSUME ReadsInv, BeginTeams \/ ReadJoined \/ (\E t \in Clubs : ReadTeam(t)) \/ AnswerTeams
  PROVE  ReadsInv'
<1>1. visit \in Visits /\ roles \in [Clubs -> {"none", "adult", "coach", "owner"}]
  BY DEF ReadsInv, ReadsTyped
<1>2. CASE BeginTeams
  <2> DEFINE next == [NoVisit EXCEPT !.kind = "teams", !.step = "joined",
                        !.pending = {t \in Clubs : roles[t] = "owner"}]
  <2>1. /\ next \in Visits /\ next.step = "joined" /\ next.readable = {}
        /\ next.guardians = {} /\ next.teams = {}
    BY DEF NoVisit, Visits
  <2>2. Continue(next)
    BY <1>2 DEF BeginTeams
  <2> HIDE DEF next
  <2>. QED
    BY <2>1, <2>2, ContinueInv
<1>3. CASE ReadJoined \/ AnswerTeams
  <2>1. PICK pending \in SUBSET (Clubs \cup Players), step \in {"teams", "answered"} :
          Continue([visit EXCEPT !.step = step, !.pending = pending])
    <3>1. CASE ReadJoined
      <4>1. visit.pending \cup {t \in Clubs : roles[t] # "none"} \in SUBSET (Clubs \cup Players)
        BY <1>1 DEF Visits
      <4>. QED
        BY <3>1, <4>1 DEF ReadJoined
    <3>2. CASE AnswerTeams
      <4>1. [visit EXCEPT !.step = "answered"] = [visit EXCEPT !.step = "answered", !.pending = visit.pending]
        BY <1>1 DEF Visits
      <4>2. visit.pending \in SUBSET (Clubs \cup Players)
        BY <1>1 DEF Visits
      <4>. QED
        BY <3>2, <4>1, <4>2 DEF AnswerTeams
    <3>. QED
      BY <1>3, <3>1, <3>2
  <2>2. PICK next : next = [visit EXCEPT !.step = step, !.pending = pending]
    OBVIOUS
  <2>3. /\ next \in Visits /\ next.step # "idle" /\ next.readable = visit.readable
        /\ next.guardians = visit.guardians /\ next.teams = visit.teams
    BY <1>1, <2>2 DEF Visits
  <2>4. visit.step # "idle"
    BY <1>3 DEF ReadJoined, AnswerTeams
  <2>. QED
    BY <2>1, <2>2, <2>3, <2>4, ContinueInv
<1>4. ASSUME NEW t \in Clubs, ReadTeam(t) PROVE ReadsInv'
  <2> DEFINE manages == roles[t] \in {"coach", "owner"}
             row == [team |-> t, manage |-> manages]
             listed == IF roles[t] = "none" THEN visit.teams ELSE visit.teams \cup {row}
             next == [visit EXCEPT !.pending = visit.pending \ {t}, !.teams = listed]
  <2>1. Continue(next) /\ visit.step = "teams"
    BY <1>4 DEF ReadTeam
  <2>2. row \in [team : Clubs, manage : BOOLEAN] /\ row.team = t
        /\ (row.manage => roles[t] \in {"coach", "owner"})
    <3>1. manages \in BOOLEAN /\ (manages => roles[t] \in {"coach", "owner"})
      OBVIOUS
    <3> HIDE DEF manages
    <3>. QED
      BY <1>4, <3>1
  <2> HIDE DEF row
  <2>3. /\ next \in Visits /\ next.step = visit.step
        /\ next.guardians = visit.guardians /\ next.readable = visit.readable
        /\ next.teams = IF roles[t] = "none" THEN visit.teams ELSE visit.teams \cup {row}
    <3>1. /\ listed \in SUBSET [team : Clubs, manage : BOOLEAN]
          /\ visit.pending \ {t} \in SUBSET (Clubs \cup Players)
          /\ listed = IF roles[t] = "none" THEN visit.teams ELSE visit.teams \cup {row}
      BY <1>1, <2>2 DEF Visits
    <3> HIDE DEF listed
    <3>. QED
      BY <1>1, <3>1 DEF Visits
  <2>4. roles[t] # "none" => /\ row.team \in EntitledNow(roles, guards).read
                             /\ row.manage => row.team \in EntitledNow(roles, guards).manage
    BY <2>2 DEF EntitledNow
  <2> HIDE DEF next
  <2>. QED
    BY <2>1, <2>3, <2>4, ContinueInv
<1>. QED
  BY <1>2, <1>3, <1>4

LEMMA ReadsNextInv == ReadsInv /\ [ReadsNext]_readVars => ReadsInv'
<1> SUFFICES ASSUME ReadsInv, [ReadsNext]_readVars PROVE ReadsInv'
  OBVIOUS
<1>1. CASE UNCHANGED readVars
  BY <1>1 DEF readVars, ReadsInv, ReadsTyped, EntitledIsRemembered, GatheredIsEntitled, EntitledNow
<1>2. CASE EndVisit
  BY <1>2 DEF EndVisit, NoVisit, Nothing, ReadsInv, ReadsTyped, Visits, EntitledIsRemembered,
     GatheredIsEntitled
<1>. QED
  BY <1>1, <1>2, ChangesInv, RosterReadInv, TeamsReadInv DEF ReadsNext

LEMMA ReadsInvariant == ReadsSpec => []ReadsInv
BY ReadsInitInv, ReadsNextInv, PTL DEF ReadsSpec

\* team-reads.ts: whatever grants and guardians change while a projection is
\* made, it discloses only what the viewer was entitled to meanwhile.
THEOREM DisclosuresAreEntitled == ReadsSpec => []ProjectionsAreEntitled
<1>1. ReadsInv => ProjectionsAreEntitled
  BY DEF ReadsInv, GatheredIsEntitled, ProjectionsAreEntitled
<1>. QED
  BY <1>1, ReadsInvariant, PTL

----------------------------------------------------------------------------
(* Lessons *)

Outcomes == {"none", "correct", "try_again"}
AnswerPost == [op : {"answer"}, by : Parents, pupil : Pupils, question : Questions,
               outcome : {"correct", "try_again"}]
GradedPost == [op : {"graded"}, by : Parents, pupil : Pupils, question : Questions,
               outcome : {"correct", "try_again"}, previous : Outcomes]
ReplyPost == [op : {"reply"}, by : Parents, pupil : Pupils, question : Questions,
              outcome : Outcomes]

GradesTyped == graded \in [Pupils -> [Questions -> Outcomes]] /\ DOMAIN post = Posts

\* Each request is what its step says, and what was read of it still stands.
PostHolds(x, grades) ==
  /\ x.op \in {"idle", "answer", "graded", "reply", "failed", "sorted"}
  /\ x.op = "answer" => x \in AnswerPost
  /\ x.op = "graded" =>
       x \in GradedPost /\ (x.previous = "correct" => grades[x.pupil][x.question] = "correct")
  /\ x.op = "reply" =>
       x \in ReplyPost /\ (x.outcome = "correct" => grades[x.pupil][x.question] = "correct")
  /\ x.op = "sorted" =>
       /\ \A e \in x.fresh : ~ClaimsAnother(e)
       /\ \A e, f \in x.fresh : e.id = f.id => e = f

PostsHold == \A h \in Posts : PostHolds(post[h], graded)

\* The log has one row of an id, and an answer's id only of that answer.
LogHolds ==
  /\ \A r, s \in skillLog : r.id = s.id => r = s
  /\ \A r \in skillLog : ~ClaimsAnother(r)

Credited == \A k \in Pupils, q \in Mapped : graded[k][q] = "correct" => CheckPassed(k, q) \in skillLog

MarksHold ==
  /\ marks \in [Parents -> [Pupils -> [Questions -> Outcomes]]]
  /\ \A p \in Parents, k \in Pupils, q \in Questions :
       marks[p][k][q] = "correct" => graded[k][q] = "correct"

\* A card is of rows of the child's log, and no refresh that will be shown is of
\* fewer than the card it replaces.
CardsHold ==
  /\ generation \in [Parents -> [Pupils -> Nat]]
  /\ cards \in [Parents -> [Pupils -> SUBSET skillLog]]
  /\ refreshes \subseteq [by : Parents, pupil : Pupils, generation : Nat, at : {"sent", "read"},
                          rows : SUBSET skillLog]
  /\ \A p \in Parents, k \in Pupils : cards[p][k] \subseteq LogOf(k)
  /\ \A f \in refreshes :
       /\ f.generation <= generation[f.by][f.pupil]
       /\ f.at = "read" /\ IsNewestRefresh(f) => cards[f.by][f.pupil] \subseteq f.rows
       /\ f.rows \subseteq LogOf(f.pupil)
  /\ \A f, g \in refreshes :
       f.by = g.by /\ f.pupil = g.pupil /\ f.generation = g.generation => f = g

LessonsInv == GradesTyped /\ PostsHold /\ LogHolds /\ Credited /\ MarksHold /\ CardsHold

LEMMA LessonsInitInv == LessonsInit => LessonsInv
<1> SUFFICES ASSUME LessonsInit PROVE LessonsInv
  OBVIOUS
<1>1. GradesTyped /\ PostsHold /\ LogHolds
  BY DEF LessonsInit, GradesTyped, PostsHold, PostHolds, LogHolds, Idle, Outcomes
<1>2. Credited
  BY LessonsAssumption DEF LessonsInit, Credited
<1>3. MarksHold
  BY DEF LessonsInit, MarksHold, Outcomes
<1>4. CardsHold
  BY DEF LessonsInit, CardsHold, LogOf
<1>. QED
  BY <1>1, <1>2, <1>3, <1>4 DEF LessonsInv

\* What pages show stands while answers stay correct and the log grows.
LEMMA MarksStand ==
  ASSUME MarksHold, marks' = marks,
         \A k \in Pupils, q \in Questions : graded[k][q] = "correct" => graded'[k][q] = "correct"
  PROVE  MarksHold'
BY DEF MarksHold

LEMMA CardsStand ==
  ASSUME CardsHold, UNCHANGED <<generation, refreshes, cards>>, skillLog \subseteq skillLog'
  PROVE  CardsHold'
<1>1. \A k : LogOf(k) \subseteq LogOf(k)'
  BY DEF LogOf
<1>2. /\ cards' \in [Parents -> [Pupils -> SUBSET skillLog']]
      /\ refreshes' \subseteq [by : Parents, pupil : Pupils, generation : Nat, at : {"sent", "read"},
                               rows : SUBSET skillLog']
  BY DEF CardsHold
<1>3. \A p \in Parents, k \in Pupils : cards'[p][k] \subseteq LogOf(k)'
  BY <1>1 DEF CardsHold
<1>4. \A f \in refreshes : f.rows \subseteq LogOf(f.pupil)'
  BY <1>1 DEF CardsHold
<1>. QED
  BY <1>2, <1>3, <1>4 DEF CardsHold, IsNewestRefresh

\* A request moves on while answers stay correct.
LEMMA PostMoves ==
  ASSUME LessonsInv, NEW h \in Posts, NEW v, Goes(h, v), PostHolds(v, graded'),
         \A k \in Pupils, q \in Questions : graded[k][q] = "correct" => graded'[k][q] = "correct"
  PROVE  DOMAIN post' = Posts /\ PostsHold'
<1>1. /\ DOMAIN post' = Posts /\ post'[h] = v
      /\ \A g \in Posts : g # h => post'[g] = post[g]
  BY DEF Goes, LessonsInv, GradesTyped
<1>2. ASSUME NEW g \in Posts PROVE PostHolds(post'[g], graded')
  <2>1. CASE g = h
    BY <1>1, <2>1
  <2>2. CASE g # h
    <3>1. PostHolds(post[g], graded) /\ post'[g] = post[g]
      BY <1>1, <2>2 DEF LessonsInv, PostsHold
    <3>2. post[g] \in GradedPost \cup ReplyPost => post[g].pupil \in Pupils /\ post[g].question \in Questions
      BY DEF GradedPost, ReplyPost
    <3>. QED
      BY <3>1, <3>2 DEF PostHolds
  <2>. QED
    BY <2>1, <2>2
<1>3. ASSUME NEW g \in Posts PROVE PostHolds(post[g], graded)'
  BY <1>2 DEF PostHolds, ClaimsAnother, CheckIds, CheckPassed, CheckPassedId
<1>. QED
  BY <1>1, <1>3 DEF PostsHold

LEMMA AskedAnswers ==
  ASSUME LessonsInv, NEW h \in Posts, Choose(h) \/ ReadPrevious(h) \/ PostFails(h)
                                      \/ ReceiveNothing(h) \/ SortBatch(h)
  PROVE  LessonsInv'
<1>1. UNCHANGED <<graded, skillLog, marks, generation, refreshes, cards>>
  BY DEF Choose, ReadPrevious, PostFails, ReceiveNothing, SortBatch, pageVars
<1>2. PostsHold /\ GradesTyped
  BY DEF LessonsInv
<1>3. DOMAIN post' = Posts /\ PostsHold'
  <2>1. CASE Choose(h)
    <3>1. PICK p \in Parents, k \in Pupils, outcome \in {"correct", "try_again"}, q \in Questions :
            Goes(h, [op |-> "answer", by |-> p, pupil |-> k, question |-> q, outcome |-> outcome])
      BY <2>1 DEF Choose
    <3> DEFINE v == [op |-> "answer", by |-> p, pupil |-> k, question |-> q, outcome |-> outcome]
    <3>2. PostHolds(v, graded) /\ Goes(h, v)
      BY <3>1 DEF AnswerPost, PostHolds
    <3> HIDE DEF v
    <3>. QED
      BY <1>1, <3>2, PostMoves
  <2>2. CASE ReadPrevious(h)
    <3> DEFINE r == post[h]
               v == [op |-> "graded", by |-> r.by, pupil |-> r.pupil, question |-> r.question,
                     outcome |-> r.outcome, previous |-> graded[r.pupil][r.question]]
    <3>1. r \in AnswerPost
      BY <1>2, <2>2 DEF ReadPrevious, PostsHold, PostHolds
    <3>2. CASE MayAnswer(r.by, r.pupil)
      <4>1. v \in GradedPost /\ v.previous = graded[v.pupil][v.question] /\ v.op = "graded"
        BY <1>2, <3>1 DEF AnswerPost, GradedPost, GradesTyped
      <4>2. Goes(h, v)
        BY <2>2, <3>2 DEF ReadPrevious
      <4> HIDE DEF v
      <4>. QED
        BY <1>1, <4>1, <4>2, PostMoves DEF PostHolds
    <3>3. CASE ~MayAnswer(r.by, r.pupil)
      <4>1. Goes(h, [r EXCEPT !.op = "failed"]) /\ [r EXCEPT !.op = "failed"].op = "failed"
        BY <2>2, <3>1, <3>3 DEF ReadPrevious, AnswerPost
      <4>. QED
        BY <1>1, <4>1, PostMoves DEF PostHolds
    <3>. QED
      BY <3>2, <3>3
  <2>3. CASE PostFails(h)
    <3>1. post[h] \in AnswerPost \cup GradedPost
      BY <1>2, <2>3 DEF PostFails, PostsHold, PostHolds
    <3>2. Goes(h, [post[h] EXCEPT !.op = "failed"]) /\ [post[h] EXCEPT !.op = "failed"].op = "failed"
      BY <2>3, <3>1 DEF PostFails, AnswerPost, GradedPost
    <3>. QED
      BY <1>1, <3>2, PostMoves DEF PostHolds
  <2>4. CASE ReceiveNothing(h)
    <3>1. Goes(h, Idle) /\ Idle.op = "idle"
      BY <2>4 DEF ReceiveNothing, Idle
    <3>. QED
      BY <1>1, <3>1, PostMoves DEF PostHolds
  <2>5. CASE SortBatch(h)
    <3>1. PICK fresh : /\ Goes(h, [op |-> "sorted", fresh |-> fresh])
                       /\ \A e \in fresh : ~ClaimsAnother(e)
                       /\ \A e, f \in fresh : e.id = f.id => e = f
      BY <2>5 DEF SortBatch
    <3> DEFINE v == [op |-> "sorted", fresh |-> fresh]
    <3>2. Goes(h, v) /\ v.op = "sorted" /\ v.fresh = fresh
      BY <3>1
    <3> HIDE DEF v
    <3>. QED
      BY <1>1, <3>1, <3>2, PostMoves DEF PostHolds
  <2>. QED
    BY <2>1, <2>2, <2>3, <2>4, <2>5
<1>4. MarksHold' /\ CardsHold'
  BY <1>1, MarksStand, CardsStand DEF LessonsInv
<1>5. LogHolds' /\ Credited'
  BY <1>1 DEF LessonsInv, LogHolds, Credited, ClaimsAnother
<1>. QED
  BY <1>1, <1>2, <1>3, <1>4, <1>5 DEF LessonsInv, GradesTyped

\* The event a newly correct answer adds: whatever has its id is that event.
LEMMA OneEventOfAnswer ==
  ASSUME LogHolds, NEW k \in Pupils, NEW q \in Questions, NEW r \in skillLog,
         r.id = CheckPassedId(k, q)
  PROVE  r = CheckPassed(k, q)
<1>1. r.id \in CheckIds
  BY DEF CheckIds
<1>2. PICK q2 \in Questions : r = CheckPassed(r.pupil, q2)
  BY <1>1 DEF LogHolds, ClaimsAnother
<1>3. r.id = <<r.pupil, q2>> /\ r.id = <<k, q>>
  BY <1>2 DEF CheckPassed, CheckPassedId
<1>4. r.pupil = k /\ q2 = q
  BY <1>3
<1>. QED
  BY <1>2, <1>4

\* Rows that clash with none join the log, or none does.
LEMMA CreditStays ==
  ASSUME LessonsInv, NEW events,
         \/ skillLog' = skillLog
         \/ skillLog' = skillLog \cup events /\ \A e \in events, r \in skillLog : r.id # e.id,
         \A e \in events : ~ClaimsAnother(e),
         \A e, f \in events : e.id = f.id => e = f
  PROVE  LogHolds' /\ skillLog \subseteq skillLog'
BY DEF LessonsInv, LogHolds, ClaimsAnother

\* What recordLessonAnswer stores, and what it adds to the log.
LEMMA GradeIs ==
  ASSUME LessonsInv, NEW h \in Posts, Grade(h)
  PROVE  LET r == post[h]
             stored == Kept(graded[r.pupil][r.question], r.outcome)
             event == CheckPassed(r.pupil, r.question)
         IN /\ r \in GradedPost /\ stored \in Outcomes
            /\ graded' \in [Pupils -> [Questions -> Outcomes]]
            /\ graded'[r.pupil][r.question] = stored
            /\ \A k \in Pupils, q \in Questions :
                 ~(k = r.pupil /\ q = r.question) => graded'[k][q] = graded[k][q]
            /\ \A k \in Pupils, q \in Questions :
                 graded[k][q] = "correct" => graded'[k][q] = "correct"
            /\ LogHolds' /\ skillLog \subseteq skillLog'
            /\ stored = "correct" /\ graded[r.pupil][r.question] # "correct" /\ r.question \in Mapped
                 => event \in skillLog'
<1> DEFINE r == post[h]
           old == graded[r.pupil][r.question]
           stored == Kept(old, r.outcome)
           event == CheckPassed(r.pupil, r.question)
           row == [graded[r.pupil] EXCEPT ![r.question] = stored]
<1>1. r \in GradedPost /\ r.pupil \in Pupils /\ r.question \in Questions /\ r.outcome \in Outcomes
  BY DEF LessonsInv, PostsHold, PostHolds, Grade, GradedPost, Outcomes
<1>2. graded \in [Pupils -> [Questions -> Outcomes]] /\ old \in Outcomes /\ stored \in Outcomes
  BY <1>1 DEF LessonsInv, GradesTyped, Kept
<1>3. graded' = [graded EXCEPT ![r.pupil] = row] /\ row \in [Questions -> Outcomes]
  BY <1>1, <1>2 DEF Grade
<1>4. row[r.question] = stored /\ \A q \in Questions : q # r.question => row[q] = graded[r.pupil][q]
  BY <1>1, <1>2
<1>5. old = "correct" => stored = "correct"
  BY DEF Kept
<1>6. /\ skillLog' = IF IsNewlyCorrect(r, stored) /\ r.question \in Mapped /\ Clashes({event}) = {}
                     THEN skillLog \cup {event} ELSE skillLog
      /\ r.previous = "correct" => old = "correct"
      /\ stored = "correct" /\ old # "correct" => r.outcome = "correct"
  BY DEF Grade, LessonsInv, PostsHold, PostHolds, Kept
<1>7. event.id = CheckPassedId(r.pupil, r.question) /\ ~ClaimsAnother(event)
  BY <1>1 DEF CheckPassed, ClaimsAnother
<1> HIDE DEF row, stored, event
<1>8. LogHolds' /\ skillLog \subseteq skillLog'
  <2> DEFINE events == {event}
  <2>1. /\ \/ skillLog' = skillLog
           \/ skillLog' = skillLog \cup events /\ \A e \in events, x \in skillLog : x.id # e.id
        /\ \A e \in events : ~ClaimsAnother(e)
        /\ \A e, f \in events : e.id = f.id => e = f
    BY <1>6, <1>7 DEF Clashes
  <2> HIDE DEF events
  <2>. QED
    BY <2>1, CreditStays
<1>9. ASSUME stored = "correct", old # "correct", r.question \in Mapped
      PROVE  event \in skillLog'
  <2>1. IsNewlyCorrect(r, stored)
    BY <1>6, <1>9 DEF IsNewlyCorrect
  <2>2. CASE Clashes({event}) = {}
    BY <1>6, <1>9, <2>1, <2>2
  <2>3. CASE Clashes({event}) # {}
    <3>1. PICK x \in skillLog : x.id = event.id
      BY <2>3 DEF Clashes
    <3>2. x = event
      BY <1>1, <1>7, <3>1, OneEventOfAnswer DEF LessonsInv, event
    <3>. QED
      BY <1>8, <3>2
  <2>. QED
    BY <2>2, <2>3
<1>10. /\ graded' \in [Pupils -> [Questions -> Outcomes]]
       /\ graded'[r.pupil] = row
       /\ \A k \in Pupils : k # r.pupil => graded'[k] = graded[k]
  BY <1>1, <1>2, <1>3
<1>. QED
  BY <1>1, <1>2, <1>4, <1>5, <1>8, <1>9, <1>10 DEF stored, event

LEMMA GradeInv == ASSUME LessonsInv, NEW h \in Posts, Grade(h) PROVE LessonsInv'
<1> DEFINE r == post[h]
           stored == Kept(graded[r.pupil][r.question], r.outcome)
           reply == [op |-> "reply", by |-> r.by, pupil |-> r.pupil, question |-> r.question,
                     outcome |-> stored]
<1>1. /\ r \in GradedPost /\ stored \in Outcomes
      /\ graded' \in [Pupils -> [Questions -> Outcomes]]
      /\ graded'[r.pupil][r.question] = stored
      /\ \A k \in Pupils, q \in Questions :
           ~(k = r.pupil /\ q = r.question) => graded'[k][q] = graded[k][q]
      /\ \A k \in Pupils, q \in Questions : graded[k][q] = "correct" => graded'[k][q] = "correct"
      /\ LogHolds' /\ skillLog \subseteq skillLog'
      /\ stored = "correct" /\ graded[r.pupil][r.question] # "correct" /\ r.question \in Mapped
           => CheckPassed(r.pupil, r.question) \in skillLog'
  BY GradeIs
<1>2. UNCHANGED <<marks, generation, refreshes, cards>> /\ Goes(h, reply)
  BY DEF Grade, pageVars
<1>3. reply \in ReplyPost /\ reply.op = "reply" /\ reply.pupil = r.pupil
      /\ reply.question = r.question /\ reply.outcome = stored
  BY <1>1 DEF ReplyPost, GradedPost
<1> HIDE DEF reply, stored
<1>4. PostHolds(reply, graded')
  BY <1>1, <1>3 DEF PostHolds
<1>5. DOMAIN post' = Posts /\ PostsHold'
  BY <1>1, <1>2, <1>4, PostMoves
<1>6. Credited'
  <2> SUFFICES ASSUME NEW k \in Pupils, NEW q \in Mapped, graded'[k][q] = "correct"
               PROVE  CheckPassed(k, q) \in skillLog'
    BY DEF Credited, CheckPassed, CheckPassedId
  <2>1. q \in Questions
    BY LessonsAssumption
  <2>2. CASE graded[k][q] = "correct"
    BY <1>1, <2>2 DEF LessonsInv, Credited
  <2>3. CASE graded[k][q] # "correct"
    BY <1>1, <2>1, <2>3
  <2>. QED
    BY <2>2, <2>3
<1>7. MarksHold' /\ CardsHold'
  BY <1>1, <1>2, MarksStand, CardsStand DEF LessonsInv
<1>. QED
  BY <1>1, <1>5, <1>6, <1>7 DEF LessonsInv, GradesTyped

LEMMA InsertBatchInv == ASSUME LessonsInv, NEW h \in Posts, InsertBatch(h) PROVE LessonsInv'
<1>1. /\ UNCHANGED <<graded, marks, generation, refreshes, cards>> /\ Goes(h, Idle)
      /\ \/ skillLog' = skillLog
         \/ /\ skillLog' = skillLog \cup post[h].fresh
            /\ \A e \in post[h].fresh, r \in skillLog : r.id # e.id
      /\ \A e \in post[h].fresh : ~ClaimsAnother(e)
      /\ \A e, f \in post[h].fresh : e.id = f.id => e = f
  BY DEF InsertBatch, pageVars, Clashes, LessonsInv, PostsHold, PostHolds
<1>2. LogHolds' /\ skillLog \subseteq skillLog'
  BY <1>1, CreditStays
<1>3. Credited' /\ MarksHold' /\ CardsHold'
  BY <1>1, <1>2, MarksStand, CardsStand DEF LessonsInv, Credited, CheckPassed, CheckPassedId
<1>4. DOMAIN post' = Posts /\ PostsHold'
  <2>1. PostHolds(Idle, graded') /\ graded' = graded
    BY <1>1 DEF PostHolds, Idle
  <2>. QED
    BY <1>1, <2>1, PostMoves
<1>. QED
  BY <1>1, <1>2, <1>3, <1>4 DEF LessonsInv, GradesTyped

\* A step of the page's cards alone.
LEMMA OnlyCardsMove ==
  ASSUME LessonsInv, UNCHANGED <<graded, skillLog, post, marks>>, CardsHold'
  PROVE  LessonsInv'
BY MarksStand DEF LessonsInv, GradesTyped, PostsHold, PostHolds, LogHolds, Credited, ClaimsAnother

LEMMA ReceiveInv == ASSUME LessonsInv, NEW h \in Posts, Receive(h) PROVE LessonsInv'
<1> DEFINE r == post[h]
           g == generation[r.by][r.pupil] + 1
           row == [marks[r.by][r.pupil] EXCEPT ![r.question] = r.outcome]
           page == [marks[r.by] EXCEPT ![r.pupil] = row]
           next == [generation[r.by] EXCEPT ![r.pupil] = g]
           new == [by |-> r.by, pupil |-> r.pupil, generation |-> g, at |-> "sent", rows |-> {}]
<1>1. /\ r \in ReplyPost /\ Goes(h, Idle) /\ UNCHANGED <<graded, skillLog, cards>>
      /\ r.outcome = "correct" => graded[r.pupil][r.question] = "correct"
      /\ marks' = [marks EXCEPT ![r.by] = page]
      /\ \/ UNCHANGED <<generation, refreshes>>
         \/ generation' = [generation EXCEPT ![r.by] = next] /\ refreshes' = refreshes \cup {new}
  BY DEF Receive, LessonsInv, PostsHold, PostHolds
<1>2. r.by \in Parents /\ r.pupil \in Pupils /\ r.question \in Questions /\ r.outcome \in Outcomes
  BY <1>1 DEF ReplyPost
<1>3. marks \in [Parents -> [Pupils -> [Questions -> Outcomes]]]
  BY DEF LessonsInv, MarksHold
<1>4. /\ page \in [Pupils -> [Questions -> Outcomes]] /\ page[r.pupil] = row
      /\ row \in [Questions -> Outcomes]
  BY <1>2, <1>3
<1>5. /\ marks' \in [Parents -> [Pupils -> [Questions -> Outcomes]]]
      /\ \A p \in Parents, k \in Pupils, q \in Questions :
           marks'[p][k][q] = IF p = r.by /\ k = r.pupil /\ q = r.question
                             THEN r.outcome ELSE marks[p][k][q]
  <2>1. \A q \in Questions : row[q] = IF q = r.question THEN r.outcome ELSE marks[r.by][r.pupil][q]
    BY <1>2, <1>3
  <2>2. \A k \in Pupils : page[k] = IF k = r.pupil THEN row ELSE marks[r.by][k]
    BY <1>2, <1>3
  <2> HIDE DEF row, page
  <2>3. /\ marks' \in [Parents -> [Pupils -> [Questions -> Outcomes]]]
        /\ \A p \in Parents : marks'[p] = IF p = r.by THEN page ELSE marks[p]
    BY <1>1, <1>2, <1>3, <1>4
  <2>. QED
    BY <2>1, <2>2, <2>3
<1> HIDE DEF row, page
<1>6. MarksHold'
  <2>1. /\ graded' = graded
        /\ \A p \in Parents, k \in Pupils, q \in Questions :
             marks[p][k][q] = "correct" => graded[k][q] = "correct"
    BY <1>1 DEF LessonsInv, MarksHold
  <2>2. ASSUME NEW p \in Parents, NEW k \in Pupils, NEW q \in Questions, marks'[p][k][q] = "correct"
        PROVE  graded'[k][q] = "correct"
    <3>1. CASE p = r.by /\ k = r.pupil /\ q = r.question
      BY <1>1, <1>5, <2>1, <2>2, <3>1
    <3>2. CASE ~(p = r.by /\ k = r.pupil /\ q = r.question)
      BY <1>5, <2>1, <2>2, <3>2
    <3>. QED
      BY <3>1, <3>2
  <2>. QED
    BY <1>5, <2>2 DEF MarksHold
<1>7. CardsHold'
  <2>1. CASE UNCHANGED <<generation, refreshes>>
    BY <1>1, <2>1, CardsStand DEF LessonsInv
  <2>2. CASE generation' = [generation EXCEPT ![r.by] = next] /\ refreshes' = refreshes \cup {new}
    <3>1. /\ generation \in [Parents -> [Pupils -> Nat]]
          /\ generation[r.by][r.pupil] \in Nat /\ g \in Nat
      BY <1>2 DEF LessonsInv, CardsHold
    <3>2. /\ next \in [Pupils -> Nat] /\ next[r.pupil] = g
          /\ \A k \in Pupils : k # r.pupil => next[k] = generation[r.by][k]
      BY <1>2, <3>1
    <3>3. /\ generation' \in [Parents -> [Pupils -> Nat]]
          /\ generation'[r.by] = next
          /\ \A p \in Parents : p # r.by => generation'[p] = generation[p]
      BY <1>2, <2>2, <3>1, <3>2
    <3>4. /\ new.by = r.by /\ new.pupil = r.pupil /\ new.generation = g /\ new.at = "sent"
          /\ new.rows = {}
          /\ new \in [by : Parents, pupil : Pupils, generation : Nat, at : {"sent", "read"},
                      rows : SUBSET skillLog]
      BY <1>2, <3>1
    <3> HIDE DEF next, new
    <3>5. \A f \in refreshes : f.by = r.by /\ f.pupil = r.pupil => f.generation < g
      BY <1>2, <3>1 DEF LessonsInv, CardsHold
    <3>6. \A f \in refreshes : /\ f.by \in Parents /\ f.pupil \in Pupils /\ f.generation \in Nat
                               /\ f.generation <= generation[f.by][f.pupil]
      BY DEF LessonsInv, CardsHold
    <3>7. \A f \in refreshes' :
            /\ f.generation <= generation'[f.by][f.pupil]
            /\ f.at = "read" /\ generation'[f.by][f.pupil] = f.generation => cards'[f.by][f.pupil] \subseteq f.rows
            /\ f.rows \subseteq LogOf(f.pupil)'
      <4> SUFFICES ASSUME NEW f \in refreshes'
                   PROVE  /\ f.generation <= generation'[f.by][f.pupil]
                          /\ f.at = "read" /\ generation'[f.by][f.pupil] = f.generation
                               => cards'[f.by][f.pupil] \subseteq f.rows
                          /\ f.rows \subseteq LogOf(f.pupil)'
        OBVIOUS
      <4>1. CASE f = new
        BY <3>1, <3>2, <3>3, <3>4, <4>1
      <4>2. CASE f \in refreshes /\ f.by = r.by /\ f.pupil = r.pupil
        <5>1. f.generation < g /\ f.generation \in Nat /\ generation'[f.by][f.pupil] = g
          BY <3>2, <3>3, <3>5, <3>6, <4>2
        <5>2. f.rows \subseteq LogOf(f.pupil)'
          BY <1>1, <4>2 DEF LessonsInv, CardsHold, LogOf
        <5>. QED
          BY <3>1, <5>1, <5>2
      <4>3. CASE f \in refreshes /\ ~(f.by = r.by /\ f.pupil = r.pupil)
        <5>1. generation'[f.by][f.pupil] = generation[f.by][f.pupil]
          BY <3>2, <3>3, <3>6, <4>3
        <5>. QED
          BY <1>1, <4>3, <5>1 DEF LessonsInv, CardsHold, IsNewestRefresh, LogOf
      <4>. QED
        BY <2>2, <4>1, <4>2, <4>3
    <3>8. \A f, f2 \in refreshes' :
            f.by = f2.by /\ f.pupil = f2.pupil /\ f.generation = f2.generation => f = f2
      BY <2>2, <3>1, <3>4, <3>5, <3>6 DEF LessonsInv, CardsHold
    <3>9. /\ cards' \in [Parents -> [Pupils -> SUBSET skillLog']]
          /\ refreshes' \subseteq [by : Parents, pupil : Pupils, generation : Nat,
                                   at : {"sent", "read"}, rows : SUBSET skillLog']
          /\ \A p \in Parents, k \in Pupils : cards'[p][k] \subseteq LogOf(k)'
      BY <1>1, <2>2, <3>4 DEF LessonsInv, CardsHold, LogOf
    <3>. QED
      BY <3>3, <3>7, <3>8, <3>9 DEF CardsHold, IsNewestRefresh
  <2>. QED
    BY <1>1, <2>1, <2>2
<1>8. DOMAIN post' = Posts /\ PostsHold'
  <2>1. PostHolds(Idle, graded') /\ graded' = graded
    BY <1>1 DEF PostHolds, Idle
  <2>. QED
    BY <1>1, <2>1, PostMoves
<1>9. LogHolds' /\ Credited'
  BY <1>1 DEF LessonsInv, LogHolds, Credited, ClaimsAnother
<1>. QED
  BY <1>1, <1>6, <1>7, <1>8, <1>9 DEF LessonsInv, GradesTyped

LEMMA ReadCardInv == ASSUME LessonsInv, NEW f \in refreshes, ReadCard(f) PROVE LessonsInv'
<1> DEFINE read == [f EXCEPT !.at = "read", !.rows = LogOf(f.pupil)]
<1>1. /\ UNCHANGED <<graded, skillLog, post, marks, generation, cards>>
      /\ refreshes' = (refreshes \ {f}) \cup {read}
  BY DEF ReadCard
<1>2. f \in [by : Parents, pupil : Pupils, generation : Nat, at : {"sent", "read"}, rows : SUBSET skillLog]
  BY DEF LessonsInv, CardsHold
<1>3. /\ read \in [by : Parents, pupil : Pupils, generation : Nat, at : {"sent", "read"},
                   rows : SUBSET skillLog]
      /\ read.by = f.by /\ read.pupil = f.pupil /\ read.generation = f.generation
      /\ read.rows = LogOf(f.pupil)
  BY <1>2 DEF LogOf
<1> HIDE DEF read
<1>4. \A k : LogOf(k)' = LogOf(k)
  BY <1>1 DEF LogOf
<1>5. CardsHold /\ cards[f.by][f.pupil] \subseteq LogOf(f.pupil)
  BY <1>2 DEF LessonsInv, CardsHold
<1>6. /\ generation' \in [Parents -> [Pupils -> Nat]]
      /\ cards' \in [Parents -> [Pupils -> SUBSET skillLog']]
      /\ refreshes' \subseteq [by : Parents, pupil : Pupils, generation : Nat, at : {"sent", "read"},
                               rows : SUBSET skillLog']
      /\ \A p \in Parents, k \in Pupils : cards'[p][k] \subseteq LogOf(k)'
  BY <1>1, <1>3, <1>4, <1>5 DEF CardsHold
<1>7. \A e \in refreshes' :
        /\ e.generation <= generation[e.by][e.pupil]
        /\ e.at = "read" /\ generation[e.by][e.pupil] = e.generation => cards[e.by][e.pupil] \subseteq e.rows
        /\ e.rows \subseteq LogOf(e.pupil)
  BY <1>1, <1>3, <1>5 DEF CardsHold, IsNewestRefresh
<1>8. \A e, g \in refreshes' :
        e.by = g.by /\ e.pupil = g.pupil /\ e.generation = g.generation => e = g
  BY <1>1, <1>3, <1>5 DEF CardsHold
<1>9. CardsHold'
  BY <1>1, <1>4, <1>6, <1>7, <1>8 DEF CardsHold, IsNewestRefresh
<1>. QED
  BY <1>1, <1>9, OnlyCardsMove

\* A card shown replaces one of fewer rows.
LEMMA ShowCardIs ==
  ASSUME LessonsInv, NEW f \in refreshes, ShowCard(f) \/ DropRefresh(f)
  PROVE  /\ CardsHold'
         /\ \A p \in Parents, k \in Pupils : cards[p][k] \subseteq cards'[p][k]
<1>1. /\ UNCHANGED <<graded, skillLog, post, marks, generation>>
      /\ refreshes' = refreshes \ {f}
  BY DEF ShowCard, DropRefresh
<1>2. f.by \in Parents /\ f.pupil \in Pupils /\ f.rows \in SUBSET skillLog
  BY DEF LessonsInv, CardsHold
<1>3. \A k : LogOf(k)' = LogOf(k)
  BY <1>1 DEF LogOf
<1>4. CardsHold
  BY DEF LessonsInv
<1>5. CASE cards' = cards
  BY <1>1, <1>3, <1>4, <1>5 DEF CardsHold, IsNewestRefresh
<1>6. CASE IsNewestRefresh(f) /\ f.at = "read" /\ cards' = [cards EXCEPT ![f.by][f.pupil] = f.rows]
  <2> DEFINE page == [cards[f.by] EXCEPT ![f.pupil] = f.rows]
  <2>1. /\ cards \in [Parents -> [Pupils -> SUBSET skillLog]] /\ cards' = [cards EXCEPT ![f.by] = page]
        /\ cards[f.by][f.pupil] \subseteq f.rows /\ f.rows \subseteq LogOf(f.pupil)
    BY <1>4, <1>6 DEF CardsHold
  <2>2. /\ page \in [Pupils -> SUBSET skillLog] /\ page[f.pupil] = f.rows
        /\ \A k \in Pupils : k # f.pupil => page[k] = cards[f.by][k]
    BY <1>2, <2>1
  <2> HIDE DEF page
  <2>3. /\ cards' \in [Parents -> [Pupils -> SUBSET skillLog]] /\ cards'[f.by] = page
        /\ \A p \in Parents : p # f.by => cards'[p] = cards[p]
    BY <1>2, <2>1, <2>2
  <2>4. \A p \in Parents, k \in Pupils :
          cards'[p][k] = IF p = f.by /\ k = f.pupil THEN f.rows ELSE cards[p][k]
    BY <2>2, <2>3
  <2>5. \A e \in refreshes' :
          /\ e.by \in Parents /\ e.pupil \in Pupils
          /\ e.by = f.by /\ e.pupil = f.pupil => ~IsNewestRefresh(e)
    BY <1>1, <1>4, <1>6 DEF CardsHold, IsNewestRefresh
  <2>6. \A e \in refreshes' :
          /\ e.generation <= generation'[e.by][e.pupil]
          /\ e.at = "read" /\ IsNewestRefresh(e)' => cards'[e.by][e.pupil] \subseteq e.rows
          /\ e.rows \subseteq LogOf(e.pupil)'
    BY <1>1, <1>3, <1>4, <2>4, <2>5 DEF CardsHold, IsNewestRefresh
  <2>7. \A p \in Parents, k \in Pupils : cards'[p][k] \subseteq LogOf(k)'
    BY <1>3, <1>4, <2>1, <2>4 DEF CardsHold
  <2>8. CardsHold'
    BY <1>1, <1>4, <2>3, <2>6, <2>7 DEF CardsHold
  <2>. QED
    BY <2>1, <2>4, <2>8
<1>. QED
  BY <1>5, <1>6 DEF ShowCard, DropRefresh

LEMMA LessonsNextInv == LessonsInv /\ [LessonsNext]_lessonVars => LessonsInv'
<1> SUFFICES ASSUME LessonsInv, [LessonsNext]_lessonVars PROVE LessonsInv'
  OBVIOUS
<1>1. CASE UNCHANGED lessonVars \/ ChangeGuardian
  <2>1. UNCHANGED <<graded, skillLog, post, marks, generation, refreshes, cards>>
    BY <1>1 DEF lessonVars, ChangeGuardian, pageVars
  <2>. QED
    BY <2>1, CardsStand, OnlyCardsMove DEF LessonsInv
<1>2. ASSUME NEW f \in refreshes, ShowCard(f) \/ DropRefresh(f) PROVE LessonsInv'
  <2>1. UNCHANGED <<graded, skillLog, post, marks>> /\ CardsHold'
    BY <1>2, ShowCardIs DEF ShowCard, DropRefresh
  <2>. QED
    BY <2>1, OnlyCardsMove
<1>. QED
  BY <1>1, <1>2, AskedAnswers, GradeInv, InsertBatchInv, ReceiveInv, ReadCardInv DEF LessonsNext

LEMMA LessonsInvariant == LessonsSpec => []LessonsInv
BY LessonsInitInv, LessonsNextInv, PTL DEF LessonsSpec

\* recordLessonAnswer and appendCheckPassed: however answers, batches and lost
\* replies overlap, a correct answer has its one event, and a page says so only
\* of what is stored.
THEOREM AnswersAreCredited == LessonsSpec => []CorrectAnswersAreCredited
<1>1. LessonsInv => CorrectAnswersAreCredited
  BY DEF LessonsInv, LogHolds, Credited, MarksHold, CorrectAnswersAreCredited
<1>. QED
  BY <1>1, LessonsInvariant, PTL

\* recordLessonAnswer and createPlayerCardRefresher: no step takes back a correct
\* answer or shows an older card.
THEOREM LearningStands == LessonsSpec => LearningIsKept
<1> DEFINE Stands ==
      /\ \A k \in Pupils, q \in Questions : graded[k][q] = "correct" => graded'[k][q] = "correct"
      /\ \A p \in Parents, k \in Pupils : cards[p][k] \subseteq cards'[p][k]
<1>1. ASSUME LessonsInv, [LessonsNext]_lessonVars PROVE Stands
  <2>1. CASE UNCHANGED <<graded, cards>>
    BY <2>1
  <2>2. ASSUME NEW h \in Posts, Grade(h) PROVE Stands
    BY <1>1, <2>2, GradeIs DEF Grade, pageVars
  <2>3. ASSUME NEW f \in refreshes, ShowCard(f) PROVE Stands
    BY <1>1, <2>3, ShowCardIs DEF ShowCard
  <2>4. CASE UNCHANGED lessonVars \/ ChangeGuardian
    BY <2>1, <2>4 DEF lessonVars, ChangeGuardian, pageVars
  <2>5. ASSUME NEW h \in Posts, Choose(h) \/ Receive(h) \/ ReceiveNothing(h)
        PROVE  graded' = graded /\ cards' = cards
    BY <2>5 DEF Choose, Receive, ReceiveNothing
  <2>6. ASSUME NEW h \in Posts, ReadPrevious(h) \/ PostFails(h) \/ SortBatch(h) \/ InsertBatch(h)
        PROVE  graded' = graded /\ cards' = cards
    BY <2>6 DEF ReadPrevious, PostFails, SortBatch, InsertBatch, pageVars
  <2>7. ASSUME NEW f \in refreshes, ReadCard(f) \/ DropRefresh(f)
        PROVE  graded' = graded /\ cards' = cards
    BY <2>7 DEF ReadCard, DropRefresh
  <2> HIDE DEF Stands
  <2>. QED
    BY <1>1, <2>1, <2>2, <2>3, <2>4, <2>5, <2>6, <2>7 DEF LessonsNext
<1>. QED
  BY <1>1, LessonsInvariant, PTL DEF LessonsSpec, LearningIsKept

----------------------------------------------------------------------------
(* Joining a team *)

Links == Invitations \cup {NoInvitation}
Tasks == [n : Nat, does : {"preview", "accept", "retry", "refresh"},
          at : {"start", "wait", "back", "refresh"}, cancelled : BOOLEAN, of : Links,
          asked : Nat, reply : {"none", "ok", "member", "again", "refused", "cancelled"}]

JoinTyped ==
  /\ phase \in [kind : {"entry", "previewing", "preview", "member", "accepting", "joined",
                        "refreshing", "failed"},
                of : Links, retry : {"none", "preview", "accept"}]
  /\ pasted \in Links /\ token \in Links /\ preview \in Links
  /\ asked \in Nat /\ taps \in Nat
  /\ operations \subseteq Tasks

\* The fields are the sheet's: a link is pasted only where one is asked for, and
\* what it previewed is what its token opens.
FieldsHold ==
  /\ pasted # NoInvitation => phase.kind = "entry"
  /\ phase.kind = "entry" => token = NoInvitation /\ preview = NoInvitation
  /\ token # NoInvitation /\ preview # NoInvitation => token = preview

Asks(o) == o.at \in {"wait", "back"}
IsCurrent(o) == Asks(o) /\ o.asked = asked

\* A request that is still wanted is the sheet's one request, and is not cancelled
\* once it was sent.  (A task whose field is empty fails the sheet and lets the
\* request before it run.)
TasksHold ==
  /\ \A o \in operations : Asks(o) =>
       /\ o.asked <= asked /\ o.does \in {"preview", "accept"}
       /\ o.reply = "ok" /\ o.does = "accept" => o.of \in members
  /\ \A o \in operations : IsCurrent(o) =>
       /\ o.cancelled => o.at = "back" /\ o.reply = "cancelled"
       /\ \/ phase = Show(IF o.does = "preview" THEN "previewing" ELSE "accepting", o.of)
          \/ phase = FailedWith("none")
       /\ o.does = "preview" => token \in {o.of, NoInvitation}
  /\ \A o, p \in operations : IsCurrent(o) /\ IsCurrent(p) => o = p

\* Progress that is shown is being made.
Refreshes(o) == ~o.cancelled /\ (o.at = "refresh" \/ (o.at = "start" /\ o.does = "refresh"))
ProgressHolds ==
  /\ phase.kind \in {"previewing", "accepting"} => \E o \in operations : IsCurrent(o)
  /\ phase.kind \in {"joined", "refreshing"} => \E o \in operations : Refreshes(o)
  /\ phase.kind = "joined" => phase.of \in members

JoinInv == JoinTyped /\ FieldsHold /\ TasksHold /\ ProgressHolds

LEMMA JoinInitInv == JoinInit => JoinInv
BY DEF JoinInit, JoinInv, JoinTyped, FieldsHold, TasksHold, ProgressHolds, Entry, Show, Links

\* What a tap does to the tasks: those that run are cancelled, none is current.
LEMMA TapsTasks ==
  ASSUME JoinInv, NEW new \in Tasks, new.at = "start",
         operations' \subseteq CancelAll(operations) \cup {new},
         asked' \in Nat, members' = members,
         asked' = asked + 1 \/ (asked' = asked /\ \A o \in operations : ~IsCurrent(o))
  PROVE  /\ operations' \subseteq Tasks /\ TasksHold'
<1>1. \A o \in operations :
        /\ o \in Tasks /\ [o EXCEPT !.cancelled = TRUE] \in Tasks
        /\ [o EXCEPT !.cancelled = TRUE].at = o.at
        /\ [o EXCEPT !.cancelled = TRUE].asked = o.asked
        /\ [o EXCEPT !.cancelled = TRUE].does = o.does
        /\ [o EXCEPT !.cancelled = TRUE].reply = o.reply
        /\ [o EXCEPT !.cancelled = TRUE].of = o.of
  BY DEF JoinInv, JoinTyped, Tasks
<1>2. \A p \in operations' : p = new \/ \E o \in operations :
        /\ p \in Tasks /\ p.at = o.at /\ p.asked = o.asked /\ p.does = o.does
        /\ p.reply = o.reply /\ p.of = o.of
  <2> SUFFICES ASSUME NEW p \in operations', p # new
               PROVE  \E o \in operations :
                        /\ p \in Tasks /\ p.at = o.at /\ p.asked = o.asked /\ p.does = o.does
                        /\ p.reply = o.reply /\ p.of = o.of
    OBVIOUS
  <2>1. p \in CancelAll(operations)
    OBVIOUS
  <2>2. PICK o \in operations : p = [o EXCEPT !.cancelled = TRUE]
    BY <2>1, Zenon DEF CancelAll
  <2>. QED
    BY <1>1, <2>2
<1>3. /\ asked \in Nat
      /\ \A o \in operations : o.asked \in Nat /\ (Asks(o) => o.asked <= asked)
  BY DEF JoinInv, JoinTyped, Tasks, TasksHold
<1>4. \A o \in operations : ~(Asks(o) /\ o.asked = asked')
  BY <1>3 DEF IsCurrent
<1>5. \A p \in operations' : ~IsCurrent(p)'
  BY <1>2, <1>4 DEF IsCurrent, Asks
<1>6. \A p \in operations' : Asks(p) =>
        /\ p.asked <= asked' /\ p.does \in {"preview", "accept"}
        /\ p.reply = "ok" /\ p.does = "accept" => p.of \in members'
  <2> SUFFICES ASSUME NEW p \in operations', Asks(p)
               PROVE  /\ p.asked <= asked' /\ p.does \in {"preview", "accept"}
                      /\ p.reply = "ok" /\ p.does = "accept" => p.of \in members'
    OBVIOUS
  <2>1. PICK o \in operations : /\ p.at = o.at /\ p.asked = o.asked /\ p.does = o.does
                                /\ p.reply = o.reply /\ p.of = o.of
    BY <1>2 DEF Asks
  <2>2. Asks(o)
    BY <2>1 DEF Asks
  <2>. QED
    BY <1>3, <2>1, <2>2 DEF JoinInv, TasksHold
<1>. QED
  BY <1>2, <1>5, <1>6 DEF TasksHold, Asks

\* Where the sheet asks for something, nothing it sent is still wanted.
LEMMA NothingWanted ==
  ASSUME JoinInv, \/ phase.kind \in {"entry", "preview", "member"}
                  \/ phase.kind = "failed" /\ phase.retry # "none"
  PROVE  \A o \in operations : ~IsCurrent(o)
BY DEF JoinInv, TasksHold, Show, FailedWith

NewTask(what) == [n |-> taps + 1, does |-> what, at |-> "start", cancelled |-> FALSE,
                  of |-> NoInvitation, asked |-> 0, reply |-> "none"]

LEMMA NewTaskIs ==
  ASSUME JoinInv, NEW what \in {"preview", "accept", "retry", "refresh"},
         ReplaceOperation(what), taps' = taps + 1
  PROVE  /\ NewTask(what) \in Tasks /\ NewTask(what).at = "start"
         /\ NewTask(what).does = what /\ ~NewTask(what).cancelled
         /\ NewTask(what) \in operations'
         /\ operations' \subseteq CancelAll(operations) \cup {NewTask(what)}
BY DEF JoinInv, JoinTyped, Tasks, Links, NewTask, ReplaceOperation

LEMMA TapsInv ==
  ASSUME JoinInv, Paste \/ TapPreview \/ TapAccept \/ TapRetry \/ TapContinue \/ TapCancel
  PROVE  JoinInv'
<1>1. asked \in Nat /\ taps \in Nat /\ asked + 1 \in Nat /\ taps + 1 \in Nat
  BY DEF JoinInv, JoinTyped
<1>2. CASE Paste
  BY <1>1, <1>2 DEF Paste, Tap, JoinInv, JoinTyped, FieldsHold, TasksHold, ProgressHolds, Links,
     IsCurrent, Asks, Refreshes
<1>3. CASE TapPreview \/ TapAccept \/ TapRetry
  <2>1. PICK what \in {"preview", "accept", "retry", "refresh"} : ReplaceOperation(what)
    BY <1>3 DEF TapPreview, TapAccept, TapRetry
  <2>2. /\ UNCHANGED <<phase, pasted, token, preview, asked, members>> /\ taps' = taps + 1
        /\ \/ phase.kind \in {"entry", "preview", "member"}
           \/ phase.kind = "failed" /\ phase.retry # "none"
    BY <1>3 DEF TapPreview, TapAccept, TapRetry, Tap
  <2>3. operations' \subseteq Tasks /\ TasksHold'
    BY <1>1, <2>1, <2>2, NewTaskIs, NothingWanted, TapsTasks
  <2>. QED
    BY <1>1, <2>2, <2>3 DEF JoinInv, JoinTyped, FieldsHold, ProgressHolds
<1>4. CASE TapContinue
  <2>1. /\ ReplaceOperation("refresh") /\ phase' = Show("refreshing", phase.of)
        /\ token' = NoInvitation /\ preview' = NoInvitation /\ UNCHANGED <<pasted, members>>
        /\ asked' = asked + 1 /\ taps' = taps + 1 /\ phase.kind = "member"
    BY <1>4 DEF TapContinue, Tap
  <2>2. operations' \subseteq Tasks /\ TasksHold'
    BY <1>1, <2>1, NewTaskIs, TapsTasks
  <2>3. \E o \in operations' : Refreshes(o)
    BY <2>1, NewTaskIs DEF Refreshes
  <2>. QED
    BY <1>1, <2>1, <2>2, <2>3 DEF JoinInv, JoinTyped, FieldsHold, ProgressHolds, Show, Links, Refreshes
<1>5. CASE TapCancel
  <2>1. /\ operations' = CancelAll(operations) /\ phase' = Entry /\ UNCHANGED members
        /\ token' = NoInvitation /\ preview' = NoInvitation /\ pasted' = NoInvitation
        /\ asked' = asked + 1 /\ taps' = taps + 1
    BY <1>5 DEF TapCancel, Tap
  <2>2. NewTask("retry") \in Tasks /\ NewTask("retry").at = "start"
    BY <1>1 DEF NewTask, Tasks, Links
  <2>3. operations' \subseteq Tasks /\ TasksHold'
    BY <1>1, <2>1, <2>2, TapsTasks
  <2>. QED
    BY <1>1, <2>1, <2>3 DEF JoinInv, JoinTyped, FieldsHold, ProgressHolds, Entry, Show, Links
<1>. QED
  BY <1>2, <1>3, <1>4, <1>5

\* A request is sent: it is the one that is wanted.
LEMMA AskIs ==
  ASSUME JoinInv, NEW o \in operations, NEW does \in {"preview", "accept"}, NEW i \in Links,
         NEW screen, Ask(o, does, i, screen), members' = members,
         screen = Show(IF does = "preview" THEN "previewing" ELSE "accepting", i),
         does = "preview" => token' = i
  PROVE  /\ operations' \subseteq Tasks /\ TasksHold' /\ asked' \in Nat /\ phase' = screen
         /\ \E p \in operations' : IsCurrent(p)'
<1>1. asked' = asked + 1 /\ asked \in Nat /\ phase' = screen /\ o \in Tasks /\ asked' \in Nat
  BY DEF Ask, JoinInv, JoinTyped
<1>2. PICK at \in {"wait", "back"}, reply \in {"cancelled", "none"} :
        /\ o.cancelled => at = "back" /\ reply = "cancelled"
        /\ operations' = (operations \ {o}) \cup
             {[o EXCEPT !.does = does, !.of = i, !.asked = asked', !.at = at, !.reply = reply]}
  BY <1>1 DEF Ask, OperationGoes
<1> DEFINE sent == [o EXCEPT !.does = does, !.of = i, !.asked = asked', !.at = at, !.reply = reply]
<1>3. /\ sent \in Tasks /\ sent.does = does /\ sent.of = i /\ sent.asked = asked'
       /\ sent.at = at /\ sent.cancelled = o.cancelled /\ sent.reply = reply
       /\ operations' = (operations \ {o}) \cup {sent}
  <2> DEFINE one == [o EXCEPT !.does = does, !.of = i]
             two == [one EXCEPT !.asked = asked', !.at = at]
  <2>1. one \in Tasks
    BY <1>1 DEF Tasks
  <2>2. two \in Tasks
    <3> HIDE DEF one
    <3>. QED
      BY <1>1, <2>1 DEF Tasks
  <2>3. [two EXCEPT !.reply = reply] \in Tasks
    <3> HIDE DEF two
    <3>. QED
      BY <2>2 DEF Tasks
  <2>4. sent = [two EXCEPT !.reply = reply]
    OBVIOUS
  <2>5. sent \in Tasks
    BY <2>3, <2>4
  <2>6. operations' = (operations \ {o}) \cup {sent}
    BY <1>2
  <2>. QED
    BY <1>1, <2>5, <2>6 DEF Tasks
<1> HIDE DEF sent
<1>4. \A p \in operations : /\ p \in Tasks /\ p.asked \in Nat /\ (Asks(p) => p.asked <= asked)
  BY DEF JoinInv, JoinTyped, Tasks, TasksHold
<1>5. \A p \in operations' : p = sent \/ (p \in operations /\ ~IsCurrent(p)')
  BY <1>1, <1>4, <1>3 DEF IsCurrent, Asks
<1>6. sent \in operations' /\ Asks(sent) /\ sent.asked = asked'
  BY <1>1, <1>2, <1>3 DEF Asks
<1>7. \A p \in operations' : Asks(p)' =>
        /\ p.asked <= asked' /\ p.does \in {"preview", "accept"}
        /\ p.reply = "ok" /\ p.does = "accept" => p.of \in members'
  BY <1>1, <1>2, <1>4, <1>5, <1>3 DEF JoinInv, TasksHold, Asks
<1>8. \A p \in operations' : IsCurrent(p)' =>
        /\ p.cancelled => p.at = "back" /\ p.reply = "cancelled"
        /\ phase' = Show(IF p.does = "preview" THEN "previewing" ELSE "accepting", p.of)
        /\ p.does = "preview" => token' = p.of
  BY <1>1, <1>2, <1>5, <1>3
<1>9. TasksHold'
  BY <1>5, <1>7, <1>8 DEF TasksHold
<1>. QED
  BY <1>1, <1>4, <1>6, <1>9, <1>3 DEF IsCurrent, Asks

\* What was asked is asked still, or no more.
LEMMA RestStands ==
  ASSUME JoinInv, UNCHANGED asked, members \subseteq members',
         \A p \in operations' : p \in Tasks /\ (Asks(p) => p \in operations),
         \A p \in operations' : IsCurrent(p) =>
            phase' \in {phase, FailedWith("none")} /\ token' \in {token, NoInvitation}
  PROVE  TasksHold'
<1>1. \A p \in operations' : Asks(p)' =>
        /\ p.asked <= asked' /\ p.does \in {"preview", "accept"}
        /\ p.reply = "ok" /\ p.does = "accept" => p.of \in members'
  BY DEF JoinInv, TasksHold, Asks
<1>2. \A p \in operations' : IsCurrent(p)' => IsCurrent(p) /\ p \in operations
  BY DEF IsCurrent, Asks
<1>3. \A p \in operations' : IsCurrent(p)' =>
       /\ p.cancelled => p.at = "back" /\ p.reply = "cancelled"
       /\ \/ phase' = Show(IF p.does = "preview" THEN "previewing" ELSE "accepting", p.of)
          \/ phase' = FailedWith("none")
       /\ p.does = "preview" => token' \in {p.of, NoInvitation}
  BY <1>2 DEF JoinInv, TasksHold
<1>4. \A p, q \in operations' : IsCurrent(p)' /\ IsCurrent(q)' => p = q
  BY <1>2 DEF JoinInv, TasksHold
<1>. QED
  BY <1>1, <1>3, <1>4 DEF TasksHold, FailedWith, Show

LEMMA BeginInv == ASSUME JoinInv, NEW o \in operations, Begin(o) PROVE JoinInv'
<1>1. /\ o.at = "start" /\ UNCHANGED <<members, taps>> /\ o \in Tasks /\ ~IsCurrent(o)
      /\ asked \in Nat /\ pasted \in Links /\ token \in Links /\ preview \in Links
  BY DEF Begin, JoinInv, JoinTyped, IsCurrent, Asks
\* The sheet asks for something.
<1>2. ASSUME NEW does \in {"preview", "accept"}, NEW i \in Links, i # NoInvitation,
             Ask(o, does, i, Show(IF does = "preview" THEN "previewing" ELSE "accepting", i)),
             pasted' = NoInvitation, token' = i, preview' = preview,
             preview # NoInvitation => preview = i
      PROVE  JoinInv'
  <2> DEFINE screen == Show(IF does = "preview" THEN "previewing" ELSE "accepting", i)
  <2>1. /\ operations' \subseteq Tasks /\ TasksHold' /\ asked' \in Nat /\ phase' = screen
        /\ \E p \in operations' : IsCurrent(p)'
    BY <1>1, <1>2, AskIs
  <2>2. /\ screen.kind \in {"previewing", "accepting"}
        /\ phase' \in [kind : {"entry", "previewing", "preview", "member", "accepting", "joined",
                               "refreshing", "failed"},
                       of : Links, retry : {"none", "preview", "accept"}]
    BY <1>2, <2>1 DEF Show, Links
  <2>3. JoinTyped' /\ FieldsHold'
    BY <1>1, <1>2, <2>1, <2>2 DEF JoinInv, JoinTyped, FieldsHold, Links
  <2>4. ProgressHolds'
    BY <2>1, <2>2 DEF ProgressHolds
  <2>. QED
    BY <2>1, <2>3, <2>4 DEF JoinInv
\* The task ends, and nothing else changes.
<1>3. ASSUME EndsTask(o), UNCHANGED <<phase, asked, pasted, token, preview>>, ~Refreshes(o)
      PROVE  JoinInv'
  <2>1. operations' \subseteq operations /\ operations' \subseteq Tasks
    BY <1>3 DEF EndsTask, JoinInv, JoinTyped
  <2>2. TasksHold'
    BY <1>1, <1>3, <2>1, RestStands
  <2>3. ProgressHolds'
    BY <1>1, <1>3 DEF JoinInv, ProgressHolds, EndsTask, Refreshes, IsCurrent, Asks
  <2>. QED
    BY <1>1, <1>3, <2>1, <2>2, <2>3 DEF JoinInv, JoinTyped, FieldsHold
<1>4. CASE StartPreview(o)
  <2>1. CASE pasted = NoInvitation
    <3>1. /\ operations' = operations \ {o} /\ UNCHANGED asked /\ phase' = FailedWith("none")
          /\ token' = NoInvitation /\ preview' = NoInvitation /\ pasted' = NoInvitation
      BY <1>4, <2>1 DEF StartPreview, EndsTask
    <3>2. operations' \subseteq Tasks /\ TasksHold'
      BY <1>1, <3>1, RestStands DEF JoinInv, JoinTyped
    <3>. QED
      BY <1>1, <3>1, <3>2 DEF JoinInv, JoinTyped, FieldsHold, ProgressHolds, FailedWith, Links
  <2>2. CASE pasted # NoInvitation
    BY <1>1, <1>2, <1>4, <2>2 DEF StartPreview, RequestPreview, JoinInv, FieldsHold
  <2>. QED
    BY <2>1, <2>2
<1>5. CASE Accept(o) /\ UNCHANGED <<pasted, token, preview>> /\ ~Refreshes(o)
  <2>1. CASE token = NoInvitation \/ preview = NoInvitation
    BY <1>3, <1>5, <2>1 DEF Accept
  <2>2. CASE token # NoInvitation /\ preview # NoInvitation
    <3>1. pasted = NoInvitation /\ token = preview
      BY <2>2 DEF JoinInv, FieldsHold
    <3>. QED
      BY <1>1, <1>2, <1>5, <2>2, <3>1 DEF Accept
  <2>. QED
    BY <2>1, <2>2
<1>6. CASE StartRetry(o) /\ UNCHANGED <<pasted, token, preview>> /\ ~Refreshes(o)
  <2>1. CASE phase.kind # "failed" \/ phase.retry = "none" \/ token = NoInvitation
    BY <1>3, <1>6, <2>1 DEF StartRetry
  <2>2. CASE phase.kind = "failed" /\ phase.retry = "preview" /\ token # NoInvitation
    <3>1. RequestPreview(o, token) /\ pasted = NoInvitation /\ (preview # NoInvitation => preview = token)
      BY <1>6, <2>2 DEF StartRetry, JoinInv, FieldsHold
    <3>. QED
      BY <1>1, <1>2, <1>6, <2>2, <3>1 DEF RequestPreview
  <2>. QED
    BY <1>5, <1>6, <2>1, <2>2 DEF StartRetry
<1>7. CASE /\ o.does = "refresh" /\ OperationGoes(o, [o EXCEPT !.at = "refresh"])
           /\ UNCHANGED <<phase, asked, pasted, token, preview>>
  <2> DEFINE now == [o EXCEPT !.at = "refresh"]
  <2>1. now \in Tasks /\ now.at = "refresh" /\ now.cancelled = o.cancelled
    BY <1>1 DEF Tasks
  <2>2. operations' = (operations \ {o}) \cup {now}
    BY <1>7 DEF OperationGoes
  <2> HIDE DEF now
  <2>3. operations' \subseteq Tasks /\ TasksHold'
    BY <1>1, <1>7, <2>1, <2>2, RestStands DEF JoinInv, JoinTyped, Asks
  <2>4. ProgressHolds'
    BY <1>1, <1>7, <2>1, <2>2 DEF JoinInv, ProgressHolds, Refreshes, IsCurrent, Asks
  <2>. QED
    BY <1>1, <1>7, <2>3, <2>4 DEF JoinInv, JoinTyped, FieldsHold
<1>. QED
  BY <1>4, <1>5, <1>6, <1>7 DEF Begin, Refreshes

LEMMA ReplyInv == ASSUME JoinInv, NEW o \in operations, InvitationReply(o) PROVE JoinInv'
<1>1. PICK reply \in {"ok", "member", "again", "refused", "cancelled"} :
        /\ operations' = (operations \ {o}) \cup {[o EXCEPT !.at = "back", !.reply = reply]}
        /\ reply = "cancelled" => o.cancelled
        /\ \/ members' = members \cup IF o.does = "accept" THEN {o.of} ELSE {}
           \/ (o.does # "accept" \/ reply # "ok") /\ members' = members
  BY DEF InvitationReply, OperationGoes
<1> DEFINE back == [o EXCEPT !.at = "back", !.reply = reply]
<1>2. /\ UNCHANGED <<phase, pasted, token, preview, asked, taps>>
      /\ o \in Tasks /\ o.at = "wait" /\ Asks(o)
  BY DEF InvitationReply, JoinInv, JoinTyped, Asks
<1>3. /\ back \in Tasks /\ back.at = "back" /\ back.reply = reply /\ back.does = o.does
      /\ back.of = o.of /\ back.asked = o.asked /\ back.cancelled = o.cancelled
      /\ operations' = (operations \ {o}) \cup {back}
  BY <1>1, <1>2 DEF Tasks
<1> HIDE DEF back
<1>4. operations' \subseteq Tasks /\ members \subseteq members'
  BY <1>1, <1>3 DEF JoinInv, JoinTyped
<1>5. \A p \in operations' : Asks(p)' =>
        /\ p.asked <= asked' /\ p.does \in {"preview", "accept"}
        /\ p.reply = "ok" /\ p.does = "accept" => p.of \in members'
  BY <1>1, <1>2, <1>3, <1>4 DEF JoinInv, TasksHold, Asks
<1>6. IsCurrent(o) => ~o.cancelled
  BY <1>2 DEF JoinInv, TasksHold
<1>7. \A p \in operations' : IsCurrent(p)' =>
        /\ p.cancelled => p.at = "back" /\ p.reply = "cancelled"
        /\ \/ phase = Show(IF p.does = "preview" THEN "previewing" ELSE "accepting", p.of)
           \/ phase = FailedWith("none")
        /\ p.does = "preview" => token \in {p.of, NoInvitation}
  <2> SUFFICES ASSUME NEW p \in operations', IsCurrent(p)'
               PROVE  /\ p.cancelled => p.at = "back" /\ p.reply = "cancelled"
                      /\ \/ phase = Show(IF p.does = "preview" THEN "previewing" ELSE "accepting", p.of)
                         \/ phase = FailedWith("none")
                      /\ p.does = "preview" => token \in {p.of, NoInvitation}
    OBVIOUS
  <2>1. CASE p = back
    <3>1. IsCurrent(o)
      BY <1>2, <1>3, <2>1 DEF IsCurrent
    <3>. QED
      BY <1>3, <1>6, <2>1, <3>1 DEF JoinInv, TasksHold
  <2>2. CASE p # back
    <3>1. p \in operations /\ IsCurrent(p)
      BY <1>2, <1>3, <2>2 DEF IsCurrent, Asks
    <3>. QED
      BY <3>1 DEF JoinInv, TasksHold
  <2>. QED
    BY <2>1, <2>2
<1>8. \A p, q \in operations' : IsCurrent(p)' /\ IsCurrent(q)' => p = q
  BY <1>2, <1>3 DEF JoinInv, TasksHold, IsCurrent, Asks
<1>9. TasksHold'
  BY <1>2, <1>5, <1>7, <1>8 DEF TasksHold, Show, FailedWith
<1>10. ProgressHolds'
  <2>1. (\E p \in operations : IsCurrent(p)) => \E p \in operations' : IsCurrent(p)'
    BY <1>2, <1>3 DEF IsCurrent, Asks
  <2>2. (\E p \in operations : Refreshes(p)) => \E p \in operations' : Refreshes(p)'
    BY <1>2, <1>3 DEF Refreshes
  <2>. QED
    BY <1>2, <1>4, <2>1, <2>2 DEF JoinInv, ProgressHolds
<1>. QED
  BY <1>2, <1>4, <1>9, <1>10 DEF JoinInv, JoinTyped, FieldsHold

\* A task that is no longer wanted ends.
LEMMA UnwantedEnds ==
  ASSUME JoinInv, NEW o \in operations, ~IsCurrent(o), ~Refreshes(o), EndsTask(o),
         UNCHANGED <<phase, pasted, token, preview, asked, members, taps>>
  PROVE  JoinInv'
<1>1. operations' = operations \ {o} /\ operations' \subseteq Tasks /\ operations' \subseteq operations
  BY DEF EndsTask, JoinInv, JoinTyped
<1>2. TasksHold'
  BY <1>1, RestStands
<1>3. ProgressHolds'
  BY <1>1 DEF JoinInv, ProgressHolds, IsCurrent, Asks, Refreshes
<1>. QED
  BY <1>1, <1>2, <1>3 DEF JoinInv, JoinTyped, FieldsHold

LEMMA ComebackInv == ASSUME JoinInv, NEW o \in operations, Comeback(o) PROVE JoinInv'
<1>1. /\ o.at = "back" /\ UNCHANGED <<pasted, asked, members, taps>> /\ o \in Tasks
      /\ Asks(o) /\ ~Refreshes(o) /\ asked \in Nat
  BY DEF Comeback, JoinInv, JoinTyped, Asks, Refreshes
<1>2. CASE ~IsWantedReply(o)
  <2>1. EndsTask(o) /\ UNCHANGED <<phase, token, preview>>
    BY <1>2 DEF Comeback
  <2>2. ~IsCurrent(o)
    BY <1>2 DEF IsWantedReply, IsAnswer, IsCurrent, JoinInv, TasksHold
  <2>. QED
    BY <1>1, <2>1, <2>2, UnwantedEnds
<1>3. CASE IsWantedReply(o)
  <2>1. /\ IsCurrent(o) /\ \A p \in operations : IsCurrent(p) => p = o
        /\ phase.kind \in {"previewing", "accepting", "failed"}
        /\ o.does \in {"preview", "accept"}
        /\ o.does = "preview" => token \in {o.of, NoInvitation}
        /\ o.reply = "ok" /\ o.does = "accept" => o.of \in members
        /\ pasted = NoInvitation
    BY <1>1, <1>3 DEF IsWantedReply, IsCurrent, JoinInv, TasksHold, FieldsHold, Show, FailedWith
  <2>2. /\ o.of \in Links /\ token \in Links /\ preview \in Links /\ pasted \in Links
        /\ token # NoInvitation /\ preview # NoInvitation => token = preview
    BY <1>1 DEF Tasks, JoinInv, JoinTyped, FieldsHold
\* It ends the task, and the sheet shows what it brought.
  <2>3. ASSUME operations' = operations \ {o}, phase'.kind \in {"entry", "preview", "member", "failed"},
               phase' \in [kind : {"entry", "previewing", "preview", "member", "accepting", "joined",
                                   "refreshing", "failed"},
                           of : Links, retry : {"none", "preview", "accept"}],
               token' \in Links, preview' \in Links,
               phase'.kind = "entry" => token' = NoInvitation /\ preview' = NoInvitation,
               token' # NoInvitation /\ preview' # NoInvitation => token' = preview'
        PROVE  JoinInv'
    <3>1. operations' \subseteq operations /\ \A p \in operations' : ~IsCurrent(p)
      BY <2>1, <2>3
    <3>2. TasksHold' /\ operations' \subseteq Tasks
      BY <1>1, <3>1, RestStands DEF JoinInv, JoinTyped
    <3>. QED
      BY <1>1, <2>1, <2>2, <2>3, <3>2 DEF JoinInv, JoinTyped, FieldsHold, ProgressHolds
  <2>4. CASE /\ IsAnswer(o) /\ o.does = "preview" /\ EndsTask(o)
             /\ preview' = o.of /\ UNCHANGED token
             /\ phase' = Show(IF o.reply = "member" THEN "member" ELSE "preview", o.of)
    BY <2>1, <2>2, <2>3, <2>4 DEF EndsTask, Show
  <2>5. CASE /\ o.reply = "ok" /\ o.does = "accept"
             /\ OperationGoes(o, [o EXCEPT !.at = "refresh"])
             /\ ClearCredential /\ phase' = Show("joined", o.of)
    <3> DEFINE now == [o EXCEPT !.at = "refresh"]
    <3>1. /\ now \in Tasks /\ now.at = "refresh" /\ now.cancelled = o.cancelled
          /\ operations' = (operations \ {o}) \cup {now}
      BY <1>1, <2>5 DEF OperationGoes, Tasks
    <3> HIDE DEF now
    <3>2. \A p \in operations' : p \in Tasks /\ (Asks(p) => p \in operations /\ ~IsCurrent(p))
      BY <2>1, <3>1 DEF Asks, JoinInv, JoinTyped
    <3>3. TasksHold'
      BY <1>1, <3>2, RestStands DEF IsCurrent
    <3>4. ~o.cancelled
      BY <1>3, <2>5 DEF IsWantedReply, IsAnswer
    <3>5. \E p \in operations' : Refreshes(p)'
      BY <3>1, <3>4 DEF Refreshes
    <3>6. ProgressHolds'
      BY <1>1, <2>1, <2>5, <3>5 DEF ProgressHolds, Show
    <3>. QED
      BY <1>1, <2>1, <2>2, <2>5, <3>2, <3>3, <3>6 DEF JoinInv, JoinTyped, FieldsHold, Show, Links,
         ClearCredential
  <2>6. CASE o.reply = "cancelled" /\ EndsTask(o) /\ ClearCredential /\ phase' = Entry
    BY <2>3, <2>6 DEF EndsTask, ClearCredential, Entry, Show, Links
  <2>7. CASE o.reply = "again" /\ EndsTask(o) /\ phase' = FailedWith(o.does) /\ UNCHANGED <<token, preview>>
    BY <2>1, <2>2, <2>3, <2>7 DEF EndsTask, FailedWith, Links
  <2>8. CASE o.reply = "refused" /\ EndsTask(o) /\ ClearCredential /\ phase' = FailedWith("none")
    BY <2>3, <2>8 DEF EndsTask, ClearCredential, FailedWith, Links
  <2>. QED
    BY <1>3, <2>4, <2>5, <2>6, <2>7, <2>8 DEF Comeback
<1>. QED
  BY <1>2, <1>3

LEMMA RefreshedInv == ASSUME JoinInv, NEW o \in operations, Refreshed(o) PROVE JoinInv'
<1>1. /\ o.at = "refresh" /\ operations' = operations \ {o} /\ UNCHANGED <<members, taps>>
      /\ ~IsCurrent(o) /\ asked \in Nat
  BY DEF Refreshed, EndsTask, IsCurrent, Asks, JoinInv, JoinTyped
<1>2. CASE o.cancelled
  BY <1>1, <1>2, UnwantedEnds DEF Refreshed, Refreshes
<1>3. CASE ~o.cancelled
  <2>1. /\ asked' = asked + 1 /\ phase' = Entry /\ pasted' = NoInvitation
        /\ token' = NoInvitation /\ preview' = NoInvitation
    BY <1>3 DEF Refreshed, ClearCredential
  <2>2. /\ operations' \subseteq operations /\ operations' \subseteq Tasks
        /\ \A p \in operations : Asks(p) => p.asked <= asked /\ p.asked \in Nat
    BY <1>1 DEF JoinInv, JoinTyped, Tasks, TasksHold
  <2>3. \A p \in operations' : ~IsCurrent(p)'
    BY <1>1, <2>1, <2>2 DEF IsCurrent, Asks
  <2>4. \A p \in operations' : Asks(p)' =>
          /\ p.asked <= asked' /\ p.does \in {"preview", "accept"}
          /\ p.reply = "ok" /\ p.does = "accept" => p.of \in members'
    BY <1>1, <2>1, <2>2 DEF JoinInv, TasksHold, Asks
  <2>5. TasksHold'
    BY <2>3, <2>4 DEF TasksHold
  <2>. QED
    BY <1>1, <2>1, <2>2, <2>5 DEF JoinInv, JoinTyped, FieldsHold, ProgressHolds, Entry, Show, Links
<1>. QED
  BY <1>2, <1>3

LEMMA JoinNextInv == JoinInv /\ [JoinNext]_joinVars => JoinInv'
<1> SUFFICES ASSUME JoinInv, [JoinNext]_joinVars PROVE JoinInv'
  OBVIOUS
<1>1. CASE UNCHANGED joinVars
  BY <1>1 DEF joinVars, JoinInv, JoinTyped, FieldsHold, TasksHold, ProgressHolds, IsCurrent, Asks,
     Refreshes, Show, FailedWith
<1>. QED
  BY <1>1, TapsInv, BeginInv, ReplyInv, ComebackInv, RefreshedInv DEF JoinNext

LEMMA JoinInvariant == JoinSpec => []JoinInv
BY JoinInitInv, JoinNextInv, PTL DEF JoinSpec

\* JoinTeamModel: whatever is tapped, cancelled or late, an invitation is accepted
\* under its own preview, and progress that is shown comes to an end.
THEOREM SheetsJoinAsShown == JoinSpec => []JoinsAsShown
<1>1. JoinInv => AcceptsWhatWasShown
  BY DEF JoinInv, TasksHold, ProgressHolds, IsCurrent, Show, FailedWith, AcceptsWhatWasShown
<1>2. JoinInv => ProgressHasATask
  BY DEF JoinInv, TasksHold, ProgressHolds, IsCurrent, Asks, Refreshes, IsAnswer, ProgressHasATask
<1>. QED
  BY <1>1, <1>2, JoinInvariant, PTL DEF JoinsAsShown

----------------------------------------------------------------------------
(* Backups *)

\* What is renamed is whole, and a target stands only where none stood.
BackupsInv ==
  /\ files \in [source : Contents, target : {"absent", "whole"}, partial : Contents]
  /\ command \in [op : {"none", "backup", "restore"},
                  step : {"check", "write", "verify", "rename", "discard", "done"}, attempts : Nat]
  /\ command.step = "rename" => files.partial = "whole"

LEMMA BackupsInitInv == BackupsInit => BackupsInv
BY DEF BackupsInit, BackupsInv, Contents

LEMMA BackupsNextInv == BackupsInv /\ [BackupsNext]_backupVars => BackupsInv'
<1> SUFFICES ASSUME BackupsInv, [BackupsNext]_backupVars PROVE BackupsInv'
  OBVIOUS
<1> USE DEF BackupsInv, Contents
<1>1. CASE UNCHANGED backupVars
  BY <1>1 DEF backupVars
<1>2. CASE BeginCommand
  BY <1>2 DEF BeginCommand
<1>3. CASE CheckPaths
  BY <1>3 DEF CheckPaths, Goto
<1>4. CASE WriteSome \/ WriteRest \/ WriteStops
  BY <1>4 DEF WriteSome, WriteRest, WriteStops, Goto
<1>5. CASE VerifyPartial
  BY <1>5 DEF VerifyPartial, IsIntact, Goto
<1>6. CASE Rename
  BY <1>6 DEF Rename, Goto
<1>7. CASE WriteFails \/ Discard \/ ProcessDies
  BY <1>7 DEF WriteFails, Discard, ProcessDies, Goto
<1>8. CASE RemoveByHand
  BY <1>8 DEF RemoveByHand
<1>9. CASE SourceIsDamaged
  BY <1>9 DEF SourceIsDamaged
<1>. QED
  BY <1>1, <1>2, <1>3, <1>4, <1>5, <1>6, <1>7, <1>8, <1>9 DEF BackupsNext

\* backup.ts: whatever dies, fills or is damaged, only a whole file is renamed
\* to the target's path.
THEOREM TargetsAreWhole == BackupsSpec => []BackupsAreWhole
<1>1. BackupsInv => BackupsAreWhole
  BY DEF BackupsInv, BackupsAreWhole
<1>. QED
  BY <1>1, BackupsInitInv, BackupsNextInv, PTL DEF BackupsSpec

----------------------------------------------------------------------------
(* The server's process *)

Booting == {"launched", "verified", "configured", "groups dropped", "gid dropped", "uid dropped"}
BootSteps == Booting \cup {"off", "starting", "composing", "composed", "serving", "draining",
                          "closing", "unwinding"}

RuntimeTyped ==
  /\ unit \in [state : {"inactive", "active", "restarting", "failed"}, starts : Nat]
  /\ boot \in BootSteps
  /\ server \in [database : {"closed", "open"}, worker : {"none", "idle", "busy", "stopped"},
                 listening : BOOLEAN, requests : Nat]

\* A release is changed only while no process runs, so what was verified stays so.
ReleaseHolds ==
  /\ boot # "off" => unit.state = "active"
  /\ boot \notin {"off", "launched"} => IsVerified(host)
  /\ privileges \subseteq Root
  /\ boot = "groups dropped" => privileges \subseteq {"gid", "uid"}
  /\ boot = "gid dropped" => privileges \subseteq {"uid"}
  /\ boot \notin Booting \/ boot = "uid dropped" => privileges = {}

\* The database is open from before the worker and the listener start until both
\* are done.
ServerHolds ==
  /\ boot \in Booting \cup {"off", "starting"} => server = NoServer
  /\ boot \in {"composing", "composed", "serving", "draining"} => server.database = "open"
  /\ boot \in {"composing", "composed", "draining", "closing", "unwinding"} => ~server.listening
  /\ boot \in {"composing", "composed", "closing", "unwinding"} => server.requests = 0
  /\ server.database = "closed" => server.worker \in {"none", "stopped"}

RuntimeInv == RuntimeTyped /\ ReleaseHolds /\ ServerHolds

LEMMA RuntimeInitInv == RuntimeInit => RuntimeInv
BY DEF RuntimeInit, IsOff, NoServer, RuntimeInv, RuntimeTyped, ReleaseHolds, ServerHolds, BootSteps, Booting

\* What remains as it was holds of it.
LEMMA ReleaseStands ==
  ASSUME ReleaseHolds, UNCHANGED <<host, unit, privileges>>, boot \notin Booting \cup {"off"},
         boot' \notin Booting \cup {"off"}
  PROVE  ReleaseHolds'
<1>1. IsVerified(host)' <=> IsVerified(host)
  BY DEF IsVerified, Digest, IsInstalled
<1>. QED
  BY <1>1 DEF ReleaseHolds, Booting

LEMMA EndsInv == ASSUME RuntimeInv, NEW failure \in BOOLEAN, Ends(failure) PROVE RuntimeInv'
<1>1. unit' \in [state : {"inactive", "active", "restarting", "failed"}, starts : Nat]
  BY DEF Ends, RuntimeInv, RuntimeTyped
<1>2. boot' = "off" /\ privileges' = {} /\ server' = NoServer
  BY DEF Ends
<1>3. NoServer \in [database : {"closed", "open"}, worker : {"none", "idle", "busy", "stopped"},
                    listening : BOOLEAN, requests : Nat]
  BY DEF NoServer
<1>4. RuntimeTyped'
  BY <1>1, <1>2, <1>3 DEF RuntimeTyped, BootSteps
<1>5. ReleaseHolds'
  BY <1>2 DEF ReleaseHolds, Booting, Root
<1>6. ServerHolds'
  BY <1>2 DEF ServerHolds, NoServer
<1>. QED
  BY <1>4, <1>5, <1>6 DEF RuntimeInv

LEMMA RuntimeNextInv == RuntimeInv /\ [RuntimeNext]_runtimeVars => RuntimeInv'
<1> SUFFICES ASSUME RuntimeInv, [RuntimeNext]_runtimeVars PROVE RuntimeInv'
  OBVIOUS
<1>0. /\ unit \in [state : {"inactive", "active", "restarting", "failed"}, starts : Nat]
      /\ boot \in BootSteps
      /\ server \in [database : {"closed", "open"}, worker : {"none", "idle", "busy", "stopped"},
                     listening : BOOLEAN, requests : Nat]
  BY DEF RuntimeInv, RuntimeTyped
<1>1. CASE UNCHANGED runtimeVars
  <2>1. RuntimeTyped' /\ ServerHolds'
    BY <1>1 DEF runtimeVars, RuntimeInv, RuntimeTyped, ServerHolds
  <2>2. ReleaseHolds'
    BY <1>1 DEF runtimeVars, RuntimeInv, ReleaseHolds, IsVerified, Digest, IsInstalled
  <2>. QED
    BY <2>1, <2>2 DEF RuntimeInv
<1>2. CASE Install \/ Launch
  <2>1. /\ UNCHANGED server /\ boot \in {"off"} /\ boot' \in {"off", "launched"} /\ server = NoServer
        /\ unit' \in [state : {"inactive", "active"}, starts : Nat]
        /\ boot' = "launched" => unit'.state = "active" /\ privileges' = Root
        /\ boot' = "off" => privileges' = {}
    <3>1. CASE Install
      BY <1>0, <3>1 DEF Install, RuntimeInv, ReleaseHolds, ServerHolds, Booting
    <3>2. CASE Launch
      BY <1>0, <3>2 DEF Launch, RuntimeInv, ServerHolds
    <3>. QED
      BY <1>2, <3>1, <3>2
  <2>2. RuntimeTyped'
    BY <1>0, <2>1 DEF RuntimeTyped, BootSteps, Booting
  <2>3. ReleaseHolds'
    BY <2>1 DEF ReleaseHolds, Booting, Root
  <2>4. ServerHolds'
    BY <2>1 DEF ServerHolds, NoServer
  <2>. QED
    BY <2>2, <2>3, <2>4 DEF RuntimeInv
<1>3. CASE Dies \/ Exit
  BY <1>3, EndsInv DEF Dies, Exit
\* Up to the server's start the process goes on and its server has nothing.
<1>4. CASE Verify \/ FetchSecrets \/ DropPrivileges \/ BecomeServer
  <2>1. /\ boot \in Booting /\ boot' \in (Booting \ {"launched"}) \cup {"starting"}
        /\ UNCHANGED <<host, unit, server>>
        /\ boot = "launched" => IsVerified(host)
    BY <1>4 DEF Verify, FetchSecrets, DropPrivileges, BecomeServer, GiveUp, Proceed, Booting
  <2>2. /\ privileges' \subseteq Root
        /\ boot' = "groups dropped" => privileges' \subseteq {"gid", "uid"}
        /\ boot' = "gid dropped" => privileges' \subseteq {"uid"}
        /\ boot' \notin Booting \/ boot' = "uid dropped" => privileges' = {}
    <3>1. CASE Verify \/ FetchSecrets
      BY <3>1 DEF Verify, FetchSecrets, Proceed, RuntimeInv, ReleaseHolds, Booting
    <3>2. CASE DropPrivileges
      BY <3>2 DEF DropPrivileges, GiveUp, Proceed, RuntimeInv, ReleaseHolds, Booting, Root
    <3>3. CASE BecomeServer
      BY <3>3 DEF BecomeServer, Proceed, RuntimeInv, ReleaseHolds, Booting
    <3>. QED
      BY <1>4, <3>1, <3>2, <3>3
  <2>3. IsVerified(host)' <=> IsVerified(host)
    BY <2>1 DEF IsVerified, Digest, IsInstalled
  <2>4. ReleaseHolds'
    BY <2>1, <2>2, <2>3 DEF RuntimeInv, ReleaseHolds, Booting
  <2>5. ServerHolds'
    BY <2>1 DEF RuntimeInv, ServerHolds, Booting, NoServer
  <2>. QED
    BY <1>0, <2>1, <2>4, <2>5 DEF RuntimeInv, RuntimeTyped, BootSteps
\* From then on it only works.
<1>5. ASSUME UNCHANGED <<host, unit, privileges>>, boot \notin Booting \cup {"off"},
             boot' \in BootSteps, boot' \notin Booting \cup {"off"}, ServerHolds',
             server' \in [database : {"closed", "open"}, worker : {"none", "idle", "busy", "stopped"},
                          listening : BOOLEAN, requests : Nat]
      PROVE  RuntimeInv'
  BY <1>0, <1>5, ReleaseStands DEF RuntimeInv, RuntimeTyped
<1>6. CASE OpenDatabase \/ Compose \/ Listen \/ StartFails
  <2>1. /\ UNCHANGED <<host, unit, privileges>> /\ boot \notin Booting \cup {"off"}
        /\ boot' \in BootSteps /\ boot' \notin Booting \cup {"off"}
    BY <1>6 DEF OpenDatabase, Compose, Listen, StartFails, Proceed, Booting, BootSteps
  <2>2. CASE OpenDatabase
    BY <1>0, <1>5, <2>1, <2>2 DEF OpenDatabase, Proceed, RuntimeInv, ServerHolds, NoServer, Booting
  <2>3. CASE Compose
    <3>1. PICK outbox \in BOOLEAN : server' = [server EXCEPT !.worker = IF outbox THEN "idle" ELSE "none"]
      BY <2>3 DEF Compose
    <3>. QED
      BY <1>0, <1>5, <2>1, <2>3, <3>1 DEF Compose, Proceed, RuntimeInv, ServerHolds, Booting
  <2>4. CASE Listen
    BY <1>0, <1>5, <2>1, <2>4 DEF Listen, Proceed, RuntimeInv, ServerHolds, Booting
  <2>5. CASE StartFails
    BY <1>0, <1>5, <2>1, <2>5 DEF StartFails, RuntimeInv, ServerHolds, Booting
  <2>. QED
    BY <1>6, <2>2, <2>3, <2>4, <2>5
<1>7. CASE AcceptRequest \/ AnswerRequest \/ WorkerSteps \/ CloseResources
  <2>1. /\ UNCHANGED <<host, unit, privileges, boot>>
        /\ boot \in {"composed", "serving", "draining", "closing", "unwinding"}
    BY <1>7 DEF AcceptRequest, AnswerRequest, WorkerSteps, CloseResources, Works
  <2>2. boot \notin Booting \cup {"off"} /\ boot' \in BootSteps /\ boot' \notin Booting \cup {"off"}
    BY <2>1 DEF Booting, BootSteps
  <2>3. CASE AcceptRequest
    <3>1. server' = [server EXCEPT !.requests = @ + 1] /\ boot = "serving"
      BY <2>1, <2>3 DEF AcceptRequest, Works, RuntimeInv, ServerHolds
    <3>2. ServerHolds'
      BY <1>0, <2>1, <3>1 DEF RuntimeInv, ServerHolds, Booting
    <3>. QED
      BY <1>0, <1>5, <2>1, <2>2, <3>1, <3>2
  <2>4. CASE AnswerRequest
    <3>1. server' = [server EXCEPT !.requests = @ - 1] /\ boot \in {"serving", "draining"}
          /\ server.requests - 1 \in Nat
      BY <1>0, <2>1, <2>4 DEF AnswerRequest, Works, RuntimeInv, ServerHolds
    <3>2. ServerHolds'
      BY <1>0, <2>1, <3>1 DEF RuntimeInv, ServerHolds, Booting
    <3>. QED
      BY <1>0, <1>5, <2>1, <2>2, <3>1, <3>2
  <2>5. CASE WorkerSteps
    <3>1. PICK w \in {"busy", "idle"} : server' = [server EXCEPT !.worker = w] /\ server.worker \in {"busy", "idle"}
      BY <2>5 DEF WorkerSteps, Works
    <3>2. ServerHolds'
      BY <1>0, <2>1, <3>1 DEF RuntimeInv, ServerHolds, Booting
    <3>. QED
      BY <1>0, <1>5, <2>1, <2>2, <3>1, <3>2
  <2>6. CASE CloseResources
    BY <1>0, <1>5, <2>1, <2>2, <2>6 DEF CloseResources, MayCloseDatabase, Works, RuntimeInv,
       ServerHolds, Booting
  <2>. QED
    BY <1>7, <2>3, <2>4, <2>5, <2>6
<1>8. CASE Terminate \/ Drained
  <2>1. /\ UNCHANGED <<host, unit, privileges>> /\ boot \notin Booting \cup {"off"}
        /\ boot' \in BootSteps /\ boot' \notin Booting \cup {"off"}
    BY <1>8 DEF Terminate, Drained, Booting, BootSteps
  <2>2. CASE Terminate
    BY <1>0, <1>5, <2>1, <2>2 DEF Terminate, RuntimeInv, ServerHolds, Booting
  <2>3. CASE Drained
    BY <1>0, <1>5, <2>1, <2>3 DEF Drained, RuntimeInv, ServerHolds, Booting
  <2>. QED
    BY <1>8, <2>2, <2>3
<1>. QED
  BY <1>1, <1>2, <1>3, <1>4, <1>6, <1>7, <1>8 DEF RuntimeNext

LEMMA RuntimeInvariant == RuntimeSpec => []RuntimeInv
BY RuntimeInitInv, RuntimeNextInv, PTL DEF RuntimeSpec

\* boot.py: the process that serves runs the configured release, without root.
THEOREM ServersRunTheirRelease == RuntimeSpec => []RunsTheReleaseUnprivileged
<1>1. ASSUME RuntimeInv PROVE RunsTheReleaseUnprivileged
  <2> SUFFICES ASSUME boot \notin Booting \cup {"off"}
               PROVE  LET released == host.expected.digest[1]
                          code(tree) == {<<p, tree[p]>> : p \in {q \in Paths :
                            tree[q].kind \in {"file", "link"} /\ released[q].kind # "directory"}}
                      IN privileges = {} /\ code(host.tree) = code(released)
    BY DEF RunsTheReleaseUnprivileged, Booting
  <2>1. IsVerified(host) /\ privileges = {}
    BY <1>1 DEF RuntimeInv, ReleaseHolds, Booting
  <2>2. host.expected.digest[1] = host.archive
    BY <2>1 DEF IsVerified, Digest
  <2>3. ASSUME NEW q \in Paths, host.archive[q].kind # "directory"
        PROVE  /\ host.tree[q].kind \in {"file", "link"} <=> host.archive[q].kind \in {"file", "link"}
               /\ host.tree[q].kind \in {"file", "link"} => host.tree[q] = host.archive[q]
    <3>1. IsInstalled(host, q)
      BY <2>1 DEF IsVerified
    <3>. QED
      BY <2>3, <3>1 DEF IsInstalled
  <2>. QED
    BY <2>1, <2>2, <2>3
<1>. QED
  BY <1>1, RuntimeInvariant, PTL

\* server.ts: no request and no job works on a database that is not open.
THEOREM WorkIsOnADatabase == RuntimeSpec => []WorkHasADatabase
<1>1. ASSUME RuntimeInv PROVE WorkHasADatabase
  <2>1. server.database \in {"closed", "open"} /\ boot \in BootSteps
    BY <1>1 DEF RuntimeInv, RuntimeTyped
  <2>2. server.requests > 0 => server.database = "open"
    BY <1>1, <2>1 DEF RuntimeInv, ServerHolds, BootSteps, NoServer
  <2>. QED
    BY <1>1, <2>1, <2>2 DEF RuntimeInv, ServerHolds, WorkHasADatabase
<1>. QED
  BY <1>1, RuntimeInvariant, PTL

----------------------------------------------------------------------------
(* The preflight *)

\* What VerifyRoute found, and which listener gave the group.
RouteHolds ==
  /\ preflight.group # {}
  /\ \A l \in cloud.listeners : IsSoleRule(l.rules)
  /\ \A g \in preflight.group : cloud.targets[g] = {"api-instance"}
  /\ cloud.serves["api-instance"].ready

GroupHolds ==
  preflight.group # {} => \E l \in cloud.listeners :
    /\ cloud.listeners = {l} /\ l.port = 443 /\ l.secure
    /\ preflight.group = UNION {ForwardedTarget(r) : r \in DefaultRules(l)}

\* A check that passed stands.
ChecksHold ==
  /\ "awsTopologyVerified" \in preflight.checks =>
       IngressIsRestricted("api") /\ IngressIsRestricted("database")
  /\ "preDeploySnapshotVerified" \in preflight.checks => SnapshotIsFresh
  /\ "originBindingVerified" \in preflight.checks =>
       cloud.origin # {} /\ cloud.origin \subseteq cloud.balancer
  /\ "preliminarySurfaceVerified" \in preflight.checks =>
       \E dev \in Answering(cloud, "app") : ~cloud.serves[dev].devSignIn
  /\ "routeVerified" \in preflight.checks =>
       RouteHolds /\ preflight.step \notin {"describe", "probe", "listeners", "route"}
  /\ "releaseVerified" \in preflight.checks =>
       \E i \in Answering(cloud, "app") : cloud.serves[i].release = "target"

AllChecks == {"awsTopologyVerified", "preDeploySnapshotVerified", "originBindingVerified",
              "preliminarySurfaceVerified", "routeVerified", "releaseVerified"}

PreflightInv ==
  /\ cloud \in Clouds
  /\ preflight = [step |-> preflight.step, checks |-> preflight.checks,
                  group |-> preflight.group, result |-> preflight.result]
  /\ GroupHolds /\ ChecksHold
  /\ preflight.step # "ended" => preflight.result = "none"
  /\ preflight.result = "passed" => AllChecks \subseteq preflight.checks

LEMMA PreflightInitInv == PreflightInit => PreflightInv
<1> SUFFICES ASSUME PreflightInit PROVE PreflightInv
  OBVIOUS
<1>1. preflight = [step |-> "describe", checks |-> {}, group |-> {}, result |-> "none"] /\ cloud \in Clouds
  BY DEF PreflightInit, Begins
<1>2. preflight.checks = {} /\ preflight.group = {} /\ preflight.result = "none"
      /\ preflight.step = "describe"
  BY <1>1
<1>3. GroupHolds /\ ChecksHold
  BY <1>2 DEF GroupHolds, ChecksHold
<1>. QED
  BY <1>1, <1>2, <1>3 DEF PreflightInv

\* A step that passes some checks: they hold, and so does what was passed before.
LEMMA AfterInv ==
  ASSUME PreflightInv, NEW from, NEW to, NEW checks \in SUBSET AllChecks, After(from, to, checks),
         from # "ended", to # "ended",
         from \notin {"describe", "probe", "listeners", "route"}
           => to \notin {"describe", "probe", "listeners", "route"},
         "awsTopologyVerified" \in checks => IngressIsRestricted("api") /\ IngressIsRestricted("database"),
         "preDeploySnapshotVerified" \in checks => SnapshotIsFresh,
         "originBindingVerified" \in checks => cloud.origin # {} /\ cloud.origin \subseteq cloud.balancer,
         "preliminarySurfaceVerified" \in checks =>
           \E dev \in Answering(cloud, "app") : ~cloud.serves[dev].devSignIn,
         "routeVerified" \in checks =>
           RouteHolds /\ to \notin {"describe", "probe", "listeners", "route"},
         "releaseVerified" \in checks =>
           \E i \in Answering(cloud, "app") : cloud.serves[i].release = "target"
  PROVE  PreflightInv'
<1>1. /\ preflight.step = from /\ cloud' = cloud /\ cloud \in Clouds
      /\ preflight' = [step |-> to, checks |-> preflight.checks \cup checks,
                       group |-> preflight.group, result |-> preflight.result]
  BY DEF After, PreflightInv
<1>2. /\ preflight'.step = to /\ preflight'.checks = preflight.checks \cup checks
      /\ preflight'.group = preflight.group /\ preflight'.result = preflight.result
      /\ preflight' = [step |-> preflight'.step, checks |-> preflight'.checks,
                       group |-> preflight'.group, result |-> preflight'.result]
  BY <1>1
<1>3. GroupHolds' /\ RouteHolds' = RouteHolds
  BY <1>1, <1>2 DEF PreflightInv, GroupHolds, RouteHolds, ForwardedTarget, DefaultRules, IsSoleRule
<1>4. ChecksHold'
  BY <1>1, <1>2, <1>3 DEF PreflightInv, ChecksHold, IngressIsRestricted, SnapshotIsFresh, Answering
<1>. QED
  BY <1>1, <1>2, <1>3, <1>4 DEF PreflightInv

LEMMA EndsPreflight ==
  ASSUME PreflightInv, NEW result \in {"failed", "passed"}, cloud' = cloud, preflight.step # "ended",
         preflight' = [preflight EXCEPT !.step = "ended", !.result = result],
         result = "passed" => AllChecks \subseteq preflight.checks
  PROVE  PreflightInv'
<1>1. preflight' = [step |-> "ended", checks |-> preflight.checks, group |-> preflight.group,
                    result |-> result]
  BY DEF PreflightInv
<1>2. /\ preflight'.step = "ended" /\ preflight'.checks = preflight.checks
      /\ preflight'.group = preflight.group /\ preflight'.result = result
      /\ preflight' = [step |-> preflight'.step, checks |-> preflight'.checks,
                       group |-> preflight'.group, result |-> preflight'.result]
  BY <1>1
<1>3. GroupHolds' /\ RouteHolds' = RouteHolds
  BY <1>2 DEF PreflightInv, GroupHolds, RouteHolds, ForwardedTarget, DefaultRules, IsSoleRule
<1>4. ChecksHold'
  BY <1>2, <1>3 DEF PreflightInv, ChecksHold, IngressIsRestricted, SnapshotIsFresh, Answering
<1>. QED
  BY <1>2, <1>3, <1>4 DEF PreflightInv

LEMMA PreflightNextInv == PreflightInv /\ [PreflightNext]_preflightVars => PreflightInv'
<1> SUFFICES ASSUME PreflightInv, [PreflightNext]_preflightVars PROVE PreflightInv'
  OBVIOUS
<1>1. CASE UNCHANGED preflightVars
  BY <1>1 DEF preflightVars, PreflightInv, GroupHolds, ChecksHold, RouteHolds, ForwardedTarget,
     DefaultRules, IsSoleRule, IngressIsRestricted, SnapshotIsFresh, Answering
<1>2. CASE Describe
  <2> DEFINE topology == Passed("awsTopologyVerified",
                                /\ Names \ {"manual encrypted snapshot"} \subseteq cloud.names
                                /\ IngressIsRestricted("api") /\ IngressIsRestricted("database"))
             snapshot == Passed("preDeploySnapshotVerified",
                                "manual encrypted snapshot" \in cloud.names /\ SnapshotIsFresh)
             binding == Passed("originBindingVerified",
                               cloud.origin # {} /\ cloud.origin \subseteq cloud.balancer)
             checks == topology \cup snapshot \cup binding
  <2>a. /\ topology \subseteq {"awsTopologyVerified"}
        /\ topology # {} => IngressIsRestricted("api") /\ IngressIsRestricted("database")
    BY DEF Passed
  <2>b. /\ snapshot \subseteq {"preDeploySnapshotVerified"}
        /\ snapshot # {} => SnapshotIsFresh
    BY DEF Passed
  <2>c. /\ binding \subseteq {"originBindingVerified"}
        /\ binding # {} => cloud.origin # {} /\ cloud.origin \subseteq cloud.balancer
    BY DEF Passed
  <2>d. After("describe", "probe", checks)
    BY <1>2 DEF Describe
  <2> HIDE DEF topology, snapshot, binding
  <2>1. /\ After("describe", "probe", checks)
        /\ checks \subseteq {"awsTopologyVerified", "preDeploySnapshotVerified",
                             "originBindingVerified"}
        /\ "awsTopologyVerified" \in checks =>
             IngressIsRestricted("api") /\ IngressIsRestricted("database")
        /\ "preDeploySnapshotVerified" \in checks => SnapshotIsFresh
        /\ "originBindingVerified" \in checks =>
             cloud.origin # {} /\ cloud.origin \subseteq cloud.balancer
    BY <2>a, <2>b, <2>c, <2>d
  <2> HIDE DEF checks
  <2>2. /\ checks \in SUBSET AllChecks /\ "preliminarySurfaceVerified" \notin checks
        /\ "routeVerified" \notin checks /\ "releaseVerified" \notin checks
    BY <2>1 DEF AllChecks
  <2>. QED
    BY <2>1, <2>2, AfterInv
<1>3. CASE ProbeRemote
  <2>1. PICK checks : /\ After("probe", "listeners", checks)
                      /\ checks \subseteq {"preliminarySurfaceVerified"}
                      /\ "preliminarySurfaceVerified" \in checks =>
                           \E dev \in Answering(cloud, "app") : ~cloud.serves[dev].devSignIn
    BY <1>3 DEF ProbeRemote, Passed
  <2>2. /\ checks \in SUBSET AllChecks /\ "awsTopologyVerified" \notin checks
        /\ "preDeploySnapshotVerified" \notin checks /\ "originBindingVerified" \notin checks
        /\ "routeVerified" \notin checks /\ "releaseVerified" \notin checks
    BY <2>1 DEF AllChecks
  <2>. QED
    BY <2>1, <2>2, AfterInv
<1>4. CASE ProbeFails
  BY <1>4, EndsPreflight DEF ProbeFails
<1>5. CASE DescribeListeners
  <2> DEFINE listener == CHOOSE l \in cloud.listeners : TRUE
             group == IF Cardinality(cloud.listeners) # 1 \/ listener.port # 443 \/ ~listener.secure
                      THEN {} ELSE UNION {ForwardedTarget(r) : r \in DefaultRules(listener)}
  <2>1. /\ preflight.step = "listeners" /\ cloud' = cloud /\ cloud \in Clouds
        /\ preflight' = [preflight EXCEPT !.step = "route", !.group = group]
    BY <1>5 DEF DescribeListeners, PreflightInv
  <2>2. group # {} => \E l \in cloud.listeners :
          /\ cloud.listeners = {l} /\ l.port = 443 /\ l.secure
          /\ group = UNION {ForwardedTarget(r) : r \in DefaultRules(l)}
    <3> SUFFICES ASSUME group # {}
                 PROVE  /\ cloud.listeners = {listener} /\ listener.port = 443 /\ listener.secure
                        /\ group = UNION {ForwardedTarget(r) : r \in DefaultRules(listener)}
      OBVIOUS
    <3>1. /\ Cardinality(cloud.listeners) = 1 /\ listener.port = 443 /\ listener.secure
          /\ group = UNION {ForwardedTarget(r) : r \in DefaultRules(listener)}
      OBVIOUS
    <3>2. PICK x : cloud.listeners = {x}
      BY <2>1, <3>1, CloudsOK, FS_Singleton
    <3>3. listener = x
      BY <3>2
    <3>. QED
      BY <3>1, <3>2, <3>3
  <2> HIDE DEF group
  <2>3. /\ preflight'.step = "route" /\ preflight'.checks = preflight.checks
        /\ preflight'.group = group /\ preflight'.result = preflight.result
        /\ preflight' = [step |-> preflight'.step, checks |-> preflight'.checks,
                         group |-> preflight'.group, result |-> preflight'.result]
    <3>1. preflight = [step |-> preflight.step, checks |-> preflight.checks,
                       group |-> preflight.group, result |-> preflight.result]
      BY DEF PreflightInv
    <3>2. preflight' = [step |-> "route", checks |-> preflight.checks,
                        group |-> group, result |-> preflight.result]
      BY <2>1, <3>1
    <3>. QED
      BY <3>2
  <2>4. "routeVerified" \notin preflight.checks
    BY <2>1 DEF PreflightInv, ChecksHold
  <2>5. GroupHolds'
    BY <2>1, <2>2, <2>3 DEF GroupHolds, ForwardedTarget, DefaultRules
  <2>6. ChecksHold'
    BY <2>1, <2>3, <2>4 DEF PreflightInv, ChecksHold, IngressIsRestricted, SnapshotIsFresh, Answering
  <2>. QED
    BY <2>1, <2>3, <2>5, <2>6 DEF PreflightInv
<1>6. CASE VerifyRoute
  <2>1. PICK checks : /\ After("route", "release", checks) /\ checks \subseteq {"routeVerified"}
                      /\ "routeVerified" \in checks => RouteHolds
    BY <1>6 DEF VerifyRoute, Passed, RouteHolds
  <2>2. /\ checks \in SUBSET AllChecks /\ "awsTopologyVerified" \notin checks
        /\ "preDeploySnapshotVerified" \notin checks /\ "originBindingVerified" \notin checks
        /\ "preliminarySurfaceVerified" \notin checks /\ "releaseVerified" \notin checks
    BY <2>1 DEF AllChecks
  <2>. QED
    BY <2>1, <2>2, AfterInv
<1>7. CASE VerifyRelease
  <2>1. PICK checks : /\ After("release", "verdict", checks) /\ checks \subseteq {"releaseVerified"}
                      /\ "releaseVerified" \in checks =>
                           \E i \in Answering(cloud, "app") : cloud.serves[i].release = "target"
    BY <1>7 DEF VerifyRelease, Passed
  <2>2. /\ checks \in SUBSET AllChecks /\ "awsTopologyVerified" \notin checks
        /\ "preDeploySnapshotVerified" \notin checks /\ "originBindingVerified" \notin checks
        /\ "preliminarySurfaceVerified" \notin checks /\ "routeVerified" \notin checks
    BY <2>1 DEF AllChecks
  <2>. QED
    BY <2>1, <2>2, AfterInv
<1>8. CASE Conclude
  <2> DEFINE result == IF AllChecks \subseteq preflight.checks THEN "passed" ELSE "failed"
  <2>1. /\ preflight.step # "ended" /\ cloud' = cloud
        /\ preflight' = [preflight EXCEPT !.step = "ended", !.result = result]
        /\ result \in {"failed", "passed"} /\ (result = "passed" => AllChecks \subseteq preflight.checks)
    BY <1>8 DEF Conclude, AllChecks
  <2> HIDE DEF result
  <2>. QED
    BY <2>1, EndsPreflight
<1>. QED
  BY <1>1, <1>2, <1>3, <1>4, <1>5, <1>6, <1>7, <1>8 DEF PreflightNext

\* With one listener whose one rule forwards to one group, every request goes there.
LEMMA EveryRequestIsRouted ==
  ASSUME PreflightInv, RouteHolds, cloud.origin # {}, cloud.origin \subseteq cloud.balancer, NEW request
  PROVE  Answering(cloud, request) = {"api-instance"}
<1>1. cloud \in Clouds
  BY DEF PreflightInv
<1>2. PICK l \in cloud.listeners :
        /\ cloud.listeners = {l} /\ l.port = 443 /\ l.secure
        /\ preflight.group = UNION {ForwardedTarget(r) : r \in DefaultRules(l)}
  BY DEF PreflightInv, GroupHolds, RouteHolds
<1>3. IsFiniteSet(l.rules) /\ Cardinality(l.rules) = 1 /\ \A r \in l.rules : r.matches = "default"
  BY <1>1, CloudsOK DEF RouteHolds, IsSoleRule
<1>4. PICK rule : l.rules = {rule}
  BY <1>3, FS_Singleton
<1>5. preflight.group = ForwardedTarget(rule)
  BY <1>2, <1>3, <1>4 DEF DefaultRules
<1>6. ForwardedTarget(rule) = {f.group : f \in {x \in rule.forward : x.weight > 0}}
  BY <1>5 DEF ForwardedTarget, RouteHolds
<1>7. Forwards(l, request) = preflight.group
  BY <1>3, <1>4, <1>5, <1>6 DEF Forwards
<1>8. UNION {cloud.targets[g] : g \in preflight.group} = {"api-instance"}
  BY DEF RouteHolds
<1>9. {x \in cloud.listeners : x.port = 443 /\ x.secure} = {l}
  BY <1>2
<1>. QED
  BY <1>7, <1>8, <1>9 DEF Answering

\* aws-staging-preflight.ts: what its few probes and descriptions pass holds of
\* every request.
THEOREM PassedIsServed == PreflightSpec => []PassedMeansServed
<1>1. ASSUME PreflightInv PROVE PassedMeansServed
  <2> SUFFICES ASSUME preflight.result = "passed"
               PROVE  /\ \A r \in Request : Answering(cloud, r) = {"api-instance"}
                      /\ cloud.serves["api-instance"] =
                           [release |-> "target", ready |-> TRUE, devSignIn |-> FALSE]
                      /\ \A what \in DOMAIN TargetPort :
                           {x.from : x \in UNION {cloud.ingress[g] : g \in cloud.attached[what]}}
                             = {MaySend[what]}
                      /\ cloud.snapshot \in 0 .. 24
    BY DEF PassedMeansServed
  <2>1. /\ RouteHolds /\ SnapshotIsFresh /\ cloud.origin # {} /\ cloud.origin \subseteq cloud.balancer
        /\ IngressIsRestricted("api") /\ IngressIsRestricted("database")
        /\ \E dev \in Answering(cloud, "app") : ~cloud.serves[dev].devSignIn
        /\ \E i \in Answering(cloud, "app") : cloud.serves[i].release = "target"
    BY <1>1 DEF PreflightInv, ChecksHold, AllChecks
  <2>2. \A r : Answering(cloud, r) = {"api-instance"}
    BY <1>1, <2>1, EveryRequestIsRouted
  <2>3. /\ cloud.serves["api-instance"].release = "target" /\ cloud.serves["api-instance"].ready
        /\ ~cloud.serves["api-instance"].devSignIn
    BY <2>1, <2>2 DEF RouteHolds
  <2>4. cloud \in Clouds /\ cloud.snapshot \in Int
        /\ cloud.serves["api-instance"] \in
             [release : {"target", "previous"}, ready : BOOLEAN, devSignIn : BOOLEAN]
    BY <1>1, CloudsOK DEF PreflightInv
  <2>5. ASSUME NEW what \in {"api", "database"}
        PROVE  {x.from : x \in UNION {cloud.ingress[g] : g \in cloud.attached[what]}} = {MaySend[what]}
    <3> DEFINE rule == [port |-> TargetPort[what], from |-> MaySend[what]]
               group == TargetGroup[what]
    <3>1. cloud.attached[what] = {group} /\ cloud.ingress[group] = {rule}
      BY <2>1 DEF IngressIsRestricted
    <3>2. rule.from = MaySend[what]
      OBVIOUS
    <3> HIDE DEF rule, group
    <3>3. UNION {cloud.ingress[g] : g \in cloud.attached[what]} = {rule}
      BY <3>1
    <3>. QED
      BY <3>2, <3>3
  <2>6. DOMAIN TargetPort = {"api", "database"}
    BY DEF TargetPort
  <2>7. cloud.snapshot \in 0 .. 24
    BY <2>1, <2>4 DEF SnapshotIsFresh
  <2>8. cloud.serves["api-instance"] = [release |-> "target", ready |-> TRUE, devSignIn |-> FALSE]
    BY <2>3, <2>4
  <2>. QED
    BY <2>2, <2>5, <2>6, <2>7, <2>8
<1>. QED
  BY <1>1, PreflightInitInv, PreflightNextInv, PTL DEF PreflightSpec

----------------------------------------------------------------------------
(* The platform manifest.  Commits keep their ids and contents, so what was *)
(* true of them stays true; what may move is witnessed while it moves.      *)

HistoryOK ==
  /\ IsFiniteSet(history)
  /\ \A c \in history : c.id \in 1 .. Cardinality(history)
  /\ \A c, d \in history : c.id = d.id => c = d

TreesOK ==
  /\ \A r \in Repos : worktree[r] = [head |-> worktree[r].head, pushed |-> worktree[r].pushed,
                                     dirty |-> worktree[r].dirty]
  /\ worktree = [r \in Repos |-> worktree[r]]
  /\ \A r \in Repos : Exists(r, worktree[r].head) /\ Exists(r, worktree[r].pushed)

ToolOK ==
  /\ tool = [does |-> tool.does, at |-> tool.at, notes |-> tool.notes, exit |-> tool.exit]
  /\ tool.at \in Nat \ {0}
  /\ tool.exit # NotExited => tool.does = "exited"

Witnesses == \A i \in DOMAIN Inspection : <<Inspection[i], Answer(worktree, Inspection[i])>> \in witnessed

\* What a verification has noted was so at some moment of it.
NotesWereSeen ==
  tool.does = "verify" =>
    /\ Witnesses
    /\ \A i \in DOMAIN Inspection :
         i < tool.at => /\ Inspection[i] \in DOMAIN tool.notes
                        /\ <<Inspection[i], tool.notes[Inspection[i]]>> \in witnessed

\* While nothing moves, notes are what git answers and the files what follows.
Facts == [x \in Readings |-> Answer(worktree, x)]
QuietFiles ==
  quiet =>
    /\ tool.does = "collect" =>
         tool.notes = [x \in {Collection[i] : i \in {k \in DOMAIN Collection : k < tool.at}}
                         |-> Answer(worktree, x)]
    /\ tool.does # "collect" => disk.manifest = Whole(Generated(Facts))
    /\ tool.does \in {"nothing", "verify", "exited"} => disk.digest = disk.manifest
    /\ tool.does = "verify" =>
         \A i \in DOMAIN Inspection :
           i < tool.at => tool.notes[Inspection[i]] = Answer(worktree, Inspection[i])

ManifestInv ==
  /\ HistoryOK /\ TreesOK /\ ToolOK /\ NotesWereSeen /\ QuietFiles
  /\ PassedManifestsAreTrue /\ QuietManifestsPass

LEMMA ReadingsAre ==
  Readings = {<<"openapi", "studio">>, <<"schema", "lesto">>, <<"schema", "studio">>}
               \cup ({"head", "ahead", "dirty"} \X Repos)
<1>1. DOMAIN Collection = 1 .. 9
  BY DEF Collection
<1>. QED
  BY <1>1 DEF Readings, Collection, Repos

LEMMA InspectionIs ==
  /\ DOMAIN Inspection = 1 .. 6
  /\ {Inspection[i] : i \in DOMAIN Inspection} = {"head", "ahead", "dirty"} \X Repos
<1>1. DOMAIN Inspection = 1 .. 6
  BY DEF Inspection
<1>. QED
  BY <1>1 DEF Inspection, Repos

\* Of two commits with one id there is one, whenever it was made.
LEMMA VersionStands ==
  ASSUME HistoryOK', history \subseteq history', NEW repo, NEW id, Exists(repo, id)
  PROVE  /\ Exists(repo, id)'
         /\ VersionAt(repo, id)' = VersionAt(repo, id)
<1>1. PICK c \in history : c.repo = repo /\ c.id = id
  BY DEF Exists
<1>2. /\ c \in history' /\ \A d \in history' : d.id = id => d = c
  BY <1>1 DEF HistoryOK
<1>3. (CHOOSE d \in history : d.repo = repo /\ d.id = id) = c
  BY <1>1, <1>2
<1>4. (CHOOSE d \in history' : d.repo = repo /\ d.id = id) = c
  BY <1>1, <1>2
<1>. QED
  BY <1>1, <1>2, <1>3, <1>4 DEF Exists, VersionAt

LEMMA ManifestInitInv == ManifestInit => ManifestInv
<1> SUFFICES ASSUME ManifestInit PROVE ManifestInv
  OBVIOUS
<1> DEFINE first == [repo |-> "lesto", id |-> 1, version |-> 1]
           second == [repo |-> "studio", id |-> 2, version |-> 1]
<1>1. HistoryOK
  <2>1. history = {first, second} /\ first # second /\ first.id = 1 /\ second.id = 2
    BY DEF ManifestInit
  <2>2. IsFiniteSet({first}) /\ Cardinality({first}) = 1
    BY FS_Singleton
  <2>3. {first, second} = {first} \cup {second}
    OBVIOUS
  <2> HIDE DEF first, second
  <2>4. IsFiniteSet(history) /\ Cardinality(history) = 2
    BY <2>1, <2>2, <2>3, FS_AddElement
  <2>. QED
    BY <2>1, <2>4 DEF HistoryOK
<1>2. TreesOK
  BY DEF ManifestInit, TreesOK, Exists, Repos
<1>3. /\ tool = NoTool /\ quiet = FALSE
  BY DEF ManifestInit
<1>. QED
  BY <1>1, <1>2, <1>3 DEF ManifestInv, ToolOK, NoTool, NotExited, NotesWereSeen, QuietFiles,
     PassedManifestsAreTrue, QuietManifestsPass

\* What a manifest says of commits stays true while commits are only added.
LEMMA TruthStands ==
  ASSUME ManifestIsTrue, HistoryOK', history \subseteq history', witnessed \subseteq witnessed',
         Claims' = Claims
  PROVE  ManifestIsTrue'
<1>1. \A r \in Repos : Exists(r, Claimed(r)) /\ Claimed(r)' = Claimed(r)
  BY DEF ManifestIsTrue, Claimed
<1>2. \A r \in Repos : /\ Exists(r, Claimed(r))'
                       /\ VersionAt(r, Claimed(r))' = VersionAt(r, Claimed(r))
  BY <1>1, VersionStands
<1>3. \A r \in Repos :
        /\ {<<<<"head", r>>, Claimed(r)>>, <<<<"ahead", r>>, Claims[<<"ahead", r>>]>>} \subseteq witnessed
        /\ Claims[<<"durable", r>>] => ~Claims[<<"ahead", r>>]
        /\ Claims[<<"schema", r>>] = VersionAt(r, Claimed(r))
  BY DEF ManifestIsTrue
<1>4. \A r \in Repos :
        /\ Exists(r, Claimed(r))'
        /\ {<<<<"head", r>>, Claimed(r)'>>, <<<<"ahead", r>>, Claims'[<<"ahead", r>>]>>} \subseteq witnessed'
        /\ Claims'[<<"durable", r>>] => ~Claims'[<<"ahead", r>>]
        /\ Claims'[<<"schema", r>>] = VersionAt(r, Claimed(r))'
  BY <1>1, <1>2, <1>3
<1>5. \A r \in {"lesto", "studio"} : VersionAt(r, Claimed(r))' = VersionAt(r, Claimed(r))
  BY <1>2 DEF Repos
<1>6. Claims'[<<"openapi", "studio">>] = VersionAt("studio", Claimed("studio"))'
  BY <1>5 DEF ManifestIsTrue
<1>7. Claims'[<<"compat">>] <=>
        VersionAt("lesto", Claimed("lesto"))' = VersionAt("studio", Claimed("studio"))'
  BY <1>5, Zenon DEF ManifestIsTrue
<1>. QED
  BY <1>4, <1>6, <1>7, ZenonT(60) DEF ManifestIsTrue

\* People's moves: commits are only added, and a verification under way
\* witnesses them.
LEMMA MovesKeepInv ==
  ASSUME ManifestInv, HistoryOK', TreesOK', history \subseteq history', tool' = tool, quiet' = FALSE,
         disk' = disk \/ tool.does = "nothing", witnessed \subseteq witnessed',
         tool.does = "verify" => Witnesses'
  PROVE  ManifestInv'
<1>1. ToolOK' /\ QuietFiles' /\ QuietManifestsPass'
  BY DEF ManifestInv, ToolOK, QuietFiles, QuietManifestsPass
<1>2. NotesWereSeen'
  BY DEF ManifestInv, NotesWereSeen
<1>3. PassedManifestsAreTrue'
  <2> SUFFICES ASSUME tool.exit = 0 PROVE PassedManifestsAreTrue'
    BY DEF PassedManifestsAreTrue
  <2>1. ManifestIsTrue /\ Claims' = Claims
    BY DEF ManifestInv, ToolOK, NotExited, PassedManifestsAreTrue, Claims
  <2>. QED
    BY <2>1, TruthStands DEF PassedManifestsAreTrue
<1>. QED
  BY <1>1, <1>2, <1>3 DEF ManifestInv

\* The commands move nothing but the tool and the files.
LEMMA ToolKeepsInv ==
  ASSUME ManifestInv, history' = history, worktree' = worktree,
         ToolOK', NotesWereSeen', QuietFiles', PassedManifestsAreTrue', QuietManifestsPass'
  PROVE  ManifestInv'
<1>1. HistoryOK' /\ TreesOK'
  BY DEF ManifestInv, HistoryOK, TreesOK, Exists
<1>. QED
  BY <1>1 DEF ManifestInv

LEMMA FreshTools ==
  ASSUME NEW does
  PROVE  /\ [NoTool EXCEPT !.does = does] =
              [does |-> does, at |-> 1, notes |-> [x \in {} |-> x], exit |-> NotExited]
         /\ NoTool = [does |-> "nothing", at |-> 1, notes |-> [x \in {} |-> x], exit |-> NotExited]
BY DEF NoTool

LEMMA ChangesKeepInv ==
  ASSUME ManifestInv, NEW r \in Repos, NEW tree, Changes(r, tree), history' = history,
         tree = [head |-> tree.head, pushed |-> tree.pushed, dirty |-> tree.dirty],
         Exists(r, tree.head), Exists(r, tree.pushed)
  PROVE  ManifestInv'
<1>1. HistoryOK'
  BY DEF ManifestInv, HistoryOK
<1>2. TreesOK'
  BY DEF ManifestInv, TreesOK, Changes, Exists
<1>3. tool.does = "verify" => Witnesses'
  <2> SUFFICES ASSUME tool.does = "verify" PROVE Witnesses'
    OBVIOUS
  <2>1. witnessed' = Witness(worktree', witnessed)
    BY DEF Changes
  <2>2. \A i \in DOMAIN Inspection : Answer(worktree, Inspection[i])' = Answer(worktree', Inspection[i])
    BY DEF Answer, VersionAt
  <2>. QED
    BY <2>1, <2>2 DEF Witness, Witnesses
<1>4. witnessed \subseteq witnessed' /\ tool' = tool /\ quiet' = FALSE /\ disk' = disk
  BY DEF Changes, Moves, Witness
<1>. QED
  BY <1>1, <1>2, <1>3, <1>4, MovesKeepInv

LEMMA CommitKeepsInv ==
  ASSUME ManifestInv, NEW r \in Repos, Commit(r)
  PROVE  ManifestInv'
<1>0. PICK id : id = Cardinality(history) + 1
  OBVIOUS
<1>1. PICK v \in Versions : history' = history \cup {[repo |-> r, id |-> id, version |-> v]}
  BY <1>0 DEF Commit
<1> DEFINE new == [repo |-> r, id |-> id, version |-> v]
<1>2. IsFiniteSet(history) /\ Cardinality(history) \in Nat
  BY FS_CardinalityType DEF ManifestInv, HistoryOK
<1>3. new.id = id /\ new.repo = r /\ id \in Nat /\ id > Cardinality(history) /\ id >= 1
  BY <1>0, <1>2
<1> HIDE DEF new
<1>4. new \notin history
  BY <1>2, <1>3 DEF ManifestInv, HistoryOK
<1>5. history' = history \cup {new}
  BY <1>1 DEF new
<1>6. IsFiniteSet(history') /\ Cardinality(history') = id
  BY <1>0, <1>2, <1>4, <1>5, FS_AddElement
<1>7. HistoryOK'
  BY <1>2, <1>3, <1>5, <1>6 DEF ManifestInv, HistoryOK
<1>8. worktree' = [worktree EXCEPT ![r].head = id]
  BY <1>0 DEF Commit
<1>9. /\ worktree' = [q \in Repos |-> worktree'[q]]
      /\ \A q \in Repos \ {r} : worktree'[q] = worktree[q]
      /\ worktree'[r] = [head |-> id, pushed |-> worktree[r].pushed, dirty |-> worktree[r].dirty]
  BY <1>8 DEF ManifestInv, TreesOK
<1>10. Exists(r, id)' /\ \A q \in Repos : \A x : Exists(q, x) => Exists(q, x)'
  BY <1>3, <1>5 DEF Exists
<1>11. TreesOK'
  BY <1>9, <1>10 DEF ManifestInv, TreesOK
<1>12. worktree[r].pushed # id
  <2>1. PICK c \in history : c.id = worktree[r].pushed
    BY DEF ManifestInv, TreesOK, Exists
  <2>. QED
    BY <2>1, <1>2, <1>3 DEF ManifestInv, HistoryOK
<1>13. tool.does = "verify" => Witnesses'
  <2> SUFFICES ASSUME tool.does = "verify" PROVE Witnesses'
    OBVIOUS
  <2>1. witnessed' = witnessed \cup {<<<<"head", r>>, id>>, <<<<"ahead", r>>, TRUE>>}
    BY <1>0 DEF Commit
  <2>2. Witnesses
    BY DEF ManifestInv, NotesWereSeen
  <2> SUFFICES ASSUME NEW i \in DOMAIN Inspection
               PROVE  <<Inspection[i], Answer(worktree, Inspection[i])'>> \in witnessed'
    BY DEF Witnesses
  <2>3. PICK what \in {"head", "ahead", "dirty"}, q \in Repos : Inspection[i] = <<what, q>>
    BY InspectionIs
  <2>4. <<Inspection[i], Answer(worktree, Inspection[i])>> \in witnessed
    BY <2>2 DEF Witnesses
  <2>5. CASE q # r
    <3>1. Answer(worktree, Inspection[i])' = Answer(worktree, Inspection[i])
      BY <2>3, <2>5, <1>9 DEF Answer
    <3>. QED
      BY <2>1, <2>4, <3>1
  <2>6. CASE q = r /\ what = "head"
    <3>1. Answer(worktree, Inspection[i])' = id
      BY <2>3, <2>6, <1>9 DEF Answer
    <3>. QED
      BY <2>1, <2>3, <2>6, <3>1
  <2>7. CASE q = r /\ what = "ahead"
    <3>1. Answer(worktree, Inspection[i])' = TRUE
      BY <2>3, <2>7, <1>9, <1>12 DEF Answer
    <3>. QED
      BY <2>1, <2>3, <2>7, <3>1
  <2>8. CASE q = r /\ what = "dirty"
    <3>1. Answer(worktree, Inspection[i])' = Answer(worktree, Inspection[i])
      BY <2>3, <2>8, <1>9 DEF Answer
    <3>. QED
      BY <2>1, <2>4, <3>1
  <2>. QED
    BY <2>3, <2>5, <2>6, <2>7, <2>8
<1>14. /\ witnessed \subseteq witnessed' /\ tool' = tool /\ quiet' = FALSE /\ disk' = disk
       /\ history \subseteq history'
  BY <1>5 DEF Commit, Moves
<1>. QED
  BY <1>7, <1>11, <1>13, <1>14, MovesKeepInv

LEMMA Answers ==
  ASSUME NEW r \in Repos
  PROVE  /\ Answer(worktree, <<"head", r>>) = worktree[r].head
         /\ Answer(worktree, <<"ahead", r>>) = (worktree[r].head # worktree[r].pushed)
         /\ Answer(worktree, <<"dirty", r>>) = worktree[r].dirty
         /\ Answer(worktree, <<"schema", r>>) = VersionAt(r, worktree[r].head)
         /\ Answer(worktree, <<"openapi", r>>) = VersionAt(r, worktree[r].head)
BY DEF Answer

\* What a manifest of facts read while nothing moved says.
LEMMA QuietManifestsSay ==
  LET says == Generated(Facts)
  IN /\ \A x \in Readings : says[x] = Answer(worktree, x)
     /\ \A r \in Repos :
          /\ says[<<"head", r>>] = worktree[r].head
          /\ says[<<"ahead", r>>] = Answer(worktree, <<"ahead", r>>)
          /\ says[<<"durable", r>>] = Durable(says, r)
          /\ says[<<"schema", r>>] = VersionAt(r, worktree[r].head)
     /\ says[<<"openapi", "studio">>] = VersionAt("studio", worktree["studio"].head)
     /\ says[<<"compat">>] = Compatible(says)
     /\ says[<<"generatedAt">>] = Max({says[<<"head", r>>] : r \in Repos})
<1> DEFINE says == Generated(Facts)
<1>1. \A x \in Readings : Facts[x] = Answer(worktree, x) /\ DOMAIN Facts = Readings
  BY DEF Facts
<1>2. \A x \in Readings : says[x] = Facts[x]
  <2> SUFFICES ASSUME NEW x \in Readings PROVE says[x] = Facts[x]
    OBVIOUS
  <2>1. x[1] \in {"openapi", "schema", "head", "ahead", "dirty"}
    BY ReadingsAre
  <2>. QED
    BY <2>1, <1>1 DEF Generated
<1>3. \A r \in Repos : <<"durable", r>> \in Computed
  BY DEF Computed
<1>4. \A r \in Repos : says[<<"durable", r>>] = Durable(Facts, r)
  BY <1>3 DEF Generated
<1>5. says[<<"compat">>] = Compatible(Facts)
  BY DEF Generated, Computed
<1>6. says[<<"generatedAt">>] = Max({Facts[<<"head", r>>] : r \in Repos})
  BY DEF Generated, Computed
<1> HIDE DEF says
<1>7. /\ <<"openapi", "studio">> \in Readings
      /\ \A r \in Repos : /\ <<"head", r>> \in Readings /\ <<"ahead", r>> \in Readings
                          /\ <<"dirty", r>> \in Readings /\ <<"schema", r>> \in Readings
  BY ReadingsAre DEF Repos
<1>8. \A r \in Repos : Durable(says, r) = Durable(Facts, r)
  BY <1>2, <1>7 DEF Durable
<1>9. Compatible(says) = Compatible(Facts)
  BY <1>2, <1>7 DEF Compatible, Repos
<1>10. {says[<<"head", r>>] : r \in Repos} = {Facts[<<"head", r>>] : r \in Repos}
  BY <1>2, <1>7
<1>11. \A r \in Repos : 
          /\ says[<<"head", r>>] = worktree[r].head
          /\ says[<<"ahead", r>>] = Answer(worktree, <<"ahead", r>>)
          /\ says[<<"schema", r>>] = VersionAt(r, worktree[r].head)
  BY <1>1, <1>2, <1>7, Answers
<1>12. says[<<"openapi", "studio">>] = VersionAt("studio", worktree["studio"].head)
  BY <1>1, <1>2, <1>7, Answers DEF Repos
<1>13. \A x \in Readings : says[x] = Answer(worktree, x)
  BY <1>1, <1>2
<1>. QED
  BY <1>4, <1>5, <1>6, <1>8, <1>9, <1>10, <1>11, <1>12, <1>13 DEF says

LEMMA AnswersStand ==
  ASSUME history' = history, worktree' = worktree
  PROVE  /\ Facts' = Facts /\ HistoryOK' = HistoryOK /\ TreesOK' = TreesOK
         /\ Witnesses' <=> \A i \in DOMAIN Inspection :
              <<Inspection[i], Answer(worktree, Inspection[i])>> \in witnessed'
         /\ \A x : Answer(worktree, x)' = Answer(worktree, x)
<1>1. \A x : Answer(worktree, x)' = Answer(worktree, x)
  BY Zenon DEF Answer, VersionAt
<1>2. HistoryOK' = HistoryOK /\ TreesOK' = TreesOK
  BY DEF HistoryOK, TreesOK, Exists
<1>. QED
  BY <1>1, <1>2 DEF Facts, Witnesses

\* Judge: nothing moved, so nothing differs; or what passed was compared.
LEMMA JudgeKeepsInv ==
  ASSUME ManifestInv, Judge
  PROVE  ManifestInv'
<1>1. /\ tool.does = "verify" /\ tool.at \in Nat \ {0} /\ tool.at \notin DOMAIN Inspection
      /\ tool.exit = NotExited
      /\ disk' = disk /\ quiet' = quiet /\ witnessed' = witnessed
      /\ history' = history /\ worktree' = worktree
  BY DEF Judge, Exits, Proceeds, ManifestInv, ToolOK
<1>2. \A i \in DOMAIN Inspection : i < tool.at
  BY <1>1, InspectionIs
<1>3. PICK code \in {0, 5, 6, 7, 10} :
        /\ tool' = [tool EXCEPT !.does = "exited", !.exit = code]
        /\ code = 0 <=> /\ \A r \in Repos : Exists(r, Claimed(r))
                        /\ IsConsistent /\ IsPinned /\ IsCurrentWorld
  <2> DEFINE code == IF \E r \in Repos : ~Exists(r, Claimed(r)) THEN 10
                     ELSE IF ~IsConsistent THEN 7
                     ELSE IF ~IsPinned THEN 6
                     ELSE IF ~IsCurrentWorld THEN 5 ELSE 0
  <2>1. tool' = [tool EXCEPT !.does = "exited", !.exit = code]
    BY DEF Judge, Exits, Proceeds
  <2>2. code = 0 <=> /\ \A r \in Repos : Exists(r, Claimed(r))
                     /\ IsConsistent /\ IsPinned /\ IsCurrentWorld
    OBVIOUS
  <2>3. code \in {0, 5, 6, 7, 10}
    OBVIOUS
  <2> HIDE DEF code
  <2>. QED
    BY <2>1, <2>2, <2>3
<1>4. tool' = [does |-> "exited", at |-> tool.at, notes |-> tool.notes, exit |-> code]
  BY <1>3 DEF ManifestInv, ToolOK
<1>5. tool'.exit = code /\ tool'.does = "exited" /\ ToolOK'
  BY <1>1, <1>4 DEF ToolOK
<1>6. NotesWereSeen'
  BY <1>5 DEF NotesWereSeen
<1>7. QuietFiles'
  BY <1>1, <1>5 DEF QuietFiles, ManifestInv, Facts, Answer, VersionAt
<1>8. Claims' = Claims
  BY <1>1 DEF Claims
<1>9. PassedManifestsAreTrue'
  <2> SUFFICES ASSUME code = 0 PROVE PassedManifestsAreTrue'
    BY <1>5 DEF PassedManifestsAreTrue
  <2>1. /\ \A r \in Repos : Exists(r, Claimed(r))
        /\ IsConsistent /\ IsPinned /\ IsCurrentWorld
    BY <1>3
  <2>2. \A r \in Repos, what \in {"head", "ahead"} :
          <<<<what, r>>, Claims[<<what, r>>]>> \in witnessed
    <3> SUFFICES ASSUME NEW r \in Repos, NEW what \in {"head", "ahead"}
                 PROVE  <<<<what, r>>, Claims[<<what, r>>]>> \in witnessed
      OBVIOUS
    <3>1. PICK i \in DOMAIN Inspection : Inspection[i] = <<what, r>>
      BY InspectionIs
    <3>2. <<Inspection[i], tool.notes[Inspection[i]]>> \in witnessed
      BY <1>1, <1>2 DEF ManifestInv, NotesWereSeen
    <3>3. Claims[<<what, r>>] = tool.notes[<<what, r>>]
      BY <2>1 DEF IsCurrentWorld
    <3>. QED
      BY <3>1, <3>2, <3>3
  <2>3. \A r \in Repos : Claims[<<"durable", r>>] => ~Claims[<<"ahead", r>>]
    BY <2>1, Zenon DEF IsConsistent, Durable
  <2>4. /\ \A r \in Repos : Claims[<<"schema", r>>] = VersionAt(r, Claimed(r))
        /\ Claims[<<"openapi", "studio">>] = VersionAt("studio", Claimed("studio"))
    <3>1. \A x \in Readings : x[1] \in {"openapi", "schema"} => Claims[x] = VersionAt(x[2], Claimed(x[2]))
      BY <2>1 DEF IsPinned
    <3>2. <<"openapi", "studio">> \in Readings /\ \A r \in Repos : <<"schema", r>> \in Readings
      BY ReadingsAre DEF Repos
    <3>. QED
      BY <3>1, <3>2
  <2>5. Claims[<<"compat">>] = (Claims[<<"schema", "lesto">>] = Claims[<<"schema", "studio">>])
    BY <2>1 DEF IsConsistent, Compatible
  <2>6. Claims[<<"compat">>] <=>
          VersionAt("lesto", Claimed("lesto")) = VersionAt("studio", Claimed("studio"))
    <3>1. /\ Claims[<<"schema", "lesto">>] = VersionAt("lesto", Claimed("lesto"))
          /\ Claims[<<"schema", "studio">>] = VersionAt("studio", Claimed("studio"))
      BY <2>4 DEF Repos
    <3>. QED
      BY <2>5, <3>1, Zenon
  <2>7. \A r \in Repos :
          {<<<<"head", r>>, Claimed(r)>>, <<<<"ahead", r>>, Claims[<<"ahead", r>>]>>} \subseteq witnessed
    BY <2>2 DEF Claimed
  <2>8. ManifestIsTrue
    BY <2>1, <2>3, <2>4, <2>6, <2>7, Zenon DEF ManifestIsTrue
  <2>9. HistoryOK' /\ history \subseteq history' /\ witnessed \subseteq witnessed'
    BY <1>1 DEF ManifestInv, HistoryOK
  <2>. QED
    BY <1>8, <2>8, <2>9, TruthStands DEF PassedManifestsAreTrue
<1>10. QuietManifestsPass'
  <2> SUFFICES ASSUME quiet
               PROVE  code = 0 /\ \A x \in Readings : Claims[x] = Answer(worktree, x)
    BY <1>1, <1>5, <1>8, AnswersStand DEF QuietManifestsPass
  <2>1. /\ disk.manifest = Whole(Generated(Facts))
        /\ \A i \in DOMAIN Inspection : tool.notes[Inspection[i]] = Answer(worktree, Inspection[i])
    BY <1>1, <1>2 DEF ManifestInv, QuietFiles
  <2>2. Claims = Generated(Facts)
    BY <2>1 DEF Claims, Whole
  <2>3. \A r \in Repos :
          /\ Claimed(r) = worktree[r].head
          /\ Claims[<<"head", r>>] = worktree[r].head
          /\ Claims[<<"ahead", r>>] = Answer(worktree, <<"ahead", r>>)
          /\ Claims[<<"durable", r>>] = Durable(Claims, r)
          /\ Claims[<<"schema", r>>] = VersionAt(r, worktree[r].head)
    BY <2>2, QuietManifestsSay DEF Claimed
  <2>4. /\ Claims[<<"openapi", "studio">>] = VersionAt("studio", worktree["studio"].head)
        /\ Claims[<<"compat">>] = Compatible(Claims)
        /\ Claims[<<"generatedAt">>] = Max({Claims[<<"head", r>>] : r \in Repos})
    BY <2>2, QuietManifestsSay
  <2>5. \A r \in Repos : Exists(r, Claimed(r))
    BY <2>3 DEF ManifestInv, TreesOK
  <2>6. IsConsistent
    BY <2>3, <2>4 DEF IsConsistent, Claimed
  <2>7. IsPinned
    <3> SUFFICES ASSUME NEW x \in Readings, x[1] \in {"openapi", "schema"}
                 PROVE  Claims[x] = VersionAt(x[2], Claimed(x[2]))
      BY DEF IsPinned
    <3>1. x = <<"openapi", "studio">> \/ \E r \in Repos : x = <<"schema", r>>
      BY ReadingsAre DEF Repos
    <3>. QED
      BY <3>1, <2>3, <2>4 DEF Repos
  <2>8. IsCurrentWorld
    <3> SUFFICES ASSUME NEW r \in Repos, NEW what \in {"head", "ahead"}
                 PROVE  Claims[<<what, r>>] = tool.notes[<<what, r>>]
      BY DEF IsCurrentWorld
    <3>1. PICK i \in DOMAIN Inspection : Inspection[i] = <<what, r>>
      BY InspectionIs
    <3>2. tool.notes[<<what, r>>] = Answer(worktree, <<what, r>>)
      BY <2>1, <3>1
    <3>. QED
      BY <2>3, <3>2, Answers
  <2>. QED
    BY <1>3, <2>2, <2>5, <2>6, <2>7, <2>8, QuietManifestsSay
<1>. QED
  BY <1>1, <1>5, <1>6, <1>7, <1>9, <1>10, ToolKeepsInv

LEMMA CollectKeepsInv ==
  ASSUME ManifestInv, CollectFact
  PROVE  ManifestInv'
<1> DEFINE reading == Collection[tool.at]
           answer == Answer(worktree, reading)
<1>1. /\ tool.does = "collect" /\ tool.at \in DOMAIN Collection /\ tool.exit = NotExited
      /\ tool' = [tool EXCEPT !.at = @ + 1, !.notes = Noted(@, reading, answer)]
      /\ disk' = disk /\ quiet' = quiet /\ history' = history /\ worktree' = worktree
  BY DEF CollectFact, Proceeds, ManifestInv, ToolOK
<1>2. /\ tool' = [does |-> "collect", at |-> tool.at + 1, notes |-> Noted(tool.notes, reading, answer),
                  exit |-> NotExited]
      /\ tool.at \in Nat \ {0}
  BY <1>1 DEF ManifestInv, ToolOK
<1> HIDE DEF reading, answer
<1>3. /\ tool'.does = "collect" /\ tool'.at = tool.at + 1 /\ tool'.exit = NotExited
      /\ tool'.notes = Noted(tool.notes, reading, answer) /\ ToolOK'
  BY <1>2 DEF ToolOK
<1>4. NotesWereSeen' /\ PassedManifestsAreTrue' /\ QuietManifestsPass'
  BY <1>3 DEF NotesWereSeen, PassedManifestsAreTrue, QuietManifestsPass, NotExited
<1>5. QuietFiles'
  <2> SUFFICES ASSUME quiet
               PROVE  tool'.notes = [x \in {Collection[i] : i \in {k \in DOMAIN Collection : k < tool'.at}}
                                       |-> Answer(worktree, x)]
    BY <1>1, <1>3, AnswersStand DEF QuietFiles
  <2> DEFINE before == {Collection[i] : i \in {k \in DOMAIN Collection : k < tool.at}}
  <2>1. tool.notes = [x \in before |-> Answer(worktree, x)]
    BY <1>1 DEF ManifestInv, QuietFiles
  <2>2. DOMAIN Collection = 1 .. 9
    BY DEF Collection
  <2>3. {k \in DOMAIN Collection : k < tool.at + 1} = {k \in DOMAIN Collection : k < tool.at} \cup {tool.at}
    BY <1>1, <1>2, <2>2
  <2>4. {Collection[i] : i \in {k \in DOMAIN Collection : k < tool.at + 1}} = before \cup {reading}
    BY <2>3 DEF reading
  <2>5. answer = Answer(worktree, reading)
    BY DEF answer
  <2> HIDE DEF before
  <2>6. Noted(tool.notes, reading, answer) = [x \in before \cup {reading} |-> Answer(worktree, x)]
    BY <2>1, <2>5 DEF Noted
  <2>. QED
    BY <1>3, <2>4, <2>6
<1>. QED
  BY <1>1, <1>3, <1>4, <1>5, ToolKeepsInv

LEMMA InspectKeepsInv ==
  ASSUME ManifestInv, InspectRepository
  PROVE  ManifestInv'
<1> DEFINE reading == Inspection[tool.at]
           answer == Answer(worktree, reading)
<1>1. /\ tool.does = "verify" /\ tool.at \in DOMAIN Inspection /\ tool.exit = NotExited
      /\ tool' = [tool EXCEPT !.at = @ + 1, !.notes = Noted(@, reading, answer)]
      /\ disk' = disk /\ quiet' = quiet /\ history' = history /\ worktree' = worktree
      /\ witnessed' = witnessed
  BY DEF InspectRepository, Proceeds, ManifestInv, ToolOK
<1>2. /\ tool' = [does |-> "verify", at |-> tool.at + 1, notes |-> Noted(tool.notes, reading, answer),
                  exit |-> NotExited]
      /\ tool.at \in Nat \ {0}
  BY <1>1 DEF ManifestInv, ToolOK
<1>3. <<reading, answer>> \in witnessed /\ answer = Answer(worktree, reading)
  BY <1>1 DEF ManifestInv, NotesWereSeen, Witnesses
<1>4. \A i \in DOMAIN Inspection : i < tool.at + 1 => i < tool.at \/ Inspection[i] = reading
  BY <1>2, InspectionIs
<1> HIDE DEF reading, answer
<1>5. /\ tool'.does = "verify" /\ tool'.at = tool.at + 1 /\ tool'.exit = NotExited
      /\ tool'.notes = Noted(tool.notes, reading, answer) /\ ToolOK'
  BY <1>2 DEF ToolOK
<1>6. PassedManifestsAreTrue' /\ QuietManifestsPass'
  BY <1>5 DEF PassedManifestsAreTrue, QuietManifestsPass, NotExited
<1>7. Witnesses' <=> Witnesses
  BY <1>1, AnswersStand DEF Witnesses
<1>8. NotesWereSeen'
  <2>1. Witnesses /\ \A i \in DOMAIN Inspection :
          i < tool.at => /\ Inspection[i] \in DOMAIN tool.notes
                         /\ <<Inspection[i], tool.notes[Inspection[i]]>> \in witnessed
    BY <1>1 DEF ManifestInv, NotesWereSeen
  <2>2. \A i \in DOMAIN Inspection :
          i < tool'.at => /\ Inspection[i] \in DOMAIN tool'.notes
                          /\ <<Inspection[i], tool'.notes[Inspection[i]]>> \in witnessed
    <3> SUFFICES ASSUME NEW i \in DOMAIN Inspection, i < tool.at + 1
                 PROVE  /\ Inspection[i] \in DOMAIN tool'.notes
                        /\ <<Inspection[i], tool'.notes[Inspection[i]]>> \in witnessed
      BY <1>5
    <3>1. CASE Inspection[i] = reading
      BY <3>1, <1>3, <1>5 DEF Noted
    <3>2. CASE Inspection[i] # reading
      BY <3>2, <1>4, <1>5, <2>1 DEF Noted
    <3>. QED
      BY <3>1, <3>2
  <2>. QED
    BY <1>1, <1>7, <2>1, <2>2 DEF NotesWereSeen
<1>9. QuietFiles'
  <2> SUFFICES ASSUME quiet
               PROVE  /\ disk.manifest = Whole(Generated(Facts)) /\ disk.digest = disk.manifest
                      /\ \A i \in DOMAIN Inspection :
                           i < tool.at + 1 => tool'.notes[Inspection[i]] = Answer(worktree, Inspection[i])
    BY <1>1, <1>5, AnswersStand DEF QuietFiles
  <2>1. /\ disk.manifest = Whole(Generated(Facts)) /\ disk.digest = disk.manifest
        /\ \A i \in DOMAIN Inspection :
             i < tool.at => tool.notes[Inspection[i]] = Answer(worktree, Inspection[i])
    BY <1>1 DEF ManifestInv, QuietFiles
  <2>2. \A i \in DOMAIN Inspection : i < tool.at => Inspection[i] \in DOMAIN tool.notes
    BY <1>1 DEF ManifestInv, NotesWereSeen
  <2> SUFFICES ASSUME NEW i \in DOMAIN Inspection, i < tool.at + 1
               PROVE  tool'.notes[Inspection[i]] = Answer(worktree, Inspection[i])
    BY <2>1
  <2>3. CASE Inspection[i] = reading
    BY <2>3, <1>3, <1>5 DEF Noted
  <2>4. CASE Inspection[i] # reading
    BY <2>4, <1>4, <1>5, <2>1, <2>2 DEF Noted
  <2>. QED
    BY <2>3, <2>4
<1>. QED
  BY <1>1, <1>5, <1>6, <1>8, <1>9, ToolKeepsInv

LEMMA GenerateKeepsInv ==
  ASSUME ManifestInv, BeginGenerate \/ WriteManifest \/ WriteDigest \/ GenerateDies
  PROVE  ManifestInv'
<1>1. /\ history' = history /\ worktree' = worktree
      /\ \/ tool' = [NoTool EXCEPT !.does = "collect"]
         \/ tool' = [NoTool EXCEPT !.does = "digest"]
         \/ tool' = NoTool
  BY DEF BeginGenerate, WriteManifest, WriteDigest, GenerateDies, Proceeds
<1>2. PICK does \in {"collect", "digest", "nothing"} :
        tool' = [does |-> does, at |-> 1, notes |-> [x \in {} |-> x], exit |-> NotExited]
  BY <1>1, FreshTools
<1>3. /\ tool'.does = does /\ tool'.at = 1 /\ tool'.exit = NotExited
      /\ tool'.notes = [x \in {} |-> x] /\ ToolOK'
  BY <1>2 DEF ToolOK
<1>4. NotesWereSeen' /\ PassedManifestsAreTrue' /\ QuietManifestsPass'
  BY <1>3 DEF NotesWereSeen, PassedManifestsAreTrue, QuietManifestsPass, NotExited
<1>5. Facts' = Facts
  BY <1>1, AnswersStand
<1>6. QuietFiles'
  <2>1. CASE BeginGenerate
    <3>1. tool'.does = "collect"
      BY <2>1, FreshTools DEF BeginGenerate, Proceeds
    <3>2. DOMAIN Collection = 1 .. 9 /\ DOMAIN [x \in {} |-> x] = {}
      BY DEF Collection
    <3>. QED
      BY <1>3, <3>1, <3>2 DEF QuietFiles
  <2>2. CASE WriteManifest
    <3>1. /\ tool'.does = "digest" /\ disk'.manifest = Whole(Generated(tool.notes)) /\ quiet' = quiet
          /\ tool.does = "collect" /\ tool.at \notin DOMAIN Collection
      <4>1. disk' = [disk EXCEPT !.manifest = Whole(Generated(tool.notes))]
        BY <2>2 DEF WriteManifest
      <4>. QED
        BY <2>2, <4>1, FreshTools DEF WriteManifest, Proceeds
    <3> SUFFICES ASSUME quiet PROVE Generated(tool.notes) = Generated(Facts)
      BY <1>3, <1>5, <3>1 DEF QuietFiles
    <3>2. {k \in DOMAIN Collection : k < tool.at} = DOMAIN Collection
      <4>1. DOMAIN Collection = 1 .. 9
        BY DEF Collection
      <4>. QED
        BY <3>1, <4>1 DEF ManifestInv, ToolOK
    <3>3. tool.notes = [x \in {Collection[i] : i \in {k \in DOMAIN Collection : k < tool.at}}
                         |-> Answer(worktree, x)]
      BY <3>1 DEF ManifestInv, QuietFiles
    <3>. QED
      BY <3>2, <3>3 DEF Facts, Readings
  <2>3. CASE WriteDigest
    BY <2>3, <1>3, <1>5 DEF WriteDigest, QuietFiles, ManifestInv
  <2>4. CASE GenerateDies
    BY <2>4 DEF GenerateDies, QuietFiles
  <2>. QED
    BY <2>1, <2>2, <2>3, <2>4
<1>. QED
  BY <1>1, <1>3, <1>4, <1>6, ToolKeepsInv

LEMMA VerifyKeepsInv ==
  ASSUME ManifestInv, BeginVerify \/ ReadExit
  PROVE  ManifestInv'
<1>1. CASE BeginVerify
  <2>1. /\ history' = history /\ worktree' = worktree /\ disk' = disk /\ quiet' = quiet
        /\ witnessed' = Witness(worktree, {}) /\ tool.does = "nothing" /\ tool.exit = NotExited
        /\ tool.at \in Nat \ {0}
    BY <1>1 DEF BeginVerify, Exits, Proceeds, ManifestInv, ToolOK
  <2>2. Witnesses'
    BY <2>1, AnswersStand DEF Witness
  <2>3. CASE tool' = [NoTool EXCEPT !.does = "verify"]
    <3>1. tool' = [does |-> "verify", at |-> 1, notes |-> [x \in {} |-> x], exit |-> NotExited]
      BY <2>3, FreshTools
    <3>2. tool'.does = "verify" /\ tool'.at = 1 /\ tool'.exit = NotExited /\ ToolOK'
      BY <3>1 DEF ToolOK
    <3>3. NotesWereSeen' /\ PassedManifestsAreTrue' /\ QuietManifestsPass'
      BY <2>2, <3>2, InspectionIs DEF NotesWereSeen, PassedManifestsAreTrue, QuietManifestsPass, NotExited
    <3>4. Facts' = Facts
      BY <2>1, AnswersStand
    <3>5. QuietFiles'
      BY <2>1, <3>2, <3>4, InspectionIs DEF QuietFiles, ManifestInv
    <3>. QED
      BY <2>1, <3>2, <3>3, <3>5, ToolKeepsInv
  <2>4. CASE tool' # [NoTool EXCEPT !.does = "verify"]
    <3>1. PICK code \in {4, 10} : tool' = [tool EXCEPT !.does = "exited", !.exit = code]
      BY <1>1, <2>4 DEF BeginVerify, Exits, Proceeds
    <3>2. tool' = [does |-> "exited", at |-> tool.at, notes |-> tool.notes, exit |-> code]
      BY <3>1 DEF ManifestInv, ToolOK
    <3>3. tool'.does = "exited" /\ tool'.exit # 0 /\ ToolOK'
      BY <2>1, <3>2 DEF ToolOK
    <3>4. ~quiet
      <4> SUFFICES ASSUME quiet PROVE FALSE
        OBVIOUS
      <4>1. disk.manifest = Whole(Generated(Facts)) /\ disk.digest = disk.manifest
        BY <2>1 DEF ManifestInv, QuietFiles
      <4>2. disk.manifest.is = "whole" /\ Absent.is = "absent" /\ Torn.is = "torn"
        BY <4>1 DEF Whole, Absent, Torn
      <4>. QED
        BY <1>1, <2>4, <4>1, <4>2 DEF BeginVerify, Proceeds
    <3>5. NotesWereSeen' /\ PassedManifestsAreTrue' /\ QuietManifestsPass' /\ QuietFiles'
      BY <2>1, <3>3, <3>4 DEF NotesWereSeen, PassedManifestsAreTrue, QuietManifestsPass, QuietFiles
    <3>. QED
      BY <2>1, <3>3, <3>5, ToolKeepsInv
  <2>. QED
    BY <2>3, <2>4
<1>2. CASE ReadExit
  <2>1. /\ history' = history /\ worktree' = worktree /\ disk' = disk /\ quiet' = quiet
        /\ tool.does = "exited"
        /\ tool' = [does |-> "nothing", at |-> 1, notes |-> [x \in {} |-> x], exit |-> NotExited]
    BY <1>2, FreshTools DEF ReadExit, Proceeds
  <2>2. tool'.does = "nothing" /\ tool'.exit = NotExited /\ ToolOK'
    BY <2>1 DEF ToolOK
  <2>3. NotesWereSeen' /\ PassedManifestsAreTrue' /\ QuietManifestsPass'
    BY <2>2 DEF NotesWereSeen, PassedManifestsAreTrue, QuietManifestsPass, NotExited
  <2>4. Facts' = Facts
    BY <2>1, AnswersStand
  <2>5. QuietFiles'
    BY <2>1, <2>2, <2>4 DEF QuietFiles, ManifestInv
  <2>. QED
    BY <2>1, <2>2, <2>3, <2>5, ToolKeepsInv
<1>. QED
  BY <1>1, <1>2

LEMMA ManifestNextInv == ManifestInv /\ [ManifestNext]_manifestVars => ManifestInv'
<1> SUFFICES ASSUME ManifestInv, [ManifestNext]_manifestVars PROVE ManifestInv'
  OBVIOUS
<1>1. CASE UNCHANGED manifestVars
  <2>1. /\ history' = history /\ worktree' = worktree /\ disk' = disk /\ tool' = tool
        /\ quiet' = quiet /\ witnessed' = witnessed
    BY <1>1 DEF manifestVars
  <2>2. HistoryOK' /\ TreesOK' /\ (tool.does = "verify" => Witnesses')
    BY <2>1, AnswersStand DEF ManifestInv, NotesWereSeen, Witnesses
  <2>3. ToolOK' /\ NotesWereSeen'
    BY <2>1, <2>2 DEF ManifestInv, ToolOK, NotesWereSeen
  <2>4. Facts' = Facts /\ Claims' = Claims /\ \A x : Answer(worktree, x)' = Answer(worktree, x)
    BY <2>1, AnswersStand DEF Claims
  <2>5. QuietFiles' /\ QuietManifestsPass'
    BY <2>1, <2>4 DEF ManifestInv, QuietFiles, QuietManifestsPass
  <2>6. PassedManifestsAreTrue'
    BY <2>1, <2>2, <2>4, TruthStands DEF ManifestInv, PassedManifestsAreTrue
  <2>. QED
    BY <2>2, <2>3, <2>5, <2>6 DEF ManifestInv
<1>2. ASSUME NEW r \in Repos, Push(r) \/ EditFiles(r) \/ CheckOut(r)
      PROVE  ManifestInv'
  <2>1. /\ worktree[r] = [head |-> worktree[r].head, pushed |-> worktree[r].pushed,
                          dirty |-> worktree[r].dirty]
        /\ Exists(r, worktree[r].head) /\ Exists(r, worktree[r].pushed) /\ history' = history
    BY <1>2 DEF ManifestInv, TreesOK, Push, EditFiles, CheckOut
  <2>2. PICK head, pushed, dirty : /\ Changes(r, [head |-> head, pushed |-> pushed, dirty |-> dirty])
                                   /\ Exists(r, head) /\ Exists(r, pushed)
    <3>1. CASE Push(r)
      <4>1. [worktree[r] EXCEPT !.pushed = worktree[r].head]
              = [head |-> worktree[r].head, pushed |-> worktree[r].head, dirty |-> worktree[r].dirty]
        BY <2>1
      <4>2. Changes(r, [head |-> worktree[r].head, pushed |-> worktree[r].head, dirty |-> worktree[r].dirty])
        BY <3>1, <4>1, Zenon DEF Push
      <4>. QED
        BY <2>1, <4>2, Zenon
    <3>2. CASE EditFiles(r)
      <4>1. [worktree[r] EXCEPT !.dirty = ~worktree[r].dirty]
              = [head |-> worktree[r].head, pushed |-> worktree[r].pushed, dirty |-> ~worktree[r].dirty]
        BY <2>1
      <4>2. Changes(r, [head |-> worktree[r].head, pushed |-> worktree[r].pushed,
                        dirty |-> ~worktree[r].dirty])
        BY <3>2, <4>1, Zenon DEF EditFiles
      <4>. QED
        BY <2>1, <4>2, Zenon
    <3>3. CASE CheckOut(r)
      <4>1. PICK c \in history : c.repo = r /\ Changes(r, [worktree[r] EXCEPT !.head = c.id])
        BY <3>3 DEF CheckOut
      <4>2. [worktree[r] EXCEPT !.head = c.id]
              = [head |-> c.id, pushed |-> worktree[r].pushed, dirty |-> worktree[r].dirty]
        BY <2>1
      <4>3. Changes(r, [head |-> c.id, pushed |-> worktree[r].pushed, dirty |-> worktree[r].dirty])
        BY <4>1, <4>2, Zenon
      <4>4. Exists(r, c.id)
        BY <4>1 DEF Exists
      <4>. QED
        BY <2>1, <4>3, <4>4, Zenon
    <3>. QED
      BY <1>2, <3>1, <3>2, <3>3
  <2>. QED
    BY <2>1, <2>2, ChangesKeepInv
<1>3. CASE EditManifest
  <2>1. /\ history' = history /\ worktree' = worktree /\ witnessed' = witnessed /\ tool' = tool
        /\ tool.does = "nothing" /\ quiet' = FALSE
    BY <1>3 DEF EditManifest, Moves
  <2>2. HistoryOK' /\ TreesOK'
    BY <2>1, AnswersStand DEF ManifestInv
  <2>. QED
    BY <2>1, <2>2, MovesKeepInv
<1>. QED
  BY <1>1, <1>2, <1>3, CommitKeepsInv, CollectKeepsInv, InspectKeepsInv, GenerateKeepsInv,
     VerifyKeepsInv, JudgeKeepsInv DEF ManifestNext

\* verify.ts: whoever moved what and when, a manifest that passes is right about the
\* commits it names, and each of its heads and upstreams was so during the
\* verification; one of repositories at rest passes and describes them as they are.
THEOREM PassedManifestsHold == ManifestSpec => []PassedManifestsAreTrue /\ []QuietManifestsPass
<1>1. ManifestInv => PassedManifestsAreTrue /\ QuietManifestsPass
  BY DEF ManifestInv
<1>. QED
  BY <1>1, ManifestInitInv, ManifestNextInv, PTL DEF ManifestSpec

----------------------------------------------------------------------------
(* Dates and instants: event-time.ts walks a schedule's days one by one.    *)

IsNamed(s, d) == \E w \in s.byWeekday : (d - (w - 4)) % 7 = 0
DaysPassed == {d \in walk.schedule.start .. (walk.cursor - 1) : IsNamed(walk.schedule, d)}

WalkTyped ==
  walk \in [schedule : Schedules, zone : Zones \cup {UnknownZone}, cursor : Int, dates : Seq(Int),
            verdict : {MidWalk, "unknown_time_zone", "no_occurrences", "too_many_occurrences", "ok"}]

\* The dates are those of the days the walk has passed, and a named day is never
\* more than a week behind.
WalkHolds ==
  LET s == walk.schedule
      last == walk.dates[Len(walk.dates)]
  IN walk.verdict = MidWalk =>
       /\ IsAscending(walk.dates, DaysPassed)
       /\ s.start <= walk.cursor /\ (walk.cursor = s.start \/ walk.cursor <= s.until + 1)
       /\ s.frequency = "once" => walk.dates = <<>> /\ walk.cursor = s.start
       /\ Len(walk.dates) <= EmitCap
       /\ IF walk.dates = <<>> THEN walk.cursor - s.start <= 6
          ELSE walk.cursor - last <= 7 /\ last - s.start < 7 * Len(walk.dates)

ZoneIsKnown == walk.verdict = "ok" => walk.zone # UnknownZone

WalkInv == WalkTyped /\ WalkHolds /\ ZoneIsKnown /\ SchedulesAreNamedExactly

\* weekdayOf, with the remainder of JavaScript, is the calendar's weekday.
LEMMA WeekdayIsTheCalendars ==
  ASSUME NEW d \in Int
  PROVE  Weekday(d) \in 0 .. 6 /\ \A w \in 0 .. 6 : Weekday(d) = w <=> (d - (w - 4)) % 7 = 0
<1>1. Weekday(d) = (d + 4) % 7
  <2>1. CASE d + 4 >= 0
    BY <2>1 DEF Weekday, Remainder
  <2>2. CASE d + 4 < 0
    <3>1. Remainder(d + 4, 7) = -((-(d + 4)) % 7)
      BY <2>2 DEF Remainder
    <3>2. (-(d + 4)) % 7 \in 0 .. 6
      OBVIOUS
    <3>3. Remainder(d + 4, 7) + 7 >= 0
      BY <3>1, <3>2
    <3>4. Weekday(d) = (7 - ((-(d + 4)) % 7)) % 7
      BY <3>1, <3>2, <3>3 DEF Weekday, Remainder
    <3>. QED
      BY <3>4
  <2>. QED
    BY <2>1, <2>2
<1>2. \A w \in 0 .. 6 : (d + 4) % 7 = w <=> (d - (w - 4)) % 7 = 0
  OBVIOUS
<1>. QED
  BY <1>1, <1>2

\* Of seven days in a row one is of any given weekday.
LEMMA WeeksNameADay ==
  ASSUME NEW s \in Schedules, s.byWeekday # {}, NEW d \in Int
  PROVE  \E e \in d .. (d + 6) : IsNamed(s, e)
<1>1. PICK w \in s.byWeekday : w \in 0 .. 6
  BY WallAssumption
<1>2. \E e \in d .. (d + 6) : (e - (w - 4)) % 7 = 0
  <2> DEFINE r == (d - (w - 4)) % 7
  <2>1. r \in 0 .. 6
    BY <1>1
  <2>2. CASE r = 0
    BY <2>2, <1>1
  <2>3. CASE r # 0
    <3>1. d + 7 - r \in d .. (d + 6)
      BY <2>1, <2>3
    <3>2. ((d + 7 - r) - (w - 4)) % 7 = 0
      BY <1>1
    <3>. QED
      BY <3>1, <3>2
  <2>. QED
    BY <2>2, <2>3
<1>. QED
  BY <1>2 DEF IsNamed

LEMMA NamedAWeekLater ==
  ASSUME NEW s \in Schedules, NEW d \in Int
  PROVE  IsNamed(s, d) <=> IsNamed(s, d + 7)
<1>1. \A w \in 0 .. 6 : (d - (w - 4)) % 7 = 0 <=> ((d + 7) - (w - 4)) % 7 = 0
  OBVIOUS
<1>2. s.byWeekday \subseteq 0 .. 6
  BY WallAssumption
<1>. QED
  BY <1>1, <1>2 DEF IsNamed

LEMMA NoDaysAscend == IsAscending(<<>>, {})
BY FS_EmptySet DEF IsAscending

\* A day after all of them is the last of them.
LEMMA AppendAscends ==
  ASSUME NEW dates \in Seq(Int), NEW days, IsFiniteSet(days), IsAscending(dates, days),
         NEW d \in Int, \A e \in days : e < d
  PROVE  IsAscending(Append(dates, d), days \cup {d})
<1> DEFINE more == Append(dates, d)
<1>1. /\ Len(dates) \in Nat /\ DOMAIN dates = 1 .. Len(dates)
      /\ Len(more) = Len(dates) + 1 /\ DOMAIN more = 1 .. (Len(dates) + 1)
      /\ more[Len(dates) + 1] = d /\ \A i \in 1 .. Len(dates) : more[i] = dates[i] /\ dates[i] \in Int
  OBVIOUS
<1>2. {more[i] : i \in DOMAIN more} = days \cup {d}
  <2>1. days = {dates[i] : i \in 1 .. Len(dates)}
    BY <1>1 DEF IsAscending
  <2>2. DOMAIN more = (1 .. Len(dates)) \cup {Len(dates) + 1}
    BY <1>1
  <2>. HIDE DEF more
  <2>3. \A i \in 1 .. Len(dates) : more[i] = dates[i]
    BY <1>1
  <2>4. {more[i] : i \in 1 .. Len(dates)} = days
    BY <2>1, <2>3, Zenon
  <2>. QED
    BY <1>1, <2>2, <2>4
<1>3. d \notin days
  OBVIOUS
<1>4. Cardinality(days \cup {d}) = Cardinality(days) + 1
  BY <1>3, FS_AddElement
<1>5. Len(more) = Cardinality(days \cup {d})
  BY <1>1, <1>4 DEF IsAscending
<1>6. ASSUME NEW i \in DOMAIN more, NEW j \in DOMAIN more, i < j PROVE more[i] < more[j]
  <2>1. CASE j = Len(dates) + 1
    <3>1. i \in 1 .. Len(dates)
      BY <1>1, <1>6, <2>1
    <3>2. more[i] \in days
      BY <1>1, <3>1 DEF IsAscending
    <3>. QED
      BY <1>1, <2>1, <3>2
  <2>2. CASE j # Len(dates) + 1
    BY <1>1, <1>6, <2>2 DEF IsAscending
  <2>. QED
    BY <2>1, <2>2
<1>. QED
  BY <1>2, <1>5, <1>6 DEF IsAscending

LEMMA WalkInitInv == WallInit => WalkInv
<1> SUFFICES ASSUME NEW s \in Schedules, NEW z \in Zones \cup {UnknownZone}, walk = WalkOf(s, z)
             PROVE  WalkInv
  BY DEF WallInit
<1>1. walk.schedule = s /\ walk.cursor = s.start /\ walk.dates = <<>> /\ walk.verdict = MidWalk
  BY DEF WalkOf
<1>2. WalkTyped
  BY WallAssumption DEF WalkOf, WalkTyped
<1>3. DaysPassed = {}
  BY <1>1, WallAssumption DEF DaysPassed
<1>4. WalkHolds /\ ZoneIsKnown
  BY <1>1, <1>3, NoDaysAscend, WallAssumption DEF WalkHolds, ZoneIsKnown, EmitCap, MidWalk
<1>5. SchedulesAreNamedExactly
  BY <1>1, WallAssumption DEF SchedulesAreNamedExactly, MidWalk
<1>. QED
  BY <1>2, <1>4, <1>5 DEF WalkInv

LEMMA PassedIsFinite == ASSUME WalkTyped PROVE IsFiniteSet(DaysPassed)
<1>1. walk.schedule.start \in Int /\ walk.cursor \in Int
  BY WallAssumption DEF WalkTyped
<1>2. IsFiniteSet(walk.schedule.start .. (walk.cursor - 1))
  BY <1>1, FS_Interval
<1>. QED
  BY <1>2, FS_Subset DEF DaysPassed

\* From the last date to a day at most a week later: the arithmetic.
LEMMA AWeekLater ==
  ASSUME NEW start \in Int, NEW last \in Int, NEW day \in Int, NEW n \in Nat,
         day - last <= 7, last - start < 7 * n
  PROVE  /\ day + 1 - day <= 7 /\ day - start < 7 * (n + 1) /\ day - start <= 7 * (n + 1)
         /\ day # last + 7 => day + 1 - last <= 7
  OBVIOUS

LEMMA WalkDayInv == ASSUME WalkInv, WalkDay PROVE WalkInv'
<1> DEFINE s == walk.schedule
           c == walk.cursor
           n == Len(walk.dates)
<1>1. /\ s \in Schedules /\ c \in Int /\ walk.dates \in Seq(Int) /\ s.start \in Int /\ s.until \in Int
      /\ s.byWeekday \subseteq 0 .. 6 /\ MaxOccurrences \in Nat /\ n \in Nat
  BY WallAssumption DEF WalkInv, WalkTyped
<1>2. /\ walk.verdict = MidWalk /\ s.frequency = "weekly" /\ s.byWeekday # {} /\ c <= s.until /\ n < EmitCap
  BY DEF WalkDay, MoreDays, Walks
<1>3. /\ walk'.schedule = s /\ walk'.cursor = c + 1 /\ walk'.verdict = MidWalk
      /\ walk'.dates = IF IsNamed(s, c) THEN Append(walk.dates, c) ELSE walk.dates
  <2>1. Weekday(c) \in s.byWeekday <=> IsNamed(s, c)
    BY <1>1, WeekdayIsTheCalendars DEF IsNamed
  <2>. QED
    BY <1>2, <2>1 DEF WalkDay, WalkInv, WalkTyped
<1>4. WalkTyped'
  <2>1. walk'.dates \in Seq(Int)
    BY <1>1, <1>3
  <2>2. walk' = [schedule |-> s, zone |-> walk.zone, cursor |-> c + 1, dates |-> walk'.dates,
                 verdict |-> MidWalk]
    <3>1. walk = [schedule |-> s, zone |-> walk.zone, cursor |-> c, dates |-> walk.dates,
                  verdict |-> MidWalk]
      BY <1>2 DEF WalkInv, WalkTyped
    <3>. QED
      BY <3>1 DEF WalkDay
  <2>3. walk.zone \in Zones \cup {UnknownZone} /\ c + 1 \in Int
    BY <1>1 DEF WalkInv, WalkTyped
  <2>. QED
    BY <1>1, <2>1, <2>2, <2>3 DEF WalkTyped
<1>5. /\ IsAscending(walk.dates, DaysPassed) /\ s.start <= c
      /\ IF walk.dates = <<>> THEN c - s.start <= 6
         ELSE c - walk.dates[n] <= 7 /\ walk.dates[n] - s.start < 7 * n
  BY <1>2 DEF WalkInv, WalkHolds
<1>6. DaysPassed' = DaysPassed \cup (IF IsNamed(s, c) THEN {c} ELSE {})
  <2>1. s.start .. c = (s.start .. (c - 1)) \cup {c}
    BY <1>1, <1>5
  <2>2. DaysPassed' = {d \in s.start .. c : IsNamed(s, d)}
    BY <1>1, <1>3 DEF DaysPassed
  <2>. QED
    BY <2>1, <2>2 DEF DaysPassed
<1>7. IsAscending(walk'.dates, DaysPassed')
  <2>1. CASE IsNamed(s, c)
    <3>1. \A e \in DaysPassed : e < c
      BY <1>1 DEF DaysPassed
    <3>2. IsAscending(Append(walk.dates, c), DaysPassed \cup {c})
      BY <1>1, <1>5, <3>1, AppendAscends, PassedIsFinite DEF WalkInv
    <3>. QED
      BY <1>3, <1>6, <2>1, <3>2
  <2>2. CASE ~IsNamed(s, c)
    BY <1>3, <1>5, <1>6, <2>2
  <2>. QED
    BY <2>1, <2>2
<1>8. Len(walk'.dates) <= EmitCap
  BY <1>1, <1>2, <1>3 DEF EmitCap
<1>9. IF walk'.dates = <<>> THEN c + 1 - s.start <= 6
      ELSE c + 1 - walk'.dates[Len(walk'.dates)] <= 7
           /\ walk'.dates[Len(walk'.dates)] - s.start < 7 * Len(walk'.dates)
  <2>1. CASE IsNamed(s, c)
    <3>1. /\ Len(walk'.dates) = n + 1 /\ walk'.dates[n + 1] = c /\ walk'.dates # <<>>
      <4>1. walk'.dates = Append(walk.dates, c)
        BY <1>3, <2>1
      <4>2. Append(walk.dates, c) \in Seq(Int) /\ Len(Append(walk.dates, c)) = n + 1
            /\ Append(walk.dates, c)[n + 1] = c
        BY <1>1
      <4>. QED
        BY <1>1, <4>1, <4>2
    <3>2. CASE walk.dates = <<>>
      <4>1. n = 0
        BY <3>2
      <4>. QED
        BY <1>1, <1>5, <3>1, <3>2, <4>1
    <3>3. CASE walk.dates # <<>>
      <4>1. walk.dates[n] \in Int
        BY <1>1, <3>3
      <4>2. c - walk.dates[n] <= 7 /\ walk.dates[n] - s.start < 7 * n
        BY <1>5, <3>3
      <4>3. c + 1 - c <= 7 /\ c - s.start < 7 * (n + 1)
        BY <1>1, <4>1, <4>2, AWeekLater
      <4>4. Len(walk'.dates) = n + 1 /\ walk'.dates[Len(walk'.dates)] = c
        BY <3>1
      <4>. QED
        BY <3>1, <4>3, <4>4
    <3>. QED
      BY <3>2, <3>3
  <2>2. CASE ~IsNamed(s, c)
    <3>1. CASE walk.dates = <<>>
      <4>1. DaysPassed = {}
        BY <1>5, <3>1 DEF IsAscending
      <4>2. \A d \in s.start .. c : ~IsNamed(s, d)
        <5>1. s.start .. c = (s.start .. (c - 1)) \cup {c}
          BY <1>1, <1>5
        <5>. QED
          BY <2>2, <4>1, <5>1 DEF DaysPassed
      <4>3. PICK e \in s.start .. (s.start + 6) : IsNamed(s, e)
        BY <1>1, <1>2, WeeksNameADay
      <4>4. c < s.start + 6
        BY <1>1, <4>2, <4>3
      <4>. QED
        BY <1>1, <1>3, <2>2, <3>1, <4>4
    <3>2. CASE walk.dates # <<>>
      <4>1. walk.dates[n] \in Int /\ n \in DOMAIN walk.dates
        BY <1>1, <3>2
      <4>2. IsNamed(s, walk.dates[n])
        <5>1. walk.dates[n] \in DaysPassed
          BY <1>5, <4>1 DEF IsAscending
        <5>. QED
          BY <5>1 DEF DaysPassed
      <4>3. IsNamed(s, walk.dates[n] + 7)
        BY <1>1, <4>1, <4>2, NamedAWeekLater
      <4>4. c # walk.dates[n] + 7
        BY <2>2, <4>3
      <4>5. c - walk.dates[n] <= 7 /\ walk.dates[n] - s.start < 7 * n
        BY <1>5, <3>2
      <4>6. c + 1 - walk.dates[n] <= 7
        BY <1>1, <4>1, <4>4, <4>5, AWeekLater
      <4>7. walk'.dates = walk.dates
        BY <1>3, <2>2
      <4>. QED
        BY <3>2, <4>5, <4>6, <4>7
    <3>. QED
      BY <3>1, <3>2
  <2>. QED
    BY <2>1, <2>2
<1>10. WalkHolds' /\ ZoneIsKnown'
  <2>1. s.start <= c + 1 /\ c + 1 <= s.until + 1 /\ s.frequency # "once"
    BY <1>1, <1>2, <1>5
  <2>2. /\ walk'.schedule.start <= walk'.cursor /\ walk'.cursor <= walk'.schedule.until + 1
        /\ walk'.schedule.frequency # "once" /\ walk'.verdict # "ok"
    BY <1>3, <2>1 DEF MidWalk
  <2>3. IF walk'.dates = <<>> THEN walk'.cursor - walk'.schedule.start <= 6
        ELSE walk'.cursor - walk'.dates[Len(walk'.dates)] <= 7
             /\ walk'.dates[Len(walk'.dates)] - walk'.schedule.start < 7 * Len(walk'.dates)
    <3>1. walk'.cursor = c + 1 /\ walk'.schedule.start = s.start
      BY <1>3
    <3>2. CASE walk'.dates = <<>>
      BY <1>1, <1>9, <3>1, <3>2
    <3>3. CASE walk'.dates # <<>>
      <4>1. walk'.cursor - walk'.dates[Len(walk'.dates)] <= 7
        <5>1. walk'.dates \in Seq(Int) /\ Len(walk'.dates) \in DOMAIN walk'.dates
          BY <1>4, <3>3 DEF WalkTyped
        <5>2. walk'.dates[Len(walk'.dates)] \in Int
          BY <5>1
        <5>. QED
          BY <1>1, <1>9, <3>1, <3>3, <5>2
      <4>2. walk'.dates[Len(walk'.dates)] - walk'.schedule.start < 7 * Len(walk'.dates)
        BY <1>9, <3>1, <3>3
      <4>. QED
        BY <3>3, <4>1, <4>2
    <3>. QED
      BY <3>2, <3>3
  <2>. QED
    BY <1>7, <1>8, <2>2, <2>3 DEF WalkHolds, ZoneIsKnown
<1>11. SchedulesAreNamedExactly'
  <2>1. (c + 1) - s.start <= 7 * (Len(walk'.dates) + 1)
    <3>1. walk'.dates \in Seq(Int) /\ Len(walk'.dates) \in Nat
      BY <1>4 DEF WalkTyped
    <3>2. CASE walk'.dates = <<>>
      BY <1>1, <1>9, <3>1, <3>2
    <3>3. CASE walk'.dates # <<>>
      <4>1. walk'.dates[Len(walk'.dates)] \in Int
        BY <3>1, <3>3
      <4>. HIDE DEF s, c
      <4>2. /\ (c + 1) - walk'.dates[Len(walk'.dates)] <= 7
            /\ walk'.dates[Len(walk'.dates)] - s.start < 7 * Len(walk'.dates)
        BY <1>1, <1>9, <3>3, <4>1
      <4>3. c + 1 \in Int /\ s.start \in Int
        BY <1>1
      <4>4. (c + 1) - s.start <= 7 * (Len(walk'.dates) + 1)
        BY <3>1, <4>1, <4>2, <4>3, AWeekLater
      <4>. QED
        BY <4>4, Zenon
    <3>. QED
      BY <3>2, <3>3
  <2>2. walk'.verdict \notin {"ok", "no_occurrences", "too_many_occurrences"}
    BY <1>3 DEF MidWalk
  <2>3. walk'.cursor - walk'.schedule.start <= 7 * (Len(walk'.dates) + 1)
    <3>1. walk'.cursor = c + 1 /\ walk'.schedule.start = s.start
      BY <1>3
    <3>. QED
      BY <1>1, <2>1, <3>1
  <2>. QED
    BY <2>2, <2>3 DEF SchedulesAreNamedExactly
<1>. QED
  BY <1>4, <1>10, <1>11 DEF WalkInv

LEMMA FinishWalkInv == ASSUME WalkInv, FinishWalk PROVE WalkInv'
<1> DEFINE s == walk.schedule
           c == walk.cursor
           dates == IF s.frequency = "once" THEN <<s.start>> ELSE walk.dates
<1>1. /\ s \in Schedules /\ c \in Int /\ walk.dates \in Seq(Int) /\ s.start \in Int /\ s.until \in Int
      /\ s.byWeekday \subseteq 0 .. 6 /\ s.frequency \in {"once", "weekly"}
      /\ MaxOccurrences \in Nat /\ Len(walk.dates) \in Nat
  BY WallAssumption DEF WalkInv, WalkTyped
<1>2. /\ walk'.schedule = s /\ walk'.zone = walk.zone /\ walk'.cursor = c
      /\ walk'.dates = dates /\ walk'.verdict = VerdictOn(dates)
      /\ walk.verdict = MidWalk
  BY DEF FinishWalk, WalkInv, WalkTyped
<1>3. dates \in Seq(Int)
  BY <1>1
<1>4. VerdictOn(dates) \in {"unknown_time_zone", "no_occurrences", "too_many_occurrences", "ok"}
  BY <1>3 DEF VerdictOn
<1>5. WalkTyped' /\ WalkHolds' /\ ZoneIsKnown'
  <2>1. WalkTyped'
    BY <1>2, <1>3, <1>4 DEF FinishWalk, WalkInv, WalkTyped
  <2>2. walk'.verdict # MidWalk
    BY <1>2, <1>4 DEF MidWalk
  <2>3. walk.zone = UnknownZone => VerdictOn(dates) = "unknown_time_zone"
    BY DEF VerdictOn
  <2>. QED
    BY <1>2, <2>1, <2>2, <2>3 DEF WalkHolds, ZoneIsKnown
<1>6. c - s.start <= 7 * (Len(dates) + 1)
  <2>1. CASE s.frequency = "once"
    <3>1. c = s.start
      BY <1>2, <2>1 DEF WalkInv, WalkHolds
    <3>. QED
      BY <1>1, <2>1, <3>1
  <2>2. CASE s.frequency # "once"
    BY <2>2 DEF WalkInv, SchedulesAreNamedExactly
  <2>. QED
    BY <2>1, <2>2
<1>7. CASE walk.zone = UnknownZone
  <2>1. walk'.verdict = "unknown_time_zone"
    BY <1>2, <1>7 DEF VerdictOn
  <2>. QED
    BY <1>2, <1>5, <1>6, <2>1 DEF WalkInv, SchedulesAreNamedExactly
<1>8. CASE walk.zone # UnknownZone /\ s.frequency = "once"
  <2>1. NamedDays(s) = {s.start} /\ Cardinality(NamedDays(s)) = 1
    BY <1>8, FS_Singleton DEF NamedDays
  <2>3. dates # <<>> /\ Len(dates) = 1 /\ DOMAIN dates = {1} /\ dates[1] = s.start
    BY <1>8
  <2>2. IsAscending(dates, {s.start})
    <3>. HIDE DEF dates
    <3>1. {dates[i] : i \in DOMAIN dates} = {s.start}
      BY <2>3
    <3>2. Cardinality({s.start}) = 1
      BY FS_Singleton
    <3>3. \A i, j \in DOMAIN dates : i < j => dates[i] < dates[j]
      BY <2>3
    <3>. QED
      BY <2>3, <3>1, <3>2, <3>3 DEF IsAscending
  <2>. QED
    BY <1>1, <1>2, <1>5, <1>6, <1>8, <2>1, <2>2, <2>3 DEF WalkInv, SchedulesAreNamedExactly, VerdictOn
<1>9. CASE walk.zone # UnknownZone /\ s.frequency = "weekly"
  <2>1. NamedDays(s) = {d \in s.start .. s.until : IsNamed(s, d)}
    BY <1>9 DEF NamedDays, IsNamed
  <2>2. /\ IsAscending(walk.dates, DaysPassed) /\ s.start <= c /\ (c = s.start \/ c <= s.until + 1)
        /\ Len(walk.dates) <= EmitCap
    BY <1>2 DEF WalkInv, WalkHolds
  <2>3. DaysPassed \subseteq NamedDays(s) /\ IsFiniteSet(NamedDays(s))
    <3>1. IsFiniteSet(s.start .. s.until)
      BY <1>1, FS_Interval
    <3>2. DaysPassed \subseteq NamedDays(s)
      BY <1>1, <2>1, <2>2 DEF DaysPassed
    <3>. QED
      BY <2>1, <3>1, <3>2, FS_Subset
  <2>4. Len(walk.dates) <= Cardinality(NamedDays(s)) /\ Cardinality(NamedDays(s)) \in Nat
    BY <2>2, <2>3, FS_Subset, FS_CardinalityType DEF IsAscending
  <2>5. CASE Len(walk.dates) > MaxOccurrences
    <3>1. walk'.verdict = "too_many_occurrences"
      BY <1>1, <1>2, <1>9, <2>5 DEF VerdictOn
    <3>. QED
      BY <1>1, <1>2, <1>5, <1>6, <2>4, <2>5, <3>1 DEF WalkInv, SchedulesAreNamedExactly
  <2>6. CASE Len(walk.dates) <= MaxOccurrences
    <3>1. DaysPassed = NamedDays(s)
      <4>1. ~MoreDays /\ Len(walk.dates) < EmitCap
        BY <1>1, <2>6 DEF FinishWalk, EmitCap
      <4>2. CASE s.byWeekday = {}
        BY <2>1, <2>3, <4>2 DEF IsNamed
      <4>3. CASE c > s.until
        BY <1>1, <2>1, <2>2, <4>3 DEF DaysPassed
      <4>. QED
        BY <1>1, <1>9, <4>1, <4>2, <4>3 DEF MoreDays, Walks
    <3>2. CASE walk.dates = <<>>
      <4>1. walk'.verdict = "no_occurrences"
        <5>1. dates = <<>>
          BY <1>9, <3>2
        <5>. HIDE DEF dates
        <5>2. VerdictOn(dates) = "no_occurrences"
          <6>1. walk.zone # UnknownZone
            BY <1>9
          <6>2. ~(Len(dates) > MaxOccurrences)
            BY <1>1, <5>1
          <6>. QED
            BY <5>1, <6>1, <6>2 DEF VerdictOn
        <5>. QED
          BY <1>2, <5>2
      <4>2. Cardinality(NamedDays(s)) = 0
        BY <2>2, <3>1, <3>2 DEF IsAscending
      <4>. QED
        BY <1>2, <1>5, <1>6, <4>1, <4>2 DEF WalkInv, SchedulesAreNamedExactly
    <3>3. CASE walk.dates # <<>>
      <4>1. walk'.verdict = "ok"
        BY <1>1, <1>2, <1>9, <2>6, <3>3 DEF VerdictOn
      <4>. QED
        BY <1>2, <1>5, <1>6, <1>9, <2>2, <3>1, <4>1 DEF WalkInv, SchedulesAreNamedExactly
    <3>. QED
      BY <3>2, <3>3
  <2>. QED
    BY <1>1, <2>5, <2>6
<1>. QED
  BY <1>1, <1>7, <1>8, <1>9

\* event-time.ts, instantFromLocal: two corrections find an instant that shows the
\* wall time when there is one.
LEMMA TwoPassesFindTheInstant ==
  ASSUME NEW before \in Int, NEW after \in Int, NEW at \in Int, NEW wall \in Int,
         NEW zone, zone.before = before, zone.after = after, zone.at = at
  PROVE  LET shown == WallClock(zone, InstantOf(zone, wall))
         IN IF \E o \in {before, after} : WallClock(zone, wall - o) = wall THEN shown = wall
            ELSE shown - wall \in -(after - before) .. (after - before)
<1> DEFINE Off(u) == IF u < at THEN before ELSE after
<1>1. \A u \in Int : WallClock(zone, u) = u + Off(u) /\ Off(u) \in Int
  BY DEF WallClock, Offset
<1>2. wall - (WallClock(zone, wall) - wall) = wall - Off(wall) /\ wall - Off(wall) \in Int
  BY <1>1
<1>3. InstantOf(zone, wall) = wall - Off(wall - Off(wall))
  <2> DEFINE candidate == wall - Off(wall)
  <2>1. candidate \in Int /\ Off(candidate) \in Int /\ WallClock(zone, candidate) = candidate + Off(candidate)
    BY <1>1
  <2>2. InstantOf(zone, wall) = candidate + (wall - WallClock(zone, candidate))
    BY <1>2 DEF InstantOf
  <2>. HIDE DEF candidate, Off
  <2>3. InstantOf(zone, wall) = wall - Off(candidate)
    BY <2>1, <2>2
  <2>. QED
    BY <2>3 DEF candidate
<1>4. WallClock(zone, InstantOf(zone, wall))
        = (wall - Off(wall - Off(wall))) + Off(wall - Off(wall - Off(wall)))
  BY <1>1, <1>3
<1>5. \A o \in {before, after} : WallClock(zone, wall - o) = wall <=> Off(wall - o) = o
  BY <1>1
<1>. QED
  BY <1>4, <1>5

LEMMA WallTimesHold == ASSUME WalkInv PROVE WallTimesAreKept
<1> SUFFICES ASSUME walk.verdict = "ok", NEW i \in DOMAIN walk.dates, NEW hour \in 0 .. 23
             PROVE  LET zone == walk.zone
                        wall == 24 * walk.dates[i] + hour
                        shown == WallClock(zone, InstantOf(zone, wall))
                        exists == \E o \in {zone.before, zone.after} : WallClock(zone, wall - o) = wall
                    IN IF exists THEN shown = wall
                       ELSE shown - wall \in -(zone.after - zone.before) .. (zone.after - zone.before)
  BY DEF WallTimesAreKept
<1>1. walk.dates[i] \in Int
  BY DEF WalkInv, WalkTyped
<1>2. /\ walk.zone.before \in Int /\ walk.zone.after \in Int /\ walk.zone.at \in Int
  BY WallAssumption DEF WalkInv, WalkTyped, ZoneIsKnown
<1>3. 24 * walk.dates[i] + hour \in Int
  BY <1>1
<1>. QED
  BY <1>2, <1>3, TwoPassesFindTheInstant

LEMMA WalkNextInv == WalkInv /\ [WallNext]_walk => WalkInv'
<1>1. CASE UNCHANGED walk
  BY <1>1 DEF WalkInv, WalkTyped, WalkHolds, ZoneIsKnown, SchedulesAreNamedExactly, DaysPassed, IsNamed
<1>. QED
  BY <1>1, WalkDayInv, FinishWalkInv DEF WallNext

\* event-time.ts, events.ts: whatever days a schedule names, it is materialized on
\* exactly those, or refused for having none or too many; and in every zone with a
\* transition the instants of its dates show its wall time when any do.
THEOREM DatesAreTheSchedules == WallSpec => []SchedulesAreNamedExactly /\ []WallTimesAreKept
<1>1. WalkInv => SchedulesAreNamedExactly /\ WallTimesAreKept
  BY WallTimesHold DEF WalkInv
<1>. QED
  BY <1>1, WalkInitInv, WalkNextInv, PTL DEF WallSpec

----------------------------------------------------------------------------
(* All of them together.                                                    *)

\* Surroundings.tla: whichever part runs, each of them behaves as its own
\* specification says, for its state is its own.
THEOREM SurroundingsAreTheirParts ==
  SurroundingsSpec =>
    /\ LessonsSpec /\ BoardSpec /\ PanelsSpec /\ DraftsSpec /\ EventFormSpec /\ JoinSpec
    /\ BackupsSpec /\ RuntimeSpec /\ ReadsSpec /\ PreflightSpec /\ ManifestSpec /\ WallSpec
    /\ SkillSpec /\ CsvSpec
<1>1. SurroundingsInit =>
        /\ LessonsInit /\ BoardInit /\ PanelsInit /\ DraftsInit /\ EventFormInit /\ JoinInit
        /\ BackupsInit /\ RuntimeInit /\ ReadsInit /\ PreflightInit /\ ManifestInit /\ WallInit
        /\ SkillInit /\ CsvInit
  <2>1. SurroundingsInit =>
          /\ LessonsInit /\ BoardInit /\ PanelsInit /\ DraftsInit /\ EventFormInit /\ JoinInit
          /\ BackupsInit /\ RuntimeInit /\ ReadsInit /\ PreflightInit /\ ManifestInit
    BY DEF SurroundingsInit
  <2>2. SurroundingsInit => WallInit \/ walk = SomeWalk
    BY DEF SurroundingsInit
  <2>3. walk = SomeWalk => WallInit
    <3>1. (CHOOSE s \in Schedules : TRUE) \in Schedules
      BY WallAssumption
    <3>. QED
      BY <3>1 DEF SomeWalk, WallInit
  <2>4. SurroundingsInit => SkillInit
    <3>1. SurroundingsInit => SkillInit \/ skillEvents = {}
      BY Zenon DEF SurroundingsInit
    <3>2. {} \in SUBSET PracticeDays
      OBVIOUS
    <3>3. skillEvents = {} => SkillInit
      BY <3>2 DEF SkillInit
    <3>. QED
      BY <3>1, <3>3
  <2>5. SurroundingsInit => CsvInit
    <3>1. SurroundingsInit => CsvInit \/ OpensFile(SomeUpload, <<LF>>, FALSE, TRUE, FALSE)
      BY Zenon DEF SurroundingsInit
    <3>2. SomeUpload \in Uploads
      BY CsvAssumption, Zenon DEF SomeUpload
    <3>3. <<LF>> \in Newlines
      BY DEF Newlines
    <3>4. OpensFile(SomeUpload, <<LF>>, FALSE, TRUE, FALSE) => CsvInit
      BY <3>2, <3>3, Zenon DEF CsvInit
    <3>. QED
      BY <3>1, <3>4
  <2>. QED
    BY <2>1, <2>2, <2>3, <2>4, <2>5
<1>2. [SurroundingsNext]_surroundingsVars => [LessonsNext]_lessonVars
  BY Zenon DEF SurroundingsNext, surroundingsVars, lessonVars
<1>3. [SurroundingsNext]_surroundingsVars => [BoardNext]_boardVars
  BY Zenon DEF SurroundingsNext, surroundingsVars, boardVars
<1>4. [SurroundingsNext]_surroundingsVars => [PanelsNext]_panelVars
  BY Zenon DEF SurroundingsNext, surroundingsVars, panelVars
<1>5. [SurroundingsNext]_surroundingsVars => [DraftsNext]_draftVars
  BY Zenon DEF SurroundingsNext, surroundingsVars, draftVars
<1>6. [SurroundingsNext]_surroundingsVars => [EventFormNext]_eventFormVars
  BY Zenon DEF SurroundingsNext, surroundingsVars, eventFormVars
<1>7. [SurroundingsNext]_surroundingsVars => [JoinNext]_joinVars
  BY Zenon DEF SurroundingsNext, surroundingsVars, joinVars
<1>8. [SurroundingsNext]_surroundingsVars => [BackupsNext]_backupVars
  BY Zenon DEF SurroundingsNext, surroundingsVars, backupVars
<1>9. [SurroundingsNext]_surroundingsVars => [RuntimeNext]_runtimeVars
  BY Zenon DEF SurroundingsNext, surroundingsVars, runtimeVars
<1>10. [SurroundingsNext]_surroundingsVars => [ReadsNext]_readVars
  BY Zenon DEF SurroundingsNext, surroundingsVars, readVars
<1>11. [SurroundingsNext]_surroundingsVars => [PreflightNext]_preflightVars
  BY Zenon DEF SurroundingsNext, surroundingsVars, preflightVars
<1>12. [SurroundingsNext]_surroundingsVars => [ManifestNext]_manifestVars
  BY Zenon DEF SurroundingsNext, surroundingsVars, manifestVars
<1>13. [SurroundingsNext]_surroundingsVars => [WallNext]_walk
  BY Zenon DEF SurroundingsNext, surroundingsVars
<1>14. [SurroundingsNext]_surroundingsVars => [SkillNext]_skillEvents
  BY Zenon DEF SurroundingsNext, surroundingsVars
<1>15. [SurroundingsNext]_surroundingsVars => [CsvNext]_csvVars
  BY Zenon DEF SurroundingsNext, surroundingsVars, csvVars
<1>. QED
  BY <1>1, <1>2, <1>3, <1>4, <1>5, <1>6, <1>7, <1>8, <1>9, <1>10, <1>11, <1>12, <1>13, <1>14, <1>15, PTL
  DEF SurroundingsSpec, LessonsSpec, BoardSpec, PanelsSpec, DraftsSpec, EventFormSpec, JoinSpec,
      BackupsSpec, RuntimeSpec, ReadsSpec, PreflightSpec, ManifestSpec, WallSpec,
      SkillSpec, CsvSpec

\* duties-model.ts, attendance-panel.tsx, team-invitations-panel.tsx,
\* player-card-updates.ts and lessons.ts, with everything around them: no page
\* shows less than it showed.
THEOREM PagesOnlyAdvance == SurroundingsSpec => PagesNeverGoBack
  BY SurroundingsAreTheirParts, BoardOnlyAdvances, PanelsOnlyAdvance, LearningStands, PTL
  DEF PagesNeverGoBack

\* event-form.tsx and the drafts of an event, lessons.ts and
\* season-lessons-view.tsx, and the reads of a team, with everything around them:
\* they keep what they promise on their own.
THEOREM SurroundingsKeepTheirPromises ==
  SurroundingsSpec =>
    []DraftsBecomeTheirEvents /\ []CorrectAnswersAreCredited /\ []ProjectionsAreEntitled
<1>1. SendsWhatItShows /\ OneEventPerDraft => DraftsBecomeTheirEvents
  BY DEF DraftsBecomeTheirEvents
<1>. QED
  BY <1>1, SurroundingsAreTheirParts, FormsSendWhatTheyShow, DraftsMakeOneEvent, AnswersAreCredited,
     DisclosuresAreEntitled, PTL

\* invite-landing.tsx, JoinTeamView.swift and the panels of the event and team
\* pages, with everything around them.
THEOREM PagesAreTruthful == SurroundingsSpec => []PagesTellTheTruth
<1>1. JoinsAsShown /\ SavedIsShown /\ LinksWork => PagesTellTheTruth
  BY DEF PagesTellTheTruth
<1>. QED
  BY <1>1, SurroundingsAreTheirParts, SheetsJoinAsShown, PanelsTellTheTruth, PTL

\* boot.py, server.ts, backup.ts, the staging preflight and the platform manifest,
\* with everything around them: the machine stays as it was planned.
THEOREM MachinesStayAsPlanned == SurroundingsSpec => []MachineIsAsPlanned
<1>1. /\ RunsTheReleaseUnprivileged /\ WorkHasADatabase /\ BackupsAreWhole /\ PassedMeansServed
      /\ PassedManifestsAreTrue /\ QuietManifestsPass
      => MachineIsAsPlanned
  BY DEF MachineIsAsPlanned
<1>. QED
  BY <1>1, SurroundingsAreTheirParts, ServersRunTheirRelease, WorkIsOnADatabase, TargetsAreWhole,
     PassedIsServed, PassedManifestsHold, PTL

\* streak.ts, rate.ts, event-time.ts, csv.ts and roster-import.ts, with everything
\* around them: what is computed agrees with what was trained, scheduled and
\* exported.
THEOREM ComputedAsWritten == SurroundingsSpec => []CalculationsAgree
<1>1. /\ StreaksAreRuns /\ RatingNeverDecays /\ SchedulesAreNamedExactly /\ WallTimesAreKept
      /\ FilesAreReadBack /\ HeadersAreUnderstood
      => CalculationsAgree
  BY DEF CalculationsAgree
<1>. QED
  BY <1>1, SurroundingsAreTheirParts, TimelineIsTheRule, RatingsNeverDecay, DatesAreTheSchedules,
     TablesAreReadBack, ColumnsAreUnderstood, PTL

=============================================================================
