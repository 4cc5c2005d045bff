--------------------------- MODULE CalendarFeeds ---------------------------
(***************************************************************************)
(* One adult's private calendar feed of one team: minting or rotating its  *)
(* URL, revoking it, and serving it to whoever holds a URL                 *)
(* (apps/web/app/lib/server/calendar-feeds.ts).                            *)
(*                                                                         *)
(* Mint and revoke look for an active row and then insert or update one by *)
(* its key; no unique index covers (team, person).  A URL is a token: rows *)
(* hold its hash, and nobody can present one that was never answered.      *)
(***************************************************************************)
EXTENDS Naturals, FiniteSets, Database

CONSTANTS
  Urls,          \* tokens, one for each mint
  Feeds,         \* primary keys of calendar_feed_tokens
  Visits,        \* handlers that may be running at once
  NoFeed, NoUrl

ASSUME FeedConstantsOK == NoFeed \notin Feeds /\ NoUrl \notin Urls

VARIABLES
  feeds,         \* committed rows: key -> [url, active]
  reads,         \* the adult has access to the team
  visit,         \* what each handler does and has read
  issued,        \* the URLs answered to the adult
  newest         \* the one answered last

feedVars == <<database, feeds, reads, visit, issued, newest>>

----------------------------------------------------------------------------
FeedRows == DOMAIN feeds
LiveFeeds == {f \in FeedRows : feeds[f].active}
Visiting(v, c) == visit' = [visit EXCEPT ![v] = c]
PendingUrls == {visit[v].url : v \in {w \in Visits : visit[w].op = "mint"}}
UnusedUrls == Urls \ (issued \cup PendingUrls \cup {feeds[f].url : f \in FeedRows})

FeedsInit ==
  /\ database \in Databases
  /\ feeds = [f \in {} |-> 0]
  /\ reads = TRUE
  /\ visit = [v \in Visits |-> Idle]
  /\ issued = {}
  /\ newest = NoUrl

\* activeFeedRow answers with one active row, if there is one.
FoundFeeds == IF LiveFeeds = {} THEN {NoFeed} ELSE LiveFeeds

BeginMint(v) ==
  /\ visit[v] = Idle /\ reads
  /\ TransactionMayBegin(visit)
  /\ \E url \in UnusedUrls, f \in FoundFeeds : Visiting(v, [op |-> "mint", url |-> url, row |-> f])
  /\ UNCHANGED <<database, feeds, reads, issued, newest>>

\* Rotating replaces the hash of the row that was read.
RotatedBug(row, url) == row
Rotated(row, url) == [row EXCEPT !.url = url]

WriteMint(v) ==
  LET c == visit[v] IN
  /\ c.op = "mint"
  /\ IF c.row = NoFeed
       THEN \E f \in Feeds \ FeedRows :
              feeds' = [g \in FeedRows \cup {f} |->
                          IF g = f THEN [url |-> c.url, active |-> TRUE] ELSE feeds[g]]
       ELSE feeds' = [feeds EXCEPT ![c.row] = Rotated(@, c.url)]
  /\ issued' = issued \cup {c.url}
  /\ newest' = c.url
  /\ Visiting(v, Idle)
  /\ UNCHANGED <<database, reads>>

BeginRevoke(v) ==
  /\ visit[v] = Idle /\ reads
  /\ TransactionMayBegin(visit)
  /\ \E f \in LiveFeeds : Visiting(v, [op |-> "revoke", row |-> f])
  /\ UNCHANGED <<database, feeds, reads, issued, newest>>

WriteRevoke(v) ==
  /\ visit[v].op = "revoke"
  /\ feeds' = [feeds EXCEPT ![visit[v].row].active = FALSE]
  /\ Visiting(v, Idle)
  /\ UNCHANGED <<database, reads, issued, newest>>

\* serveCalendarFeed: the row of the presented token, then the adult's access.
UrlAnswers(url) == reads /\ \E f \in LiveFeeds : feeds[f].url = url

\* The adult loses or regains access to the team.
ChangeFeedAccess ==
  /\ TransactionMayBegin(visit)
  /\ reads' = ~reads
  /\ UNCHANGED <<database, feeds, visit, issued, newest>>

FeedsNext ==
  \/ ChangeFeedAccess
  \/ \E v \in Visits :
       \/ BeginMint(v)
       \/ WriteMint(v)
       \/ BeginRevoke(v)
       \/ WriteRevoke(v)

FeedsSpec == FeedsInit /\ [][FeedsNext]_feedVars

----------------------------------------------------------------------------
\* Minting rotates: where transactions run one at a time only the URL minted
\* last can answer, so a mislaid one is dead and a revocation leaves none.
OnlyTheNewestUrlAnswers ==
  database = "sqlite" => \A url \in issued : UrlAnswers(url) => url = newest

\* On either database a URL that stopped answering while its adult kept access
\* never answers again; where transactions run one at a time, none but the one
\* minted last answers at all.
DeadUrlsStayDead ==
  [][/\ OnlyTheNewestUrlAnswers'
     /\ \A url \in issued :
          reads /\ reads' /\ ~UrlAnswers(url) => ~UrlAnswers(url)']_feedVars
=============================================================================
