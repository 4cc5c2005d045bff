-------------------------- MODULE PlatformManifest --------------------------
(***************************************************************************)
(* The platform manifest (packages/platform-manifest): a command collects   *)
(* facts about several git repositories and writes them with a digest; a    *)
(* later one verifies them.  Every fact is a git process of its own, and    *)
(* people commit, push and edit while either command runs.  Two of the four *)
(* repositories are modelled, and of each the facts the rest behave like.   *)
(***************************************************************************)
EXTENDS Naturals, Sequences, FiniteSets, FiniteSetsExt

CONSTANTS
  Versions,     \* what a commit says of its repository's contracts
  MaxHistory,   \* bounds: commits there are, and what people do to the
  MaxMoves      \* repositories and the files in one behaviour

VARIABLES
  history,      \* [repo, id, version]; ids grow with the commits' times
  worktree,     \* repo -> [head, pushed, dirty]
  disk,         \* [manifest, digest]: two files
  tool,         \* the command under way: [does, at, notes, exit]
  moves,
  quiet,        \* ghost: nothing moved since the manifest's generation began
  witnessed     \* ghost: readings that were right at some moment of a verification

manifestVars == <<history, worktree, disk, tool, moves, quiet, witnessed>>

Repos == {"lesto", "studio"}
NotExited == 255

\* A file, and what a whole one says; a digest says what it is the digest of.
Absent == [is |-> "absent", says |-> <<>>]
Torn == [is |-> "torn", says |-> <<>>]
Whole(facts) == [is |-> "whole", says |-> facts]

\* What is read, in order: a studio file, each repository, then the contracts.
Inspection == <<<<"ahead", "lesto">>, <<"dirty", "lesto">>, <<"head", "lesto">>,
                <<"ahead", "studio">>, <<"dirty", "studio">>, <<"head", "studio">>>>
Collection == <<<<"openapi", "studio">>, <<"head", "lesto">>, <<"ahead", "lesto">>,
                <<"dirty", "lesto">>, <<"head", "studio">>, <<"ahead", "studio">>,
                <<"dirty", "studio">>, <<"schema", "lesto">>, <<"schema", "studio">>>>
Readings == {Collection[i] : i \in DOMAIN Collection}

Exists(repo, id) == \E c \in history : c.repo = repo /\ c.id = id
VersionAt(repo, id) == (CHOOSE c \in history : c.repo = repo /\ c.id = id).version

\* What git answers now.
Answer(trees, reading) ==
  LET tree == trees[reading[2]]
  IN CASE reading[1] = "head" -> tree.head
       [] reading[1] = "ahead" -> tree.head # tree.pushed
       [] reading[1] = "dirty" -> tree.dirty
       [] OTHER -> VersionAt(reading[2], tree.head)

NoTool == [does |-> "nothing", at |-> 1, notes |-> [x \in {} |-> x], exit |-> NotExited]
Noted(notes, reading, answer) ==
  [x \in DOMAIN notes \cup {reading} |-> IF x = reading THEN answer ELSE notes[x]]

ManifestInit ==
  /\ history = {[repo |-> "lesto", id |-> 1, version |-> 1],
                [repo |-> "studio", id |-> 2, version |-> 1]}
  /\ worktree = [r \in Repos |-> [head |-> IF r = "lesto" THEN 1 ELSE 2,
                                  pushed |-> IF r = "lesto" THEN 1 ELSE 2, dirty |-> FALSE]]
  /\ disk = [manifest |-> Absent, digest |-> Absent]
  /\ tool = NoTool /\ moves = 0 /\ quiet = FALSE /\ witnessed = {}

----------------------------------------------------------------------------
\* What people do.
Witness(trees, since) ==
  since \cup {<<Inspection[i], Answer(trees, Inspection[i])>> : i \in DOMAIN Inspection}

Moves ==
  /\ moves < MaxMoves /\ moves' = moves + 1 /\ quiet' = FALSE
  /\ UNCHANGED tool

Changes(repo, tree) ==
  /\ Moves /\ worktree' = [worktree EXCEPT ![repo] = tree]
  /\ witnessed' = IF tool.does = "verify" THEN Witness(worktree', witnessed) ELSE witnessed
  /\ UNCHANGED disk

Commit(r) ==
  /\ Cardinality(history) < MaxHistory
  /\ LET id == Cardinality(history) + 1
     IN /\ \E v \in Versions : history' = history \cup {[repo |-> r, id |-> id, version |-> v]}
        /\ Moves
        /\ worktree' = [worktree EXCEPT ![r].head = id]
        /\ witnessed' = IF tool.does # "verify" THEN witnessed
                        ELSE witnessed \cup {<<<<"head", r>>, id>>, <<<<"ahead", r>>, TRUE>>}
  /\ UNCHANGED disk

Push(r) ==
  /\ Changes(r, [worktree[r] EXCEPT !.pushed = worktree[r].head]) /\ UNCHANGED history

EditFiles(r) ==
  /\ Changes(r, [worktree[r] EXCEPT !.dirty = ~worktree[r].dirty]) /\ UNCHANGED history

CheckOut(r) ==
  /\ \E c \in history : c.repo = r /\ Changes(r, [worktree[r] EXCEPT !.head = c.id])
  /\ UNCHANGED history

\* Someone edits the manifest, and has the digest follow or not.
EditManifest ==
  /\ tool.does = "nothing" /\ disk.manifest.is = "whole"
  /\ Moves
  /\ LET says == disk.manifest.says
     IN \E m \in {[says EXCEPT ![x] = y] :
                   x \in ({"head"} \X Repos) \cup {<<"generatedAt">>}, y \in 1 .. MaxHistory}
             \cup {[says EXCEPT ![x] = y] :
                   x \in {<<"openapi", "studio">>} \cup ({"schema"} \X Repos), y \in Versions}
             \cup {[says EXCEPT ![x] = ~says[x]] :
                   x \in {<<"compat">>} \cup ({"durable", "ahead"} \X Repos)},
          follows \in BOOLEAN :
          disk' = [manifest |-> Whole(m), digest |-> IF follows THEN Whole(m) ELSE disk.digest]
  /\ UNCHANGED <<history, worktree, witnessed>>

----------------------------------------------------------------------------
\* The commands.
Proceeds(next) ==
  /\ tool' = next /\ UNCHANGED <<history, worktree, moves>>

BeginGenerate ==
  /\ tool.does = "nothing"
  /\ Proceeds([NoTool EXCEPT !.does = "collect"])
  /\ quiet' = TRUE /\ UNCHANGED <<disk, witnessed>>

CollectFact ==
  /\ tool.does = "collect" /\ tool.at \in DOMAIN Collection
  /\ LET reading == Collection[tool.at]
     IN Proceeds([tool EXCEPT !.at = @ + 1, !.notes = Noted(@, reading, Answer(worktree, reading))])
  /\ UNCHANGED <<disk, quiet, witnessed>>

\* generateManifest: what follows from the facts is computed from them.
Durable(notes, r) == ~notes[<<"ahead", r>>] /\ ~notes[<<"dirty", r>>]
Compatible(notes) == notes[<<"schema", "lesto">>] = notes[<<"schema", "studio">>]

Computed == ({"durable"} \X Repos) \cup {<<"compat">>, <<"generatedAt">>}

Generated(notes) ==
  [x \in DOMAIN notes \cup Computed |->
     CASE x[1] = "durable" -> Durable(notes, x[2])
       [] x[1] = "compat" -> Compatible(notes)
       [] x[1] = "generatedAt" -> Max({notes[<<"head", r>>] : r \in Repos})
       [] OTHER -> notes[x]]

WriteManifest ==
  /\ tool.does = "collect" /\ tool.at \notin DOMAIN Collection
  /\ disk' = [disk EXCEPT !.manifest = Whole(Generated(tool.notes))]
  /\ Proceeds([NoTool EXCEPT !.does = "digest"]) /\ UNCHANGED <<quiet, witnessed>>

WriteDigest ==
  /\ tool.does = "digest"
  /\ disk' = [disk EXCEPT !.digest = disk.manifest]
  /\ Proceeds(NoTool) /\ UNCHANGED <<quiet, witnessed>>

\* The command dies before, between or within its two writes.
GenerateDies ==
  /\ tool.does \in {"collect", "digest"}
  /\ \/ UNCHANGED disk
     \/ tool.at \notin DOMAIN Collection /\ disk' = [disk EXCEPT !.manifest = Torn]
     \/ tool.does = "digest" /\ disk' = [disk EXCEPT !.digest = Torn]
  /\ Proceeds(NoTool) /\ quiet' = FALSE /\ UNCHANGED witnessed

Exits(code) == Proceeds([tool EXCEPT !.does = "exited", !.exit = code])

\* The files are read; a digest is compared before anything is believed.
BeginVerify ==
  /\ tool.does = "nothing"
  /\ IF Absent \in {disk.manifest, disk.digest} THEN Exits(10)
     ELSE IF disk.digest # disk.manifest \/ disk.digest = Torn THEN Exits(4)
     ELSE Proceeds([NoTool EXCEPT !.does = "verify"])
  /\ witnessed' = Witness(worktree, {}) /\ UNCHANGED <<disk, quiet>>

InspectRepository ==
  /\ tool.does = "verify" /\ tool.at \in DOMAIN Inspection
  /\ LET reading == Inspection[tool.at]
     IN Proceeds([tool EXCEPT !.at = @ + 1, !.notes = Noted(@, reading, Answer(worktree, reading))])
  /\ UNCHANGED <<disk, quiet, witnessed>>

\* The verifier works on what it read; nobody edits the files meanwhile.
Claims == disk.manifest.says
Claimed(r) == Claims[<<"head", r>>]

IsConsistent ==
  /\ \A r \in Repos : Claims[<<"durable", r>>] = Durable(Claims, r)
  /\ Claims[<<"compat">>] = Compatible(Claims)
  /\ Claims[<<"generatedAt">>] = Max({Claimed(r) : r \in Repos})

\* Read at the commits the manifest names, which do not change.
IsPinned ==
  \A x \in {y \in Readings : y[1] \in {"openapi", "schema"}} :
    Claims[x] = VersionAt(x[2], Claimed(x[2]))

\* A count of edited files that differs is only a warning.
IsCurrentWorld ==
  \A r \in Repos, what \in {"head", "ahead"} : Claims[<<what, r>>] = tool.notes[<<what, r>>]

Judge ==
  /\ tool.does = "verify" /\ tool.at \notin DOMAIN Inspection
  /\ Exits(IF \E r \in Repos : ~Exists(r, Claimed(r)) THEN 10
           ELSE IF ~IsConsistent THEN 7
           ELSE IF ~IsPinned THEN 6
           ELSE IF ~IsCurrentWorld THEN 5 ELSE 0)
  /\ UNCHANGED <<disk, quiet, witnessed>>

ReadExit ==
  /\ tool.does = "exited" /\ Proceeds(NoTool)
  /\ witnessed' = {} /\ UNCHANGED <<disk, quiet>>

ManifestNext ==
  \/ \E r \in Repos : Commit(r) \/ Push(r) \/ EditFiles(r) \/ CheckOut(r)
  \/ EditManifest
  \/ BeginGenerate \/ CollectFact \/ WriteManifest \/ WriteDigest \/ GenerateDies
  \/ BeginVerify \/ InspectRepository \/ Judge \/ ReadExit

ManifestSpec == ManifestInit /\ [][ManifestNext]_manifestVars

----------------------------------------------------------------------------
\* A manifest says of the commits it names what they contain and what follows from
\* that, and each head, and each repository's standing to its upstream, was so at
\* some moment of the verification, not all of them at the same one.  Files edited
\* and not committed are a warning and no part of it.
ManifestIsTrue ==
  /\ \A r \in Repos :
       /\ Exists(r, Claimed(r))
       /\ {<<<<"head", r>>, Claimed(r)>>, <<<<"ahead", r>>, Claims[<<"ahead", r>>]>>} \subseteq witnessed
       /\ Claims[<<"durable", r>>] => ~Claims[<<"ahead", r>>]
       /\ Claims[<<"schema", r>>] = VersionAt(r, Claimed(r))
  /\ Claims[<<"openapi", "studio">>] = VersionAt("studio", Claimed("studio"))
  /\ Claims[<<"compat">>] <=>
       VersionAt("lesto", Claimed("lesto")) = VersionAt("studio", Claimed("studio"))

\* verify.ts: a manifest that passes is true, whether it was generated while commits
\* landed, edited by hand, or left by a command that died.
PassedManifestsAreTrue == tool.exit = 0 => ManifestIsTrue

\* index.ts and verify.ts: when nothing has moved since its generation began, a
\* manifest passes, and every fact in it is what the repositories say when the
\* verifier exits, edited files too.
QuietManifestsPass ==
  quiet /\ tool.does = "exited" =>
    tool.exit = 0 /\ \A x \in Readings : Claims[x] = Answer(worktree, x)
=============================================================================
