---------------------------- MODULE RosterImport ----------------------------
(***************************************************************************)
(* One season's roster: children added one by one, guardians attached to   *)
(* them, and whole files imported as preview and then commit               *)
(* (apps/web/app/lib/server/roster.ts and roster-import.ts, with the import*)
(* form of apps/web/app/roster/roster-forms.tsx).                          *)
(*                                                                         *)
(* A child is known by its identity key (people-identity.ts), a guardian on*)
(* one child by name and relationship.  Neither has a unique index: the    *)
(* commit reads the season's keys, and the attachment the child's edges,   *)
(* in the transaction that then inserts.  The form's request may outlive   *)
(* its answer: a manager whose answer was lost confirms again while the    *)
(* first commit may still be running.                                      *)
(***************************************************************************)
EXTENDS Naturals, Sequences, Functions, FiniteSets, Database

CONSTANTS
  Keys,           \* identity keys of children
  Guardians,      \* names with relationships
  Files,          \* CSV files: sequences of rows [key, guardians, ok]
  Forms,          \* import forms that are open
  Servers,        \* handlers that may be running at once
  NoFile,         \* the empty text area
  NoPreview,
  RosterBound     \* bound on the children of an instance

\* A row names a child and its guardians; ok says that its fields are well formed.
FileRow == [key : Keys, guardians : Seq(Guardians), ok : BOOLEAN]

ASSUME RosterConstantsOK ==
  /\ Files \subseteq Seq(FileRow)
  /\ RosterBound \in Nat

VARIABLES
  children,       \* the roster in the order of creation
  form,           \* what each form holds and waits for
  server          \* what each handler runs and has read

rosterVars == <<database, children, form, server>>

----------------------------------------------------------------------------
Verdicts == {"valid", "duplicate_in_file", "duplicate_in_roster", "invalid"}

\* seasonChildIdentityKeys.
SeasonKeys == {children[i].key : i \in DOMAIN children}

\* previewImport: the verdict on row i of a file.
Verdict(file, i, keys) ==
  IF ~file[i].ok THEN "invalid"
  ELSE IF \E j \in 1..(i - 1) : file[j].ok /\ file[j].key = file[i].key
    THEN "duplicate_in_file"
  ELSE IF file[i].key \in keys THEN "duplicate_in_roster"
  ELSE "valid"
RowVerdicts(file, keys) == [i \in DOMAIN file |-> Verdict(file, i, keys)]

\* The positions of a set in the order of the file.
InOrder(S) == {o \in [1..Cardinality(S) -> S] : \A m, n \in DOMAIN o : m < n => o[m] < o[n]}

\* committableRows.
Committable(file, verdicts) ==
  {[n \in DOMAIN o |-> file[o[n]]] : o \in InOrder({i \in DOMAIN file : verdicts[i] = "valid"})}

\* The rows a commit creates, against the keys its transaction read.
CreatesBug(rows, i, keys) == \A j \in 1..(i - 1) : rows[j].key # rows[i].key
Creates(rows, i, keys) ==
  /\ rows[i].key \notin keys
  /\ \A j \in 1..(i - 1) : rows[j].key # rows[i].key

\* A row that names one guardian twice attaches them once.
AttachedFrom(named, g) == IF g \in Range(named) THEN 1 ELSE 0
Imported(row) == [key |-> row.key, by |-> "import",
                  guardians |-> [g \in Guardians |-> AttachedFrom(row.guardians, g)]]
NewChildren(rows, keys) ==
  {[n \in DOMAIN o |-> Imported(rows[o[n]])] :
     o \in InOrder({i \in DOMAIN rows : Creates(rows, i, keys)})}

Holds(f, v) == form' = [form EXCEPT ![f] = v]
Runs(s, v) == server' = [server EXCEPT ![s] = v]
NewForm == [csv |-> NoFile, asked |-> NoFile, preview |-> NoPreview, waits |-> "no"]

\* A handler that has not begun its transaction runs none yet.
InTransaction == [s \in Servers |-> IF server[s].op = "commit" THEN Idle ELSE server[s]]

----------------------------------------------------------------------------
RosterInit ==
  /\ database \in Databases
  /\ children = <<>>
  /\ form = [f \in Forms |-> NewForm]
  /\ server = [s \in Servers |-> Idle]

\* addParticipant asks nothing about who is on the roster already.
AddParticipant ==
  /\ TransactionMayBegin(InTransaction)
  /\ Len(children) < RosterBound
  /\ \E k \in Keys :
       children' = Append(children, [key |-> k, by |-> "add",
                                     guardians |-> [g \in Guardians |-> 0]])
  /\ UNCHANGED <<database, form, server>>

\* attachGuardian: hasDuplicateActiveGuardian found no edge.
CheckGuardian(s) ==
  /\ server[s] = Idle
  /\ TransactionMayBegin(InTransaction)
  /\ \E i \in DOMAIN children, g \in Guardians :
       /\ children[i].guardians[g] = 0
       /\ Runs(s, [op |-> "attach", child |-> i, guardian |-> g])
  /\ UNCHANGED <<database, children, form>>

AttachGuardianEdge(s) ==
  /\ server[s].op = "attach"
  /\ children' = [children EXCEPT ![server[s].child].guardians[server[s].guardian] = @ + 1]
  /\ Runs(s, Idle)
  /\ UNCHANGED <<database, form>>

\* The form: another file, or another text, empties the preview.  The fields
\* are disabled while a request is pending, but the text of a file chosen
\* before may still arrive.
ChangeCsv(f) ==
  /\ \E file \in Files :
       Holds(f, [form[f] EXCEPT !.csv = file, !.preview = NoPreview])
  /\ UNCHANGED <<database, children, server>>

\* An empty text is not sent.
RunPreview(f) ==
  /\ form[f].waits = "no" /\ form[f].csv # NoFile
  /\ Holds(f, [form[f] EXCEPT !.waits = "preview", !.asked = form[f].csv])
  /\ UNCHANGED <<database, children, server>>

\* previewRosterImport reads the roster outside any transaction; whatever the
\* text area holds by now, the preview is of the file that was asked about.
AnswerPreview(f) ==
  /\ form[f].waits = "preview"
  /\ Holds(f, [form[f] EXCEPT !.waits = "no",
                              !.preview = [file |-> form[f].asked,
                                           verdicts |-> RowVerdicts(form[f].asked, SeasonKeys)]])
  /\ UNCHANGED <<database, children, server>>

\* A refused or lost preview leaves none.
LosePreview(f) ==
  /\ form[f].waits = "preview"
  /\ Holds(f, [form[f] EXCEPT !.waits = "no", !.preview = NoPreview])
  /\ UNCHANGED <<database, children, server>>

Confirm(f, s) ==
  /\ form[f].waits = "no" /\ form[f].preview # NoPreview
  /\ server[s] = Idle
  /\ \E rows \in Committable(form[f].preview.file, form[f].preview.verdicts) :
       /\ rows # <<>>
       /\ Runs(s, [op |-> "commit", rows |-> rows, by |-> f])
  /\ Holds(f, [form[f] EXCEPT !.waits = "commit"])
  /\ UNCHANGED <<database, children>>

\* commitRosterImport's transaction reads the roster.
ReadRoster(s) ==
  /\ server[s].op = "commit"
  /\ TransactionMayBegin(InTransaction)
  /\ Runs(s, [op |-> "create", rows |-> server[s].rows, by |-> server[s].by, keys |-> SeasonKeys])
  /\ UNCHANGED <<database, children, form>>

\* It creates the children and answers a form that still waits.
CreateRows(s) ==
  /\ server[s].op = "create"
  /\ \E new \in NewChildren(server[s].rows, server[s].keys) :
       /\ Len(children) + Len(new) <= RosterBound
       /\ children' = children \o new
  /\ Runs(s, Idle)
  /\ IF form[server[s].by].waits = "commit"
       THEN Holds(server[s].by, NewForm)
       ELSE UNCHANGED form
  /\ UNCHANGED database

\* The answer is lost: the form may confirm again while the handler still runs.
LoseAnswer(f) ==
  /\ form[f].waits = "commit"
  /\ Holds(f, [form[f] EXCEPT !.waits = "no"])
  /\ UNCHANGED <<database, children, server>>

FailCommit(s) ==
  /\ server[s].op \in {"commit", "create", "attach"}
  /\ Runs(s, Idle)
  /\ form' = [f \in Forms |->
                IF server[s].op # "attach" /\ server[s].by = f /\ form[f].waits = "commit"
                  THEN [form[f] EXCEPT !.waits = "no"] ELSE form[f]]
  /\ UNCHANGED <<database, children>>

RosterNext ==
  \/ AddParticipant
  \/ \E f \in Forms :
       \/ ChangeCsv(f)
       \/ RunPreview(f)
       \/ AnswerPreview(f)
       \/ LosePreview(f)
       \/ \E s \in Servers : Confirm(f, s)
       \/ LoseAnswer(f)
  \/ \E s \in Servers :
       \/ CheckGuardian(s)
       \/ AttachGuardianEdge(s)
       \/ ReadRoster(s)
       \/ CreateRows(s)
       \/ FailCommit(s)

RosterSpec == RosterInit /\ [][RosterNext]_rosterVars

----------------------------------------------------------------------------
Child == [key : Keys, by : {"add", "import"}, guardians : [Guardians -> Nat]]
Previews == [file : Files, verdicts : Seq(Verdicts)]
ImportForm == [csv : Files \cup {NoFile}, asked : Files \cup {NoFile},
               preview : Previews \cup {NoPreview}, waits : {"no", "preview", "commit"}]
RosterHandlers ==
  {Idle}
    \cup [op : {"attach"}, child : Nat, guardian : Guardians]
    \cup [op : {"commit"}, rows : Seq(FileRow), by : Forms]
    \cup [op : {"create"}, rows : Seq(FileRow), by : Forms, keys : SUBSET Keys]

RosterTypeOK ==
  /\ database \in Databases
  /\ children \in Seq(Child) /\ Len(children) <= RosterBound
  /\ form \in [Forms -> ImportForm]
  /\ server \in [Servers -> RosterHandlers]

\* However often a file is previewed and committed, from whichever forms, and
\* whichever answers are lost, an import never creates a second child of one
\* identity, beside an imported one or one that was added by hand.
ChildrenAreImportedOnce ==
  database = "sqlite" =>
    \A i \in DOMAIN children : children[i].by = "import" =>
      \A j \in 1..(i - 1) : children[j].key # children[i].key

\* Nor does any path attach one guardian twice to one child.
GuardiansAreAttachedOnce ==
  database = "sqlite" =>
    \A i \in DOMAIN children, g \in Guardians : children[i].guardians[g] <= 1

\* Both: an import repeats neither a child nor an edge.
ImportsNeverDuplicate == ChildrenAreImportedOnce /\ GuardiansAreAttachedOnce
=============================================================================
