----------------------------- MODULE EventDrafts -----------------------------
(***************************************************************************)
(* The two forms that create an event: the iOS sheet (CreateEventFormModel) *)
(* and the web island (event-form.tsx).  Each remembers the draft it sent   *)
(* last and the request id it sent it under, and sends an unchanged draft   *)
(* under the same id.  The server (EventCreation) makes one event of each   *)
(* id, refuses an id that comes with another draft, and its answer may be   *)
(* lost after it committed.                                                 *)
(***************************************************************************)
EXTENDS Naturals, Sequences

CONSTANTS
  Drafts,
  NoDraft,
  MaxSubmits     \* bound on what one form sends

VARIABLES
  draft,         \* what the fields hold
  lastAttempt,   \* the draft sent last and its request id
  saving,        \* the id under way, 0 if the form may be sent
  submitted,     \* the drafts sent, in order
  inFlight,      \* requests the server may still receive, twice too
  created        \* the server's events, each the request it was made of

draftVars == <<draft, lastAttempt, saving, submitted, inFlight, created>>

NoAttemptYet == [draft |-> NoDraft, id |-> 0]

----------------------------------------------------------------------------
EditDraft ==
  /\ saving = 0 /\ \E d \in Drafts \ {draft} : draft' = d
  /\ UNCHANGED <<lastAttempt, saving, submitted, inFlight, created>>

RequestIdBug(id) == id
RequestId(id) == IF lastAttempt.draft = draft THEN lastAttempt.id ELSE id

SubmitDraft ==
  LET n == Len(submitted) + 1
      id == RequestId(n)
  IN /\ saving = 0 /\ n <= MaxSubmits
     /\ submitted' = Append(submitted, draft)
     /\ lastAttempt' = [draft |-> draft, id |-> id] /\ saving' = id
     /\ inFlight' = inFlight \cup {[n |-> n, id |-> id, draft |-> draft]}
     /\ UNCHANGED <<draft, created>>

\* createEvent's transaction: the receipt of an id is looked up first.
ServeDraft(r) ==
  /\ created' = IF \E e \in created : e.id = r.id THEN created ELSE created \cup {r}
  /\ UNCHANGED <<draft, lastAttempt, saving, submitted, inFlight>>

\* The form stops waiting: an answer, a failure, or no answer although the
\* request may still reach the server.  After an answer the form is left, but
\* may be sent again until it is gone.
StopWaiting ==
  /\ saving # 0 /\ saving' = 0
  /\ UNCHANGED <<draft, lastAttempt, submitted, inFlight, created>>

DraftsInit ==
  /\ draft \in Drafts
  /\ lastAttempt = NoAttemptYet /\ saving = 0
  /\ submitted = <<>> /\ inFlight = {} /\ created = {}

DraftsNext ==
  \/ EditDraft
  \/ SubmitDraft
  \/ StopWaiting
  \/ \E r \in inFlight : ServeDraft(r)

DraftsSpec == DraftsInit /\ [][DraftsNext]_draftVars

----------------------------------------------------------------------------
\* Two sends are of one attempt when no other draft was sent between them,
\* whatever the fields held meanwhile.
OneAttempt(q, r) == q.n <= r.n /\ \A k \in q.n .. r.n : submitted[k] = q.draft

\* However often a form sends a draft before it sends another, through edits that
\* are undone and answers that are lost, it makes one event of it; and the id of
\* an event is not spent on another draft, which the server would refuse.  A form
\* remembers its last attempt only: a draft sent again after another one was sent
\* is a new event.
OneEventPerDraft ==
  /\ \A e, f \in created : OneAttempt(e, f) => e = f
  /\ \A e \in created, r \in inFlight : e.id = r.id => e.draft = r.draft
=============================================================================
