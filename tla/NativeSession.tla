---------------------------- MODULE NativeSession ----------------------------
(***************************************************************************)
(* The signed-in adult of the iOS app (SnackdayApplicationController), its  *)
(* HTTP client (SnackdayAPIClient) and the stored session cookie            *)
(* (SessionCookieCoordinator).                                              *)
(*                                                                          *)
(* Every call of the controller replaces the load before it: calls are      *)
(* numbered by `generation`, a call's task is `current` while no later call *)
(* was made and nobody cancelled it, and a task looks at that again after   *)
(* each await.  A replaced task still runs to its next such look: its       *)
(* request may be under way, and the cookie actor still serves it.  The     *)
(* actor guards the cookie with an epoch that sign-in and sign-out advance. *)
(*                                                                          *)
(* A task is at "start" (created, its body not run), "send" (before it      *)
(* fetches its credential), "clear" (sign-out, before it removes the        *)
(* cookie), "wait" (its request is under way), "back" (answered, the main   *)
(* actor not resumed), "stored" (the selection store served it) or "over".  *)
(* The store's effect happens where it is awaited: actors serve in order.   *)
(***************************************************************************)
EXTENDS Naturals, Sequences

CONSTANTS Adults, Teams, Seasonless,  \* Seasonless: teams without an active season
          Listings,                   \* the team lists the server may answer
          Nobody, NoTeam, NoCookie,
          MaxCalls                    \* bound on the controller's calls

ASSUME SessionAssumption ==
  /\ Seasonless \subseteq Teams /\ Listings \subseteq SUBSET Teams
  /\ Nobody \notin Adults /\ NoTeam \notin Teams /\ MaxCalls \in Nat
  /\ Adults # {} /\ NoCookie \notin [who : Adults, by : 0 .. MaxCalls]

VARIABLES shown,      \* the published state: its kind, adult and selected team
          identity, directory,
          tasks,      \* one per generation; Len(tasks) is `generation`
          saved,      \* the selection store
          cookie,     \* the keychain's session, or NoCookie
          epoch,      \* the cookie coordinator's
          live        \* the sessions the server accepts

sessionVars == <<shown, identity, directory, tasks, saved, cookie, epoch, live>>

NoDirectory == [teams |-> {}, chosen |-> NoTeam]
Screen(kind, who, team) == [kind |-> kind, who |-> who, team |-> team]
\* A session: whose it is and the call that signed in (0: an earlier launch).
Session(who, g) == [who |-> who, by |-> g]

IsCurrentBug(g) == TRUE
IsCurrent(g) == g = Len(tasks) /\ ~tasks[g].cancelled

\* The first team of a list that has an active season.
DefaultSelection(list) ==
  IF list \subseteq Seasonless THEN NoTeam ELSE CHOOSE t \in list \ Seasonless : TRUE
\* valid(saved) ?? defaultSelection
Preferred(old, list) ==
  IF old \in list \ Seasonless THEN old ELSE DefaultSelection(list)

----------------------------------------------------------------------------
(* The cookie coordinator: what remains stored after a guarded call.        *)

PersistedBug(session, at) == session
Persisted(session, at) == IF at = epoch THEN session ELSE cookie

\* clear(for:requestEpoch:); the keychain may fail after the epoch moved.
Clear(at) ==
  IF at = epoch THEN epoch' = epoch + 1 /\ cookie' \in {NoCookie, cookie}
                ELSE UNCHANGED <<epoch, cookie>>

----------------------------------------------------------------------------
(* The controller's calls.                                                  *)

\* cancelActiveLoad: the task before, if a task, is cancelled.  A challenge
\* is requested by its caller's own task.
Replaced == [g \in DOMAIN tasks |->
               IF g = Len(tasks) /\ tasks[g].op # "challenge"
               THEN [tasks[g] EXCEPT !.cancelled = TRUE] ELSE tasks[g]]

NewTask(op, who, team, teams, at) ==
  [op |-> op, at |-> at, call |-> "none", who |-> who, team |-> team, teams |-> teams,
   epoch |-> 0, sent |-> NoCookie, reply |-> "none", cancelled |-> FALSE]

Call(op, who, team) ==
  /\ Len(tasks) < MaxCalls
  /\ tasks' = Append(Replaced, NewTask(op, who, team, directory.teams, "start"))
  /\ UNCHANGED <<shown, identity, directory, saved, cookie, epoch, live>>

Restore == Call("restore", Nobody, NoTeam)
Retry == Call(IF identity = Nobody THEN "restore" ELSE "retry", identity, NoTeam)
SelectTeam == \E t \in directory.teams : identity # Nobody /\ Call("select", identity, t)
SignOut == Call("signOut", Nobody, NoTeam)

\* The user signs in with Apple's answer to a challenge the app obtained.
CompleteAppleSignIn ==
  \E p \in Adults :
    /\ \E g \in DOMAIN tasks : tasks[g].op = "challenge" /\ tasks[g].reply = "ok"
    /\ Call("signIn", p, NoTeam)

\* selectSeason reloads the selected team; each team has one active season.
SelectSeason ==
  /\ identity # Nobody /\ directory.chosen # NoTeam
  /\ Call("select", identity, directory.chosen)

BeginAppleSignIn ==
  /\ Len(tasks) < MaxCalls
  /\ tasks' = Append(Replaced, [NewTask("challenge", Nobody, NoTeam, {}, "send")
                                EXCEPT !.call = "challenge"])
  /\ identity' = Nobody /\ directory' = NoDirectory
  /\ shown' = Screen("signedOut", Nobody, NoTeam)
  /\ UNCHANGED <<saved, cookie, epoch, live>>

\* The view that awaits a restoration or a challenge disappears.
CancelCaller ==
  \E g \in DOMAIN tasks :
    /\ tasks[g].op \in {"restore", "challenge"} /\ tasks[g].at # "over" /\ ~tasks[g].cancelled
    /\ tasks' = [tasks EXCEPT ![g].cancelled = TRUE]
    /\ UNCHANGED <<shown, identity, directory, saved, cookie, epoch, live>>

----------------------------------------------------------------------------
(* Pieces of the tasks' bodies on the main actor.                           *)

TaskGoes(g, at, call) == tasks' = [tasks EXCEPT ![g].at = at, ![g].call = call]
\* A task that returns without a word; what it held is gone with it.
Over(g) ==
  /\ tasks' = [tasks EXCEPT ![g] = [NewTask(tasks[g].op, Nobody, NoTeam, {}, "over")
                                     EXCEPT !.reply = tasks[g].reply, !.cancelled = tasks[g].cancelled]]
  /\ UNCHANGED <<shown, identity, directory, saved>>
Shows(g, screen) == shown' = screen /\ TaskGoes(g, "over", "none")

\* loadDirectory up to its request.
LoadDirectory(g, who) ==
  /\ identity' = who
  /\ shown' = Screen("loading", who, directory.chosen)
  /\ tasks' = [tasks EXCEPT ![g].at = "send", ![g].call = "teams", ![g].who = who]
  /\ UNCHANGED <<directory, saved>>

\* loadSelection up to its request.
LoadSelection(g, team, list) ==
  /\ directory' = [teams |-> list, chosen |-> team]
  /\ shown' = Screen("loading", tasks[g].who, team)
  /\ tasks' = [tasks EXCEPT ![g].at = "send", ![g].call = "roster", ![g].team = team]
  /\ UNCHANGED <<identity, saved>>

\* clearSelection, then the task continues at Stored.
ClearsSelection(g, who, call) ==
  /\ saved' = IF who \in Adults THEN [saved EXCEPT ![who] = NoTeam] ELSE saved
  /\ TaskGoes(g, "stored", call) /\ UNCHANGED <<shown, identity, directory>>

\* The tasks start in the order they were created.
Start(g) ==
  /\ tasks[g].at = "start" /\ \A h \in 1..(g - 1) : tasks[h].at # "start"
  /\ \/ /\ tasks[g].op = "restore" /\ TaskGoes(g, "send", "session")
        /\ UNCHANGED <<shown, identity, directory, saved>>
     \/ /\ tasks[g].op = "signIn" /\ TaskGoes(g, "send", "signIn")
        /\ shown' = Screen("authenticating", Nobody, NoTeam)
        /\ UNCHANGED <<identity, directory, saved>>
     \/ /\ tasks[g].op = "signOut"
        /\ identity' = Nobody /\ directory' = NoDirectory
        /\ shown' = Screen("signingOut", Nobody, NoTeam)
        /\ saved' = IF identity = Nobody THEN saved ELSE [saved EXCEPT ![identity] = NoTeam]
        /\ TaskGoes(g, "stored", "signOut")
     \/ /\ tasks[g].op = "retry" /\ IsCurrent(g)
        /\ shown' = Screen("loading", tasks[g].who, directory.chosen)
        /\ TaskGoes(g, "send", "teams")
        /\ UNCHANGED <<identity, directory, saved>>
     \/ /\ tasks[g].op = "select" /\ tasks[g].team \in Seasonless
        /\ ClearsSelection(g, tasks[g].who, "emptySeasons")
     \/ /\ tasks[g].op = "select" /\ tasks[g].team \notin Seasonless /\ IsCurrent(g)
        /\ LoadSelection(g, tasks[g].team, tasks[g].teams)
     \/ /\ tasks[g].op \in {"retry", "select"} /\ tasks[g].team \notin Seasonless
        /\ ~IsCurrent(g) /\ Over(g)
  /\ UNCHANGED <<cookie, epoch, live>>

\* Back on the main actor after the selection store.
Stored(g) ==
  /\ tasks[g].at = "stored"
  /\ \/ ~IsCurrent(g) /\ Over(g)
     \/ /\ IsCurrent(g) /\ tasks[g].call = "signOut" /\ TaskGoes(g, "send", "signOut")
        /\ UNCHANGED <<shown, identity, directory, saved>>
     \/ /\ IsCurrent(g) /\ tasks[g].call = "emptyTeams"
        /\ directory' = NoDirectory
        /\ Shows(g, Screen("emptyTeams", tasks[g].who, NoTeam))
        /\ UNCHANGED <<identity, saved>>
     \/ /\ IsCurrent(g) /\ tasks[g].call = "emptySeasons"
        /\ directory' = [teams |-> tasks[g].teams, chosen |-> NoTeam]
        /\ Shows(g, Screen("emptySeasons", tasks[g].who, NoTeam))
        /\ UNCHANGED <<identity, saved>>
     \/ /\ IsCurrent(g) /\ tasks[g].call = "choose"
        /\ LET team == Preferred(tasks[g].team, tasks[g].teams)
           IN IF team = NoTeam THEN ClearsSelection(g, tasks[g].who, "emptySeasons")
                               ELSE LoadSelection(g, team, tasks[g].teams)
     \/ /\ IsCurrent(g) /\ tasks[g].call = "ready"
        /\ Shows(g, Screen("ready", tasks[g].who, tasks[g].team))
        /\ UNCHANGED <<identity, directory, saved>>
     \/ /\ IsCurrent(g) /\ tasks[g].call = "signedOut"
        /\ identity' = Nobody /\ directory' = NoDirectory
        /\ Shows(g, Screen("signedOut", Nobody, NoTeam)) /\ UNCHANGED saved
  /\ UNCHANGED <<cookie, epoch, live>>

\* An answer on the main actor, the task still current.
Answered(g) ==
  \/ /\ tasks[g].call \in {"session", "signIn"} /\ tasks[g].reply = "ok"
     /\ LoadDirectory(g, tasks[g].who)
  \/ /\ tasks[g].call = "teams" /\ tasks[g].reply = "ok" /\ tasks[g].teams = {}
     /\ ClearsSelection(g, tasks[g].who, "emptyTeams")
  \/ /\ tasks[g].call = "teams" /\ tasks[g].reply = "ok" /\ tasks[g].teams # {}
     /\ tasks' = [tasks EXCEPT ![g].at = "stored", ![g].call = "choose",
                               ![g].team = saved[tasks[g].who]]
     /\ UNCHANGED <<shown, identity, directory, saved>>
  \/ /\ tasks[g].call = "roster" /\ tasks[g].reply = "ok"
     /\ saved' = [saved EXCEPT ![tasks[g].who] = tasks[g].team]
     /\ TaskGoes(g, "stored", "ready") /\ UNCHANGED <<shown, identity, directory>>
  \/ /\ tasks[g].call = "signOut" /\ tasks[g].reply = "ok"
     /\ Shows(g, Screen("signedOut", Nobody, NoTeam))
     /\ UNCHANGED <<identity, directory, saved>>
  \/ /\ tasks[g].call = "challenge" /\ tasks[g].reply = "ok" /\ Over(g)
  \/ \* an error of sign-in or sign-out
     /\ tasks[g].call \in {"signIn", "signOut"}
     /\ tasks[g].reply \in {"failed", "unauthorized"}
     /\ identity' = Nobody /\ directory' = NoDirectory
     /\ Shows(g, Screen("failed", Nobody, NoTeam)) /\ UNCHANGED saved
  \/ \* handle(_:generation:), unauthorized
     /\ tasks[g].call \notin {"signIn", "signOut"} /\ tasks[g].reply = "unauthorized"
     /\ ClearsSelection(g, identity, "signedOut")
  \/ \* handle(_:generation:), any other error
     /\ tasks[g].call \notin {"signIn", "signOut"} /\ tasks[g].reply = "failed"
     /\ Shows(g, Screen("failed", identity, directory.chosen))
     /\ UNCHANGED <<identity, directory, saved>>

ResumeTask(g) ==
  /\ tasks[g].at = "back"
  /\ \/ IsCurrent(g) /\ Answered(g)
     \/ ~IsCurrent(g) /\ Over(g)
  /\ UNCHANGED <<cookie, epoch, live>>

----------------------------------------------------------------------------
(* The HTTP client, its cookie actor and the server.                        *)

\* A request leaves, unless its task is cancelled already.
Leaves(g) == IF tasks[g].cancelled THEN "back" ELSE "wait"

\* perform up to the request, with the credential it carries: sign-in and
\* sign-out fetch it with beginAuthentication, which advances the epoch.
Send(g) ==
  /\ tasks[g].at = "send"
  /\ epoch' = IF tasks[g].call \in {"signIn", "signOut"} THEN epoch + 1 ELSE epoch
  /\ tasks' = [tasks EXCEPT ![g].at = IF tasks[g].call = "signOut" THEN "clear" ELSE Leaves(g),
                            ![g].epoch = epoch', ![g].sent = cookie]
  /\ UNCHANGED <<shown, identity, directory, saved, cookie, live>>

\* signOut removes the local credential before it asks the server.
ClearLocally(g) ==
  /\ tasks[g].at = "clear" /\ Clear(tasks[g].epoch)
  /\ tasks' = [tasks EXCEPT ![g].at = Leaves(g),
                            ![g].reply = IF epoch' # epoch /\ cookie' # NoCookie THEN "kept" ELSE "none"]
  /\ UNCHANGED <<shown, identity, directory, saved, live>>

TaskReply(g, reply, who, list) ==
  tasks' = [tasks EXCEPT ![g].at = "back", ![g].reply = reply, ![g].who = who,
                         ![g].teams = list]

\* A 2xx answer is handled up to its decoding: a sign-in's cookie is kept, a
\* sign-out's is cleared once more.
Succeeds(g) ==
  \/ /\ tasks[g].call = "signIn"
     /\ LET new == Session(tasks[g].who, g)
        IN live' = live \cup {new} /\ cookie' = Persisted(new, tasks[g].epoch)
     /\ TaskReply(g, "ok", tasks[g].who, tasks[g].teams) /\ UNCHANGED epoch
  \/ /\ tasks[g].call = "signOut"
     /\ live' = live \ {tasks[g].sent} /\ Clear(tasks[g].epoch)
     /\ TaskReply(g, IF tasks[g].reply = "kept" THEN "failed" ELSE "ok", tasks[g].who, tasks[g].teams)
  \/ /\ tasks[g].call = "challenge" /\ TaskReply(g, "ok", tasks[g].who, {})
     /\ UNCHANGED <<live, cookie, epoch>>
  \/ /\ tasks[g].call \in {"session", "teams", "roster"} /\ tasks[g].sent \in live
     /\ \E list \in IF tasks[g].call = "teams" THEN Listings ELSE {tasks[g].teams} :
          TaskReply(g, "ok", IF tasks[g].call = "session" THEN tasks[g].sent.who
                                                      ELSE tasks[g].who, list)
     /\ UNCHANGED <<live, cookie, epoch>>

\* A 401 clears the credential it rejected.
Rejected(g) ==
  /\ \/ tasks[g].call = "signIn"   \* the server refuses Apple's token
     \/ tasks[g].call \in {"session", "teams", "roster"} /\ tasks[g].sent \notin live
  /\ Clear(tasks[g].epoch) /\ UNCHANGED live
  /\ TaskReply(g, "unauthorized", tasks[g].who, tasks[g].teams)

\* No answer: the server may or may not have acted.
Fails(g) ==
  /\ live' = live \/ (tasks[g].call = "signOut" /\ live' = live \ {tasks[g].sent})
  /\ TaskReply(g, "failed", tasks[g].who, tasks[g].teams) /\ UNCHANGED <<cookie, epoch>>

\* URLSession throws for a cancelled task, whatever the server did.
CallCancelled(g) ==
  /\ tasks[g].cancelled
  /\ live' = live \/ (tasks[g].call = "signOut" /\ live' = live \ {tasks[g].sent})
  /\ TaskReply(g, "cancelled", tasks[g].who, tasks[g].teams) /\ UNCHANGED <<cookie, epoch>>

Answer(g) ==
  /\ tasks[g].at = "wait" /\ (Succeeds(g) \/ Rejected(g) \/ Fails(g) \/ CallCancelled(g))
  /\ UNCHANGED <<shown, identity, directory, saved>>

\* The session ends on the server.
Expire ==
  /\ \E s \in live : live' = live \ {s}
  /\ UNCHANGED <<shown, identity, directory, tasks, saved, cookie, epoch>>

----------------------------------------------------------------------------
SessionInit ==
  /\ shown = Screen("launching", Nobody, NoTeam)
  /\ identity = Nobody /\ directory = NoDirectory /\ tasks = <<>>
  /\ saved = [p \in Adults |-> NoTeam]
  /\ cookie = Session(CHOOSE p \in Adults : TRUE, 0) /\ live = {cookie} /\ epoch = 0

SessionNext ==
  \/ Restore \/ Retry \/ SelectTeam \/ SelectSeason \/ SignOut
  \/ BeginAppleSignIn \/ CompleteAppleSignIn \/ CancelCaller \/ Expire
  \/ \E g \in DOMAIN tasks :
       Start(g) \/ Stored(g) \/ ResumeTask(g) \/ Send(g) \/ ClearLocally(g) \/ Answer(g)

SessionSpec == SessionInit /\ [][SessionNext]_sessionVars

----------------------------------------------------------------------------
\* When the newest call was a sign-out and it ended with the sign-in form,
\* no session the server still accepts is stored on the device: a late
\* answer of an older sign-in has not brought one back ("prevents a late
\* Set-Cookie from restoring a session that the user already revoked").
SignedOutMeansNoSession ==
  \A g \in DOMAIN tasks :
    (g = Len(tasks) /\ tasks[g].op = "signOut" /\ shown.kind = "signedOut" /\ tasks[g].at = "over")
      => cookie \notin live

\* What is shown as ready is what the newest call that could show it asked
\* for: its adult and its team, never a replaced call's.
ReadyIsTheNewestCalls ==
  shown.kind = "ready" =>
    /\ shown.team \in Teams
    /\ \A g \in DOMAIN tasks :
         (g = Len(tasks) /\ tasks[g].at = "over" /\ ~tasks[g].cancelled)
           => tasks[g].who = shown.who /\ tasks[g].team = shown.team
=============================================================================
