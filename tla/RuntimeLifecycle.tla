-------------------------- MODULE RuntimeLifecycle --------------------------
(***************************************************************************)
(* From systemd's start of the staging unit to its stop: boot.py verifies   *)
(* the installed release, gives up root and becomes the server, which opens *)
(* the database, starts the outbox worker, listens, drains and closes.      *)
(* Installing is done while the unit is stopped; the process can die at any *)
(* step and systemd starts it again.                                        *)
(***************************************************************************)
EXTENDS Integers, FiniteSets

CONSTANTS
  Hosts,            \* [expected, archive, commit, tree]: what is on the machine
  Paths,
  StartLimitBurst,  \* starts systemd makes before it gives up
  MaxRequests       \* bound: requests at once

VARIABLES
  host,
  unit,        \* [state, starts]
  boot,        \* how far the process has come
  privileges,  \* what it still has of root's
  server       \* [database, worker, listening, requests]

runtimeVars == <<host, unit, boot, privileges, server>>

Root == {"groups", "gid", "uid"}
NoServer == [database |-> "closed", worker |-> "none", listening |-> FALSE, requests |-> 0]

\* A digest stands for everything in an archive.
Digest(h) == <<h.archive, h.commit>>

----------------------------------------------------------------------------
\* verify_release.  Archive and tree map a path to [kind, data]; the data of a
\* link is where it leads.  Directories are not compared.

IsInstalled(h, p) ==
  CASE h.archive[p].kind = "file" -> h.tree[p] = h.archive[p]
    [] h.archive[p].kind = "link" -> h.tree[p] = h.archive[p] /\ h.tree[p].data # "outside"
    [] h.archive[p].kind = "directory" -> TRUE
    [] h.archive[p].kind = "absent" -> h.tree[p].kind = "absent"
    [] OTHER -> FALSE

IsVerified(h) ==
  /\ Digest(h) = h.expected.digest
  /\ h.commit = h.expected.commit
  /\ \A p \in Paths : IsInstalled(h, p)

----------------------------------------------------------------------------
IsOff ==
  /\ unit = [state |-> "inactive", starts |-> 0]
  /\ boot = "off" /\ privileges = {} /\ server = NoServer

RuntimeInit == host \in Hosts /\ IsOff

Install ==
  /\ unit.state \in {"inactive", "failed"}
  /\ host' \in Hosts
  /\ unit' = [state |-> "inactive", starts |-> 0]
  /\ UNCHANGED <<boot, privileges, server>>

\* systemd starts the launcher as root, at first or after a failure.
Launch ==
  /\ boot = "off"
  /\ unit.state \in {"inactive", "restarting"} /\ unit.starts < StartLimitBurst
  /\ unit' = [state |-> "active", starts |-> unit.starts + 1]
  /\ boot' = "launched" /\ privileges' = Root
  /\ UNCHANGED <<host, server>>

\* The process ends; Restart=on-failure.
Ends(failure) ==
  /\ boot' = "off" /\ privileges' = {} /\ server' = NoServer
  /\ unit' = [unit EXCEPT !.state =
       IF ~failure THEN "inactive"
       ELSE IF unit.starts < StartLimitBurst THEN "restarting" ELSE "failed"]
  /\ UNCHANGED host

\* Any step of the launcher may raise, the process may be killed, the server's
\* configuration may be invalid or its database out of reach: all end it.
Dies == boot # "off" /\ Ends(TRUE)

Proceed(from, to) ==
  /\ boot = from /\ boot' = to
  /\ UNCHANGED <<host, unit>>

Verify == Proceed("launched", "verified") /\ IsVerified(host) /\ UNCHANGED <<privileges, server>>

FetchSecrets == Proceed("verified", "configured") /\ UNCHANGED <<privileges, server>>

GiveUp(what, from, to) ==
  Proceed(from, to) /\ privileges' = privileges \ {what} /\ UNCHANGED server

DropPrivileges ==
  \/ GiveUp("groups", "configured", "groups dropped")
  \/ GiveUp("gid", "groups dropped", "gid dropped")
  \/ GiveUp("uid", "gid dropped", "uid dropped")

BecomeServer == Proceed("uid dropped", "starting") /\ UNCHANGED <<privileges, server>>

OpenDatabase ==
  /\ Proceed("starting", "composing")
  /\ server' = [server EXCEPT !.database = "open"] /\ UNCHANGED privileges

\* Identity tables, application, migrations; the outbox exists when the runtime
\* has a key for it.
Compose ==
  /\ Proceed("composing", "composed")
  /\ \E outbox \in BOOLEAN :
       server' = [server EXCEPT !.worker = IF outbox THEN "idle" ELSE "none"]
  /\ UNCHANGED privileges

Listen ==
  /\ Proceed("composed", "serving")
  /\ server' = [server EXCEPT !.listening = TRUE] /\ UNCHANGED privileges

\* Composing or listening fails: close what is open, then exit with an error.
StartFails ==
  /\ boot \in {"composing", "composed"}
  /\ boot' = "unwinding"
  /\ UNCHANGED <<host, unit, privileges, server>>

Works(next) ==
  /\ boot \in {"composed", "serving", "draining", "closing", "unwinding"}
  /\ server' = next
  /\ UNCHANGED <<host, unit, boot, privileges>>

AcceptRequest ==
  /\ server.listening /\ server.requests < MaxRequests
  /\ Works([server EXCEPT !.requests = @ + 1])

AnswerRequest == server.requests > 0 /\ Works([server EXCEPT !.requests = @ - 1])

\* The worker takes and finishes jobs until it is stopped, which waits for one.
WorkerSteps ==
  \/ server.worker = "idle" /\ Works([server EXCEPT !.worker = "busy"])
  \/ server.worker = "busy" /\ Works([server EXCEPT !.worker = "idle"])

\* SIGTERM: no new connections; closing waits for the requests under way or for
\* the deadline, which cuts them off.
Terminate ==
  /\ boot = "serving" /\ boot' = "draining"
  /\ server' = [server EXCEPT !.listening = FALSE]
  /\ UNCHANGED <<host, unit, privileges>>

Drained ==
  /\ boot = "draining" /\ boot' = "closing"
  /\ server' = [server EXCEPT !.requests = 0]
  /\ UNCHANGED <<host, unit, privileges>>

\* closeResources: the worker first, then the database.
MayCloseDatabase == server.worker \in {"none", "stopped"}

CloseResources ==
  /\ boot \in {"closing", "unwinding"}
  /\ \/ server.worker = "idle" /\ Works([server EXCEPT !.worker = "stopped"])
     \/ server.database = "open" /\ MayCloseDatabase /\ Works([server EXCEPT !.database = "closed"])

Exit ==
  /\ boot \in {"closing", "unwinding"} /\ server.database = "closed"
  /\ Ends(boot = "unwinding")

RuntimeNext ==
  \/ Install \/ Launch \/ Dies \/ Verify \/ FetchSecrets \/ DropPrivileges \/ BecomeServer
  \/ OpenDatabase \/ Compose \/ Listen \/ StartFails \/ AcceptRequest \/ AnswerRequest
  \/ WorkerSteps \/ Terminate \/ Drained \/ CloseResources \/ Exit

RuntimeSpec == RuntimeInit /\ [][RuntimeNext]_runtimeVars

----------------------------------------------------------------------------
\* boot.py: whatever was installed and however often the unit was restarted, the
\* server's files and links are exactly those of the archive whose digest was
\* configured -- but for the archive's directories, whose paths are not looked
\* at -- and it has nothing of root's.
RunsTheReleaseUnprivileged ==
  boot \notin {"off", "launched", "verified", "configured", "groups dropped",
               "gid dropped", "uid dropped"} =>
    LET released == host.expected.digest[1]
        code(tree) == {<<p, tree[p]>> : p \in {q \in Paths :
          tree[q].kind \in {"file", "link"} /\ released[q].kind # "directory"}}
    IN privileges = {} /\ code(host.tree) = code(released)

\* server.ts: nothing works on a database that is not open, in startup's failures
\* and in shutdown too, and an answered request was accepted before the drain.
WorkHasADatabase ==
  (server.requests > 0 \/ server.worker \in {"idle", "busy"}) => server.database = "open"
=============================================================================
