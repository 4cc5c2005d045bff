-------------------------- MODULE StagingPreflight --------------------------
(***************************************************************************)
(* The gate before a staging deployment is accepted                        *)
(* (scripts/runtime/aws-staging-preflight.ts and probe-remote.ts).  It      *)
(* reads the cloud's descriptions and asks the site itself, and its answers *)
(* come from whichever instance the load balancer picks.  A cloud is taken  *)
(* as it is for the whole preflight.                                        *)
(***************************************************************************)
EXTENDS Integers, FiniteSets

CONSTANTS
  Clouds,      \* what may stand in the account (see the fields below)
  Request      \* the kinds of request a rule of a listener may tell apart

\* Descriptions are finite lists, and a snapshot's age is in whole hours.
ASSUME CloudsOK ==
  \A c \in Clouds :
    /\ c.snapshot \in Int /\ IsFiniteSet(c.listeners)
    /\ \A l \in c.listeners : IsFiniteSet(l.rules) /\ \A r \in l.rules : IsFiniteSet(r.forward)
    /\ c.serves["api-instance"] \in
         [release : {"target", "previous"}, ready : BOOLEAN, devSignIn : BOOLEAN]

VARIABLES
  cloud,       \* the cloud
  preflight    \* [step, checks, group, result]

preflightVars == <<cloud, preflight>>

(***************************************************************************)
(* A cloud: `names' are the identifiers that match the target file's;       *)
(* `origin' and `balancer' the addresses the hostname and the load balancer *)
(* resolve to; `listeners' [port, secure, rules], a rule [matches, forward] *)
(* with matches = "default" or a request and forward a set of               *)
(* [group, weight]; `targets' group -> instances; `serves' instance ->      *)
(* [release, ready, devSignIn]; `attached' and `ingress' the security       *)
(* groups of the API and the database and who may connect, by group;        *)
(* `snapshot' the age of the snapshot in hours, negative in the future.     *)
(***************************************************************************)

Names == {"account", "vpc", "api running", "load balancer active", "database private",
          "manual encrypted snapshot"}
TargetPort == [api |-> 3000, database |-> 5432]
TargetGroup == [api |-> "api-sg", database |-> "db-sg"]   \* security groups of the target
MaySend == [api |-> "lb-sg", database |-> "api-sg"]

----------------------------------------------------------------------------
\* Who answers a request to the hostname: an address that is not the load
\* balancer's leads elsewhere; a rule for the request goes before the default.
Forwards(listener, request) ==
  LET special == {r \in listener.rules : r.matches = request}
      rules == IF special # {} THEN special ELSE {r \in listener.rules : r.matches = "default"}
  IN UNION {{f.group : f \in {x \in r.forward : x.weight > 0}} : r \in rules}

Answering(c, request) ==
  (IF c.origin \subseteq c.balancer THEN {} ELSE {"elsewhere"})
    \cup (IF c.origin \cap c.balancer = {} THEN {}
          ELSE UNION {UNION {c.targets[g] : g \in Forwards(l, request)} :
                        l \in {x \in c.listeners : x.port = 443 /\ x.secure}})

Begins ==
  preflight = [step |-> "describe", checks |-> {}, group |-> {}, result |-> "none"]

PreflightInit == cloud \in Clouds /\ Begins

After(from, to, checks) ==
  /\ preflight.step = from
  /\ preflight' = [preflight EXCEPT !.step = to, !.checks = @ \cup checks]
  /\ UNCHANGED cloud

Passed(id, holds) == IF holds THEN {id} ELSE {}

\* tcpIngressIsRestricted, and that the instance has this group alone.
IngressIsRestricted(what) ==
  /\ cloud.attached[what] = {TargetGroup[what]}
  /\ cloud.ingress[TargetGroup[what]] = {[port |-> TargetPort[what], from |-> MaySend[what]]}

SnapshotIsFresh == cloud.snapshot >= 0 /\ cloud.snapshot <= 24

Describe ==
  After("describe", "probe",
    Passed("awsTopologyVerified",
           /\ Names \ {"manual encrypted snapshot"} \subseteq cloud.names
           /\ IngressIsRestricted("api") /\ IngressIsRestricted("database"))
    \cup Passed("preDeploySnapshotVerified",
                "manual encrypted snapshot" \in cloud.names /\ SnapshotIsFresh)
    \cup Passed("originBindingVerified",
                cloud.origin # {} /\ cloud.origin \subseteq cloud.balancer))

\* Health and readiness answered, development sign-in absent: one request each.
ProbeRemote ==
  \E health, ready \in Answering(cloud, "health"), dev \in Answering(cloud, "app") :
    After("probe", "listeners",
      Passed("preliminarySurfaceVerified",
             cloud.serves[health].ready /\ cloud.serves[ready].ready /\ ~cloud.serves[dev].devSignIn))

\* A probe nobody answers raises, and the gate ends without a receipt.
ProbeFails ==
  /\ preflight.step = "probe"
  /\ Answering(cloud, "health") = {} \/ Answering(cloud, "app") = {}
  /\ preflight' = [preflight EXCEPT !.step = "ended", !.result = "failed"]
  /\ UNCHANGED cloud

\* forwardedTarget: one action that forwards to one group of positive weight.
ForwardedTarget(rule) ==
  {f.group : f \in {x \in rule.forward : x.weight > 0 /\ Cardinality(rule.forward) = 1}}

DefaultRules(listener) == {r \in listener.rules : r.matches = "default"}

DescribeListeners ==
  /\ preflight.step = "listeners"
  /\ LET listener == CHOOSE l \in cloud.listeners : TRUE
         group == IF Cardinality(cloud.listeners) # 1 \/ listener.port # 443 \/ ~listener.secure
                  THEN {}
                  ELSE UNION {ForwardedTarget(r) : r \in DefaultRules(listener)}
     IN preflight' = [preflight EXCEPT !.step = "route", !.group = group]
  /\ UNCHANGED cloud

\* Rules, target group and targets: one of each, the default rule and the
\* instance of the target file.
IsSoleRule(rules) == Cardinality(rules) = 1 /\ \A r \in rules : r.matches = "default"

VerifyRoute ==
  After("route", "release",
    Passed("routeVerified",
      /\ preflight.group # {}
      /\ \A l \in cloud.listeners : IsSoleRule(l.rules)
      /\ \A g \in preflight.group : cloud.targets[g] = {"api-instance"}
      /\ cloud.serves["api-instance"].ready))

\* Nobody answering counts as another release.
VerifyRelease ==
  \/ \E i \in Answering(cloud, "app") :
       After("release", "verdict", Passed("releaseVerified", cloud.serves[i].release = "target"))
  \/ Answering(cloud, "app") = {} /\ After("release", "verdict", {})

Conclude ==
  /\ preflight.step = "verdict"
  /\ preflight' = [preflight EXCEPT !.step = "ended", !.result =
       IF {"awsTopologyVerified", "preDeploySnapshotVerified", "originBindingVerified",
           "preliminarySurfaceVerified", "routeVerified", "releaseVerified"} \subseteq preflight.checks
       THEN "passed" ELSE "failed"]
  /\ UNCHANGED cloud

PreflightNext ==
  Describe \/ ProbeRemote \/ ProbeFails \/ DescribeListeners \/ VerifyRoute \/ VerifyRelease
    \/ Conclude

PreflightSpec == PreflightInit /\ [][PreflightNext]_preflightVars

----------------------------------------------------------------------------
\* aws-staging-preflight.ts: when the gate passes, every request to the hostname
\* -- not just the ones it sent -- is answered by the expected instance running
\* the expected release without development sign-in, only the load balancer may
\* connect to that instance and only the instance to the database, whose snapshot
\* is at most a day old.
PassedMeansServed ==
  preflight.result = "passed" =>
    /\ \A r \in Request : Answering(cloud, r) = {"api-instance"}
    /\ cloud.serves["api-instance"] = [release |-> "target", ready |-> TRUE, devSignIn |-> FALSE]
    /\ \A what \in DOMAIN TargetPort :
         {x.from : x \in UNION {cloud.ingress[g] : g \in cloud.attached[what]}} = {MaySend[what]}
    /\ cloud.snapshot \in 0 .. 24
=============================================================================
