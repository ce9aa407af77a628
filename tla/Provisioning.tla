------------------------------ MODULE Provisioning ------------------------------
(***************************************************************************)
(* saas_infra: instances of the gateway as Railway projects. Operators run  *)
(* the command line tool or the demo's HTTP endpoints, each command in a    *)
(* process of its own; Railway's API and CLI, which are external, keep the  *)
(* only state. A call may be refused, or take effect and still report an    *)
(* error (the CLI times out after two minutes), and a process may die, or   *)
(* meet an exception that is not in its except clause, between any two      *)
(* calls.                                                                   *)
(***************************************************************************)
EXTENDS Naturals, Sequences

CONSTANTS
  Callers,      \* the commands that are run, each once
  Names,        \* the names of instances
  MaxProjects   \* bound on the projects

VARIABLES
  project,   \* Railway's projects, in the order they were created
  run        \* what each caller's process is doing

Ids == 1..MaxProjects
Services == {"postgres", "redis", "gateway"}
NoKeys == "none"

(* vars are the keys the gateway service is configured with, named for the  *)
(* create that made them; deployed are those its last deployment started    *)
(* with.                                                                    *)
Unborn == [state |-> "unborn", name |-> CHOOSE n \in Names : TRUE, tag |-> "none", services |-> {},
           vars |-> NoKeys, domain |-> FALSE, deployed |-> NoKeys]

(* The deployment is asked for before the variables are set.                *)
StepsDeployFirst(op) ==
  CASE op = "create"   -> <<"init", "describe", "postgres", "redis", "gateway", "deploy", "variables", "domain">>
    [] op = "schedule" -> <<"schedule">>
    [] op = "force"    -> <<"delete">>
    [] op = "cancel"   -> <<"untag">>
    [] op = "redeploy" -> <<"deploy">>
    [] OTHER           -> <<>>

(* The calls of a command that change state, in order.                      *)
Steps(op) ==
  CASE op = "create"   -> <<"init", "describe", "postgres", "redis", "gateway", "variables", "domain", "deploy">>
    [] op = "schedule" -> <<"schedule">>
    [] op = "force"    -> <<"delete">>
    [] op = "cancel"   -> <<"untag">>
    [] op = "redeploy" -> <<"deploy">>
    [] OTHER           -> <<>>
Ops == {"create", "schedule", "force", "cancel", "redeploy"}

(* at: the call to make next, or 0 while the command looks its instance up. *)
Idle == [op |-> "idle", name |-> CHOOSE n \in Names : TRUE, at |-> 0, id |-> 0, alone |-> TRUE, end |-> "none"]
PrInit == project = [i \in Ids |-> Unborn] /\ run = [c \in Callers |-> Idle]

Live == {i \in Ids : project[i].state = "live"}
(* find_project_by_name: Railway lets two projects share a name.            *)
Named(n) == {i \in Live : project[i].name = n}
(* The status that list, status and delete go by.                           *)
Status(i) == IF project[i].tag = "scheduled" THEN "deletion_scheduled" ELSE "running"
Busy(c) == run[c].op # "idle" /\ run[c].end = "none"
Step(c) == Steps(run[c].op)[run[c].at]

(* A create is alone when no other create of its name overlaps with it.     *)
Start(c, op, n) ==
  /\ run[c].op = "idle"
  /\ LET rivals == {d \in Callers : Busy(d) /\ run[d].op = "create" /\ run[d].name = n}
     IN  run' = [d \in Callers |->
           IF d = c THEN [Idle EXCEPT !.op = op, !.name = n, !.alone = op # "create" \/ rivals = {}]
           ELSE IF d \in rivals /\ op = "create" THEN [run[d] EXCEPT !.alone = FALSE] ELSE run[d]]
  /\ UNCHANGED project

(* The checks of a command before its first change, and what it then works  *)
(* on: a create refuses a name that is taken; the others need the instance  *)
(* and look it up by name.                                                  *)
Allowed(c, i) ==
  CASE run[c].op = "cancel"   -> Status(i) = "deletion_scheduled"
    [] run[c].op = "redeploy" -> "gateway" \in project[i].services
    [] OTHER                  -> TRUE
Look(c) ==
  /\ Busy(c) /\ run[c].at = 0
  /\ LET found == Named(run[c].name)
     IN  \/ /\ run[c].op = "create" /\ found = {}
            /\ run' = [run EXCEPT ![c].at = 1]
         \/ \E i \in found :
              /\ run[c].op # "create" /\ Allowed(c, i)
              /\ run' = [run EXCEPT ![c].at = 1, ![c].id = i]
         \/ /\ IF run[c].op = "create" THEN found # {}
                                       ELSE found = {} \/ \E i \in found : ~Allowed(c, i)
            /\ run' = [run EXCEPT ![c].end = "refused"]
  /\ UNCHANGED project

(* The change a call makes to the project it names, if it is still there.   *)
Changed(c, step, p) ==
  CASE step = "describe"  -> [p EXCEPT !.tag = "described"]
    [] step \in Services  -> [p EXCEPT !.services = @ \cup {step}]
    [] step = "variables" -> [p EXCEPT !.vars = c]
    [] step = "domain"    -> [p EXCEPT !.domain = TRUE]
    [] step = "deploy"    -> [p EXCEPT !.deployed = p.vars]
    [] step = "schedule"  -> [p EXCEPT !.tag = "scheduled"]
    [] step = "untag"     -> [p EXCEPT !.tag = "none"]
    [] step = "delete"    -> [p EXCEPT !.state = "forced"]
    [] step = "cleanup"   -> [p EXCEPT !.state = "tidied"]

(* The project a call is about: railway init makes a new one; the step      *)
(* after it, and the second look-up of the other commands but redeploy,     *)
(* take whichever project has the name; the rest keep the id they found.    *)
Targets(c) ==
  CASE Step(c) = "init" -> {i \in Ids : project[i].state = "unborn" /\ \A j \in Ids : j < i => project[j].state # "unborn"}
    [] Step(c) \in {"describe", "schedule", "untag", "delete"} -> Named(run[c].name)
    [] OTHER -> {run[c].id} \cap Live
Effect(c, i) ==
  project' = [project EXCEPT ![i] = IF Step(c) = "init" THEN [Unborn EXCEPT !.state = "live", !.name = run[c].name]
                                                        ELSE Changed(c, Step(c), @)]
Onward(c, i) ==
  run' = [run EXCEPT ![c].at = @ + 1, ![c].id = IF Step(c) = "init" THEN 0 ELSE i,
                     ![c].end = IF run[c].at = Len(Steps(run[c].op)) THEN "succeeded" ELSE "none"]
Call(c) == Busy(c) /\ run[c].at > 0 /\ \E i \in Targets(c) : Effect(c, i) /\ Onward(c, i)

(* A call reports an error, with or without its effect. A create that knows *)
(* its project deletes it then, and swallows the error of the deletion; it  *)
(* knows the project once create_project has returned, after the            *)
(* description was set.                                                     *)
Tidies(c) == run[c].op = "create" /\ run[c].at > 2 /\ run[c].id \in Live
Fail(c) ==
  /\ Busy(c) /\ run[c].at > 0
  /\ \/ UNCHANGED project
     \/ \E i \in Targets(c) : Effect(c, i)
     \/ Tidies(c) /\ project' = [project EXCEPT ![run[c].id] = Changed(c, "cleanup", @)]
  /\ run' = [run EXCEPT ![c].end = "failed"]

(* httpx raises a timeout, or the process is killed: nothing is tidied.     *)
Die(c) == Busy(c) /\ run' = [run EXCEPT ![c].end = "died"] /\ UNCHANGED project

PrNext == \E c \in Callers : \/ \E op \in Ops, n \in Names : Start(c, op, n)
                             \/ Look(c) \/ Call(c) \/ Fail(c) \/ Die(c)

-----------------------------------------------------------------------------
(* Up(i): the instance answers with the keys of create c, which printed     *)
(* them once and stored them nowhere.                                       *)
Up(c, i) == LET p == project[i]
            IN  p.services = Services /\ p.domain /\ p.vars = c /\ p.deployed = c

(* A create that nobody raced with and that reports success has left an     *)
(* instance that runs with the keys it printed, whatever the other commands *)
(* do, until somebody deletes it by force; and no other create's clean-up   *)
(* takes it away.                                                           *)
CreateTells ==
  \A c \in Callers : run[c].op = "create" /\ run[c].end = "succeeded" /\ run[c].alone =>
    /\ project[run[c].id].state \in {"live", "forced"}
    /\ Up(c, run[c].id)

(* One name, one instance: as long as no two creates of a name overlapped,  *)
(* no two projects share it, so that every command acts on the instance its *)
(* caller means.                                                            *)
OneProjectPerName ==
  (\A c \in Callers : run[c].alone) => \A i, j \in Live : project[i].name = project[j].name => i = j

=============================================================================
