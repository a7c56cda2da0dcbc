---------------------------- MODULE PublishWorkflow ----------------------------
(***************************************************************************)
(* .github/workflows/publish.yaml: runs that compute the next version of a *)
(* package from the tags of the repository, publish and tag it.            *)
(***************************************************************************)
EXTENDS Naturals

CONSTANTS
    Runs,     \* the runs of a behaviour
    Refs,     \* the branches a run can be dispatched on
    Commits,  \* what the branches can point to
    Bumps,    \* the bumps asked for, of "patch", "minor", "major"
    Targets,  \* the packages asked for: "go" (api-support), "npm" (-npm)
    NULL

ASSUME PublishAssumption ==
    /\ Bumps \subseteq {"patch", "minor", "major"}
    /\ Targets \subseteq {"go", "npm"}

VARIABLES
    head,      \* the commit of each branch
    tags,      \* the tags of origin: [target, version, sha]
    registry,  \* the versions of the npm package: [version, sha]
    job,       \* what a run was dispatched with
    pc,        \* the step a run is at, or how it ended
    local,     \* the versions of its package a run has cloned
    tag,       \* the version it determined
    brokenOff, \* history: the runs that were broken off
    pushed     \* history: the runs whose tag origin took

vars == <<head, tags, registry, job, pc, local, tag, brokenOff, pushed>>

Version == [major : Nat, minor : Nat, patch : Nat]
Job == [ref : Refs, target : Targets, bump : Bumps, sha : Commits]
StepNames == {"checkout", "build", "tag", "publish", "push", "end"}
Results == {"success", "failure", "cancelled"}

(* The steps of the two jobs; a run is also "none", "pending" or over. *)
Following ==
    [go  |-> [checkout |-> "build", build |-> "tag", tag |-> "push",
              push |-> "end"],
     npm |-> [checkout |-> "tag", tag |-> "build", build |-> "publish",
              publish |-> "push", push |-> "end"]]

Running(r) == pc[r] \in StepNames
Pending(r, ref) == pc[r] = "pending" /\ job[r].ref = ref

(***************************************************************************)
(* next-tag.sh                                                             *)
(***************************************************************************)
Above(v, w) ==
    \/ v.major > w.major
    \/ v.major = w.major /\ v.minor > w.minor
    \/ v.major = w.major /\ v.minor = w.minor /\ v.patch > w.patch

Latest(versions) == {v \in versions : \A w \in versions : w = v \/ Above(v, w)}
Oldest(versions) == {v \in versions : \A w \in versions : w = v \/ Above(w, v)}

Bumped(v, bump) ==
    CASE bump = "patch" -> [v EXCEPT !.patch = @ + 1]
      [] bump = "minor" -> [major |-> v.major, minor |-> v.minor + 1, patch |-> 0]
      [] bump = "major" -> [major |-> v.major + 1, minor |-> 0, patch |-> 0]

FirstVersion == [major |-> 0, minor |-> 1, patch |-> 0]

NextOfOldest(versions, bump) ==  \* mutant: sorted the other way
    IF versions = {} THEN {FirstVersion}
                     ELSE {Bumped(v, bump) : v \in Oldest(versions)}

(* The one version after those of the tags. *)
NextVersion(versions, bump) ==
    IF versions = {} THEN {FirstVersion}
                     ELSE {Bumped(v, bump) : v \in Latest(versions)}

(***************************************************************************)
(* Runs.  The concurrency group of a branch has one run and one that       *)
(* waits; a newer one takes the place of the one that waits.               *)
(***************************************************************************)
Init ==
    /\ head \in [Refs -> Commits]
    /\ tags = {} /\ registry = {}
    /\ job = [r \in Runs |-> NULL]
    /\ pc = [r \in Runs |-> "none"]
    /\ local = [r \in Runs |-> {}]
    /\ tag = [r \in Runs |-> NULL]
    /\ brokenOff = {} /\ pushed = {}

Request(r, ref, target, bump) ==
    /\ pc[r] = "none"
    /\ job' = [job EXCEPT ![r] = [ref |-> ref, target |-> target,
                                  bump |-> bump, sha |-> head[ref]]]
    /\ UNCHANGED <<head, tags, registry, local, tag, brokenOff, pushed>>

DispatchUngrouped(r) ==  \* mutant: no concurrency group
    \E ref \in Refs, target \in Targets, bump \in Bumps :
        Request(r, ref, target, bump) /\ pc' = [pc EXCEPT ![r] = "checkout"]

Dispatch(r) ==
    \E ref \in Refs, target \in Targets, bump \in Bumps :
        /\ Request(r, ref, target, bump)
        /\ pc' = IF \E s \in Runs : Running(s) /\ job[s].ref = ref
                 THEN [s \in Runs |-> IF s = r THEN "pending"
                                      ELSE IF Pending(s, ref) THEN "cancelled"
                                      ELSE pc[s]]
                 ELSE [pc EXCEPT ![r] = "checkout"]

Continue(r) == pc' = [pc EXCEPT ![r] = Following[job[r].target][@]]

(* The end of a run starts the one that waits for it. *)
End(r, result) ==
    pc' = [s \in Runs |-> IF s = r THEN result
                          ELSE IF Pending(s, job[r].ref) THEN "checkout"
                          ELSE pc[s]]

Checkout(r) ==
    /\ pc[r] = "checkout"
    /\ local' = [local EXCEPT ![r] =
            {t.version : t \in {u \in tags : u.target = job[r].target}}]
    /\ Continue(r)
    /\ UNCHANGED <<head, tags, registry, job, tag, brokenOff, pushed>>

DetermineTag(r) ==
    /\ pc[r] = "tag"
    /\ \E next \in NextVersion(local[r], job[r].bump) : tag' = [tag EXCEPT ![r] = next]
    /\ Continue(r)
    /\ UNCHANGED <<head, tags, registry, job, local, brokenOff, pushed>>

Build(r) ==
    /\ pc[r] = "build"
    /\ Continue(r)
    /\ UNCHANGED <<head, tags, registry, job, local, tag, brokenOff, pushed>>

InRegistry(version) == \E p \in registry : p.version = version

PublishReplacing(r) ==  \* mutant: the registry takes a version twice
    /\ pc[r] = "publish"
    /\ registry' = {p \in registry : p.version # tag[r]}
                    \cup {[version |-> tag[r], sha |-> job[r].sha]}
    /\ Continue(r)
    /\ UNCHANGED <<head, tags, job, local, tag, brokenOff, pushed>>

Publish(r) ==
    /\ pc[r] = "publish" /\ ~InRegistry(tag[r])
    /\ registry' = registry \cup {[version |-> tag[r], sha |-> job[r].sha]}
    /\ Continue(r)
    /\ UNCHANGED <<head, tags, job, local, tag, brokenOff, pushed>>

RefusalUnnoticed(r) ==  \* mutant: continue-on-error
    /\ pc[r] = "publish" /\ InRegistry(tag[r])
    /\ Continue(r)
    /\ UNCHANGED <<head, tags, registry, job, local, tag, brokenOff, pushed>>

PublishRefused(r) ==
    /\ pc[r] = "publish" /\ InRegistry(tag[r])
    /\ End(r, "failure")
    /\ UNCHANGED <<head, tags, registry, job, local, tag, brokenOff, pushed>>

(* git tag refuses a tag the clone has, origin one that points elsewhere.  *)
TagTaken(r) ==
    \/ tag[r] \in local[r]
    \/ \E t \in tags : /\ t.target = job[r].target /\ t.version = tag[r]
                       /\ t.sha # job[r].sha

PushTag(r) ==
    /\ tags' = tags \cup {[target |-> job[r].target, version |-> tag[r],
                           sha |-> job[r].sha]}
    /\ pushed' = pushed \cup {r}
    /\ Continue(r)
    /\ UNCHANGED <<head, registry, job, local, tag, brokenOff>>

ForcePush(r) == pc[r] = "push" /\ PushTag(r)  \* mutant: git push --force

TagAndPush(r) == pc[r] = "push" /\ ~TagTaken(r) /\ PushTag(r)

PushRejected(r) ==
    /\ pc[r] = "push" /\ TagTaken(r)
    /\ End(r, "failure")
    /\ UNCHANGED <<head, tags, registry, job, local, tag, brokenOff, pushed>>

Complete(r) ==
    /\ pc[r] = "end"
    /\ End(r, "success")
    /\ UNCHANGED <<head, tags, registry, job, local, tag, brokenOff, pushed>>

BreakOffGoOnly(r) ==  \* mutant: one job without timeout-minutes
    /\ Running(r) /\ job[r].target = "go"
    /\ End(r, "failure")
    /\ brokenOff' = brokenOff \cup {r}
    /\ UNCHANGED <<head, tags, registry, job, local, tag, pushed>>

(* A step fails, the runner is lost, or the 15 minutes are over: whatever  *)
(* the last step did, the next one does not begin.                         *)
BreakOff(r) ==
    /\ Running(r)
    /\ End(r, "failure")
    /\ brokenOff' = brokenOff \cup {r}
    /\ UNCHANGED <<head, tags, registry, job, local, tag, pushed>>

Commit(ref) ==
    /\ \E c \in Commits \ {head[ref]} : head' = [head EXCEPT ![ref] = c]
    /\ UNCHANGED <<tags, registry, job, pc, local, tag, brokenOff, pushed>>

Next ==
    \/ \E r \in Runs :
        \/ Dispatch(r) \/ Checkout(r) \/ DetermineTag(r) \/ Build(r)
        \/ Publish(r) \/ PublishRefused(r) \/ TagAndPush(r) \/ PushRejected(r)
        \/ Complete(r) \/ BreakOff(r)
    \/ \E ref \in Refs : Commit(ref)

Spec == Init /\ [][Next]_vars

(* timeout-minutes: no run goes on for ever. *)
FairSpec == Spec /\ \A r \in Runs : WF_vars(BreakOff(r))

-----------------------------------------------------------------------------
(* Properties                                                              *)

(* The types of the variables. *)
TypeOK ==
    /\ head \in [Refs -> Commits]
    /\ tags \subseteq [target : Targets, version : Version, sha : Commits]
    /\ registry \subseteq [version : Version, sha : Commits]
    /\ job \in [Runs -> Job \cup {NULL}]
    /\ pc \in [Runs -> {"none", "pending"} \cup StepNames \cup Results]
    /\ local \in [Runs -> SUBSET Version]
    /\ tag \in [Runs -> Version \cup {NULL}]
    /\ brokenOff \subseteq Runs /\ pushed \subseteq Runs

(* An npm tag is on the commit that was published under its version,       *)
(* whoever else computed the same version meanwhile (publish.yaml:100-109).*)
TagsNameContent ==
    \A t \in tags : t.target = "npm" =>
        /\ [version |-> t.version, sha |-> t.sha] \in registry
        /\ \A p \in registry : p.version = t.version => p.sha = t.sha

(* A tag never moves or gets a rival, although runs of different branches  *)
(* compute the same one (tag-and-push.sh:8-9).                             *)
TagsNeverMove ==
    [][\A t \in tags :
        {u \in tags' : u.target = t.target /\ u.version = t.version} = {t}]_vars

(* The tags that the runs of a branch push only go up: no run computes its *)
(* version from tags that an earlier run of its branch has yet to push     *)
(* (publish.yaml:28-30, next-tag.sh:9-23).                                 *)
TagsGrowPerRef ==
    [][\A r \in pushed' \ pushed, s \in pushed :
        /\ job[s].ref = job[r].ref
        /\ job[s].target = job[r].target
        => Above(tag[r], tag[s])]_vars

(* A version without its tag is left behind only by a run that was broken  *)
(* off after publishing; no race leaves one (publish.yaml:100-109).        *)
UntaggedOnlyIfBrokenOff ==
    \A p \in registry :
        \/ [target |-> "npm", version |-> p.version, sha |-> p.sha] \in tags
        \/ \E r \in Runs :
            /\ pc[r] # "none" /\ job[r].target = "npm"
            /\ tag[r] = p.version /\ job[r].sha = p.sha
            /\ pc[r] = "push" \/ r \in brokenOff

(* A run that fails with nothing wrong with itself met its own version:    *)
(* from a run on another branch, or from one that was broken off between   *)
(* publishing and tagging (next-tag.sh:9, publish.yaml:29).                *)
FailsOnlyToRival ==
    \A r \in Runs \ brokenOff : pc[r] = "failure" =>
        \E o \in Runs \ {r} :
            /\ pc[o] # "none" /\ tag[o] = tag[r] /\ job[o].target = job[r].target
            /\ \/ job[o].ref # job[r].ref
               \/ o \in brokenOff \ pushed /\ job[o].target = "npm"

(* Every dispatched run ends: none waits in its group for ever             *)
(* (publish.yaml:28-30,40,75).                                             *)
RunsEnd ==
    \A r \in Runs : pc[r] \notin {"none"} \cup Results ~> pc[r] \in Results
=============================================================================
