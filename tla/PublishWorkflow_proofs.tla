------------------------ MODULE PublishWorkflow_proofs ------------------------
(***************************************************************************)
(* Theorems about PublishWorkflow, for every value of the constants.       *)
(***************************************************************************)
EXTENDS PublishWorkflow, TLAPS

-----------------------------------------------------------------------------
(* next-tag.sh: the version computed is above all those it is computed from. *)
LEMMA NextAbove ==
    ASSUME NEW versions \in SUBSET Version, NEW bump \in Bumps,
           NEW v \in NextVersion(versions, bump)
    PROVE  v \in Version /\ \A w \in versions : Above(v, w)
<1>1. CASE versions = {}
  BY <1>1 DEF NextVersion, FirstVersion, Version
<1>2. CASE versions # {}
  <2>1. PICK u \in versions :
          (\A w \in versions : w = u \/ Above(u, w)) /\ v = Bumped(u, bump)
    BY <1>2 DEF NextVersion, Latest
  <2>2. bump \in {"patch", "minor", "major"} /\ u \in Version
    BY PublishAssumption
  <2>3. v \in Version /\ Above(v, u)
    <3>1. CASE bump = "patch"
      BY <2>1, <2>2, <3>1 DEF Bumped, Above, Version
    <3>2. CASE bump = "minor"
      BY <2>1, <2>2, <3>2 DEF Bumped, Above, Version
    <3>3. CASE bump = "major"
      BY <2>1, <2>2, <3>3 DEF Bumped, Above, Version
    <3> QED  BY <2>2, <3>1, <3>2, <3>3
  <2>4. \A w \in versions : Above(v, w)
    BY <2>1, <2>2, <2>3 DEF Above, Version
  <2> QED  BY <2>3, <2>4
<1> QED  BY <1>1, <1>2

-----------------------------------------------------------------------------
(* What a run knows at its step, and what it leaves behind.                *)
Npm(r) == job[r].target = "npm"
Same(r, s) == job[r].ref = job[s].ref /\ job[r].target = job[s].target
Cloned(r) == pc[r] \in {"build", "tag", "publish", "push", "end"}
Determined(r) == pc[r] \in {"publish", "push", "end"} \/ (pc[r] = "build" /\ Npm(r))
Content(r) == [version |-> tag[r], sha |-> job[r].sha]
Tag(r) == [target |-> job[r].target, version |-> tag[r], sha |-> job[r].sha]

RunInv(r) ==
    /\ pc[r] # "none" => job[r] \in Job
    /\ pc[r] = "publish" => Npm(r)
    /\ Determined(r) => tag[r] \in Version /\ \A w \in local[r] : Above(tag[r], w)
    /\ Cloned(r) => \A s \in pushed \ {r} : Same(r, s) => tag[s] \in local[r]
    /\ pc[r] = "push" /\ Npm(r) => Content(r) \in registry
    /\ r \in pushed => pc[r] \in {"end", "success", "failure"} /\ Tag(r) \in tags
    /\ r \in brokenOff => pc[r] = "failure"

(* One run and one waiting run in each group. *)
GroupInv ==
    \A r, s \in Runs :
        /\ \/ Running(r) /\ Running(s)
           \/ pc[r] = "pending" /\ pc[s] = "pending"
        /\ job[r].ref = job[s].ref
        => r = s

OriginInv ==
    /\ \A t \in tags : \E s \in pushed : t = Tag(s)
    /\ \A t, u \in tags : t.target = u.target /\ t.version = u.version => t = u
    /\ \A p, q \in registry : p.version = q.version => p = q

(* Who published a version. *)
RegistryInv ==
    \A p \in registry : \E r \in Runs :
        /\ pc[r] # "none" /\ Npm(r) /\ p = Content(r)
        /\ pc[r] = "push" \/ r \in brokenOff \cup pushed

IInv ==
    /\ TypeOK
    /\ \A r \in Runs : RunInv(r)
    /\ GroupInv
    /\ OriginInv
    /\ RegistryInv
    /\ TagsNameContent

-----------------------------------------------------------------------------
(* How the program counters move.                                          *)
LEMMA FollowingValues ==
    ASSUME NEW target \in Targets
    PROVE  /\ target = "npm" \/ target = "go"
           /\ Following["npm"]["checkout"] = "tag" /\ Following["npm"]["tag"] = "build"
           /\ Following["npm"]["build"] = "publish"
           /\ Following["npm"]["publish"] = "push" /\ Following["npm"]["push"] = "end"
           /\ Following["go"]["checkout"] = "build" /\ Following["go"]["build"] = "tag"
           /\ Following["go"]["tag"] = "push" /\ Following["go"]["push"] = "end"
BY PublishAssumption DEF Following

LEMMA ContinueMoves ==
    ASSUME TypeOK, NEW r \in Runs, RunInv(r), Continue(r),
           pc[r] \in {"checkout", "tag", "build", "publish", "push"}
    PROVE  /\ \A s \in Runs \ {r} : pc'[s] = pc[s]
           /\ pc[r] = "checkout" => pc'[r] = IF Npm(r) THEN "tag" ELSE "build"
           /\ pc[r] = "tag" => pc'[r] = IF Npm(r) THEN "build" ELSE "push"
           /\ pc[r] = "build" => pc'[r] = IF Npm(r) THEN "publish" ELSE "tag"
           /\ pc[r] = "publish" => Npm(r) /\ pc'[r] = "push"
           /\ pc[r] = "push" => pc'[r] = "end"
           /\ pc' \in [Runs -> {"none", "pending"} \cup StepNames \cup Results]
<1>1. job[r] \in Job /\ job[r].target \in Targets
  BY DEF RunInv, Job
<1>2. pc' = [pc EXCEPT ![r] = Following[job[r].target][pc[r]]]
  BY DEF Continue, TypeOK
<1>3. pc'[r] = Following[job[r].target][pc[r]] /\ \A s \in Runs \ {r} : pc'[s] = pc[s]
  BY <1>2 DEF TypeOK
<1>4. /\ pc[r] = "checkout" => pc'[r] = IF Npm(r) THEN "tag" ELSE "build"
      /\ pc[r] = "tag" => pc'[r] = IF Npm(r) THEN "build" ELSE "push"
      /\ pc[r] = "build" => pc'[r] = IF Npm(r) THEN "publish" ELSE "tag"
      /\ pc[r] = "publish" => Npm(r) /\ pc'[r] = "push"
      /\ pc[r] = "push" => pc'[r] = "end"
  BY <1>1, <1>3, FollowingValues DEF Npm, RunInv
<1>5. pc'[r] \in StepNames
  BY <1>4 DEF StepNames
<1> QED  BY <1>2, <1>3, <1>4, <1>5 DEF TypeOK

LEMMA EndMoves ==
    ASSUME TypeOK, NEW r \in Runs, NEW result \in Results, End(r, result)
    PROVE  /\ pc'[r] = result
           /\ \A s \in Runs \ {r} :
                pc'[s] = IF Pending(s, job[r].ref) THEN "checkout" ELSE pc[s]
           /\ pc' \in [Runs -> {"none", "pending"} \cup StepNames \cup Results]
BY DEF End, TypeOK, StepNames

LEMMA DispatchMoves ==
    ASSUME TypeOK, NEW r \in Runs, Dispatch(r)
    PROVE  \E j \in Job :
        /\ pc[r] = "none" /\ job' = [job EXCEPT ![r] = j]
        /\ UNCHANGED <<head, tags, registry, local, tag, brokenOff, pushed>>
        /\ \/ /\ \E s \in Runs : Running(s) /\ job[s].ref = j.ref
              /\ pc'[r] = "pending"
              /\ \A s \in Runs \ {r} :
                   pc'[s] = IF Pending(s, j.ref) THEN "cancelled" ELSE pc[s]
           \/ /\ ~\E s \in Runs : Running(s) /\ job[s].ref = j.ref
              /\ pc'[r] = "checkout"
              /\ \A s \in Runs \ {r} : pc'[s] = pc[s]
        /\ pc' \in [Runs -> {"none", "pending"} \cup StepNames \cup Results]
<1>1. PICK ref \in Refs, target \in Targets, bump \in Bumps :
        /\ Request(r, ref, target, bump)
        /\ pc' = IF \E s \in Runs : Running(s) /\ job[s].ref = ref
                 THEN [s \in Runs |-> IF s = r THEN "pending"
                                      ELSE IF Pending(s, ref) THEN "cancelled"
                                      ELSE pc[s]]
                 ELSE [pc EXCEPT ![r] = "checkout"]
  BY DEF Dispatch
<1> DEFINE j == [ref |-> ref, target |-> target, bump |-> bump, sha |-> head[ref]]
<1>2. j \in Job /\ j.ref = ref
  BY DEF Job, TypeOK
<1>3. /\ pc[r] = "none" /\ job' = [job EXCEPT ![r] = j]
      /\ UNCHANGED <<head, tags, registry, local, tag, brokenOff, pushed>>
  BY <1>1 DEF Request
<1> HIDE DEF j
<1>4. CASE \E s \in Runs : Running(s) /\ job[s].ref = ref
  BY <1>1, <1>2, <1>3, <1>4 DEF TypeOK, StepNames, Results
<1>5. CASE ~\E s \in Runs : Running(s) /\ job[s].ref = ref
  BY <1>1, <1>2, <1>3, <1>5 DEF TypeOK, StepNames, Results
<1> QED  BY <1>4, <1>5
-----------------------------------------------------------------------------
(* The steps keep the invariant.                                           *)
LEMMA InitInv == Init => IInv
<1> SUFFICES ASSUME Init PROVE IInv
  OBVIOUS
<1>1. TypeOK
  BY DEF Init, TypeOK
<1>2. \A r \in Runs : RunInv(r)
  BY DEF Init, RunInv, Determined, Cloned
<1>3. GroupInv /\ OriginInv /\ RegistryInv /\ TagsNameContent
  BY DEF Init, GroupInv, OriginInv, RegistryInv, TagsNameContent, Running, StepNames
<1> QED  BY <1>1, <1>2, <1>3 DEF IInv

(* A step of r does to another run no more than start or cancel it.        *)
Quiet(s) ==
    /\ pc'[s] = pc[s] \/ (pc[s] = "pending" /\ pc'[s] \in {"checkout", "cancelled"})
    /\ job'[s] = job[s] /\ tag'[s] = tag[s] /\ local'[s] = local[s]
    /\ s \in pushed' <=> s \in pushed
    /\ s \in brokenOff' <=> s \in brokenOff

LEMMA QuietRun ==
    ASSUME NEW r \in Runs, NEW s \in Runs \ {r}, RunInv(s),
           \A x \in Runs \ {r} : Quiet(x),
           tags \subseteq tags', registry \subseteq registry',
           pushed' \subseteq pushed \cup {r}, pushed \subseteq Runs,
           r \in pushed => tag'[r] = tag[r] /\ job'[r] = job[r],
           r \in pushed' \ pushed => ~(Cloned(s) /\ job[s].ref = job[r].ref),
           r \in pushed' \ pushed => job'[r] = job[r]
    PROVE  RunInv(s)'
<1>0. Quiet(s)
  OBVIOUS
<1>1. (pc[s] # "none" => job[s] \in Job)' /\ (pc[s] = "publish" => Npm(s))'
  BY <1>0 DEF Quiet, RunInv, Npm
<1>2. (Determined(s) => tag[s] \in Version /\ \A w \in local[s] : Above(tag[s], w))'
  BY <1>0 DEF Quiet, RunInv, Npm, Determined, Above
<1>3. ASSUME Cloned(s)', NEW x \in pushed' \ {s}, Same(s, x)'
      PROVE  tag'[x] \in local'[s]
  <2>1. Cloned(s) /\ local'[s] = local[s] /\ job'[s] = job[s]
    BY <1>0, <1>3 DEF Quiet, Cloned
  <2>2. x \in pushed
    BY <2>1, <1>3 DEF Same, Quiet
  <2>3. tag'[x] = tag[x] /\ job'[x] = job[x]
    BY <2>2 DEF Quiet
  <2> QED  BY <1>3, <2>1, <2>2, <2>3 DEF RunInv, Same
<1>4. (pc[s] = "push" /\ Npm(s) => Content(s) \in registry)'
  BY <1>0 DEF Quiet, RunInv, Npm, Content
<1>5. (s \in pushed => pc[s] \in {"end", "success", "failure"} /\ Tag(s) \in tags)'
  BY <1>0 DEF Quiet, RunInv, Tag
<1>6. (s \in brokenOff => pc[s] = "failure")'
  BY <1>0 DEF Quiet, RunInv
<1> QED  BY <1>1, <1>2, <1>3, <1>4, <1>5, <1>6 DEF RunInv

(* Who published what stays known while r, which did not, moves.           *)
LEMMA WitnessKept ==
    ASSUME RegistryInv, NEW r \in Runs, UNCHANGED registry,
           \A x \in Runs \ {r} : Quiet(x),
           pc[r] # "push" /\ r \notin brokenOff /\ r \notin pushed
    PROVE  RegistryInv'
<1>1. SUFFICES ASSUME NEW p \in registry PROVE
        \E s \in Runs : /\ pc'[s] # "none" /\ Npm(s)' /\ p = Content(s)'
                        /\ pc'[s] = "push" \/ s \in brokenOff' \cup pushed'
  BY DEF RegistryInv
<1>2. PICK s \in Runs : /\ pc[s] # "none" /\ Npm(s) /\ p = Content(s)
                        /\ pc[s] = "push" \/ s \in brokenOff \cup pushed
  BY DEF RegistryInv
<1>3. s # r /\ Quiet(s)
  BY <1>2
<1> QED  BY <1>2, <1>3 DEF Quiet, Npm, Content

(* The end of a run, whatever the result.                                  *)
LEMMA EndKeeps ==
    ASSUME IInv, NEW r \in Runs, NEW result \in {"success", "failure"}, Running(r),
           End(r, result), UNCHANGED <<head, tags, registry, job, local, tag, pushed>>,
           \/ UNCHANGED brokenOff
           \/ result = "failure" /\ brokenOff' = brokenOff \cup {r},
           pc[r] = "push" /\ Npm(r) => result = "failure" /\ r \in brokenOff'
    PROVE  IInv'
<1>0. TypeOK /\ (\A s \in Runs : RunInv(s)) /\ GroupInv /\ OriginInv /\ RegistryInv
      /\ TagsNameContent
  BY DEF IInv
<1>1. /\ pc'[r] = result
      /\ \A s \in Runs \ {r} :
           pc'[s] = IF Pending(s, job[r].ref) THEN "checkout" ELSE pc[s]
      /\ pc' \in [Runs -> {"none", "pending"} \cup StepNames \cup Results]
  BY <1>0, EndMoves DEF Results
<1>2. TypeOK'
  BY <1>0, <1>1 DEF TypeOK
<1>3. \A s \in Runs \ {r} : Quiet(s)
  BY <1>1 DEF Quiet, Pending
<1>4. \A s \in Runs \ {r} : RunInv(s)'
  BY <1>0, <1>3, QuietRun DEF TypeOK
<1>5. RunInv(r)'
  BY <1>0, <1>1 DEF RunInv, Running, StepNames, Determined, Cloned, Tag
<1>6. GroupInv'
  <2>1. SUFFICES ASSUME NEW s \in Runs, NEW u \in Runs, job[s].ref = job[u].ref,
                        \/ Running(s)' /\ Running(u)'
                        \/ pc'[s] = "pending" /\ pc'[u] = "pending"
                 PROVE  s = u
    BY DEF GroupInv, Running
  <2>2. s # r /\ u # r
    BY <1>1, <2>1 DEF Running, StepNames
  <2>3. CASE pc'[s] = "pending" /\ pc'[u] = "pending"
    BY <1>0, <1>1, <2>1, <2>2, <2>3 DEF GroupInv
  <2>4. CASE Running(s)' /\ Running(u)'
    <3>1. \A x \in {s, u} : Running(x) \/ Pending(x, job[r].ref)
      BY <1>1, <2>2, <2>4 DEF Running, StepNames
    <3>2. \A x \in {s, u} : Running(x) => job[x].ref # job[r].ref
      BY <1>0, <2>2 DEF GroupInv
    <3> QED  BY <1>0, <2>1, <3>1, <3>2 DEF GroupInv, Pending
  <2> QED  BY <2>1, <2>3, <2>4
<1>7. OriginInv' /\ TagsNameContent'
  BY <1>0 DEF OriginInv, TagsNameContent, Tag
<1>8. RegistryInv'
  <2>1. SUFFICES ASSUME NEW p \in registry PROVE
          \E s \in Runs : /\ pc'[s] # "none" /\ Npm(s) /\ p = Content(s)
                          /\ pc'[s] = "push" \/ s \in brokenOff' \cup pushed
    BY DEF RegistryInv, Npm, Content
  <2>2. PICK s \in Runs : /\ pc[s] # "none" /\ Npm(s) /\ p = Content(s)
                          /\ pc[s] = "push" \/ s \in brokenOff \cup pushed
    BY <1>0 DEF RegistryInv
  <2>3. CASE s = r
    BY <1>1, <2>2, <2>3
  <2>4. CASE s # r
    BY <1>1, <2>2, <2>4 DEF Pending
  <2> QED  BY <2>2, <2>3, <2>4
<1> QED  BY <1>2, <1>4, <1>5, <1>6, <1>7, <1>8 DEF IInv

(* A run that goes on keeps its group.                                     *)
LEMMA ContinueGroup ==
    ASSUME GroupInv, NEW r \in Runs, Running(r), Running(r)', UNCHANGED job,
           \A s \in Runs \ {r} : pc'[s] = pc[s]
    PROVE  GroupInv'
<1>1. \A s \in Runs : Running(s)' <=> Running(s)
  BY DEF Running
<1>2. \A s \in Runs : pc'[s] = "pending" <=> pc[s] = "pending"
  BY DEF Running, StepNames
<1> QED  BY <1>1, <1>2 DEF GroupInv

LEMMA DispatchKeeps ==
    ASSUME IInv, NEW r \in Runs, Dispatch(r)
    PROVE  IInv'
<1>0. TypeOK /\ (\A s \in Runs : RunInv(s)) /\ GroupInv /\ OriginInv /\ RegistryInv
      /\ TagsNameContent
  BY DEF IInv
<1>1. PICK j \in Job :
        /\ pc[r] = "none" /\ job' = [job EXCEPT ![r] = j]
        /\ UNCHANGED <<head, tags, registry, local, tag, brokenOff, pushed>>
        /\ \/ /\ \E s \in Runs : Running(s) /\ job[s].ref = j.ref
              /\ pc'[r] = "pending"
              /\ \A s \in Runs \ {r} :
                   pc'[s] = IF Pending(s, j.ref) THEN "cancelled" ELSE pc[s]
           \/ /\ ~\E s \in Runs : Running(s) /\ job[s].ref = j.ref
              /\ pc'[r] = "checkout"
              /\ \A s \in Runs \ {r} : pc'[s] = pc[s]
        /\ pc' \in [Runs -> {"none", "pending"} \cup StepNames \cup Results]
  BY <1>0, DispatchMoves
<1>2. job'[r] = j /\ \A s \in Runs \ {r} : job'[s] = job[s]
  BY <1>0, <1>1 DEF TypeOK
<1>3. TypeOK'
  BY <1>0, <1>1 DEF TypeOK
<1>4. \A s \in Runs \ {r} : Quiet(s)
  BY <1>1, <1>2 DEF Quiet, Pending
<1>5. r \notin pushed /\ r \notin brokenOff
  BY <1>0, <1>1 DEF RunInv
<1>6. \A s \in Runs \ {r} : RunInv(s)'
  BY <1>0, <1>1, <1>4, <1>5, QuietRun DEF TypeOK
<1>7. RunInv(r)'
  BY <1>1, <1>2, <1>5 DEF RunInv, Determined, Cloned
<1>8. GroupInv'
  <2>1. SUFFICES ASSUME NEW s \in Runs, NEW u \in Runs, s # u, job'[s].ref = job'[u].ref,
                        \/ Running(s)' /\ Running(u)'
                        \/ pc'[s] = "pending" /\ pc'[u] = "pending"
                 PROVE  FALSE
    BY DEF GroupInv, Running
  <2>2. \A x \in {s, u} \ {r} : Running(x)' => Running(x)
    BY <1>1 DEF Running, StepNames
  <2>3. \A x \in {s, u} \ {r} :
          pc'[x] = "pending" => pc[x] = "pending" /\ (pc'[r] = "pending" => job[x].ref # j.ref)
    BY <1>1 DEF Pending
  <2>4. CASE s # r /\ u # r
    BY <1>0, <1>2, <2>1, <2>2, <2>3, <2>4 DEF GroupInv
  <2>5. ASSUME NEW x \in {s, u} \ {r}, job[x].ref = j.ref, Running(r)' /\ Running(x)'
        PROVE  FALSE
    BY <1>1, <2>2, <2>5 DEF Running, StepNames
  <2>6. CASE s = r
    BY <1>2, <2>1, <2>3, <2>5, <2>6
  <2>7. CASE u = r
    BY <1>2, <2>1, <2>3, <2>5, <2>7
  <2> QED  BY <2>4, <2>6, <2>7
<1>9. OriginInv' /\ TagsNameContent'
  BY <1>0, <1>1, <1>2, <1>5 DEF OriginInv, TagsNameContent, Tag, TypeOK
<1>10. RegistryInv'
  BY <1>0, <1>1, <1>4, <1>5, WitnessKept
<1> QED  BY <1>3, <1>6, <1>7, <1>8, <1>9, <1>10 DEF IInv

LEMMA CheckoutKeeps ==
    ASSUME IInv, NEW r \in Runs, Checkout(r)
    PROVE  IInv'
<1>0. TypeOK /\ (\A s \in Runs : RunInv(s)) /\ GroupInv /\ OriginInv /\ RegistryInv
      /\ TagsNameContent
  BY DEF IInv
<1>1. /\ pc[r] = "checkout" /\ Continue(r)
      /\ local' = [local EXCEPT ![r] =
            {t.version : t \in {u \in tags : u.target = job[r].target}}]
      /\ UNCHANGED <<head, tags, registry, job, tag, brokenOff, pushed>>
  BY DEF Checkout
<1>2. /\ \A s \in Runs \ {r} : pc'[s] = pc[s]
      /\ pc'[r] = IF Npm(r) THEN "tag" ELSE "build"
      /\ pc' \in [Runs -> {"none", "pending"} \cup StepNames \cup Results]
  BY <1>0, <1>1, ContinueMoves
<1>3. /\ local'[r] = {t.version : t \in {u \in tags : u.target = job[r].target}}
      /\ \A s \in Runs \ {r} : local'[s] = local[s]
  BY <1>0, <1>1 DEF TypeOK
<1>4. TypeOK'
  BY <1>0, <1>1, <1>2 DEF TypeOK
<1>5. \A s \in Runs \ {r} : Quiet(s)
  BY <1>1, <1>2, <1>3 DEF Quiet
<1>6. \A s \in Runs \ {r} : RunInv(s)'
  BY <1>0, <1>1, <1>5, QuietRun DEF TypeOK
<1>7. RunInv(r)'
  <2>1. ASSUME NEW s \in pushed, Same(r, s) PROVE tag[s] \in local'[r]
    <3>1. Tag(s) \in tags
      BY <1>0 DEF RunInv, TypeOK
    <3>2. Tag(s).target = job[r].target /\ Tag(s).version = tag[s]
      BY <2>1 DEF Same, Tag
    <3> QED  BY <1>3, <3>1, <3>2
  <2>2. r \notin pushed /\ r \notin brokenOff /\ job[r] \in Job
    BY <1>0, <1>1 DEF RunInv
  <2> QED  BY <1>1, <1>2, <2>1, <2>2 DEF RunInv, Determined, Cloned, Npm, Same
<1>8. GroupInv'
  BY <1>0, <1>1, <1>2, ContinueGroup DEF Running, StepNames
<1>9. OriginInv' /\ TagsNameContent'
  <2>1. UNCHANGED <<tags, registry, job, tag, pushed>>
    BY <1>1
  <2>2. OriginInv'
    BY <1>0, <2>1 DEF OriginInv, Tag
  <2>3. TagsNameContent'
    BY <1>0, <2>1 DEF TagsNameContent
  <2> QED  BY <2>2, <2>3
<1>11. r \notin pushed /\ r \notin brokenOff
  BY <1>0, <1>1 DEF RunInv
<1>10. RegistryInv'
  BY <1>0, <1>1, <1>5, <1>11, WitnessKept
<1> QED  BY <1>4, <1>6, <1>7, <1>8, <1>9, <1>10 DEF IInv

LEMMA DetermineTagKeeps ==
    ASSUME IInv, NEW r \in Runs, DetermineTag(r)
    PROVE  IInv'
<1>0. TypeOK /\ (\A s \in Runs : RunInv(s)) /\ GroupInv /\ OriginInv /\ RegistryInv
      /\ TagsNameContent
  BY DEF IInv
<1>1. PICK next \in NextVersion(local[r], job[r].bump) :
      /\ pc[r] = "tag" /\ Continue(r)
      /\ tag' = [tag EXCEPT ![r] = next]
      /\ UNCHANGED <<head, tags, registry, job, local, brokenOff, pushed>>
  BY DEF DetermineTag
<1>2. /\ \A s \in Runs \ {r} : pc'[s] = pc[s]
      /\ pc'[r] = IF Npm(r) THEN "build" ELSE "push"
      /\ pc' \in [Runs -> {"none", "pending"} \cup StepNames \cup Results]
  BY <1>0, <1>1, ContinueMoves
<1>3. tag'[r] = next /\ \A s \in Runs \ {r} : tag'[s] = tag[s]
  BY <1>0, <1>1 DEF TypeOK
<1>4. r \notin pushed /\ r \notin brokenOff /\ job[r] \in Job
  BY <1>0, <1>1 DEF RunInv
<1>5. next \in Version /\ \A w \in local[r] : Above(next, w)
  <2>1. local[r] \in SUBSET Version /\ job[r].bump \in Bumps
    BY <1>0, <1>4 DEF TypeOK, Job
  <2> QED  BY <1>1, <2>1, NextAbove
<1>6. TypeOK'
  BY <1>0, <1>1, <1>2, <1>5 DEF TypeOK
<1>7. \A s \in Runs \ {r} : Quiet(s)
  BY <1>1, <1>2, <1>3 DEF Quiet
<1>8. \A s \in Runs \ {r} : RunInv(s)'
  BY <1>0, <1>1, <1>4, <1>7, QuietRun DEF TypeOK
<1>9. RunInv(r)'
  <2>1. \A s \in pushed \ {r} : Same(r, s) => tag'[s] \in local[r]
    BY <1>0, <1>1, <1>3 DEF RunInv, Cloned, TypeOK
  <2>2. (Determined(r) => tag[r] \in Version /\ \A w \in local[r] : Above(tag[r], w))'
    BY <1>1, <1>3, <1>5 DEF Above
  <2> QED  BY <1>1, <1>2, <1>4, <2>1, <2>2 DEF RunInv, Cloned, Npm, Same
<1>10. GroupInv'
  BY <1>0, <1>1, <1>2, ContinueGroup DEF Running, StepNames
<1>11. OriginInv' /\ TagsNameContent'
  <2>1. \A s \in pushed : Tag(s)' = Tag(s)
    BY <1>0, <1>1, <1>3, <1>4 DEF Tag, TypeOK
  <2> QED  BY <1>0, <1>1, <2>1 DEF OriginInv, TagsNameContent
<1>12. RegistryInv'
  BY <1>0, <1>1, <1>4, <1>7, WitnessKept
<1> QED  BY <1>6, <1>8, <1>9, <1>10, <1>11, <1>12 DEF IInv

LEMMA BuildKeeps ==
    ASSUME IInv, NEW r \in Runs, Build(r)
    PROVE  IInv'
<1>0. TypeOK /\ (\A s \in Runs : RunInv(s)) /\ GroupInv /\ OriginInv /\ RegistryInv
      /\ TagsNameContent
  BY DEF IInv
<1>1. /\ pc[r] = "build" /\ Continue(r)
      /\ UNCHANGED <<head, tags, registry, job, local, tag, brokenOff, pushed>>
  BY DEF Build
<1>2. /\ \A s \in Runs \ {r} : pc'[s] = pc[s]
      /\ pc'[r] = IF Npm(r) THEN "publish" ELSE "tag"
      /\ pc' \in [Runs -> {"none", "pending"} \cup StepNames \cup Results]
  BY <1>0, <1>1, ContinueMoves
<1>3. TypeOK'
  BY <1>0, <1>1, <1>2 DEF TypeOK
<1>4. r \notin pushed /\ r \notin brokenOff /\ job[r] \in Job
  BY <1>0, <1>1 DEF RunInv
<1>5. \A s \in Runs \ {r} : Quiet(s)
  BY <1>1, <1>2 DEF Quiet
<1>6. \A s \in Runs \ {r} : RunInv(s)'
  BY <1>0, <1>1, <1>4, <1>5, QuietRun DEF TypeOK
<1>7. RunInv(r)'
  BY <1>0, <1>1, <1>2, <1>4 DEF RunInv, Determined, Cloned, Npm, Same
<1>8. GroupInv'
  BY <1>0, <1>1, <1>2, ContinueGroup DEF Running, StepNames
<1>9. OriginInv' /\ TagsNameContent'
  BY <1>0, <1>1 DEF OriginInv, TagsNameContent, Tag
<1>10. RegistryInv'
  BY <1>0, <1>1, <1>4, <1>5, WitnessKept
<1> QED  BY <1>3, <1>6, <1>7, <1>8, <1>9, <1>10 DEF IInv

LEMMA PublishKeeps ==
    ASSUME IInv, NEW r \in Runs, Publish(r)
    PROVE  IInv'
<1>0. TypeOK /\ (\A s \in Runs : RunInv(s)) /\ GroupInv /\ OriginInv /\ RegistryInv
      /\ TagsNameContent
  BY DEF IInv
<1>1. /\ pc[r] = "publish" /\ Continue(r)
      /\ \A p \in registry : p.version # tag[r]
      /\ registry' = registry \cup {Content(r)}
      /\ UNCHANGED <<head, tags, job, local, tag, brokenOff, pushed>>
  BY DEF Publish, InRegistry, Content
<1>2. /\ \A s \in Runs \ {r} : pc'[s] = pc[s]
      /\ Npm(r) /\ pc'[r] = "push"
      /\ pc' \in [Runs -> {"none", "pending"} \cup StepNames \cup Results]
  BY <1>0, <1>1, ContinueMoves
<1>3. r \notin pushed /\ r \notin brokenOff /\ job[r] \in Job /\ tag[r] \in Version
  BY <1>0, <1>1 DEF RunInv, Determined
<1>4. Content(r) \in [version : Version, sha : Commits] /\ Content(r).version = tag[r]
  BY <1>3 DEF Content, Job
<1>5. TypeOK'
  BY <1>0, <1>1, <1>2, <1>4 DEF TypeOK
<1>6. \A s \in Runs \ {r} : Quiet(s)
  BY <1>1, <1>2 DEF Quiet
<1>7. \A s \in Runs \ {r} : RunInv(s)'
  BY <1>0, <1>1, <1>3, <1>6, QuietRun DEF TypeOK
<1>8. RunInv(r)'
  BY <1>0, <1>1, <1>2, <1>3 DEF RunInv, Determined, Cloned, Npm, Same, Content
<1>9. GroupInv'
  BY <1>0, <1>1, <1>2, ContinueGroup DEF Running, StepNames
<1>10. OriginInv'
  BY <1>0, <1>1, <1>4 DEF OriginInv, Tag
<1>11. TagsNameContent'
  BY <1>0, <1>1, <1>4 DEF TagsNameContent
<1>12. RegistryInv'
  <2>1. SUFFICES ASSUME NEW p \in registry' PROVE
          \E s \in Runs : /\ pc'[s] # "none" /\ Npm(s)' /\ p = Content(s)'
                          /\ pc'[s] = "push" \/ s \in brokenOff' \cup pushed'
    BY DEF RegistryInv
  <2>2. CASE p = Content(r)
    BY <1>1, <1>2, <2>2 DEF Content, Npm
  <2>3. CASE p \in registry
    <3>1. PICK s \in Runs : /\ pc[s] # "none" /\ Npm(s) /\ p = Content(s)
                            /\ pc[s] = "push" \/ s \in brokenOff \cup pushed
      BY <1>0, <2>3 DEF RegistryInv
    <3>2. s # r
      BY <1>1, <1>3, <3>1
    <3> QED  BY <1>1, <1>2, <3>1, <3>2 DEF Npm, Content
  <2> QED  BY <1>1, <2>1, <2>2, <2>3
<1> QED  BY <1>5, <1>7, <1>8, <1>9, <1>10, <1>11, <1>12 DEF IInv

(* Whoever published can tag.                                              *)
LEMMA PublishedIsFree ==
    ASSUME IInv, NEW r \in Runs, pc[r] = "push", Npm(r)
    PROVE  ~TagTaken(r)
<1>0. RunInv(r) /\ TypeOK /\ TagsNameContent /\ OriginInv
  BY DEF IInv
<1>1. Content(r) \in registry /\ tag[r] \in Version /\ tag[r] \notin local[r]
  BY <1>0 DEF RunInv, Determined, Above, Version
<1>2. ASSUME NEW t \in tags, t.target = job[r].target, t.version = tag[r]
      PROVE  t.sha = job[r].sha
  BY <1>0, <1>1, <1>2 DEF TagsNameContent, Npm, Content
<1> QED  BY <1>1, <1>2 DEF TagTaken

LEMMA TagAndPushKeeps ==
    ASSUME IInv, NEW r \in Runs, TagAndPush(r)
    PROVE  IInv'
<1>0. TypeOK /\ (\A s \in Runs : RunInv(s)) /\ GroupInv /\ OriginInv /\ RegistryInv
      /\ TagsNameContent
  BY DEF IInv
<1>1. /\ pc[r] = "push" /\ Continue(r) /\ ~TagTaken(r)
      /\ tags' = tags \cup {Tag(r)} /\ pushed' = pushed \cup {r}
      /\ UNCHANGED <<head, registry, job, local, tag, brokenOff>>
  BY DEF TagAndPush, PushTag, Tag
<1>2. /\ \A s \in Runs \ {r} : pc'[s] = pc[s]
      /\ pc'[r] = "end"
      /\ pc' \in [Runs -> {"none", "pending"} \cup StepNames \cup Results]
  BY <1>0, <1>1, ContinueMoves
<1>3. r \notin brokenOff /\ job[r] \in Job /\ tag[r] \in Version
  BY <1>0, <1>1 DEF RunInv, Determined
<1>4. /\ Tag(r) \in [target : Targets, version : Version, sha : Commits]
      /\ Tag(r).target = job[r].target /\ Tag(r).version = tag[r] /\ Tag(r).sha = job[r].sha
  BY <1>3 DEF Tag, Job
<1>5. TypeOK'
  BY <1>0, <1>1, <1>2, <1>4 DEF TypeOK
<1>6. \A s \in Runs \ {r} : Quiet(s)
  BY <1>1, <1>2 DEF Quiet
<1>7. \A s \in Runs \ {r} : Cloned(s) => job[s].ref # job[r].ref
  BY <1>0, <1>1 DEF GroupInv, Running, Cloned, StepNames
<1>8. \A s \in Runs \ {r} : RunInv(s)'
  BY <1>0, <1>1, <1>6, <1>7, QuietRun DEF TypeOK
<1>9. RunInv(r)'
  BY <1>0, <1>1, <1>2, <1>3 DEF RunInv, Determined, Cloned, Npm, Same, Tag
<1>10. GroupInv'
  BY <1>0, <1>1, <1>2, ContinueGroup DEF Running, StepNames
<1>11. OriginInv'
  <2>1. \A t \in tags' : \E s \in pushed' : t = Tag(s)'
    BY <1>0, <1>1 DEF OriginInv, Tag
  <2>2. \A t \in tags : t.target = job[r].target /\ t.version = tag[r] => t = Tag(r)
    BY <1>0, <1>1 DEF TagTaken, TypeOK, Tag
  <2>3. \A t, u \in tags' : t.target = u.target /\ t.version = u.version => t = u
    BY <1>0, <1>1, <1>4, <2>2 DEF OriginInv
  <2> QED  BY <1>0, <1>1, <2>1, <2>3 DEF OriginInv
<1>12. TagsNameContent'
  <2>1. Npm(r) => Content(r) \in registry
    BY <1>0, <1>1 DEF RunInv
  <2>2. Npm(r) => \A p \in registry : p.version = tag[r] => p.sha = job[r].sha
    BY <1>0, <2>1 DEF OriginInv, Content
  <2> QED  BY <1>0, <1>1, <1>4, <2>1, <2>2 DEF TagsNameContent, Npm, Content
<1>13. RegistryInv'
  <2>1. SUFFICES ASSUME NEW p \in registry PROVE
          \E s \in Runs : /\ pc'[s] # "none" /\ Npm(s)' /\ p = Content(s)'
                          /\ pc'[s] = "push" \/ s \in brokenOff' \cup pushed'
    BY <1>1 DEF RegistryInv
  <2>2. PICK s \in Runs : /\ pc[s] # "none" /\ Npm(s) /\ p = Content(s)
                          /\ pc[s] = "push" \/ s \in brokenOff \cup pushed
    BY <1>0 DEF RegistryInv
  <2> QED  BY <1>1, <1>2, <2>2 DEF Npm, Content
<1> QED  BY <1>5, <1>8, <1>9, <1>10, <1>11, <1>12, <1>13 DEF IInv

LEMMA NextInv == IInv /\ [Next]_vars => IInv'
<1> SUFFICES ASSUME IInv, [Next]_vars PROVE IInv'
  OBVIOUS
<1>1. ASSUME NEW r \in Runs,
             PublishRefused(r) \/ PushRejected(r) \/ Complete(r) \/ BreakOff(r)
      PROVE  IInv'
  <2>1. /\ Running(r)
        /\ End(r, "failure") \/ End(r, "success")
        /\ UNCHANGED <<head, tags, registry, job, local, tag, pushed>>
    BY <1>1 DEF PublishRefused, PushRejected, Complete, BreakOff, Running, StepNames
  <2>2. CASE PublishRefused(r) \/ Complete(r)
    BY <2>1, <2>2, EndKeeps DEF PublishRefused, Complete
  <2>3. CASE PushRejected(r)
    BY <2>1, <2>3, EndKeeps, PublishedIsFree DEF PushRejected
  <2>4. CASE BreakOff(r)
    BY <2>1, <2>4, EndKeeps DEF BreakOff
  <2> QED  BY <1>1, <2>2, <2>3, <2>4
<1>2. ASSUME NEW ref \in Refs, Commit(ref) PROVE IInv'
  BY <1>2 DEF Commit, IInv, TypeOK, RunInv, GroupInv, OriginInv, RegistryInv,
     TagsNameContent, Npm, Same, Cloned, Determined, Content, Tag, Running
<1>3. CASE UNCHANGED vars
  BY <1>3 DEF vars, IInv, TypeOK, RunInv, GroupInv, OriginInv, RegistryInv,
     TagsNameContent, Npm, Same, Cloned, Determined, Content, Tag, Running
<1> QED
  BY <1>1, <1>2, <1>3, DispatchKeeps, CheckoutKeeps, DetermineTagKeeps, BuildKeeps,
     PublishKeeps, TagAndPushKeeps DEF Next

(* What every run knows, and what it has left behind, is inductive.        *)
THEOREM Inductive == Spec => []IInv
BY InitInv, NextInv, PTL DEF Spec

-----------------------------------------------------------------------------
(* Every variable keeps its type: a version is never half computed.        *)
THEOREM TypeCorrect == Spec => []TypeOK
<1>1. IInv => TypeOK
  BY DEF IInv
<1> QED  BY <1>1, Inductive, PTL

(* However many runs race on however many branches, an npm tag is on the   *)
(* commit that was published.                                              *)
THEOREM TagsAreContent == Spec => []TagsNameContent
<1>1. IInv => TagsNameContent
  BY DEF IInv
<1> QED  BY <1>1, Inductive, PTL

(* No run leaves a version without a tag unless it is broken off.          *)
THEOREM RacesLeaveNothing == Spec => []UntaggedOnlyIfBrokenOff
<1>1. ASSUME IInv PROVE UntaggedOnlyIfBrokenOff
  <2>1. SUFFICES ASSUME NEW p \in registry PROVE
          \/ [target |-> "npm", version |-> p.version, sha |-> p.sha] \in tags
          \/ \E r \in Runs :
              /\ pc[r] # "none" /\ job[r].target = "npm"
              /\ tag[r] = p.version /\ job[r].sha = p.sha
              /\ pc[r] = "push" \/ r \in brokenOff
    BY DEF UntaggedOnlyIfBrokenOff
  <2>2. PICK r \in Runs : /\ pc[r] # "none" /\ Npm(r) /\ p = Content(r)
                          /\ pc[r] = "push" \/ r \in brokenOff \cup pushed
    BY <1>1 DEF IInv, RegistryInv
  <2>3. job[r].target = "npm" /\ p.version = tag[r] /\ p.sha = job[r].sha
    BY <2>2 DEF Npm, Content
  <2>4. CASE r \in pushed
    <3>1. Tag(r) \in tags
      BY <1>1, <2>4 DEF IInv, RunInv
    <3> QED  BY <2>3, <3>1 DEF Tag
  <2> QED  BY <2>2, <2>3, <2>4
<1> QED  BY <1>1, Inductive, PTL

(* Pushes of a branch go up: the group keeps two of its runs from          *)
(* computing their versions from the same tags.                            *)
THEOREM TagsGrow == Spec => TagsGrowPerRef
<1> DEFINE Grow == \A r \in pushed' \ pushed, s \in pushed :
                      /\ job[s].ref = job[r].ref
                      /\ job[s].target = job[r].target
                      => Above(tag[r], tag[s])
<1>1. ASSUME IInv, [Next]_vars PROVE Grow
  <2>1. SUFFICES ASSUME NEW r \in pushed' \ pushed, NEW s \in pushed, Same(r, s)
                 PROVE  Above(tag[r], tag[s])
    BY DEF Same
  <2>2. r \in Runs /\ TagAndPush(r)
    BY <1>1 DEF Next, vars, Dispatch, Request, Checkout, DetermineTag, Build, Publish,
       PublishRefused, TagAndPush, PushTag, PushRejected, Complete, BreakOff, Commit,
       IInv, TypeOK
  <2>3. RunInv(r) /\ pc[r] = "push"
    BY <1>1, <2>2 DEF IInv, TagAndPush
  <2>4. tag[s] \in local[r]
    BY <2>1, <2>3 DEF RunInv, Cloned
  <2> QED  BY <2>3, <2>4 DEF RunInv, Determined
<1>2. IInv /\ [Next]_vars => [Grow]_vars
  BY <1>1
<1> QED  BY <1>2, Inductive, PTL DEF Spec, TagsGrowPerRef

(* No push moves a tag or gives it a rival.                                *)
THEOREM TagsAreFixed == Spec => TagsNeverMove
<1> DEFINE Fixed == \A t \in tags :
                      {u \in tags' : u.target = t.target /\ u.version = t.version} = {t}
<1>1. ASSUME IInv, [Next]_vars PROVE Fixed
  <2>1. IInv'
    BY <1>1, NextInv
  <2>2. tags \subseteq tags'
    BY <1>1 DEF Next, vars, Dispatch, Request, Checkout, DetermineTag, Build, Publish,
       PublishRefused, TagAndPush, PushTag, PushRejected, Complete, BreakOff, Commit
  <2>3. \A t, u \in tags' : t.target = u.target /\ t.version = u.version => t = u
    BY <2>1 DEF IInv, OriginInv
  <2> QED  BY <2>2, <2>3
<1>2. IInv /\ [Next]_vars => [Fixed]_vars
  BY <1>1
<1> QED  BY <1>2, Inductive, PTL DEF Spec, TagsNeverMove

(* A run with nothing wrong with itself fails only to its own version.     *)
(* A taker has the version for good; a rival of r is a taker of r's.       *)
Taker(o) == (pc[o] = "push" /\ Npm(o)) \/ o \in brokenOff \cup pushed

Rival(r, o) ==
    /\ pc[o] # "none" /\ tag[o] = tag[r] /\ job[o].target = job[r].target
    /\ \/ job[o].ref # job[r].ref
       \/ o \in brokenOff \ pushed /\ job[o].target = "npm"

RivalInv ==
    \A r \in Runs \ brokenOff : pc[r] = "failure" =>
        \E o \in Runs \ {r} : Taker(o) /\ Rival(r, o)

(* A new failure has its rival.                                            *)
LEMMA RivalMet ==
    ASSUME IInv, NEW r \in Runs, PublishRefused(r) \/ PushRejected(r)
    PROVE  \E o \in Runs \ {r} : Taker(o) /\ Rival(r, o)
<1>0. TypeOK /\ RunInv(r) /\ GroupInv /\ OriginInv /\ RegistryInv
  BY DEF IInv
<1>1. /\ pc[r] \in {"publish", "push"} /\ r \notin brokenOff /\ r \notin pushed
      /\ tag[r] \in Version /\ tag[r] \notin local[r]
  BY <1>0 DEF PublishRefused, PushRejected, RunInv, Determined, Above, Version
<1>2. \A s \in pushed : Same(r, s) => tag[s] # tag[r]
  BY <1>0, <1>1 DEF RunInv, Cloned
<1>3. CASE PublishRefused(r)
  <2>1. PICK p \in registry : p.version = tag[r]
    BY <1>3 DEF PublishRefused, InRegistry
  <2>2. PICK o \in Runs : /\ pc[o] # "none" /\ Npm(o) /\ p = Content(o)
                          /\ pc[o] = "push" \/ o \in brokenOff \cup pushed
    BY <1>0 DEF RegistryInv
  <2>3. Npm(r) /\ pc[r] = "publish"
    BY <1>0, <1>3 DEF PublishRefused, RunInv
  <2>4. o # r /\ tag[o] = tag[r] /\ job[o].target = job[r].target
    BY <1>1, <2>1, <2>2, <2>3 DEF Npm, Content
  <2>5. CASE job[o].ref = job[r].ref
    <3>1. pc[o] # "push"
      BY <1>0, <2>3, <2>4, <2>5 DEF GroupInv, Running, StepNames
    <3>2. o \notin pushed
      BY <1>2, <2>4, <2>5 DEF Same
    <3> QED  BY <2>2, <2>4, <3>1, <3>2 DEF Rival, Taker, Npm
  <2> QED  BY <2>2, <2>4, <2>5 DEF Rival, Taker
<1>4. CASE PushRejected(r)
  <2>1. PICK t \in tags : t.target = job[r].target /\ t.version = tag[r]
    BY <1>1, <1>4 DEF PushRejected, TagTaken
  <2>2. PICK o \in pushed : t = Tag(o)
    BY <1>0 DEF OriginInv
  <2>3. o \in Runs \ {r} /\ tag[o] = tag[r] /\ job[o].target = job[r].target
    BY <1>0, <1>1, <2>1, <2>2 DEF Tag, TypeOK
  <2>4. job[o].ref # job[r].ref
    BY <1>2, <2>2, <2>3 DEF Same
  <2>5. pc[o] # "none"
    BY <2>2, <2>3 DEF IInv, RunInv
  <2> QED  BY <2>2, <2>3, <2>4, <2>5 DEF Rival, Taker
<1> QED  BY <1>3, <1>4

(* What a step of one run does to the others.                              *)
LEMMA OthersQuiet ==
    ASSUME IInv, NEW r \in Runs,
           \/ Dispatch(r) \/ Checkout(r) \/ DetermineTag(r) \/ Build(r)
           \/ Publish(r) \/ PublishRefused(r) \/ TagAndPush(r) \/ PushRejected(r)
           \/ Complete(r) \/ BreakOff(r)
    PROVE  \A s \in Runs \ {r} : Quiet(s)
<1>0. TypeOK
  BY DEF IInv
<1>1. CASE Dispatch(r)
  <2>1. PICK j \in Job :
          /\ job' = [job EXCEPT ![r] = j]
          /\ UNCHANGED <<local, tag, brokenOff, pushed>>
          /\ \A s \in Runs \ {r} :
               \/ pc'[s] = pc[s]
               \/ pc[s] = "pending" /\ pc'[s] = "cancelled"
    BY <1>0, <1>1, DispatchMoves DEF Pending
  <2> QED  BY <1>0, <2>1 DEF Quiet, TypeOK
<1>2. CASE PublishRefused(r) \/ PushRejected(r) \/ Complete(r) \/ BreakOff(r)
  <2>1. PICK result \in Results : End(r, result)
    BY <1>2 DEF PublishRefused, PushRejected, Complete, BreakOff, Results
  <2>2. \A s \in Runs \ {r} : pc'[s] = IF Pending(s, job[r].ref) THEN "checkout" ELSE pc[s]
    BY <1>0, <2>1, EndMoves
  <2>3. UNCHANGED <<job, local, tag, pushed>> /\ brokenOff' \in {brokenOff, brokenOff \cup {r}}
    BY <1>2 DEF PublishRefused, PushRejected, Complete, BreakOff
  <2> QED  BY <2>2, <2>3 DEF Quiet, Pending
<1>3. CASE Checkout(r) \/ DetermineTag(r) \/ Build(r) \/ Publish(r) \/ TagAndPush(r)
  <2>1. \A s \in Runs \ {r} : pc'[s] = pc[s]
    BY <1>0, <1>3 DEF Checkout, DetermineTag, Build, Publish, TagAndPush, PushTag,
       Continue, TypeOK
  <2>2. UNCHANGED <<job, brokenOff>> /\ pushed' \in {pushed, pushed \cup {r}}
    BY <1>3 DEF Checkout, DetermineTag, Build, Publish, TagAndPush, PushTag
  <2>3. \A s \in Runs \ {r} : local'[s] = local[s] /\ tag'[s] = tag[s]
    BY <1>0, <1>3 DEF Checkout, DetermineTag, Build, Publish, TagAndPush, PushTag, TypeOK
  <2> QED  BY <2>1, <2>2, <2>3 DEF Quiet
<1> QED  BY <1>1, <1>2, <1>3

(* Takers and failures stay what they are.                                 *)
LEMMA Settled ==
    ASSUME IInv, [Next]_vars, NEW o \in Runs, Taker(o) \/ pc[o] = "failure"
    PROVE  /\ tag'[o] = tag[o] /\ job'[o] = job[o] /\ pc'[o] # "none"
           /\ Taker(o) => Taker(o)'
           /\ pc[o] = "failure" => pc'[o] = "failure"
           /\ o \in brokenOff \ pushed => o \in brokenOff' \ pushed'
<1>0. RunInv(o) /\ TypeOK
  BY DEF IInv
<1>1. /\ pc[o] \in {"push", "end", "success", "failure"}
      /\ o \in brokenOff => pc[o] = "failure"
  BY <1>0 DEF Taker, RunInv
<1>2. ASSUME NEW r \in Runs \ {o},
             \/ Dispatch(r) \/ Checkout(r) \/ DetermineTag(r) \/ Build(r)
             \/ Publish(r) \/ PublishRefused(r) \/ TagAndPush(r) \/ PushRejected(r)
             \/ Complete(r) \/ BreakOff(r)
      PROVE  Quiet(o)
  BY <1>2, OthersQuiet
<1>3. CASE TagAndPush(o)
  <2>1. pc[o] = "push" /\ pushed' = pushed \cup {o} /\ UNCHANGED <<job, tag, brokenOff>>
    BY <1>3 DEF TagAndPush, PushTag
  <2>2. pc'[o] = "end"
    BY <1>0, <1>3, ContinueMoves DEF TagAndPush, PushTag
  <2> QED  BY <1>1, <2>1, <2>2 DEF Taker
<1>4. CASE Complete(o) \/ BreakOff(o)
  <2>1. /\ UNCHANGED <<job, tag, pushed>> /\ Running(o)
        /\ \/ UNCHANGED brokenOff /\ pc[o] = "end"
           \/ brokenOff' = brokenOff \cup {o}
    BY <1>4 DEF Complete, BreakOff, Running, StepNames
  <2>2. PICK result \in Results : End(o, result)
    BY <1>4 DEF Complete, BreakOff, Results
  <2>3. pc'[o] \in Results
    BY <1>0, <2>2, EndMoves
  <2> QED  BY <1>1, <2>1, <2>3 DEF Taker, Running, StepNames, Results
<1>5. CASE PushRejected(o)
  <2>1. pc[o] = "push" /\ TagTaken(o)
    BY <1>5 DEF PushRejected
  <2>2. Taker(o) /\ o \notin pushed /\ o \notin brokenOff
    BY <1>0, <2>1 DEF RunInv
  <2> QED  BY <2>1, <2>2, PublishedIsFree DEF Taker
<1>6. CASE UNCHANGED <<tag, job, pc, brokenOff, pushed>>
  BY <1>1, <1>6 DEF Taker, Npm
<1>7. CASE Quiet(o)
  BY <1>1, <1>7 DEF Quiet, Taker, Npm
<1>8. ~(Dispatch(o) \/ Checkout(o) \/ DetermineTag(o) \/ Build(o) \/ Publish(o)
        \/ PublishRefused(o))
  BY <1>1 DEF Dispatch, Request, Checkout, DetermineTag, Build, Publish, PublishRefused
<1>9. CASE \E ref \in Refs : Commit(ref)
  BY <1>6, <1>9 DEF Commit
<1>10. CASE UNCHANGED vars
  BY <1>6, <1>10 DEF vars
<1> QED  BY <1>2, <1>3, <1>4, <1>5, <1>7, <1>8, <1>9, <1>10 DEF Next

LEMMA NextRival == IInv /\ RivalInv /\ [Next]_vars => RivalInv'
<1> SUFFICES ASSUME IInv, RivalInv, [Next]_vars,
                    NEW r \in Runs, r \notin brokenOff', pc'[r] = "failure"
             PROVE  \E o \in Runs \ {r} : Taker(o)' /\ Rival(r, o)'
  BY DEF RivalInv
<1>0. TypeOK
  BY DEF IInv
<1>1. ASSUME NEW o \in Runs \ {r}, Taker(o), Rival(r, o),
             tag'[r] = tag[r] /\ job'[r] = job[r]
      PROVE  Taker(o)' /\ Rival(r, o)'
  BY <1>1, Settled DEF Rival
<1>2. CASE pc[r] = "failure"
  <2>1. r \notin brokenOff
    BY DEF Next, vars, Dispatch, Request, Checkout, DetermineTag, Build, Publish,
       PublishRefused, TagAndPush, PushTag, PushRejected, Complete, BreakOff, Commit
  <2>2. PICK o \in Runs \ {r} : Taker(o) /\ Rival(r, o)
    BY <1>2, <2>1 DEF RivalInv
  <2>3. tag'[r] = tag[r] /\ job'[r] = job[r]
    BY <1>2, Settled
  <2> QED  BY <1>1, <2>2, <2>3
<1>3. CASE pc[r] # "failure"
  <2>1. ASSUME NEW a \in Runs \ {r},
               \/ Dispatch(a) \/ Checkout(a) \/ DetermineTag(a) \/ Build(a)
               \/ Publish(a) \/ PublishRefused(a) \/ TagAndPush(a) \/ PushRejected(a)
               \/ Complete(a) \/ BreakOff(a)
        PROVE  FALSE
    BY <1>3, <2>1, OthersQuiet DEF Quiet
  <2>2. ~Dispatch(r)
    BY <1>0, DispatchMoves
  <2>3. ~(Checkout(r) \/ DetermineTag(r) \/ Build(r) \/ Publish(r) \/ TagAndPush(r))
    BY <1>0, ContinueMoves DEF IInv, Checkout, DetermineTag, Build, Publish, TagAndPush,
       PushTag
  <2>4. ~(Complete(r) \/ BreakOff(r))
    BY <1>0, EndMoves DEF Complete, BreakOff, Results
  <2>5. ~((\E ref \in Refs : Commit(ref)) \/ UNCHANGED vars)
    BY <1>3 DEF Commit, vars
  <2>6. PublishRefused(r) \/ PushRejected(r)
    BY <2>1, <2>2, <2>3, <2>4, <2>5 DEF Next
  <2>7. tag'[r] = tag[r] /\ job'[r] = job[r]
    BY <2>6 DEF PublishRefused, PushRejected
  <2> QED  BY <1>1, <2>6, <2>7, RivalMet
<1> QED  BY <1>2, <1>3

(* A run with nothing wrong with itself fails only to its own version,     *)
(* taken on another branch or left by a run that was broken off.           *)
THEOREM FailuresHaveRival == Spec => []FailsOnlyToRival
<1>1. Init => RivalInv
  BY DEF Init, RivalInv
<1>2. RivalInv => FailsOnlyToRival
  BY DEF RivalInv, Rival, FailsOnlyToRival
<1> QED  BY <1>1, <1>2, NextRival, Inductive, PTL DEF Spec

-----------------------------------------------------------------------------
(* A run that waits has one to wait for, whose end will start it.          *)
WaitersHaveRunner ==
    \A p \in Runs :
        pc[p] = "pending" => \E s \in Runs : Running(s) /\ job[s].ref = job[p].ref

LEMMA EndStartsWaiter ==
    ASSUME IInv, WaitersHaveRunner, NEW r \in Runs, NEW result \in Results,
           End(r, result), UNCHANGED job
    PROVE  WaitersHaveRunner'
<1> SUFFICES ASSUME NEW p \in Runs, pc'[p] = "pending"
             PROVE  \E s \in Runs : pc'[s] \in StepNames /\ job[s].ref = job[p].ref
  BY DEF WaitersHaveRunner, Running
<1>1. /\ pc'[r] = result
      /\ \A s \in Runs \ {r} :
            pc'[s] = IF Pending(s, job[r].ref) THEN "checkout" ELSE pc[s]
  BY EndMoves DEF IInv
<1>2. p # r /\ pc[p] = "pending" /\ job[p].ref # job[r].ref
  BY <1>1 DEF Results, Pending
<1>3. PICK s \in Runs : Running(s) /\ job[s].ref = job[p].ref
  BY <1>2 DEF WaitersHaveRunner
<1>4. s # r /\ pc'[s] = pc[s]
  BY <1>1, <1>2, <1>3 DEF Running, StepNames, Pending
<1> QED  BY <1>3, <1>4 DEF Running

LEMMA NextWaiters == IInv /\ WaitersHaveRunner /\ [Next]_vars => WaitersHaveRunner'
<1> SUFFICES ASSUME IInv, WaitersHaveRunner, [Next]_vars PROVE WaitersHaveRunner'
  OBVIOUS
<1>1. ASSUME NEW r \in Runs, Dispatch(r) PROVE WaitersHaveRunner'
  <2> SUFFICES ASSUME NEW p \in Runs, pc'[p] = "pending"
               PROVE  \E s \in Runs : pc'[s] \in StepNames /\ job'[s].ref = job'[p].ref
    BY DEF WaitersHaveRunner, Running
  <2>1. PICK j \in Job :
          /\ pc[r] = "none" /\ job' = [job EXCEPT ![r] = j]
          /\ \/ /\ \E s \in Runs : Running(s) /\ job[s].ref = j.ref
                /\ \A s \in Runs \ {r} :
                     pc'[s] = IF Pending(s, j.ref) THEN "cancelled" ELSE pc[s]
             \/ /\ pc'[r] = "checkout"
                /\ \A s \in Runs \ {r} : pc'[s] = pc[s]
    BY <1>1, DispatchMoves DEF IInv
  <2>2. job'[r] = j /\ \A s \in Runs \ {r} : job'[s] = job[s]
    BY <2>1 DEF IInv, TypeOK
  <2>3. \A s \in Runs : Running(s) => s # r /\ pc'[s] = pc[s]
    BY <2>1 DEF Running, StepNames, Pending
  <2>4. CASE p = r
    BY <2>1, <2>2, <2>3, <2>4 DEF Running
  <2>5. CASE p # r
    <3>1. PICK s \in Runs : Running(s) /\ job[s].ref = job[p].ref
      BY <2>1, <2>5 DEF WaitersHaveRunner
    <3> QED  BY <2>2, <2>3, <2>5, <3>1 DEF Running
  <2> QED  BY <2>4, <2>5
<1>2. ASSUME NEW r \in Runs,
             \/ Checkout(r) \/ DetermineTag(r) \/ Build(r) \/ Publish(r) \/ TagAndPush(r)
      PROVE  WaitersHaveRunner'
  <2>1. /\ Continue(r) /\ UNCHANGED job
        /\ pc[r] \in {"checkout", "tag", "build", "publish", "push"}
    BY <1>2 DEF Checkout, DetermineTag, Build, Publish, TagAndPush, PushTag
  <2>2. RunInv(r) /\ TypeOK
    BY DEF IInv
  <2>3. pc'[r] \in StepNames /\ \A s \in Runs \ {r} : pc'[s] = pc[s]
    BY <2>1, <2>2, ContinueMoves DEF StepNames
  <2> QED  BY <2>1, <2>3 DEF WaitersHaveRunner, Running, StepNames
<1>3. ASSUME NEW r \in Runs,
             PublishRefused(r) \/ PushRejected(r) \/ Complete(r) \/ BreakOff(r)
      PROVE  WaitersHaveRunner'
  BY <1>3, EndStartsWaiter DEF PublishRefused, PushRejected, Complete, BreakOff, Results
<1>4. CASE (\E ref \in Refs : Commit(ref)) \/ UNCHANGED vars
  BY <1>4 DEF Commit, vars, WaitersHaveRunner, Running
<1> QED  BY <1>1, <1>2, <1>3, <1>4 DEF Next

(* No run waits for nobody: cancelled, displaced, broken off or done, what *)
(* ends in a group leaves its waiting run started, and no run waits in an  *)
(* idle group (publish.yaml:28-30).  The safety half of RunsEnd.           *)
THEOREM NobodyWaitsIdly == Spec => []WaitersHaveRunner
<1>1. Init => WaitersHaveRunner
  BY DEF Init, WaitersHaveRunner
<1> QED  BY <1>1, NextWaiters, Inductive, PTL DEF Spec
=============================================================================
