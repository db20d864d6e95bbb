---------------------------- MODULE ReleaseProofs ----------------------------
(***************************************************************************)
(* What a release promises, for any number of runs, refs, commits and       *)
(* versions.                                                               *)
(***************************************************************************)
EXTENDS Release, TLAPS

JobStates == {"waiting", "approved", "absent"} \cup Ended

\* The publication was allowed to start.
Stages == {"approved", "absent", "success"}

ContractHolds(R) ==
    /\ MetadataAgrees(R.commit) /\ R.commit \in Fresh
    /\ ValidateReleaseRef(R.ref.type, R.ref.name, CargoVersion(R.commit))

\* What it means that a job of a run has succeeded, or that it publishes.
Sound(R, f) ==
    /\ R.ref.type = "tag" => f[R.ref] = R.commit
    /\ R.job["contract"] = "success" => ContractHolds(R)
    /\ R.job["verify"] = "success" => R.commit \in Lawful /\ R.job["contract"] = "success"
    /\ R.job["proofs"] = "success" => R.commit \in Proved /\ R.job["contract"] = "success"
    /\ R.job["package"] = "success" => R.job["verify"] = "success" /\ R.job["proofs"] = "success"
    /\ R.job["publish"] \in Stages =>
          R.job["package"] = "success" /\ R.ref.type = "tag" /\ R.registry # "validate-only"
    /\ R.status # "active" => R.job["publish"] \notin {"approved", "absent"}

RunOK(R, f) == R = Idle \/ (R \in RunType /\ Sound(R, f))

RunsInv == \A r \in Runs : RunOK(run[r], refs)

\* Runs of one group do not overlap.
Exclusive ==
    \A r, s \in Runs : r # s /\ Working(r) /\ Working(s) => run[r].ref # run[s].ref

Asked(c) == \E r \in Runs : ~Is(r, "new") /\ run[r].registry = "crates-io" /\ run[r].commit = c

CratesInv ==
    \A v \in Versions : crates[v] # NoCommit =>
        /\ Tag(v) \in Refs /\ refs[Tag(v)] = crates[v]
        /\ CargoVersion(crates[v]) = v /\ Releasable(crates[v])
        /\ Asked(crates[v])

ReleasesInv ==
    \A ref \in Refs : releases[ref] # NoCommit =>
        /\ ref = Tag(CargoVersion(releases[ref])) /\ refs[ref] = releases[ref]
        /\ Releasable(releases[ref])

IsPublished(R) ==
    \/ R.registry = "crates-io" /\ crates[CargoVersion(R.commit)] = R.commit
    \/ R.registry = "github-release" /\ releases[R.ref] = R.commit

SuccessInv == \A r \in Runs : At(r, "success") => IsPublished(run[r])

IInv == TypeOK /\ RunsInv /\ Exclusive /\ CratesInv /\ ReleasesInv /\ SuccessInv
-----------------------------------------------------------------------------
(* One run. *)

LEMMA IdleIsNew == Idle.status = "new" /\ \A R \in RunType : R.status # "new"
BY DEF Idle, RunType

LEMMA VersionOf == ASSUME NEW c \in Commits PROVE CargoVersion(c) \in Versions
BY CommitAssumption DEF CargoVersion

\* A run whose publication was allowed to start carries a commit that may be
\* released, and was dispatched at the tag of its version.
LEMMA MayPublish ==
    ASSUME NEW R \in RunType, NEW f, Sound(R, f), R.job["publish"] \in Stages
    PROVE  /\ Releasable(R.commit)
           /\ R.ref = Tag(CargoVersion(R.commit))
           /\ R.ref \in Refs /\ R.commit \in Commits /\ CargoVersion(R.commit) \in Versions
           /\ f[R.ref] = R.commit
           /\ R.registry \in {"crates-io", "github-release"}
<1>1. /\ R.ref \in Refs /\ R.commit \in Commits /\ R.registry \in Registries
      /\ R.ref.type = "tag" /\ R.registry # "validate-only"
    BY DEF Sound, RunType
<1>2. ContractHolds(R) /\ R.commit \in Lawful /\ R.commit \in Proved
    BY DEF Sound
<1>3. R.ref = Tag(CargoVersion(R.commit))
    BY <1>1, <1>2, RefAssumption DEF ContractHolds, ValidateReleaseRef, Tag
<1>4. Releasable(R.commit)
    BY <1>2 DEF ContractHolds, Releasable
<1>5. f[R.ref] = R.commit
    BY <1>1 DEF Sound
<1> QED BY <1>1, <1>3, <1>4, <1>5, VersionOf DEF Registries

\* A cancelled run is as sound as the pending one it was.
LEMMA Cancelled ==
    ASSUME NEW R, NEW f, RunOK(R, f), R.status = "pending"
    PROVE  /\ RunOK([R EXCEPT !.status = "cancelled"], f)
           /\ LET C == [R EXCEPT !.status = "cancelled"]
              IN  /\ C.status = "cancelled" /\ C.job = R.job /\ C.ref = R.ref
                  /\ C.commit = R.commit /\ C.registry = R.registry
<1>1. R \in RunType /\ Sound(R, f)
    BY IdleIsNew DEF RunOK
<1> DEFINE C == [R EXCEPT !.status = "cancelled"]
<1>2. /\ C \in RunType /\ C.status = "cancelled" /\ C.job = R.job /\ C.ref = R.ref
      /\ C.commit = R.commit /\ C.registry = R.registry
    BY <1>1 DEF RunType
<1> HIDE DEF C
<1>3. Sound(C, f)
    BY <1>1, <1>2 DEF Sound, ContractHolds
<1> QED BY <1>2, <1>3 DEF RunOK, C

\* What a job may come to: a success has to be deserved.
Deserved(R, j, x) ==
    /\ x = "success" =>
          /\ j = "contract" => ContractHolds(R)
          /\ j = "verify"   => R.commit \in Lawful /\ R.job["contract"] = "success"
          /\ j = "proofs"   => R.commit \in Proved /\ R.job["contract"] = "success"
          /\ j = "package"  => R.job["verify"] = "success" /\ R.job["proofs"] = "success"
    /\ j = "publish" /\ x \in Stages =>
          R.job["package"] = "success" /\ R.ref.type = "tag" /\ R.registry # "validate-only"

LEMMA JobSet ==
    ASSUME NEW R \in RunType, NEW f, Sound(R, f), R.status = "active",
           NEW j \in Jobs, NEW x \in JobStates, R.job[j] # "success", Deserved(R, j, x)
    PROVE  LET S == [R EXCEPT !.job[j] = x]
           IN  /\ S \in RunType /\ Sound(S, f) /\ S.status = R.status /\ S.ref = R.ref
               /\ S.commit = R.commit /\ S.registry = R.registry
               /\ \A k \in Jobs : S.job[k] = IF k = j THEN x ELSE R.job[k]
<1> DEFINE S == [R EXCEPT !.job[j] = x]
<1>1. R.job \in [Jobs -> JobStates]
    BY DEF RunType, JobStates
<1>2. /\ S.status = R.status /\ S.ref = R.ref
      /\ S.commit = R.commit /\ S.registry = R.registry
      /\ S.job = [R.job EXCEPT ![j] = x]
    BY DEF RunType
<1>3. S.job \in [Jobs -> JobStates] /\ \A k \in Jobs : S.job[k] = IF k = j THEN x ELSE R.job[k]
    BY <1>1, <1>2
<1>4. S \in RunType
    BY <1>3 DEF RunType, JobStates
<1> HIDE DEF S
<1>5. ContractHolds(S) <=> ContractHolds(R)
    BY <1>2 DEF ContractHolds
<1>6. Sound(S, f)
    BY <1>2, <1>3, <1>5 DEF Sound, Jobs, Deserved, Stages
<1> QED BY <1>2, <1>3, <1>4, <1>6 DEF S
-----------------------------------------------------------------------------
(* All runs.  *)

\* A run, once dispatched, keeps its ref, commit and destination.
KeepsRuns ==
    \A s \in Runs : run[s].status # "new" =>
        /\ run'[s].status # "new" /\ run'[s].ref = run[s].ref
        /\ run'[s].commit = run[s].commit /\ run'[s].registry = run[s].registry

\* Nothing public is replaced.
KeepsPublic ==
    /\ \A v \in Versions : crates[v] # NoCommit => crates'[v] = crates[v]
    /\ \A ref \in Refs : releases[ref] # NoCommit => releases'[ref] = releases[ref]

LEMMA ExclusiveStays ==
    ASSUME Exclusive,
           \A s \in Runs : Working(s)' => Working(s) /\ run'[s].ref = run[s].ref
    PROVE  Exclusive'
BY DEF Exclusive

\* What was asked for stays asked for.
LEMMA CratesStay ==
    ASSUME CratesInv, KeepsRuns, crates' = crates, refs' = refs
    PROVE  CratesInv'
<1> SUFFICES ASSUME NEW v \in Versions, crates[v] # NoCommit PROVE Asked(crates[v])'
    BY DEF CratesInv
<1>1. PICK r \in Runs : ~Is(r, "new") /\ run[r].registry = "crates-io" /\ run[r].commit = crates[v]
    BY DEF CratesInv, Asked
<1> QED BY <1>1 DEF KeepsRuns, Is, Asked

LEMMA ReleasesStay ==
    ASSUME ReleasesInv, releases' = releases, refs' = refs
    PROVE  ReleasesInv'
BY DEF ReleasesInv

\* A run that has published is still right about it.
LEMMA IsPublishedStays ==
    ASSUME IInv, KeepsPublic, KeepsRuns, NEW r \in Runs, run[r] \in RunType, IsPublished(run[r])
    PROVE  IsPublished(run[r])'
<1>1. /\ run[r].ref \in Refs /\ run[r].commit \in Commits /\ run[r].commit # NoCommit
      /\ CargoVersion(run[r].commit) \in Versions /\ run[r].status # "new"
    BY CommitAssumption, VersionOf, IdleIsNew DEF RunType
<1>2. /\ run'[r].ref = run[r].ref /\ run'[r].commit = run[r].commit
      /\ run'[r].registry = run[r].registry
    BY <1>1 DEF KeepsRuns
<1> QED BY <1>1, <1>2 DEF IsPublished, KeepsPublic

\* A job of a run under way comes to x.
LEMMA JobComes ==
    ASSUME IInv, NEW r \in Runs, NEW j \in Jobs, NEW x \in JobStates,
           run[r].status = "active", run[r].job[j] \notin Ended, Deserved(run[r], j, x),
           run' = [run EXCEPT ![r].job[j] = x], refs' = refs
    PROVE  /\ run' \in [Runs -> RunType \cup {Idle}] /\ RunsInv' /\ Exclusive' /\ KeepsRuns
           /\ \A s \in Runs : At(s, "success")' =>
                 \/ At(s, "success") /\ run'[s] = run[s]
                 \/ At(s, "success") /\ s = r /\ j # "publish"
                 \/ s = r /\ j = "publish" /\ x = "success"
<1> DEFINE R == run[r]
           S == [R EXCEPT !.job[j] = x]
<1>1. run \in [Runs -> RunType \cup {Idle}]
    BY DEF IInv, TypeOK
<1>2. R \in RunType /\ Sound(R, refs)
    BY <1>1, IdleIsNew DEF IInv, RunsInv, RunOK
<1>3. R.job[j] # "success"
    BY DEF Ended
<1>4. /\ S \in RunType /\ Sound(S, refs) /\ S.status = R.status /\ S.ref = R.ref
      /\ S.commit = R.commit /\ S.registry = R.registry
      /\ \A k \in Jobs : S.job[k] = IF k = j THEN x ELSE R.job[k]
    BY <1>2, <1>3, JobSet
<1>5. run'[r] = S /\ \A s \in Runs : s # r => run'[s] = run[s]
    BY <1>1
<1>6. run' \in [Runs -> RunType \cup {Idle}]
    BY <1>1, <1>4
<1> HIDE DEF S, R
<1>7. RunsInv'
    BY <1>4, <1>5 DEF IInv, RunsInv, RunOK
<1>8. KeepsRuns
    BY <1>4, <1>5 DEF KeepsRuns, R
<1>9. ASSUME NEW s \in Runs, Working(s)' PROVE Working(s) /\ run'[s].ref = run[s].ref
    <2>1. CASE s = r
        <3>1. Working(s)
            BY <2>1 DEF Working, Is, AllEnded
        <3> QED BY <1>4, <1>5, <2>1, <3>1 DEF R
    <2>2. CASE s # r
        BY <1>5, <1>9, <2>2 DEF Working, Is, AllEnded
    <2> QED BY <2>1, <2>2
<1>10. Exclusive'
    BY <1>9, ExclusiveStays DEF IInv
<1>11. ASSUME NEW s \in Runs, At(s, "success")'
       PROVE  \/ At(s, "success") /\ run'[s] = run[s]
              \/ At(s, "success") /\ s = r /\ j # "publish"
              \/ s = r /\ j = "publish" /\ x = "success"
    <2>1. CASE s # r
        BY <1>5, <1>11, <2>1 DEF At, Is
    <2>2. CASE s = r
        <3>1. S.job["publish"] = "success" /\ S.status # "new"
            BY <1>5, <1>11, <2>2 DEF At, Is
        <3>2. j = "publish" => x = "success"
            BY <1>4, <3>1
        <3>3. j # "publish" => R.job["publish"] = "success"
            BY <1>4, <3>1 DEF Jobs
        <3> QED BY <1>4, <2>2, <3>1, <3>2, <3>3 DEF At, Is, R
    <2> QED BY <2>1, <2>2
<1> QED BY <1>6, <1>7, <1>8, <1>10, <1>11

\* ... and nothing is published by it.
LEMMA JobStays ==
    ASSUME IInv, NEW r \in Runs, NEW j \in Jobs, NEW x \in JobStates,
           run[r].status = "active", run[r].job[j] \notin Ended, Deserved(run[r], j, x),
           j = "publish" => x # "success",
           run' = [run EXCEPT ![r].job[j] = x], UNCHANGED <<refs, crates, visible, releases>>
    PROVE  IInv'
<1>1. /\ run' \in [Runs -> RunType \cup {Idle}] /\ RunsInv' /\ Exclusive' /\ KeepsRuns
      /\ \A s \in Runs : At(s, "success")' => At(s, "success")
    BY JobComes
<1>2. TypeOK'
    BY <1>1 DEF IInv, TypeOK
<1>3. CratesInv' /\ ReleasesInv'
    BY <1>1, CratesStay, ReleasesStay DEF IInv
<1>4. SuccessInv'
    <2> SUFFICES ASSUME NEW s \in Runs, At(s, "success")' PROVE IsPublished(run[s])'
        BY DEF SuccessInv
    <2>1. At(s, "success") /\ IsPublished(run[s])
        BY <1>1 DEF IInv, SuccessInv
    <2>2. run[s] \in RunType
        BY <2>1, IdleIsNew DEF IInv, TypeOK, At, Is
    <2>3. KeepsPublic
        BY DEF KeepsPublic
    <2> QED BY <1>1, <2>1, <2>2, <2>3, IsPublishedStays
<1> QED BY <1>1, <1>2, <1>3, <1>4 DEF IInv
-----------------------------------------------------------------------------
(* The actions.  *)

LEMMA InitIInv == Init => IInv
<1> SUFFICES ASSUME Init PROVE IInv
    OBVIOUS
<1>1. /\ refs = [ref \in Refs |-> NoCommit] /\ run = [r \in Runs |-> Idle]
      /\ crates = [v \in Versions |-> NoCommit] /\ visible = {}
      /\ releases = [ref \in Refs |-> NoCommit]
    BY DEF Init
<1>2. TypeOK
    BY <1>1 DEF TypeOK
<1>3. RunsInv
    BY <1>1 DEF RunsInv, RunOK
<1>4. \A r \in Runs : run[r].status = "new"
    BY <1>1, IdleIsNew
<1>5. Exclusive /\ SuccessInv
    BY <1>4 DEF Exclusive, Working, Is, SuccessInv, At
<1>6. CratesInv /\ ReleasesInv
    BY <1>1 DEF CratesInv, ReleasesInv
<1> QED BY <1>2, <1>3, <1>5, <1>6 DEF IInv

\* A tag is set before any run is dispatched at it; a branch is nothing that
\* a publication rests on.
LEMMA SetRefStep ==
    ASSUME IInv, NEW ref \in Refs, NEW c \in Commits, SetRef(ref, c)
    PROVE  IInv'
<1>1. /\ ref.type = "tag" => refs[ref] = NoCommit
      /\ refs' = [refs EXCEPT ![ref] = c]
      /\ UNCHANGED <<run, crates, visible, releases>>
    BY DEF SetRef
<1>2. /\ refs \in [Refs -> Commits \cup {NoCommit}] /\ refs' \in [Refs -> Commits \cup {NoCommit}]
      /\ \A t \in Refs : t # ref => refs'[t] = refs[t]
    BY <1>1 DEF IInv, TypeOK
<1>3. \A t \in Refs : t.type = "tag" /\ refs[t] # NoCommit => refs'[t] = refs[t]
    BY <1>1, <1>2
<1>4. \A v : Tag(v).type = "tag"
    BY DEF Tag
<1>5. TypeOK'
    BY <1>1, <1>2 DEF IInv, TypeOK
<1>6. ASSUME NEW r \in Runs PROVE RunOK(run[r], refs')
    <2>1. CASE run[r] = Idle
        BY <2>1 DEF RunOK
    <2>2. CASE run[r] # Idle
        <3>1. /\ run[r] \in RunType /\ Sound(run[r], refs)
              /\ run[r].ref \in Refs /\ run[r].commit # NoCommit
            BY <2>2, CommitAssumption DEF IInv, RunsInv, RunOK, RunType
        <3>2. run[r].ref.type = "tag" => refs'[run[r].ref] = run[r].commit
            BY <1>3, <3>1 DEF Sound
        <3> QED BY <3>1, <3>2 DEF RunOK, Sound
    <2> QED BY <2>1, <2>2
<1>7. RunsInv'
    BY <1>1, <1>6 DEF RunsInv
<1>8. Exclusive' /\ SuccessInv'
    BY <1>1 DEF IInv, Exclusive, Working, Is, AllEnded, SuccessInv, At, IsPublished
<1>9. CratesInv'
    <2> SUFFICES ASSUME NEW v \in Versions, crates[v] # NoCommit
                 PROVE  refs'[Tag(v)] = crates[v] /\ Asked(crates[v])'
        BY <1>1 DEF IInv, CratesInv
    <2>1. Tag(v) \in Refs /\ refs[Tag(v)] = crates[v] /\ Asked(crates[v])
        BY DEF IInv, CratesInv
    <2> QED BY <1>1, <1>3, <1>4, <2>1 DEF Asked, Is
<1>10. ReleasesInv'
    <2> SUFFICES ASSUME NEW t \in Refs, releases[t] # NoCommit PROVE refs'[t] = releases[t]
        BY <1>1 DEF IInv, ReleasesInv
    <2>1. refs[t] = releases[t] /\ t = Tag(CargoVersion(releases[t]))
        BY DEF IInv, ReleasesInv
    <2> QED BY <1>3, <1>4, <2>1
<1> QED BY <1>5, <1>7, <1>8, <1>9, <1>10 DEF IInv

\* A run joins its group and takes the place of the one that waits there.
LEMMA Queued ==
    ASSUME IInv, NEW r \in Runs, NEW R \in RunType, Sound(R, refs), R.status = "pending",
           run[r].status # "new" => /\ R.ref = run[r].ref /\ R.commit = run[r].commit
                                    /\ R.registry = run[r].registry,
           R.job["publish"] = "success" => At(r, "success"),
           run' = [s \in Runs |->
                      CASE s = r -> R
                        [] s # r /\ Is(s, "pending") /\ run[s].ref = R.ref ->
                              [run[s] EXCEPT !.status = "cancelled"]
                        [] OTHER -> run[s]],
           UNCHANGED <<refs, crates, visible, releases>>
    PROVE  IInv'
<1>1. run \in [Runs -> RunType \cup {Idle}] /\ \A s \in Runs : RunOK(run[s], refs)
    BY DEF IInv, TypeOK, RunsInv
<1>2. run'[r] = R
    BY <1>1
<1>3. ASSUME NEW s \in Runs, s # r
      PROVE  /\ RunOK(run'[s], refs)
             /\ \/ run'[s] = run[s]
                \/ /\ run[s].status = "pending" /\ run'[s].status = "cancelled"
                   /\ run'[s].job = run[s].job /\ run'[s].ref = run[s].ref
                   /\ run'[s].commit = run[s].commit /\ run'[s].registry = run[s].registry
    <2>1. CASE Is(s, "pending") /\ run[s].ref = R.ref
        <3>1. run'[s] = [run[s] EXCEPT !.status = "cancelled"]
            BY <1>3, <2>1
        <3> QED BY <1>1, <2>1, <3>1, Cancelled DEF Is
    <2>2. CASE ~(Is(s, "pending") /\ run[s].ref = R.ref)
        <3>1. run'[s] = run[s]
            BY <1>3, <2>2
        <3> QED BY <1>1, <3>1
    <2> QED BY <2>1, <2>2
<1>4. \A s \in Runs : RunOK(run'[s], refs)
    BY <1>2, <1>3 DEF RunOK
<1>5. RunsInv'
    BY <1>4 DEF RunsInv
<1>6. DOMAIN run' = Runs /\ run' = [s \in Runs |-> run'[s]]
    OBVIOUS
<1>7. TypeOK'
    <2>1. run' \in [Runs -> RunType \cup {Idle}]
        BY <1>4, <1>6 DEF RunOK
    <2> QED BY <2>1 DEF IInv, TypeOK
<1>8. KeepsRuns
    BY <1>2, <1>3 DEF KeepsRuns
<1>9. ASSUME NEW s \in Runs, Working(s)' PROVE Working(s) /\ run'[s].ref = run[s].ref
    <2>1. s # r
        BY <1>2, <1>9 DEF Working, Is
    <2>2. run'[s] = run[s]
        BY <1>3, <1>9, <2>1 DEF Working, Is
    <2> QED BY <1>9, <2>2 DEF Working, Is, AllEnded
<1>10. Exclusive'
    BY <1>9, ExclusiveStays DEF IInv
<1>11. CratesInv' /\ ReleasesInv'
    BY <1>8, CratesStay, ReleasesStay DEF IInv
<1>12. SuccessInv'
    <2> SUFFICES ASSUME NEW s \in Runs, At(s, "success")' PROVE IsPublished(run[s])'
        BY DEF SuccessInv
    <2>1. At(s, "success")
        <3>1. CASE s = r
            BY <1>2, <3>1 DEF At, Is
        <3>2. CASE s # r
            <4>1. run[s].status # "new" /\ run[s].job["publish"] = "success"
                BY <1>3, <3>2 DEF At, Is
            <4> QED BY <4>1 DEF At, Is
        <3> QED BY <3>1, <3>2
    <2>2. run[s] \in RunType /\ IsPublished(run[s])
        BY <1>1, <2>1, IdleIsNew DEF IInv, SuccessInv, At, Is
    <2>3. KeepsPublic
        BY DEF KeepsPublic
    <2> QED BY <1>8, <2>2, <2>3, IsPublishedStays
<1> QED BY <1>5, <1>7, <1>10, <1>11, <1>12 DEF IInv

LEMMA DispatchStep ==
    ASSUME IInv, NEW r \in Runs, NEW ref \in Refs, NEW registry \in Registries,
           Dispatch(r, ref, registry)
    PROVE  IInv'
<1> DEFINE R == [status |-> "pending", ref |-> ref, commit |-> refs[ref],
                 registry |-> registry, job |-> [j \in Jobs |-> "waiting"]]
<1>1. refs[ref] \in Commits
    BY DEF Dispatch, IInv, TypeOK
<1>2. R \in RunType /\ R.status = "pending" /\ R.ref = ref
    BY <1>1 DEF RunType
<1>3. R.job["publish"] = "waiting" /\ \A j \in Jobs : R.job[j] = "waiting"
    BY DEF Jobs
<1>4. Sound(R, refs)
    BY <1>3 DEF Sound, Stages, Jobs
<1>5. run[r].status = "new"
    BY DEF Dispatch, Is
<1>6. /\ run' = [s \in Runs |->
                     CASE s = r -> R
                       [] s # r /\ Is(s, "pending") /\ run[s].ref = R.ref ->
                             [run[s] EXCEPT !.status = "cancelled"]
                       [] OTHER -> run[s]]
      /\ UNCHANGED <<refs, crates, visible, releases>>
    BY <1>2 DEF Dispatch
<1> HIDE DEF R
<1> QED BY <1>2, <1>3, <1>4, <1>5, <1>6, Queued

LEMMA RerunStep == ASSUME IInv, NEW r \in Runs, Rerun(r) PROVE IInv'
<1> DEFINE Q == run[r]
           R == [Q EXCEPT !.status = "pending",
                          !.job = [j \in Jobs |-> IF @[j] = "success" THEN "success"
                                                                    ELSE "waiting"]]
<1>1. Q \in RunType /\ Sound(Q, refs)
    BY IdleIsNew DEF Rerun, Done, Is, IInv, RunsInv, RunOK
<1>2. /\ R \in RunType /\ R.status = "pending" /\ R.ref = Q.ref /\ R.commit = Q.commit
      /\ R.registry = Q.registry
      /\ R.job = [j \in Jobs |-> IF Q.job[j] = "success" THEN "success" ELSE "waiting"]
    BY <1>1 DEF RunType, Ended
<1>3. \A j \in Jobs : R.job[j] = IF Q.job[j] = "success" THEN "success" ELSE "waiting"
    BY <1>2
<1>4. run' = [s \in Runs |->
                 CASE s = r -> R
                   [] s # r /\ Is(s, "pending") /\ run[s].ref = R.ref ->
                         [run[s] EXCEPT !.status = "cancelled"]
                   [] OTHER -> run[s]]
    BY <1>2 DEF Rerun
<1> HIDE DEF R, Q
<1>5. ContractHolds(R) <=> ContractHolds(Q)
    BY <1>2 DEF ContractHolds
<1>6. Sound(R, refs)
    BY <1>1, <1>2, <1>3, <1>5 DEF Sound, Stages, Jobs
<1>7. R.job["publish"] = "success" => At(r, "success")
    BY <1>3 DEF Rerun, Done, At, Is, Jobs, Q
<1> QED BY <1>2, <1>4, <1>6, <1>7, Queued DEF Rerun, Q

LEMMA StartStep == ASSUME IInv, NEW r \in Runs, Start(r) PROVE IInv'
<1> DEFINE Q == run[r]
           R == [Q EXCEPT !.status = "active"]
<1>1. /\ run \in [Runs -> RunType \cup {Idle}] /\ Q.status = "pending"
      /\ run' = [run EXCEPT ![r].status = "active"]
      /\ UNCHANGED <<refs, crates, visible, releases>>
    BY DEF Start, Is, IInv, TypeOK
<1>2. Q \in RunType /\ Sound(Q, refs)
    BY <1>1, IdleIsNew DEF IInv, RunsInv, RunOK
<1>3. /\ R \in RunType /\ R.status = "active" /\ R.ref = Q.ref /\ R.commit = Q.commit
      /\ R.registry = Q.registry /\ R.job = Q.job
    BY <1>2 DEF RunType
<1>4. run'[r] = R /\ \A s \in Runs : s # r => run'[s] = run[s]
    BY <1>1
<1>5. run' \in [Runs -> RunType \cup {Idle}]
    BY <1>1, <1>3
<1> HIDE DEF R, Q
<1>6. Sound(R, refs)
    BY <1>2, <1>3 DEF Sound, ContractHolds
<1>7. RunsInv'
    BY <1>1, <1>3, <1>4, <1>6 DEF IInv, RunsInv, RunOK
<1>8. KeepsRuns
    BY <1>3, <1>4 DEF KeepsRuns, Q
<1>9. \A s \in Runs : s # r => (Working(s)' <=> Working(s))
    BY <1>4 DEF Working, Is, AllEnded
<1>10. \A s \in Runs \ {r} : Working(s) => run[r].ref # run[s].ref
    BY DEF Start, SameGroup
<1>11. \A s \in Runs : run'[s].ref = run[s].ref
    BY <1>3, <1>4 DEF Q
<1>12. Exclusive'
    <2> SUFFICES ASSUME NEW s \in Runs, NEW t \in Runs, s # t, Working(s)', Working(t)'
                 PROVE  run[s].ref # run[t].ref
        BY <1>11 DEF Exclusive
    <2> QED BY <1>9, <1>10 DEF IInv, Exclusive
<1>13. CratesInv' /\ ReleasesInv'
    BY <1>1, <1>8, CratesStay, ReleasesStay DEF IInv
<1>14. SuccessInv'
    <2> SUFFICES ASSUME NEW s \in Runs, At(s, "success")' PROVE IsPublished(run[s])'
        BY DEF SuccessInv
    <2>1. At(s, "success")
        BY <1>1, <1>3, <1>4 DEF At, Is, Q
    <2>2. run[s] \in RunType /\ IsPublished(run[s])
        BY <1>1, <2>1, IdleIsNew DEF IInv, SuccessInv, At, Is
    <2>3. KeepsPublic
        BY <1>1 DEF KeepsPublic
    <2> QED BY <1>8, <2>2, <2>3, IsPublishedStays
<1> QED BY <1>1, <1>5, <1>7, <1>12, <1>13, <1>14 DEF IInv, TypeOK
-----------------------------------------------------------------------------
(* Jobs.  *)

LEMMA ReadyRun ==
    ASSUME IInv, NEW r \in Runs, NEW j \in Jobs, Ready(r, j)
    PROVE  run[r].status = "active" /\ run[r].job[j] = "waiting" /\ run[r].job[j] \notin Ended
BY DEF Ready, Is, Ended

LEMMA SkipStep == ASSUME IInv, NEW r \in Runs, NEW j \in Jobs, Skip(r, j) PROVE IInv'
<1>1. /\ run[r].status = "active" /\ run[r].job[j] \notin Ended
      /\ run' = [run EXCEPT ![r].job[j] = "skipped"]
      /\ UNCHANGED <<refs, crates, visible, releases>>
    BY DEF Skip, Is, Ended
<1>2. "skipped" \in JobStates /\ Deserved(run[r], j, "skipped")
    BY DEF JobStates, Ended, Deserved, Stages
<1> QED BY <1>1, <1>2, JobStays

LEMMA SucceedStep == ASSUME IInv, NEW r \in Runs, NEW j \in Jobs, Succeed(r, j) PROVE IInv'
<1>1. /\ run[r].status = "active" /\ run[r].job[j] \notin Ended /\ j # "publish"
      /\ run' = [run EXCEPT ![r].job[j] = "success"]
      /\ UNCHANGED <<refs, crates, visible, releases>>
    BY ReadyRun DEF Succeed
<1>2. \A n \in Needs(j) : run[r].job[n] = "success"
    BY DEF Succeed, Ready
<1>3. j = "contract" => ContractHolds(run[r])
    BY DEF Succeed, Passes, ContractHolds
<1>4. j = "verify" => run[r].commit \in Lawful /\ run[r].job["contract"] = "success"
    BY <1>2 DEF Succeed, Passes, Needs
<1>5. j = "proofs" => run[r].commit \in Proved /\ run[r].job["contract"] = "success"
    BY <1>2 DEF Succeed, Passes, Needs
<1>6. j = "package" => run[r].job["verify"] = "success" /\ run[r].job["proofs"] = "success"
    BY <1>2 DEF Needs
<1>7. "success" \in JobStates /\ Deserved(run[r], j, "success")
    BY <1>1, <1>3, <1>4, <1>5, <1>6 DEF JobStates, Ended, Deserved
<1> QED BY <1>1, <1>7, JobStays

LEMMA FailStep == ASSUME IInv, NEW r \in Runs, NEW j \in Jobs, FailJob(r, j) PROVE IInv'
<1>1. /\ run[r].status = "active" /\ run[r].job[j] \notin Ended
      /\ run' = [run EXCEPT ![r].job[j] = "failure"]
      /\ UNCHANGED <<refs, crates, visible, releases>>
    BY ReadyRun DEF FailJob, Is, Ended
<1>2. "failure" \in JobStates /\ Deserved(run[r], j, "failure")
    BY DEF JobStates, Ended, Deserved, Stages
<1> QED BY <1>1, <1>2, JobStays

LEMMA ApproveStep == ASSUME IInv, NEW r \in Runs, Approve(r) PROVE IInv'
<1>1. /\ run[r].status = "active" /\ run[r].job["publish"] \notin Ended
      /\ run' = [run EXCEPT ![r].job["publish"] = "approved"]
      /\ UNCHANGED <<refs, crates, visible, releases>> /\ "publish" \in Jobs
    BY ReadyRun DEF Approve, Reach, Jobs
<1>2. /\ run[r].job["package"] = "success" /\ run[r].ref.type = "tag"
      /\ run[r].registry # "validate-only"
    BY DEF Approve, Ready, Needs, Wanted
<1>3. "approved" \in JobStates /\ Deserved(run[r], "publish", "approved")
    BY <1>2 DEF JobStates, Deserved
<1> QED BY <1>1, <1>3, JobStays

\* A run whose publication is under way.
LEMMA Publisher ==
    ASSUME IInv, NEW r \in Runs, Publishing(r)
    PROVE  /\ run[r] \in RunType /\ Sound(run[r], refs) /\ run[r].status = "active"
           /\ run[r].job["publish"] \notin Ended /\ "publish" \in Jobs
           /\ \A x \in JobStates : Deserved(run[r], "publish", x)
           /\ run[r].job["publish"] \in Stages
           /\ Working(r)
<1>1. run[r].status # "new" /\ run[r].job["publish"] \in {"approved", "absent"}
    BY DEF Publishing, At, Is
<1>2. run[r] \in RunType /\ Sound(run[r], refs)
    BY <1>1, IdleIsNew DEF IInv, RunsInv, RunOK
<1>3. run[r].status = "active" /\ run[r].job["publish"] \in Stages
    BY <1>1, <1>2 DEF Sound, Stages
<1>4. \A x \in JobStates : Deserved(run[r], "publish", x)
    BY <1>2, <1>3 DEF Sound, Deserved
<1>5. run[r].job["publish"] \notin Ended /\ "publish" \in Jobs
    BY <1>1 DEF Ended, Jobs
<1> QED BY <1>1, <1>2, <1>3, <1>4, <1>5 DEF Working, AllEnded, Is

LEMMA PreflightStep ==
    ASSUME IInv, NEW r \in Runs, PreflightCrate(r) \/ ViewRelease(r)
    PROVE  IInv'
<1>1. /\ Publishing(r) /\ run' = [run EXCEPT ![r].job["publish"] = "absent"]
      /\ UNCHANGED <<refs, crates, visible, releases>>
    BY DEF PreflightCrate, ViewRelease, Publishing, Reach
<1>2. "absent" \in JobStates
    BY DEF JobStates
<1> QED BY <1>1, <1>2, Publisher, JobStays

LEMMA PublishStep == ASSUME IInv, NEW r \in Runs, PublishCrate(r) PROVE IInv'
<1> DEFINE Q == run[r]
           c == Q.commit
           v == CargoVersion(c)
<1>1. /\ Publishing(r) /\ Q.registry = "crates-io" /\ crates[v] = NoCommit
      /\ crates' = [crates EXCEPT ![v] = c] /\ UNCHANGED <<refs, visible, releases>>
    BY DEF PublishCrate, Publishing
<1>2. PICK x \in {"success", "failure"} : run' = [run EXCEPT ![r].job["publish"] = x]
    BY DEF PublishCrate, Reach
<1>3. /\ Q \in RunType /\ Sound(Q, refs) /\ Q.status = "active"
      /\ Q.job["publish"] \notin Ended /\ "publish" \in Jobs /\ x \in JobStates
      /\ Deserved(Q, "publish", x) /\ Q.job["publish"] \in Stages
    BY <1>1, Publisher DEF JobStates, Ended
<1>4. /\ Releasable(c) /\ Q.ref = Tag(v) /\ Q.ref \in Refs /\ c \in Commits
      /\ v \in Versions /\ refs[Q.ref] = c
    BY <1>3, MayPublish
<1> HIDE DEF v, c
<1>5. /\ crates'[v] = c /\ \A w \in Versions : w # v => crates'[w] = crates[w]
      /\ crates' \in [Versions -> Commits \cup {NoCommit}]
    BY <1>1, <1>4 DEF IInv, TypeOK
<1>6. /\ run' \in [Runs -> RunType \cup {Idle}] /\ RunsInv' /\ Exclusive' /\ KeepsRuns
      /\ \A s \in Runs : At(s, "success")' =>
                 \/ At(s, "success") /\ run'[s] = run[s]
                 \/ At(s, "success") /\ s = r /\ "publish" # "publish"
                 \/ s = r /\ x = "success"
    BY <1>1, <1>2, <1>3, JobComes DEF Q
<1>7. TypeOK'
    <2>1. visible \subseteq {w \in Versions : crates'[w] # NoCommit}
        BY <1>4, <1>5, CommitAssumption DEF IInv, TypeOK
    <2> QED BY <1>1, <1>5, <1>6, <2>1 DEF IInv, TypeOK
<1>8. KeepsPublic
    BY <1>1, <1>5 DEF KeepsPublic
<1>9. ASSUME NEW d, Asked(d) PROVE Asked(d)'
    BY <1>6, <1>9 DEF Asked, KeepsRuns, Is
<1>10. PICK d : d = c
    OBVIOUS
<1>14. Asked(d)'
    <2>1. Asked(d)
        BY <1>1, <1>3, <1>10 DEF Asked, Is, Q, c
    <2> QED BY <1>9, <2>1
<1>11. CratesInv'
    <2> SUFFICES ASSUME NEW w \in Versions, crates'[w] # NoCommit
                 PROVE  /\ Tag(w) \in Refs /\ refs[Tag(w)] = crates'[w]
                        /\ CargoVersion(crates'[w]) = w /\ Releasable(crates'[w])
                        /\ Asked(crates[w])'
        BY <1>1 DEF CratesInv
    <2>1. CASE w = v
        <3>1. CargoVersion(c) = v
            BY DEF v
        <3>2. Asked(crates[w])'
            BY <1>5, <1>10, <1>14, <2>1 DEF Asked
        <3> QED BY <1>4, <1>5, <2>1, <3>1, <3>2
    <2>2. CASE w # v
        <3>1. crates'[w] = crates[w] /\ Asked(crates[w])
            BY <1>5, <2>2 DEF IInv, CratesInv
        <3>2. Asked(crates[w])'
            BY <1>6, <3>1 DEF Asked, KeepsRuns, Is
        <3> QED BY <3>1, <3>2 DEF IInv, CratesInv
    <2> QED BY <2>1, <2>2
<1>12. ReleasesInv'
    BY <1>1, ReleasesStay DEF IInv
<1>13. SuccessInv'
    <2> SUFFICES ASSUME NEW s \in Runs, At(s, "success")' PROVE IsPublished(run[s])'
        BY DEF SuccessInv
    <2>1. CASE s = r
        <3>1. run'[s].registry = "crates-io" /\ run'[s].commit = c
            BY <1>1, <1>3, <1>6, <2>1 DEF KeepsRuns, Q, c
        <3> QED BY <1>5, <3>1 DEF IsPublished, v
    <2>2. CASE s # r
        <3>1. At(s, "success")
            BY <1>6, <2>2
        <3>2. run[s] \in RunType /\ IsPublished(run[s])
            BY <3>1, IdleIsNew DEF IInv, TypeOK, SuccessInv, At, Is
        <3> QED BY <1>6, <1>8, <3>2, IsPublishedStays
    <2> QED BY <2>1, <2>2
<1> QED BY <1>6, <1>7, <1>11, <1>12, <1>13 DEF IInv

LEMMA CreateStep == ASSUME IInv, NEW r \in Runs, CreateRelease(r) PROVE IInv'
<1> DEFINE Q == run[r]
           c == Q.commit
<1>1. /\ Publishing(r) /\ Q.registry = "github-release" /\ releases[Q.ref] = NoCommit
      /\ releases' = [releases EXCEPT ![Q.ref] = c] /\ UNCHANGED <<refs, crates, visible>>
    BY DEF CreateRelease, Publishing
<1>2. PICK x \in {"success", "failure"} : run' = [run EXCEPT ![r].job["publish"] = x]
    BY DEF CreateRelease, Reach
<1>3. /\ Q \in RunType /\ Sound(Q, refs) /\ Q.status = "active"
      /\ Q.job["publish"] \notin Ended /\ "publish" \in Jobs /\ x \in JobStates
      /\ Deserved(Q, "publish", x) /\ Q.job["publish"] \in Stages
    BY <1>1, Publisher DEF JobStates, Ended
<1>4. /\ Releasable(c) /\ Q.ref = Tag(CargoVersion(c)) /\ Q.ref \in Refs /\ c \in Commits
      /\ refs[Q.ref] = c
    BY <1>3, MayPublish
<1> HIDE DEF c
<1>5. /\ releases'[Q.ref] = c /\ \A t \in Refs : t # Q.ref => releases'[t] = releases[t]
      /\ releases' \in [Refs -> Commits \cup {NoCommit}]
    BY <1>1, <1>4 DEF IInv, TypeOK
<1>6. /\ run' \in [Runs -> RunType \cup {Idle}] /\ RunsInv' /\ Exclusive' /\ KeepsRuns
      /\ \A s \in Runs : At(s, "success")' =>
                 \/ At(s, "success") /\ run'[s] = run[s]
                 \/ At(s, "success") /\ s = r /\ "publish" # "publish"
                 \/ s = r /\ x = "success"
    BY <1>1, <1>2, <1>3, JobComes DEF Q
<1>7. TypeOK'
    BY <1>1, <1>5, <1>6 DEF IInv, TypeOK
<1>8. KeepsPublic
    BY <1>1, <1>5 DEF KeepsPublic
<1>9. CratesInv'
    BY <1>1, <1>6, CratesStay DEF IInv
<1>10. ReleasesInv'
    <2> SUFFICES ASSUME NEW t \in Refs, releases'[t] # NoCommit
                 PROVE  /\ t = Tag(CargoVersion(releases'[t])) /\ refs[t] = releases'[t]
                        /\ Releasable(releases'[t])
        BY <1>1 DEF ReleasesInv
    <2>1. CASE t = Q.ref
        BY <1>4, <1>5, <2>1
    <2>2. CASE t # Q.ref
        BY <1>5, <2>2 DEF IInv, ReleasesInv
    <2> QED BY <2>1, <2>2
<1>11. SuccessInv'
    <2> SUFFICES ASSUME NEW s \in Runs, At(s, "success")' PROVE IsPublished(run[s])'
        BY DEF SuccessInv
    <2>1. CASE s = r
        <3>1. run'[s].registry = "github-release" /\ run'[s].commit = c /\ run'[s].ref = Q.ref
            BY <1>1, <1>3, <1>6, <2>1 DEF KeepsRuns, Q, c
        <3> QED BY <1>5, <3>1 DEF IsPublished
    <2>2. CASE s # r
        <3>1. At(s, "success")
            BY <1>6, <2>2
        <3>2. run[s] \in RunType /\ IsPublished(run[s])
            BY <3>1, IdleIsNew DEF IInv, TypeOK, SuccessInv, At, Is
        <3> QED BY <1>6, <1>8, <3>2, IsPublishedStays
    <2> QED BY <2>1, <2>2
<1> QED BY <1>6, <1>7, <1>9, <1>10, <1>11 DEF IInv

\* Neither the API of crates.io nor a stuttering step touches runs or refs.
LEMMA OutsideStep ==
    ASSUME IInv, UNCHANGED <<refs, run, crates, releases>>,
           visible' \subseteq {v \in Versions : crates[v] # NoCommit}
    PROVE  IInv'
<1>1. TypeOK' /\ RunsInv' /\ Exclusive'
    BY DEF IInv, TypeOK, RunsInv, Exclusive, Working, Is, AllEnded
<1>2. CratesInv' /\ ReleasesInv' /\ SuccessInv'
    BY DEF IInv, CratesInv, Asked, ReleasesInv, SuccessInv, At, Is, IsPublished
<1> QED BY <1>1, <1>2 DEF IInv

LEMMA NextIInv == IInv /\ [Next]_vars => IInv'
<1> SUFFICES ASSUME IInv, [Next]_vars PROVE IInv'
    OBVIOUS
<1>1. ASSUME NEW r \in Runs, JobStep(r) PROVE IInv'
    BY <1>1, SkipStep, SucceedStep, FailStep, ApproveStep, PreflightStep, PublishStep, CreateStep
       DEF JobStep
<1>2. ASSUME NEW v \in Versions, Propagate(v) PROVE IInv'
    BY <1>2, OutsideStep DEF Propagate, IInv, TypeOK
<1>3. CASE UNCHANGED vars
    BY <1>3, OutsideStep DEF vars, IInv, TypeOK
<1> QED BY <1>1, <1>2, <1>3, SetRefStep, DispatchStep, StartStep, RerunStep DEF Next

LEMMA AlwaysIInv == Spec => []IInv
BY InitIInv, NextIInv, PTL DEF Spec
-----------------------------------------------------------------------------
\* Types, and that what crates.io shows it has.
THEOREM TypeCorrect == Spec => []TypeOK
<1>1. IInv => TypeOK
    BY DEF IInv
<1> QED BY <1>1, AlwaysIInv, PTL

\* Whatever is public has passed every gate and is what the tag of its version
\* points at, at both destinations (release.yml:23-179).
THEOREM PublicationsAreVerified == Spec => []PublishedIsVerified
<1>1. IInv => PublishedIsVerified
    BY DEF IInv, CratesInv, ReleasesInv, PublishedIsVerified
<1> QED BY <1>1, AlwaysIInv, PTL

\* One ref per version makes the group of a ref the lock of a version
\* (release.yml:19-21; check-release-ref.py:20-29).
THEOREM VersionsHaveOnePublisher == Spec => []OnePublisherPerVersion
<1>1. IInv => OnePublisherPerVersion
    <2> SUFFICES ASSUME IInv, NEW r \in Runs, NEW s \in Runs, r # s, Publishing(r), Publishing(s)
                 PROVE  CargoVersion(run[r].commit) # CargoVersion(run[s].commit)
        BY DEF OnePublisherPerVersion
    <2>1. Working(r) /\ Working(s)
        BY Publisher
    <2>2. run[r].ref # run[s].ref
        BY <2>1 DEF IInv, Exclusive
    <2>3. /\ run[r].ref = Tag(CargoVersion(run[r].commit))
          /\ run[s].ref = Tag(CargoVersion(run[s].commit))
        BY Publisher, MayPublish
    <2> QED BY <2>2, <2>3
<1> QED BY <1>1, AlwaysIInv, PTL

\* A green publication is there, and nothing is on crates.io unasked
\* (release.yml:103-179).
THEOREM GreenMeansPublished == Spec => []SuccessMeansPublished
<1>1. IInv => SuccessMeansPublished
    <2> SUFFICES ASSUME IInv
                 PROVE  /\ \A r \in Runs : At(r, "success") =>
                              LET c == run[r].commit
                              IN  CASE run[r].registry = "crates-io"      -> crates[CargoVersion(c)] = c
                                    [] run[r].registry = "github-release" -> releases[run[r].ref] = c
                                    [] OTHER                              -> FALSE
                        /\ \A v \in Versions : crates[v] # NoCommit => Asked(crates[v])
        BY DEF SuccessMeansPublished, Asked
    <2>1. \A r \in Runs : At(r, "success") => IsPublished(run[r])
        BY DEF IInv, SuccessInv
    <2> QED BY <2>1 DEF IsPublished, IInv, CratesInv
<1> QED BY <1>1, AlwaysIInv, PTL
=============================================================================
