------------------------------- MODULE Release -------------------------------
(***************************************************************************)
(* A release of llattice: the workflow .github/workflows/release.yml and   *)
(* the two scripts that decide whether it may go on,                       *)
(* scripts/check-release-ref.py and scripts/check-package-metadata.py.     *)
(*                                                                         *)
(* A run is dispatched at a ref for one destination and works on the       *)
(* commit the ref had then.  Runs of one ref do not overlap, but runs of   *)
(* different refs do.  GitHub and crates.io are outside: a publication may *)
(* succeed while its answer is lost, a runner may fail, and a new crate is *)
(* seen only some time after it was accepted.                              *)
(***************************************************************************)
EXTENDS Naturals, Sequences

CONSTANTS Runs,
          Commits,
          Refs,      \* [type, name]; a name is the sequence of its parts
          Versions,
          Manifest,  \* what the files of a commit say: [metadata, cargo, raku]
          Fresh,     \* commits where the provider ABI and Cargo.lock are up to date
          Lawful,    \* commits that pass fmt, clippy, the tests and the registry gate
          Proved,    \* commits whose Rocq proofs build
          NoCommit

ASSUME CommitAssumption ==
    /\ NoCommit \notin Commits
    /\ \A c \in Commits : Manifest[c].cargo.version \in Versions

ASSUME RefAssumption == \A ref \in Refs : ref = [type |-> ref.type, name |-> ref.name]

Registries == {"validate-only", "github-release", "crates-io"}
Jobs == {"contract", "verify", "proofs", "package", "publish"}
Ended == {"success", "failure", "skipped"}

VARIABLES refs,      \* what each ref points at
          run,       \* the runs
          crates,    \* crates.io: the commit each version was published from
          visible,   \* the versions that the crates.io API knows
          releases   \* GitHub: the commit whose archive each release carries

vars == <<refs, run, crates, visible, releases>>

Idle == [status |-> "new"]

\* A run is new, waits for its group, is cancelled, or has its jobs under way.
\* The publish job goes through "waiting", "approved" and "absent" (the version
\* or release was not there).
RunType ==
    [status : {"pending", "active", "cancelled"}, ref : Refs, commit : Commits,
     registry : Registries,
     job : [Jobs -> {"waiting", "approved", "absent"} \cup Ended]]

TypeOK ==
    /\ refs \in [Refs -> Commits \cup {NoCommit}]
    /\ run \in [Runs -> RunType \cup {Idle}]
    /\ crates \in [Versions -> Commits \cup {NoCommit}]
    /\ visible \subseteq {v \in Versions : crates[v] # NoCommit}
    /\ releases \in [Refs -> Commits \cup {NoCommit}]

Init ==
    /\ refs = [ref \in Refs |-> NoCommit]
    /\ run = [r \in Runs |-> Idle]
    /\ crates = [v \in Versions |-> NoCommit]
    /\ visible = {}
    /\ releases = [ref \in Refs |-> NoCommit]
-----------------------------------------------------------------------------
(* The scripts. *)

CargoVersion(c) == Manifest[c].cargo.version

TagName(version) == <<"v", version>>

ValidateReleaseRef(type, name, version) == type = "tag" /\ name = TagName(version)

\* check-release-ref.py --self-test.
SelfTestPasses ==
    /\ ValidateReleaseRef("tag", <<"v", "0.1.0">>, "0.1.0")
    /\ ValidateReleaseRef("tag", <<"v", "2.0.0-rc.3">>, "2.0.0-rc.3")
    /\ ~ValidateReleaseRef("branch", <<"master">>, "0.1.0")
    /\ ~ValidateReleaseRef("tag", <<"0.1.0">>, "0.1.0")
    /\ ~ValidateReleaseRef("tag", <<"v", "0.1.1">>, "0.1.0")
    /\ ~ValidateReleaseRef("tag", <<"v", "0.1.0", "-release.1">>, "0.1.0")

\* check-package-metadata.py: the style of the texts, and the same version and
\* description on every surface.
MetadataAgrees(c) ==
    LET m == Manifest[c].metadata
    IN  /\ m.component = "llattice"
        /\ m.summary.length <= 80 /\ ~m.summary.period
        /\ m.description.period
        /\ Manifest[c].cargo = [version |-> m.version, description |-> m.description]
        /\ Manifest[c].raku  = [version |-> m.version, description |-> m.description]
-----------------------------------------------------------------------------
(* Refs.  A tag is set once and never moved (docs/engineering/04-releasing.md, *)
(* lines 25-27); a branch is.                                                  *)

SetRef(ref, c) ==
    /\ ref.type = "tag" => refs[ref] = NoCommit
    /\ refs' = [refs EXCEPT ![ref] = c]
    /\ UNCHANGED <<run, crates, visible, releases>>
-----------------------------------------------------------------------------
(* Dispatch, and the concurrency group.  *)

Is(r, status) == run[r].status = status

\* Mutant: every run is a group of its own.
SameGroup_Never(r, s) == r = s

\* llattice-release-${{ github.ref }}.
SameGroup(r, s) == run[r].ref = run[s].ref

\* GitHub keeps one waiting run in a group; a newer one cancels it.
Dispatch(r, ref, registry) ==
    /\ Is(r, "new")
    /\ refs[ref] # NoCommit
    /\ run' = [s \in Runs |->
                  CASE s = r -> [status |-> "pending", ref |-> ref, commit |-> refs[ref],
                                 registry |-> registry, job |-> [j \in Jobs |-> "waiting"]]
                    [] s # r /\ Is(s, "pending") /\ run[s].ref = ref ->
                          [run[s] EXCEPT !.status = "cancelled"]
                    [] OTHER -> run[s]]
    /\ UNCHANGED <<refs, crates, visible, releases>>

AllEnded(r) == \A j \in Jobs : run[r].job[j] \in Ended
Working(r)  == Is(r, "active") /\ ~AllEnded(r)
Done(r)     == Is(r, "active") /\ AllEnded(r)

Start(r) ==
    /\ Is(r, "pending")
    /\ \A s \in Runs \ {r} : Working(s) => ~SameGroup(r, s)
    /\ run' = [run EXCEPT ![r].status = "active"]
    /\ UNCHANGED <<refs, crates, visible, releases>>

\* Somebody asks for the jobs again that did not succeed.
Rerun(r) ==
    /\ Done(r)
    /\ \E j \in Jobs : run[r].job[j] = "failure"
    /\ run' = [s \in Runs |->
                  CASE s = r -> [run[r] EXCEPT !.status = "pending",
                                    !.job = [j \in Jobs |-> IF @[j] = "success" THEN "success"
                                                                                ELSE "waiting"]]
                    [] s # r /\ Is(s, "pending") /\ run[s].ref = run[r].ref ->
                          [run[s] EXCEPT !.status = "cancelled"]
                    [] OTHER -> run[s]]
    /\ UNCHANGED <<refs, crates, visible, releases>>
-----------------------------------------------------------------------------
(* Jobs. *)

\* Mutant: the archive does not wait for the proofs.
Needs_NoProofs(job) ==
    CASE job = "contract" -> {}
      [] job \in {"verify", "proofs"} -> {"contract"}
      [] job = "package" -> {"verify"}
      [] job = "publish" -> {"package"}

Needs(job) ==
    CASE job = "contract" -> {}
      [] job \in {"verify", "proofs"} -> {"contract"}
      [] job = "package" -> {"verify", "proofs"}
      [] job = "publish" -> {"package"}

\* The condition of the two publishing jobs.
Wanted(r, job) ==
    job = "publish" => run[r].ref.type = "tag" /\ run[r].registry # "validate-only"

Ready(r, job) ==
    /\ Is(r, "active")
    /\ run[r].job[job] = "waiting"
    /\ Wanted(r, job)
    /\ \A n \in Needs(job) : run[r].job[n] = "success"

\* A job is passed over when a job that it needs did not succeed.
Skip(r, job) ==
    /\ Is(r, "active") /\ run[r].job[job] = "waiting"
    /\ \A n \in Needs(job) : run[r].job[n] \in Ended
    /\ ~Wanted(r, job) \/ \E n \in Needs(job) : run[r].job[n] # "success"
    /\ run' = [run EXCEPT ![r].job[job] = "skipped"]
    /\ UNCHANGED <<refs, crates, visible, releases>>

\* What the steps of a job ask of the commit.
Passes(r, job) ==
    LET c == run[r].commit
    IN  CASE job = "contract" -> /\ MetadataAgrees(c) /\ c \in Fresh
                                 /\ ValidateReleaseRef(run[r].ref.type, run[r].ref.name,
                                                       CargoVersion(c))
          [] job = "verify"   -> c \in Lawful /\ SelfTestPasses
          [] job = "proofs"   -> c \in Proved
          [] job = "package"  -> TRUE

Succeed(r, job) ==
    /\ job # "publish" /\ Ready(r, job) /\ Passes(r, job)
    /\ run' = [run EXCEPT ![r].job[job] = "success"]
    /\ UNCHANGED <<refs, crates, visible, releases>>

\* A step fails, or the runner, or, before it starts, the reviewer of the
\* environment turns the publication down or never answers.
FailJob(r, job) ==
    /\ \/ Ready(r, job)
       \/ Is(r, "active") /\ run[r].job[job] \in {"approved", "absent"}
    /\ run' = [run EXCEPT ![r].job[job] = "failure"]
    /\ UNCHANGED <<refs, crates, visible, releases>>
-----------------------------------------------------------------------------
(* The publishing jobs. *)

At(r, stage) == ~Is(r, "new") /\ run[r].job["publish"] = stage

Reach(r, stage) == run' = [run EXCEPT ![r].job["publish"] = stage]

\* The reviewer of the environment lets the job start.
Approve(r) ==
    /\ Ready(r, "publish")
    /\ Reach(r, "approved")
    /\ UNCHANGED <<refs, crates, visible, releases>>

\* crates-io: 404 goes on, 200 and anything else ends the job (FailJob).
PreflightCrate(r) ==
    /\ At(r, "approved") /\ run[r].registry = "crates-io"
    /\ CargoVersion(run[r].commit) \notin visible
    /\ Reach(r, "absent")
    /\ UNCHANGED <<refs, crates, visible, releases>>

\* Mutant: what cargo publish returns is not looked at.
PublishCrate_Careless(r) ==
    /\ At(r, "absent") /\ run[r].registry = "crates-io"
    /\ Reach(r, "success")
    /\ \/ UNCHANGED crates
       \/ /\ crates[CargoVersion(run[r].commit)] = NoCommit
          /\ crates' = [crates EXCEPT ![CargoVersion(run[r].commit)] = run[r].commit]
    /\ UNCHANGED <<refs, visible, releases>>

\* cargo publish of the checkout.  crates.io takes a version once; the answer
\* may be lost.
PublishCrate(r) ==
    /\ At(r, "absent") /\ run[r].registry = "crates-io"
    /\ crates[CargoVersion(run[r].commit)] = NoCommit
    /\ crates' = [crates EXCEPT ![CargoVersion(run[r].commit)] = run[r].commit]
    /\ Reach(r, "success") \/ Reach(r, "failure")
    /\ UNCHANGED <<refs, visible, releases>>

\* crates.io: a version that was accepted becomes visible.
Propagate(v) ==
    /\ crates[v] # NoCommit /\ v \notin visible
    /\ visible' = visible \cup {v}
    /\ UNCHANGED <<refs, run, crates, releases>>

\* github-release: the checksums hold; the release is not there, or it cannot
\* be told, which looks the same.
ViewRelease(r) ==
    /\ At(r, "approved") /\ run[r].registry = "github-release"
    /\ Reach(r, "absent")
    /\ UNCHANGED <<refs, crates, visible, releases>>

\* gh release create --verify-tag.  GitHub makes one release of a tag; the
\* answer may be lost.  The assets are the archive that the package job of the
\* run built.
CreateRelease(r) ==
    /\ At(r, "absent") /\ run[r].registry = "github-release"
    /\ refs[run[r].ref] # NoCommit
    /\ releases[run[r].ref] = NoCommit
    /\ releases' = [releases EXCEPT ![run[r].ref] = run[r].commit]
    /\ Reach(r, "success") \/ Reach(r, "failure")
    /\ UNCHANGED <<refs, crates, visible>>

JobStep(r) ==
    \/ \E j \in Jobs : Skip(r, j) \/ Succeed(r, j) \/ FailJob(r, j)
    \/ Approve(r) \/ PreflightCrate(r) \/ PublishCrate(r)
    \/ ViewRelease(r) \/ CreateRelease(r)

Next ==
    \/ \E ref \in Refs, c \in Commits : SetRef(ref, c)
    \/ \E r \in Runs :
          \/ \E ref \in Refs, registry \in Registries : Dispatch(r, ref, registry)
          \/ Start(r) \/ Rerun(r) \/ JobStep(r)
    \/ \E v \in Versions : Propagate(v)

Spec == Init /\ [][Next]_vars
-----------------------------------------------------------------------------
(* Properties *)

Tag(v) == [type |-> "tag", name |-> TagName(v)]

Releasable(c) ==
    /\ c \in Fresh \cap Lawful \cap Proved
    /\ MetadataAgrees(c)

\* Whatever is public, on either side, was built from the commit that the tag
\* of its version points at, and that commit has passed every gate.  So the
\* two destinations never carry different sources of one version
\* (release.yml:23-179; check-release-ref.py:20-29; check-package-metadata.py:
\* 20-40; docs/engineering/04-releasing.md:25-27).
PublishedIsVerified ==
    /\ \A v \in Versions : crates[v] # NoCommit =>
          /\ CargoVersion(crates[v]) = v
          /\ refs[Tag(v)] = crates[v]
          /\ Releasable(crates[v])
    /\ \A ref \in Refs : releases[ref] # NoCommit =>
          /\ ref = Tag(CargoVersion(releases[ref]))
          /\ refs[ref] = releases[ref]
          /\ Releasable(releases[ref])

Publishing(r) == At(r, "approved") \/ At(r, "absent")

\* Two runs never publish one version at a time, at one destination or at two,
\* so that what the preflight has seen is still so when the version is
\* published (release.yml:19-21, 153-179).  A group is a ref: this rests on one
\* ref per version, which check-release-ref.py sees to.
OnePublisherPerVersion ==
    \A r, s \in Runs :
        /\ r # s /\ Publishing(r) /\ Publishing(s)
        => CargoVersion(run[r].commit) # CargoVersion(run[s].commit)

\* A run that ends well has published its commit where it was asked to, even
\* if an earlier attempt lost its answer; and nothing is public that no run
\* was asked to publish there (release.yml:103-179).
SuccessMeansPublished ==
    /\ \A r \in Runs : At(r, "success") =>
          LET c == run[r].commit
          IN  CASE run[r].registry = "crates-io"      -> crates[CargoVersion(c)] = c
                [] run[r].registry = "github-release" -> releases[run[r].ref] = c
                [] OTHER                              -> FALSE
    /\ \A v \in Versions : crates[v] # NoCommit =>
          \E r \in Runs : ~Is(r, "new") /\ run[r].registry = "crates-io"
                                         /\ run[r].commit = crates[v]
=============================================================================
