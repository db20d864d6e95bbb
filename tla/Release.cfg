\* Two runs over the tag of a version and a corrective tag beside it; of the
\* four commits two may be released.
SPECIFICATION Spec
CONSTANTS
    Runs = {r1, r2}
    Commits <- MCCommits
    Refs <- MCRefs
    Versions <- MCVersions
    Manifest <- MCManifest
    Fresh <- MCFresh
    Lawful <- MCLawful
    Proved <- MCProved
    NoCommit = NoCommit
    r1 = r1
    r2 = r2
    good = good
    next = next
    draft = draft
    stale = stale
INVARIANTS
    PublishedIsVerified
    OnePublisherPerVersion
    SuccessMeansPublished
CHECK_DEADLOCK FALSE
