----------------------------- MODULE MCRelease -----------------------------
(* Two versions, with a commit of each that may be released; one of the first *)
(* whose proofs do not build yet (draft) and one whose Raku metadata has an  *)
(* earlier description (stale).                                              *)
EXTENDS Release

CONSTANTS r1, r2, good, next, draft, stale

MCVersions == {"0.1.0", "0.2.0"}
MCCommits  == {good, next, draft, stale}
MCRefs ==
    { [type |-> "tag", name |-> <<"v", "0.1.0">>],
      [type |-> "tag", name |-> <<"v", "0.1.0", "-release.1">>] }

Described == [text |-> "lattices", period |-> TRUE]
Surface(v) == [version |-> v, description |-> Described]

MCManifest ==
    [c \in MCCommits |->
        LET v == IF c = next THEN "0.2.0" ELSE "0.1.0"
        IN  [metadata |-> [component |-> "llattice", version |-> v, description |-> Described,
                           summary |-> [length |-> 80, period |-> FALSE]],
             cargo    |-> Surface(v),
             raku     |-> [Surface(v) EXCEPT !.description.text = IF c = stale THEN "a lattice" ELSE @]]]

MCFresh  == MCCommits
MCLawful == MCCommits
MCProved == MCCommits \ {draft}
=============================================================================
