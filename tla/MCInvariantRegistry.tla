------------------------ MODULE MCInvariantRegistry ------------------------
(* A registry like the one of the repository, in which up to three lines,     *)
(* the hooks, the tests and the specifications have drifted.                  *)
EXTENDS InvariantRegistry

MCNumbers == 1..3

Id(p, n) == [prefix |-> p, number |-> n, padded |-> FALSE]
Name(w)  == [words |-> w, bracket |-> "none", label |-> <<>>]

\* A law proved in Coq, with a test; a law that is only proved; a pinned one.
Tested ==
    [kind |-> "row", id |-> Id("LAW", 1), well_formed |-> TRUE, justified |-> FALSE,
     gated |-> TRUE, strength |-> "rocq-unbounded", spec_kind |-> "coq", spec_path |-> "Laws.v",
     spec_name |-> Name(<<"zjoin_comm">>), test_path |-> "tests/laws.rs", test_name |-> "laws"]
Formal ==
    [Tested EXCEPT !.id = Id("LAW", 2), !.spec_name = Name(<<"zjoin_assoc">>),
                   !.test_path = "-", !.test_name = "-"]
Pinned ==
    [Tested EXCEPT !.id = Id("PIN", 1), !.strength = "test-pinned", !.spec_kind = "test",
                   !.spec_path = "laws.rs", !.spec_name = Name(<<"laws">>), !.justified = TRUE]
Labelled ==
    [Formal EXCEPT !.spec_kind = "smt", !.strength = "smt-dual",
                   !.spec_name = [words |-> <<"check">>, bracket |-> "closed",
                                   label |-> <<"[assoc]">>]]

Drifted(r) ==
    {r, [r EXCEPT !.well_formed = FALSE], [r EXCEPT !.gated = FALSE],
        [r EXCEPT !.strength = "proved"], [r EXCEPT !.strength = "test-pinned"],
        [r EXCEPT !.spec_kind = "lean"], [r EXCEPT !.spec_path = "gone"],
        [r EXCEPT !.spec_name = Name(<<"renamed">>)],
        [r EXCEPT !.spec_name = Name(<<"zjoin_comm", "renamed">>)],
        [r EXCEPT !.spec_name = Name(<<"Theorem", "zjoin_comm">>)],
        [r EXCEPT !.spec_name = Name(<<>>)],
        [r EXCEPT !.test_path = "-"], [r EXCEPT !.test_path = "gone"],
        [r EXCEPT !.test_name = "renamed"], [r EXCEPT !.test_name = "-"],
        [r EXCEPT !.id.number = 3], [r EXCEPT !.id.padded = TRUE]}

Firsts  == Drifted(Tested)
Seconds == {Formal, Tested, Labelled, [Formal EXCEPT !.gated = FALSE],
            [Formal EXCEPT !.spec_kind = "verus"], [Formal EXCEPT !.spec_kind = "test"],
            [Formal EXCEPT !.test_name = "laws"], [Formal EXCEPT !.test_path = "tests/laws.rs"],
            [Labelled EXCEPT !.spec_name.bracket = "unclosed"],
            [Labelled EXCEPT !.spec_name.label = <<>>],
            [Labelled EXCEPT !.spec_name.label = <<"[gone]">>]}
Thirds  == {Pinned, [Pinned EXCEPT !.justified = FALSE], [Pinned EXCEPT !.spec_kind = "coq"],
            [Pinned EXCEPT !.test_path = "-", !.test_name = "-"],
            [kind |-> "columns"], [kind |-> "comment"]}

Registries ==
    {NoRegistry, <<>>}
        \cup {<<[kind |-> "comment"], a, b, c>> : a \in Firsts, b \in Seconds, c \in Thirds}
        \cup {<<c, b, a>> : a \in {Tested}, b \in Seconds, c \in Thirds}

Hook(p, n)    == [prefix |-> p, range |-> FALSE, low |-> n, high |-> n, padded |-> FALSE]
Hook_(p, m, n) == [prefix |-> p, range |-> TRUE, low |-> m, high |-> n, padded |-> FALSE]

HookSets ==
    { {<<Hook_("LAW", 1, 2)>>, <<Hook("PIN", 1)>>},
      {<<Hook_("LAW", 2, 1)>>, <<Hook("PIN", 1)>>},
      {<<Hook("LAW", 1), Hook("PIN", 1)>>},
      {<<[Hook("LAW", 1) EXCEPT !.padded = TRUE]>>, <<Hook("LAW", 3), Hook("LAW", 2)>>},
      {} }

MCCheckouts ==
    {[registry |-> r,
      specs |-> [p \in {"Laws.v", "laws.rs"} |->
                    IF p = "Laws.v" THEN <<"Theorem", "zjoin_comm", "Theorem", "zjoin_assoc", "[assoc]">>
                    ELSE <<"laws">>],
      tests |-> [p \in {"tests/laws.rs"} |-> [fns |-> {"", "laws"}, hooks |-> h]]] :
        r \in Registries, h \in HookSets}

\* The rules that the script takes otherwise than its docstring do make a
\* difference: it accepts a name that the specification does not contain, a row
\* without a test that calls itself a test, and hooks that lead nowhere.
ASSUME DocstringIsStricter ==
    /\ \E t \in MCCheckouts : Enforced(t) /\ \E row \in RowsOf(t) : ~NamedVerbatim(row, t)
    /\ \E t \in MCCheckouts :
          Enforced(t) /\ \E row \in RowsOf(t) : FormalOnly(row) /\ row.spec_kind = "test"
    /\ \E t \in MCCheckouts : Enforced(t) /\ ~(Referenced(t) \subseteq Registered(t))

\* And there are registries that obey all rules as they are written.
ASSUME SomeAreDocumented == \E t \in MCCheckouts : Documented(t) /\ Referenced(t) = Hooks(t)
=============================================================================
