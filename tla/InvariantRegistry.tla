-------------------------- MODULE InvariantRegistry --------------------------
(***************************************************************************)
(* scripts/check-lattice-invariants.py: the gate that keeps the registry   *)
(* of lattice laws (proofs/doc/lattice-invariants.tsv) in step with the     *)
(* specifications, the tests and the INVARIANT-HOOK comments it points at. *)
(*                                                                         *)
(* The script reads the registry line by line, then checks row by row, and *)
(* then closes hooks against rows.  It collects what it finds and goes on; *)
(* the exit code is decided at the end.                                    *)
(***************************************************************************)
EXTENDS Integers, Sequences

CONSTANTS Checkouts,  \* the trees the script may be run in
          Numbers,    \* the numbers of well-formed ids
          NoRegistry  \* the registry is not a file

\* A tree has
\*   registry: NoRegistry, or the lines: a record of kind "comment", "columns"
\*             (their number is wrong) or "row";
\*   specs:    a function from paths to the text of a specification, by words;
\*   tests:    a function from paths to [fns, hooks]: the names for which "fn
\*             name" is found in a file, and its hook comments (none outside
\*             tests/), each the sequence of ids or ranges that it names.
\* An id is [prefix, number, padded]: LAW-01 is the padded form of LAW-1.

ASSUME RegistriesAreLists ==
    \A t \in Checkouts :
        t.registry # NoRegistry => /\ Len(t.registry) \in Nat
                                   /\ DOMAIN t.registry = 1..Len(t.registry)

VARIABLES tree,      \* the tree, which does not change
          pc,        \* "parse", "rows", "hooks", "close", "done" or "crashed"
          line,      \* the next line, in parse, or the next row, in rows
          rows,      \* rows of parse_rows
          seen,      \* seen_ids
          backed,    \* test_backed_ids
          hooked,    \* hooked
          failures,  \* the messages
          exit       \* exit code, or -1

vars == <<tree, pc, line, rows, seen, backed, hooked, failures, exit>>

STRENGTHS == {"rocq-unbounded", "tlaps-unbounded", "apalache-inductive", "verus",
              "smt-dual", "tlc-bounded", "test-pinned"}
PROOF_STRENGTHS == STRENGTHS \ {"test-pinned"}
SPEC_KINDS == {"tla", "coq", "smt", "verus", "test"}
-----------------------------------------------------------------------------
(* The rules for a row.  spec_name is [words, bracket, label]: its words; is  *)
(* there a "[", and a "]" ("none", "closed", "unclosed"); and the words from  *)
(* the one to the other.                                                      *)

Needle(row) ==
    IF row.spec_kind = "smt" /\ row.spec_name.bracket = "closed" THEN row.spec_name.label
                                                                 ELSE row.spec_name.words

\* Only the first word is looked for; an empty name is in every text.
SpecIsNamed(row, t) ==
    LET needle == Needle(row)
        text   == t.specs[row.spec_path]
    IN  needle = <<>> \/ \E i \in DOMAIN text : text[i] = needle[1]

\* needle.index("]") raises.
Raises(row, t) ==
    /\ row.spec_path \in DOMAIN t.specs
    /\ row.spec_kind = "smt" /\ row.spec_name.bracket = "unclosed"

\* A row without a test: "-".
FormalOnly(row) == row.test_path = "-"

\* What is wrong with a row by itself, whatever the other rows are.
RowFaults(row, t) ==
    {f \in {"malformed", "strength", "spec_kind", "pinned_kind", "pinned_law", "gate",
            "spec_path", "spec_name", "formal_strength", "formal_name",
            "test_path", "test_name"} :
        CASE f = "malformed"       -> ~row.well_formed
          [] f = "strength"        -> row.strength \notin STRENGTHS
          [] f = "spec_kind"       -> row.spec_kind \notin SPEC_KINDS
          [] f = "pinned_kind"     -> row.strength = "test-pinned" /\ row.spec_kind # "test"
          [] f = "pinned_law"      -> row.strength = "test-pinned" /\ ~row.justified
          [] f = "gate"            -> ~row.gated
          [] f = "spec_path"       -> row.spec_path \notin DOMAIN t.specs
          [] f = "spec_name"       -> row.spec_path \in DOMAIN t.specs /\ ~SpecIsNamed(row, t)
          [] f = "formal_strength" -> FormalOnly(row) /\ row.strength \notin PROOF_STRENGTHS
          [] f = "formal_name"     -> FormalOnly(row) /\ row.test_name # "-"
          [] f = "test_path"       -> ~FormalOnly(row) /\ row.test_path \notin DOMAIN t.tests
          [] f = "test_name"       -> /\ ~FormalOnly(row) /\ row.test_path \in DOMAIN t.tests
                                      /\ row.test_name \notin t.tests[row.test_path].fns}

\* A hook is an id, or a range, which is empty when it is reversed and never
\* yields a padded number.
ExpandHook(hook) ==
    IF hook.range
    THEN {[prefix |-> hook.prefix, number |-> n, padded |-> FALSE] :
             n \in {m \in Numbers : hook.low <= m /\ m <= hook.high}}
    ELSE {[prefix |-> hook.prefix, number |-> hook.low, padded |-> hook.padded]}

\* HOOK_PATTERN takes the first id or range after each INVARIANT-HOOK.
Hooks(t) ==
    UNION {UNION {ExpandHook(c[1]) : c \in t.tests[p].hooks} : p \in DOMAIN t.tests}
-----------------------------------------------------------------------------
Init ==
    /\ tree \in Checkouts
    /\ pc = "parse" /\ line = 1
    /\ rows = <<>>
    /\ seen = {} /\ backed = {} /\ hooked = {}
    /\ failures = {}
    /\ exit = -1

\* A failure is what is wrong, and where: a line, a row or an id.
Fail(faults, where) == failures' = failures \cup {<<f, where>> : f \in faults}

RegistryMissing ==
    /\ pc = "parse" /\ tree.registry = NoRegistry
    /\ Fail({"registry"}, "registry")
    /\ pc' = "rows"
    /\ UNCHANGED <<tree, line, rows, seen, backed, hooked, exit>>

\* Mutant: a line with a wrong number of columns is passed over in silence.
ParseLine_Lenient ==
    /\ pc = "parse" /\ tree.registry # NoRegistry /\ line <= Len(tree.registry)
    /\ LET l == tree.registry[line]
       IN  /\ rows' = IF l.kind = "row" THEN Append(rows, l) ELSE rows
           /\ UNCHANGED failures
    /\ line' = line + 1
    /\ UNCHANGED <<tree, pc, seen, backed, hooked, exit>>

\* Comments are passed over; a line with a wrong number of columns is a
\* failure, and no row.
ParseLine ==
    /\ pc = "parse" /\ tree.registry # NoRegistry /\ line <= Len(tree.registry)
    /\ LET l == tree.registry[line]
       IN  /\ rows' = IF l.kind = "row" THEN Append(rows, l) ELSE rows
           /\ Fail(IF l.kind = "columns" THEN {"columns"} ELSE {}, line)
    /\ line' = line + 1
    /\ UNCHANGED <<tree, pc, seen, backed, hooked, exit>>

ParseEnds ==
    /\ pc = "parse" /\ tree.registry # NoRegistry /\ line > Len(tree.registry)
    /\ pc' = "rows" /\ line' = 1
    /\ UNCHANGED <<tree, rows, seen, backed, hooked, failures, exit>>

\* Mutant: an id that was seen before is not noticed.
CheckRow_Repeated ==
    /\ pc = "rows" /\ line <= Len(rows) /\ ~Raises(rows[line], tree)
    /\ LET row == rows[line]
       IN  /\ Fail(RowFaults(row, tree), line)
           /\ seen' = seen \cup {row.id}
           /\ backed' = IF FormalOnly(row) THEN backed ELSE backed \cup {row.id}
    /\ line' = line + 1
    /\ UNCHANGED <<tree, pc, rows, hooked, exit>>

\* One round of the loop over the rows.
CheckRow ==
    /\ pc = "rows" /\ line <= Len(rows) /\ ~Raises(rows[line], tree)
    /\ LET row == rows[line]
       IN  /\ Fail(RowFaults(row, tree) \cup (IF row.id \in seen THEN {"duplicate"} ELSE {}), line)
           /\ seen' = seen \cup {row.id}
           /\ backed' = IF FormalOnly(row) THEN backed ELSE backed \cup {row.id}
    /\ line' = line + 1
    /\ UNCHANGED <<tree, pc, rows, hooked, exit>>

\* The script ends with a traceback and prints none of its failures.
Crash ==
    /\ pc = "rows" /\ line <= Len(rows) /\ Raises(rows[line], tree)
    /\ pc' = "crashed" /\ exit' = 1
    /\ UNCHANGED <<tree, line, rows, seen, backed, hooked, failures>>

RowsEnd ==
    /\ pc = "rows" /\ line > Len(rows)
    /\ pc' = "hooks"
    /\ UNCHANGED <<tree, line, rows, seen, backed, hooked, failures, exit>>

\* The scan of tests/.
ScanHooks ==
    /\ pc = "hooks"
    /\ hooked' = Hooks(tree)
    /\ pc' = "close"
    /\ UNCHANGED <<tree, line, rows, seen, backed, failures, exit>>

\* Both closures, and the verdict.
Close ==
    /\ pc = "close"
    /\ failures' = failures \cup {<<"unregistered", id>> : id \in hooked \ seen}
                            \cup {<<"unhooked", id>> : id \in backed \ hooked}
    /\ exit' = IF failures' = {} THEN 0 ELSE 1
    /\ pc' = "done"
    /\ UNCHANGED <<tree, line, rows, seen, backed, hooked>>

Next ==
    \/ RegistryMissing \/ ParseLine \/ ParseEnds
    \/ CheckRow \/ Crash \/ RowsEnd
    \/ ScanHooks \/ Close

Spec == Init /\ [][Next]_vars
-----------------------------------------------------------------------------
(* Properties *)

\* The rows of a registry, in its own order.
RowLines(t) ==
    IF t.registry = NoRegistry THEN {} ELSE {n \in DOMAIN t.registry : t.registry[n].kind = "row"}

Registered(t) == {t.registry[n].id : n \in RowLines(t)}

RowsOf(t) == {t.registry[n] : n \in RowLines(t)}

\* The rules of the docstring (check-lattice-invariants.py:11-22), asked of all
\* rows at once; what the script takes otherwise than it says is a parameter.
\* Rule 1: column shape and unique, well-formed ids.
Shaped(t) ==
    /\ \A n \in DOMAIN t.registry : t.registry[n].kind # "columns"
    /\ \A row \in RowsOf(t) : row.well_formed
    /\ \A m, n \in RowLines(t) : t.registry[m].id = t.registry[n].id => m = n

\* Rules 2 and 5, and the two columns that no rule is about: kind and gate.
Graded(row) ==
    /\ row.strength \in STRENGTHS /\ row.spec_kind \in SPEC_KINDS /\ row.gated
    /\ row.strength = "test-pinned" => row.spec_kind = "test" /\ row.justified

\* Rule 3: the specification "contains its spec_name verbatim", an SMT label
\* without what surrounds it ...
NamedVerbatim(row, t) ==
    LET name == Needle(row)
        text == t.specs[row.spec_path]
    IN  /\ 1 \in DOMAIN name
        /\ \E i \in 0..Len(text) : \A k \in DOMAIN name :
              i + k \in DOMAIN text /\ text[i + k] = name[k]

\* ... of which the script asks for the first word, and of an empty name for
\* nothing (line 142).
FirstWordOccurs(row, t) ==
    LET name == Needle(row)
        text == t.specs[row.spec_path]
    IN  name # <<>> => \E i \in DOMAIN text : text[i] = name[1]

\* Rule 4: a row without a test "is a Rocq/TLA+/SMT proof, never test-pinned" ...
FormallyProved(row) == row.spec_kind \in {"coq", "tla", "smt"} /\ row.strength # "test-pinned"

\* ... of which the script asks for the second half (line 150).
NotPinned(row) == row.strength # "test-pinned"

\* Rule 6: the ids that the hook comments name.  Of a comment with several the
\* script takes the first (Hooks).
Referenced(t) ==
    UNION {UNION {UNION {ExpandHook(c[k]) : k \in DOMAIN c} : c \in t.tests[p].hooks} :
              p \in DOMAIN t.tests}

\* All the rules: each row leads to a specification, each row with a test leads
\* to that test and is hooked, each row without one is proved, and each hook
\* leads to a row.
Traceable(t, Named(_, _), Proved(_), ids) ==
    /\ t.registry # NoRegistry /\ Shaped(t)
    /\ \A row \in RowsOf(t) :
          /\ Graded(row)
          /\ row.spec_path \in DOMAIN t.specs /\ Named(row, t)
          /\ row.test_path = "-" => Proved(row) /\ row.test_name = "-"
          /\ row.test_path # "-" => /\ row.test_path \in DOMAIN t.tests
                                    /\ row.test_name \in t.tests[row.test_path].fns
                                    /\ row.id \in ids
    /\ ids \subseteq Registered(t)

Documented(t) == Traceable(t, NamedVerbatim, FormallyProved, Referenced(t))
Enforced(t)   == Traceable(t, FirstWordOccurs, NotPinned, Hooks(t))

\* The script accepts exactly the registries that obey its rules 1, 2 and 5, and
\* 3, 4 and 6 as far as it asks for them, although it looks at one row after the
\* other and remembers of those before only their ids.  It turns down no registry
\* that its docstring describes, if no comment names two ids (check-lattice-
\* invariants.py:11-22, 105-205).
AcceptsExactlyTheTraceable ==
    pc = "done" =>
        /\ exit = 0 <=> Enforced(tree)
        /\ Documented(tree) /\ Referenced(tree) = Hooks(tree) => exit = 0

\* One run reports every fault: no row hides what is wrong with another, and a
\* line that is broken does not hide the lines after it
\* (check-lattice-invariants.py:68-93, 196-200).
EveryFaultIsReported ==
    pc = "done" =>
        /\ \A n \in 1..Len(rows) : \A f \in RowFaults(rows[n], tree) : <<f, n>> \in failures
        /\ \A m, n \in 1..Len(rows) :
              m < n /\ rows[m].id = rows[n].id => <<"duplicate", n>> \in failures
        /\ tree.registry # NoRegistry =>
              /\ {rows[n] : n \in 1..Len(rows)} = {tree.registry[n] : n \in RowLines(tree)}
              /\ \A n \in DOMAIN tree.registry :
                    tree.registry[n].kind = "columns" => <<"columns", n>> \in failures
=============================================================================
