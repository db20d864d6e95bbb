------------------------ MODULE InvariantRegistryProofs ------------------------
(***************************************************************************)
(* What the verdict of the registry gate means, for any checkouts.         *)
(***************************************************************************)
EXTENDS InvariantRegistry, SequenceTheorems, TLAPS

Lines(t) == IF t.registry = NoRegistry THEN {} ELSE {t.registry[n] : n \in DOMAIN t.registry}

\* The lines of the registry that have been read, and the rows that have been
\* checked.
ReadLines ==
    IF tree.registry = NoRegistry THEN {}
    ELSE {n \in DOMAIN tree.registry : pc = "parse" => n < line}

Checked ==
    CASE pc = "rows"                      -> 1..line - 1
      [] pc \in {"hooks", "close", "done"} -> 1..Len(rows)
      [] OTHER                            -> {}

TypeInv ==
    /\ tree \in Checkouts
    /\ pc \in {"parse", "rows", "hooks", "close", "done", "crashed"}
    /\ line \in Nat /\ line >= 1
    /\ rows \in Seq(Lines(tree))
    /\ pc = "rows" => line <= Len(rows) + 1
    /\ pc = "parse" => line <= IF tree.registry = NoRegistry THEN 1 ELSE Len(tree.registry) + 1

IsRow(n) == tree.registry[n].kind = "row"

\* The rows are those of the lines that have been read, and two of them have
\* one id if and only if two of these lines have.
RowsInv ==
    /\ \A k \in 1..Len(rows) : \E n \in ReadLines : IsRow(n) /\ rows[k] = tree.registry[n]
    /\ \A n \in ReadLines : IsRow(n) => \E k \in 1..Len(rows) : rows[k] = tree.registry[n]
    /\ (\E j, k \in 1..Len(rows) : j < k /\ rows[j].id = rows[k].id)
          <=> (\E m, n \in ReadLines : /\ IsRow(m) /\ IsRow(n) /\ m < n
                                       /\ tree.registry[m].id = tree.registry[n].id)

\* What has been noted down is what was wrong so far.
Clean ==
    /\ pc # "parse" => tree.registry # NoRegistry
    /\ \A n \in ReadLines : tree.registry[n].kind # "columns"
    /\ \A k \in Checked : RowFaults(rows[k], tree) = {}
    /\ \A j, k \in Checked : j < k => rows[j].id # rows[k].id

FailuresInv == pc \notin {"done", "crashed"} => (failures = {} <=> Clean)

IdsInv ==
    pc \notin {"done", "crashed"} =>
        /\ seen = {rows[k].id : k \in Checked}
        /\ backed = {rows[k].id : k \in {j \in Checked : ~FormalOnly(rows[j])}}
        /\ pc = "close" => hooked = Hooks(tree)

\* The verdict, in the words of the script: no row has a fault of its own.
InOrder(t) ==
    /\ t.registry # NoRegistry
    /\ \A n \in DOMAIN t.registry : t.registry[n].kind # "columns"
    /\ \A m, n \in RowLines(t) : t.registry[m].id = t.registry[n].id => m = n
    /\ \A n \in RowLines(t) :
          LET row == t.registry[n]
          IN  /\ RowFaults(row, t) = {}
              /\ row.test_path # "-" => row.id \in Hooks(t)
    /\ Hooks(t) \subseteq Registered(t)

VerdictInv == pc = "done" => (exit = 0 <=> InOrder(tree))

IInv == TypeInv /\ RowsInv /\ FailuresInv /\ IdsInv /\ VerdictInv
-----------------------------------------------------------------------------
LEMMA InitIInv == Init => IInv
<1> SUFFICES ASSUME Init PROVE IInv
    OBVIOUS
<1>1. rows = <<>> /\ Len(rows) = 0 /\ rows \in Seq(Lines(tree))
    BY EmptySeq DEF Init
<1>2. TypeInv
    BY <1>1, RegistriesAreLists DEF Init, TypeInv
<1>3. ReadLines = {} /\ Checked = {}
    BY RegistriesAreLists DEF Init, ReadLines, Checked
<1>4. RowsInv
    BY <1>1, <1>3 DEF RowsInv
<1>5. FailuresInv /\ IdsInv /\ VerdictInv
    BY <1>3 DEF Init, FailuresInv, IdsInv, Clean, VerdictInv
<1> QED BY <1>2, <1>4, <1>5 DEF IInv

\* What a step that neither reads a line nor leaves the parsing keeps.
LEMMA RowsStay ==
    ASSUME RowsInv, UNCHANGED <<tree, rows>>, ReadLines' = ReadLines
    PROVE  RowsInv'
BY DEF RowsInv, IsRow


\* Fail notes down every fault, and nothing if there is none.
LEMMA FailNotes ==
    ASSUME NEW faults, NEW where, Fail(faults, where)
    PROVE  /\ failures' = {} <=> failures = {} /\ faults = {}
           /\ failures \subseteq failures'
           /\ \A f \in faults : <<f, where>> \in failures'
BY DEF Fail

\* A registry that is missing is noted down.
LEMMA MissingStep == ASSUME IInv, RegistryMissing PROVE IInv'
<1>1. /\ pc = "parse" /\ pc' = "rows" /\ tree.registry = NoRegistry
      /\ UNCHANGED <<tree, line, rows, seen, backed, hooked, exit>>
    BY DEF RegistryMissing
<1>2. failures' # {}
    BY FailNotes DEF RegistryMissing
<1>3. Lines(tree) = {} /\ ReadLines = {} /\ ReadLines' = {}
    BY <1>1 DEF Lines, ReadLines
<1>4. Len(rows) \in Nat /\ line = 1
    BY <1>1, LenProperties DEF IInv, TypeInv
<1>5. TypeInv'
    BY <1>1, <1>4 DEF IInv, TypeInv
<1>6. Checked = {} /\ Checked' = {}
    BY <1>1, <1>4 DEF Checked
<1>7. RowsInv'
    BY <1>1, <1>3, RowsStay DEF IInv
<1>8. FailuresInv'
    BY <1>1, <1>2 DEF FailuresInv, Clean
<1>9. IdsInv'
    BY <1>1, <1>6 DEF IInv, IdsInv
<1> QED BY <1>1, <1>5, <1>7, <1>8, <1>9 DEF IInv, VerdictInv

\* Where a line is read, it is the next one.
LEMMA NextLine ==
    ASSUME IInv, pc = "parse", tree.registry # NoRegistry, line <= Len(tree.registry),
           pc' = "parse", tree' = tree, line' = line + 1
    PROVE  /\ line \notin ReadLines /\ ReadLines' = ReadLines \cup {line}
           /\ \A n \in ReadLines : n \in Int /\ n < line
           /\ line \in DOMAIN tree.registry /\ tree.registry[line] \in Lines(tree)
           /\ line \in Int
<1>1. /\ DOMAIN tree.registry = 1..Len(tree.registry) /\ Len(tree.registry) \in Nat
      /\ line \in Nat /\ line >= 1
    BY RegistriesAreLists DEF IInv, TypeInv
<1>2. /\ ReadLines = {n \in DOMAIN tree.registry : n < line}
      /\ ReadLines' = {n \in DOMAIN tree.registry : n < line + 1}
    BY DEF ReadLines
<1>3. line \in DOMAIN tree.registry
    BY <1>1
<1> QED BY <1>1, <1>2, <1>3 DEF Lines

\* A comment or a broken line adds no row.
LEMMA ParseOther ==
    ASSUME IInv, ParseLine, tree.registry[line].kind # "row"
    PROVE  RowsInv' /\ rows' = rows
<1>1. /\ pc = "parse" /\ tree.registry # NoRegistry /\ line <= Len(tree.registry)
      /\ pc' = "parse" /\ tree' = tree /\ line' = line + 1 /\ rows' = rows
    BY DEF ParseLine, IInv, TypeInv
<1>2. ReadLines' = ReadLines \cup {line} /\ ~IsRow(line) /\ \A n : IsRow(n)' = IsRow(n)
    BY <1>1, NextLine DEF IsRow
<1>3. \A k \in 1..Len(rows) : \E n \in ReadLines' : IsRow(n) /\ rows[k] = tree.registry[n]
    BY <1>2 DEF IInv, RowsInv
<1>4. \A n \in ReadLines' : IsRow(n) => \E k \in 1..Len(rows) : rows[k] = tree.registry[n]
    BY <1>2 DEF IInv, RowsInv
<1>5. (\E m, n \in ReadLines' : /\ IsRow(m) /\ IsRow(n) /\ m < n
                                 /\ tree.registry[m].id = tree.registry[n].id)
         <=> (\E m, n \in ReadLines : /\ IsRow(m) /\ IsRow(n) /\ m < n
                                      /\ tree.registry[m].id = tree.registry[n].id)
    BY <1>2
<1>6. (\E j, k \in 1..Len(rows) : j < k /\ rows[j].id = rows[k].id)
         <=> (\E m, n \in ReadLines : /\ IsRow(m) /\ IsRow(n) /\ m < n
                                      /\ tree.registry[m].id = tree.registry[n].id)
    BY DEF IInv, RowsInv
<1> QED BY <1>1, <1>2, <1>3, <1>4, <1>5, <1>6 DEF RowsInv

\* A row is added to those before it.
LEMMA ParseRow ==
    ASSUME IInv, ParseLine, tree.registry[line].kind = "row"
    PROVE  RowsInv' /\ rows' \in Seq(Lines(tree))
<1>1. /\ pc = "parse" /\ tree.registry # NoRegistry /\ line <= Len(tree.registry)
      /\ pc' = "parse" /\ tree' = tree /\ line' = line + 1
      /\ rows' = Append(rows, tree.registry[line])
    BY DEF ParseLine
<1>2. /\ line \notin ReadLines /\ ReadLines' = ReadLines \cup {line}
      /\ \A n \in ReadLines : n \in Int /\ n < line
      /\ tree.registry[line] \in Lines(tree) /\ line \in Int
    BY <1>1, NextLine
<1> DEFINE row == tree.registry[line]
           N   == Len(rows)
<1>3. rows \in Seq(Lines(tree)) /\ N \in Nat
    BY LenProperties DEF IInv, TypeInv
<1>4. /\ rows' \in Seq(Lines(tree)) /\ Len(rows') = N + 1
      /\ \A k \in 1..N : rows'[k] = rows[k]
      /\ rows'[N + 1] = row
    BY <1>1, <1>2, <1>3, AppendProperties
<1> HIDE DEF row, N
<1>5. 1..Len(rows') = (1..N) \cup {N + 1}
    BY <1>3, <1>4
<1>6. IsRow(line) /\ \A n : IsRow(n)' = IsRow(n)
    BY <1>1 DEF IsRow
<1>7. \A k \in 1..Len(rows') : \E n \in ReadLines' : IsRow(n)' /\ rows'[k] = tree'.registry[n]
    <2> SUFFICES ASSUME NEW k \in 1..Len(rows')
                 PROVE  \E n \in ReadLines' : IsRow(n)' /\ rows'[k] = tree'.registry[n]
        OBVIOUS
    <2>1. CASE k = N + 1
        BY <1>1, <1>2, <1>4, <1>6, <2>1 DEF row
    <2>2. CASE k \in 1..N
        <3>1. PICK n \in ReadLines : IsRow(n) /\ rows[k] = tree.registry[n]
            BY <2>2 DEF IInv, RowsInv, N
        <3> QED BY <1>1, <1>2, <1>4, <1>6, <2>2, <3>1
    <2> QED BY <1>5, <2>1, <2>2
<1>8. \A n \in ReadLines' : IsRow(n)' => \E k \in 1..Len(rows') : rows'[k] = tree'.registry[n]
    <2> SUFFICES ASSUME NEW n \in ReadLines', IsRow(n)
                 PROVE  \E k \in 1..Len(rows') : rows'[k] = tree.registry[n]
        BY <1>1, <1>6
    <2>1. CASE n = line
        BY <1>3, <1>4, <1>5, <2>1 DEF row
    <2>2. CASE n \in ReadLines
        <3>1. PICK k \in 1..N : rows[k] = tree.registry[n]
            BY <2>2 DEF IInv, RowsInv, N
        <3> QED BY <1>4, <1>5, <3>1
    <2> QED BY <1>2, <2>1, <2>2
<1> DEFINE Twins     == \E j, k \in 1..N : j < k /\ rows[j].id = rows[k].id
           LineTwins == \E m, n \in ReadLines : /\ IsRow(m) /\ IsRow(n) /\ m < n
                                                /\ tree.registry[m].id = tree.registry[n].id
           Old       == \E n \in ReadLines : IsRow(n) /\ tree.registry[n].id = row.id
<1>9. Twins <=> LineTwins
    BY DEF IInv, RowsInv, N
<1>10. Old <=> \E j \in 1..N : rows[j].id = row.id
    <2>1. ASSUME NEW n \in ReadLines, IsRow(n), tree.registry[n].id = row.id
          PROVE  \E j \in 1..N : rows[j].id = row.id
        <3>1. PICK k \in 1..N : rows[k] = tree.registry[n]
            BY <2>1 DEF IInv, RowsInv, N
        <3> QED BY <2>1, <3>1
    <2>2. ASSUME NEW j \in 1..N, rows[j].id = row.id PROVE Old
        <3>1. PICK n \in ReadLines : IsRow(n) /\ rows[j] = tree.registry[n]
            BY DEF IInv, RowsInv, N
        <3> QED BY <2>2, <3>1
    <2> QED BY <2>1, <2>2
<1>11. (\E j, k \in 1..Len(rows') : j < k /\ rows'[j].id = rows'[k].id) <=> Twins \/ Old
    <2>1. ASSUME NEW j \in 1..Len(rows'), NEW k \in 1..Len(rows'), j < k,
                 rows'[j].id = rows'[k].id
          PROVE  Twins \/ Old
        <3>1. j \in 1..N
            BY <1>3, <1>5, <2>1
        <3>2. CASE k \in 1..N
            BY <1>4, <2>1, <3>1, <3>2
        <3>3. CASE k = N + 1
            BY <1>4, <1>10, <2>1, <3>1, <3>3
        <3> QED BY <1>5, <3>2, <3>3
    <2>2. ASSUME Twins PROVE \E j, k \in 1..Len(rows') : j < k /\ rows'[j].id = rows'[k].id
        BY <1>4, <1>5, <2>2
    <2>3. ASSUME Old PROVE \E j, k \in 1..Len(rows') : j < k /\ rows'[j].id = rows'[k].id
        <3>1. PICK j \in 1..N : rows[j].id = row.id
            BY <1>10, <2>3
        <3>2. j \in 1..Len(rows') /\ N + 1 \in 1..Len(rows') /\ j < N + 1
            BY <1>3, <1>5
        <3>3. rows'[j].id = rows'[N + 1].id
            BY <1>4, <3>1
        <3> QED BY <3>2, <3>3
    <2> QED BY <2>1, <2>2, <2>3
<1>12. (\E m, n \in ReadLines' : /\ IsRow(m)' /\ IsRow(n)' /\ m < n
                                 /\ tree'.registry[m].id = tree'.registry[n].id)
          <=> LineTwins \/ Old
    <2>1. ASSUME NEW m \in ReadLines', NEW n \in ReadLines', IsRow(m), IsRow(n), m < n,
                 tree.registry[m].id = tree.registry[n].id
          PROVE  LineTwins \/ Old
        <3>1. m \in ReadLines
            BY <1>2, <2>1
        <3>2. CASE n \in ReadLines
            BY <2>1, <3>1, <3>2
        <3>3. CASE n = line
            BY <2>1, <3>1, <3>3 DEF row
        <3> QED BY <1>2, <3>2, <3>3
    <2>2. LineTwins => \E m, n \in ReadLines' : /\ IsRow(m) /\ IsRow(n) /\ m < n
                                                /\ tree.registry[m].id = tree.registry[n].id
        BY <1>2
    <2>3. Old => \E m, n \in ReadLines' : /\ IsRow(m) /\ IsRow(n) /\ m < n
                                          /\ tree.registry[m].id = tree.registry[n].id
        BY <1>2, <1>6 DEF row
    <2> QED BY <1>1, <1>6, <2>1, <2>2, <2>3
<1> QED BY <1>4, <1>7, <1>8, <1>9, <1>11, <1>12 DEF RowsInv

\* A line that is read is noted down if and only if it is broken.
LEMMA ParseStep == ASSUME IInv, ParseLine PROVE IInv'
<1>1. /\ pc = "parse" /\ tree.registry # NoRegistry /\ line <= Len(tree.registry)
      /\ pc' = "parse" /\ tree' = tree /\ line' = line + 1
      /\ UNCHANGED <<seen, backed, hooked>>
    BY DEF ParseLine
<1>2. /\ Len(tree.registry) \in Nat /\ line \in Nat /\ line >= 1 /\ tree \in Checkouts
      /\ rows \in Seq(Lines(tree))
    BY <1>1, RegistriesAreLists DEF IInv, TypeInv
<1>3. RowsInv' /\ rows' \in Seq(Lines(tree))
    BY <1>2, ParseOther, ParseRow
<1>4. TypeInv'
    BY <1>1, <1>2, <1>3 DEF TypeInv
<1>5. Checked = {} /\ Checked' = {}
    BY <1>1 DEF Checked
<1>6. ReadLines' = ReadLines \cup {line}
    BY <1>1, NextLine
<1>7. failures' = {} <=> failures = {} /\ tree.registry[line].kind # "columns"
    BY FailNotes DEF ParseLine
<1>8. Clean' <=> Clean /\ tree.registry[line].kind # "columns"
    BY <1>1, <1>5, <1>6 DEF Clean
<1>9. FailuresInv'
    BY <1>1, <1>7, <1>8 DEF IInv, FailuresInv
<1>10. IdsInv'
    BY <1>1, <1>5 DEF IInv, IdsInv
<1> QED BY <1>1, <1>3, <1>4, <1>9, <1>10 DEF IInv, VerdictInv

\* At the end of the file all lines have been read.
LEMMA ParseEndsStep == ASSUME IInv, ParseEnds PROVE IInv'
<1>1. /\ pc = "parse" /\ tree.registry # NoRegistry /\ line > Len(tree.registry)
      /\ pc' = "rows" /\ line' = 1
      /\ UNCHANGED <<tree, rows, seen, backed, hooked, failures, exit>>
    BY DEF ParseEnds
<1>2. /\ Len(tree.registry) \in Nat /\ DOMAIN tree.registry = 1..Len(tree.registry)
      /\ line \in Nat /\ Len(rows) \in Nat
    BY <1>1, RegistriesAreLists, LenProperties DEF IInv, TypeInv
<1>3. ReadLines' = ReadLines
    BY <1>1, <1>2 DEF ReadLines
<1>4. Checked = {} /\ Checked' = {}
    BY <1>1 DEF Checked
<1>5. TypeInv'
    BY <1>1, <1>2 DEF IInv, TypeInv
<1>6. RowsInv'
    BY <1>1, <1>3, RowsStay DEF IInv
<1>7. Clean' <=> Clean
    BY <1>1, <1>3, <1>4 DEF Clean
<1>8. FailuresInv' /\ IdsInv'
    BY <1>1, <1>4, <1>7 DEF IInv, FailuresInv, IdsInv
<1> QED BY <1>1, <1>5, <1>6, <1>8 DEF IInv, VerdictInv

\* A row is noted down if and only if it has a fault or repeats an id.
LEMMA CheckRowStep == ASSUME IInv, CheckRow PROVE IInv'
<1> DEFINE row == rows[line]
<1>1. /\ pc = "rows" /\ line <= Len(rows) /\ pc' = "rows" /\ line' = line + 1
      /\ UNCHANGED <<tree, rows, hooked, exit>>
      /\ seen' = seen \cup {row.id}
      /\ backed' = IF FormalOnly(row) THEN backed ELSE backed \cup {row.id}
    BY DEF CheckRow
<1>2. line \in Nat /\ line >= 1 /\ Len(rows) \in Nat
    BY LenProperties DEF IInv, TypeInv
<1>3. ReadLines' = ReadLines
    BY <1>1 DEF ReadLines
<1>4. /\ Checked = 1..line - 1 /\ Checked' = Checked \cup {line} /\ line \notin Checked
      /\ \A k \in Checked : k < line /\ k \in Int
    BY <1>1, <1>2 DEF Checked
<1>5. TypeInv'
    BY <1>1, <1>2 DEF IInv, TypeInv
<1>6. RowsInv'
    BY <1>1, <1>3, RowsStay DEF IInv
<1>7. /\ seen = {rows[k].id : k \in Checked}
      /\ backed = {rows[k].id : k \in {j \in Checked : ~FormalOnly(rows[j])}}
    BY <1>1 DEF IInv, IdsInv
<1>8. failures' = {} <=> failures = {} /\ RowFaults(row, tree) = {} /\ row.id \notin seen
    <2>1. Fail(RowFaults(row, tree) \cup (IF row.id \in seen THEN {"duplicate"} ELSE {}), line)
        BY DEF CheckRow
    <2> QED BY <2>1, FailNotes
<1> HIDE DEF row
<1>9. /\ seen' = {rows'[k].id : k \in Checked'}
      /\ backed' = {rows'[k].id : k \in {j \in Checked' : ~FormalOnly(rows'[j])}}
    <2>1. seen' = {rows[k].id : k \in Checked \cup {line}}
        BY <1>1, <1>7 DEF row
    <2>2. backed' = {rows[k].id : k \in {j \in Checked \cup {line} : ~FormalOnly(rows[j])}}
        BY <1>1, <1>7 DEF row
    <2> QED BY <1>1, <1>4, <2>1, <2>2
<1>10. IdsInv'
    BY <1>1, <1>9 DEF IdsInv
<1>11. Clean' <=> Clean /\ RowFaults(row, tree) = {} /\ row.id \notin seen
    <2>1. (\A j, k \in Checked' : j < k => rows[j].id # rows[k].id)
             <=> /\ \A j, k \in Checked : j < k => rows[j].id # rows[k].id
                 /\ row.id \notin seen
        <3>1. ASSUME \A j, k \in Checked' : j < k => rows[j].id # rows[k].id
              PROVE  row.id \notin seen
            BY <1>4, <1>7, <3>1 DEF row
        <3>2. ASSUME \A j, k \in Checked : j < k => rows[j].id # rows[k].id, row.id \notin seen,
                     NEW j \in Checked', NEW k \in Checked', j < k
              PROVE  rows[j].id # rows[k].id
            <4>1. j \in Checked
                BY <1>2, <1>4, <3>2
            <4>2. CASE k \in Checked
                BY <3>2, <4>1, <4>2
            <4>3. CASE k = line
                BY <1>7, <3>2, <4>1, <4>3 DEF row
            <4> QED BY <1>4, <4>2, <4>3
        <3> QED BY <1>4, <3>1, <3>2
    <2>2. (\A k \in Checked' : RowFaults(rows[k], tree) = {})
             <=> (\A k \in Checked : RowFaults(rows[k], tree) = {}) /\ RowFaults(row, tree) = {}
        BY <1>4 DEF row
    <2> QED BY <1>1, <1>3, <2>1, <2>2 DEF Clean
<1>12. FailuresInv'
    BY <1>1, <1>8, <1>11 DEF IInv, FailuresInv
<1> QED BY <1>1, <1>5, <1>6, <1>10, <1>12 DEF IInv, VerdictInv

LEMMA CrashStep == ASSUME IInv, Crash PROVE IInv'
<1>1. /\ pc = "rows" /\ pc' = "crashed" /\ UNCHANGED <<tree, line, rows>>
    BY DEF Crash
<1>2. ReadLines' = ReadLines
    BY <1>1 DEF ReadLines
<1>3. TypeInv'
    BY <1>1 DEF IInv, TypeInv
<1>4. RowsInv'
    BY <1>1, <1>2, RowsStay DEF IInv
<1> QED BY <1>1, <1>3, <1>4 DEF IInv, FailuresInv, IdsInv, VerdictInv

\* After the last row all rows have been checked.
LEMMA RowsEndStep == ASSUME IInv, RowsEnd PROVE IInv'
<1>1. /\ pc = "rows" /\ line > Len(rows) /\ pc' = "hooks"
      /\ UNCHANGED <<tree, line, rows, seen, backed, hooked, failures, exit>>
    BY DEF RowsEnd
<1>2. Len(rows) \in Nat /\ line \in Nat /\ line = Len(rows) + 1
    BY <1>1, LenProperties DEF IInv, TypeInv
<1>3. ReadLines' = ReadLines /\ Checked' = Checked
    BY <1>1, <1>2 DEF ReadLines, Checked
<1>4. TypeInv'
    BY <1>1 DEF IInv, TypeInv
<1>5. RowsInv'
    BY <1>1, <1>3, RowsStay DEF IInv
<1>6. Clean' <=> Clean
    BY <1>1, <1>3 DEF Clean
<1>7. FailuresInv' /\ IdsInv'
    BY <1>1, <1>3, <1>6 DEF IInv, FailuresInv, IdsInv
<1> QED BY <1>1, <1>4, <1>5, <1>7 DEF IInv, VerdictInv

LEMMA ScanHooksStep == ASSUME IInv, ScanHooks PROVE IInv'
<1>1. /\ pc = "hooks" /\ pc' = "close" /\ hooked' = Hooks(tree)
      /\ UNCHANGED <<tree, line, rows, seen, backed, failures, exit>>
    BY DEF ScanHooks
<1>2. ReadLines' = ReadLines /\ Checked' = Checked
    BY <1>1 DEF ReadLines, Checked
<1>3. TypeInv'
    BY <1>1 DEF IInv, TypeInv
<1>4. RowsInv'
    BY <1>1, <1>2, RowsStay DEF IInv
<1>5. Clean' <=> Clean
    BY <1>1, <1>2 DEF Clean
<1>6. FailuresInv' /\ IdsInv'
    BY <1>1, <1>2, <1>5 DEF IInv, FailuresInv, IdsInv
<1> QED BY <1>1, <1>3, <1>4, <1>6 DEF IInv, VerdictInv

\* What the rows and the two closures say, in terms of the lines.
LEMMA Verdict ==
    ASSUME IInv, pc = "close"
    PROVE  (Clean /\ hooked \subseteq seen /\ backed \subseteq hooked) <=> InOrder(tree)
<1> DEFINE t == tree
           L == RowLines(tree)
<1>1. /\ Checked = 1..Len(rows)
      /\ seen = {rows[k].id : k \in 1..Len(rows)}
      /\ backed = {rows[k].id : k \in {j \in 1..Len(rows) : rows[j].test_path # "-"}}
      /\ hooked = Hooks(t)
    BY DEF Checked, IInv, IdsInv, FormalOnly
<1>2. CASE tree.registry = NoRegistry
    BY <1>2 DEF Clean, InOrder
<1>3. CASE tree.registry # NoRegistry
    <2>1. /\ ReadLines = DOMAIN t.registry /\ \A n \in ReadLines : n \in Int
          /\ L = {n \in ReadLines : IsRow(n)}
        BY <1>3, RegistriesAreLists DEF ReadLines, RowLines, IsRow, IInv, TypeInv
    <2>2. \A k \in 1..Len(rows) : \E n \in L : rows[k] = t.registry[n]
        BY <2>1 DEF IInv, RowsInv
    <2>3. \A n \in L : \E k \in 1..Len(rows) : rows[k] = t.registry[n]
        BY <2>1 DEF IInv, RowsInv
    <2>4. (\E j, k \in 1..Len(rows) : j < k /\ rows[j].id = rows[k].id)
             <=> (\E m, n \in L : m < n /\ t.registry[m].id = t.registry[n].id)
        BY <2>1 DEF IInv, RowsInv
    <2>5. \A m, n \in L : m \in Int /\ n \in Int
        BY <2>1
    <2> HIDE DEF L
    <2>6. (\A j, k \in 1..Len(rows) : j < k => rows[j].id # rows[k].id)
             <=> (\A m, n \in L : t.registry[m].id = t.registry[n].id => m = n)
        <3>1. (\A m, n \in L : t.registry[m].id = t.registry[n].id => m = n)
                 <=> ~(\E m, n \in L : m < n /\ t.registry[m].id = t.registry[n].id)
            BY <2>5
        <3> QED BY <2>4, <3>1
    <2>7. (\A k \in 1..Len(rows) : RowFaults(rows[k], t) = {})
             <=> (\A n \in L : RowFaults(t.registry[n], t) = {})
        <3>1. ASSUME \A k \in 1..Len(rows) : RowFaults(rows[k], t) = {}, NEW n \in L
              PROVE  RowFaults(t.registry[n], t) = {}
            <4>1. PICK k \in 1..Len(rows) : rows[k] = t.registry[n]
                BY <2>3
            <4>2. RowFaults(rows[k], t) = {}
                BY <3>1
            <4> QED BY <4>1, <4>2
        <3>2. ASSUME \A n \in L : RowFaults(t.registry[n], t) = {}, NEW k \in 1..Len(rows)
              PROVE  RowFaults(rows[k], t) = {}
            <4>1. PICK n \in L : rows[k] = t.registry[n]
                BY <2>2
            <4>2. RowFaults(t.registry[n], t) = {}
                BY <3>2
            <4> QED BY <4>1, <4>2
        <3> QED BY <3>1, <3>2
    <2>8. seen = {t.registry[n].id : n \in L}
        <3>1. ASSUME NEW k \in 1..Len(rows)
              PROVE  rows[k].id \in {t.registry[n].id : n \in L}
            <4>1. PICK n \in L : rows[k] = t.registry[n]
                BY <2>2
            <4> QED BY <4>1
        <3>2. ASSUME NEW n \in L
              PROVE  t.registry[n].id \in {rows[k].id : k \in 1..Len(rows)}
            <4>1. PICK k \in 1..Len(rows) : rows[k] = t.registry[n]
                BY <2>3
            <4> QED BY <4>1
        <3> QED BY <1>1, <3>1, <3>2
    <2>9. backed \subseteq hooked
             <=> \A n \in L : t.registry[n].test_path # "-" => t.registry[n].id \in Hooks(t)
        <3>1. ASSUME backed \subseteq hooked, NEW n \in L, t.registry[n].test_path # "-"
              PROVE  t.registry[n].id \in Hooks(t)
            <4>1. PICK k \in 1..Len(rows) : rows[k] = t.registry[n]
                BY <2>3
            <4> QED BY <1>1, <3>1, <4>1
        <3>2. ASSUME \A n \in L : t.registry[n].test_path # "-" => t.registry[n].id \in Hooks(t),
                     NEW k \in 1..Len(rows), rows[k].test_path # "-"
              PROVE  rows[k].id \in hooked
            <4>1. PICK n \in L : rows[k] = t.registry[n]
                BY <2>2
            <4> QED BY <1>1, <3>2, <4>1
        <3> QED BY <1>1, <3>1, <3>2
    <2>10. Registered(t) = {t.registry[n].id : n \in L}
        BY DEF Registered, L
    <2>11. Clean <=> /\ \A n \in DOMAIN t.registry : t.registry[n].kind # "columns"
                     /\ \A n \in L : RowFaults(t.registry[n], t) = {}
                     /\ \A m, n \in L : t.registry[m].id = t.registry[n].id => m = n
        BY <1>1, <1>3, <2>1, <2>6, <2>7 DEF Clean
    <2>12. InOrder(t) <=> /\ \A n \in DOMAIN t.registry : t.registry[n].kind # "columns"
                          /\ \A m, n \in L : t.registry[m].id = t.registry[n].id => m = n
                          /\ \A n \in L : RowFaults(t.registry[n], t) = {}
                          /\ \A n \in L : t.registry[n].test_path # "-"
                                              => t.registry[n].id \in Hooks(t)
                          /\ Hooks(t) \subseteq Registered(t)
        BY <1>3 DEF InOrder, L
    <2> QED BY <1>1, <2>8, <2>9, <2>10, <2>11, <2>12
<1> QED BY <1>2, <1>3

LEMMA CloseStep == ASSUME IInv, Close PROVE IInv'
<1>1. /\ pc = "close" /\ pc' = "done"
      /\ failures' = failures \cup {<<"unregistered", id>> : id \in hooked \ seen}
                              \cup {<<"unhooked", id>> : id \in backed \ hooked}
      /\ exit' = IF failures' = {} THEN 0 ELSE 1
      /\ UNCHANGED <<tree, line, rows, seen, backed, hooked>>
    BY DEF Close
<1>2. ReadLines' = ReadLines
    BY <1>1 DEF ReadLines
<1>3. TypeInv'
    BY <1>1 DEF IInv, TypeInv
<1>4. RowsInv'
    BY <1>1, <1>2, RowsStay DEF IInv
<1>5. failures' = {} <=> failures = {} /\ hooked \subseteq seen /\ backed \subseteq hooked
    BY <1>1
<1>6. failures = {} <=> Clean
    BY <1>1 DEF IInv, FailuresInv
<1>7. exit' = 0 <=> InOrder(tree)
    BY <1>1, <1>5, <1>6, Verdict
<1>8. FailuresInv' /\ IdsInv'
    BY <1>1 DEF FailuresInv, IdsInv
<1>9. VerdictInv'
    BY <1>1, <1>7 DEF VerdictInv
<1> QED BY <1>3, <1>4, <1>8, <1>9 DEF IInv

LEMMA NextIInv == IInv /\ [Next]_vars => IInv'
<1> SUFFICES ASSUME IInv, [Next]_vars PROVE IInv'
    OBVIOUS
<1>1. CASE UNCHANGED vars
    <2>1. UNCHANGED <<tree, pc, line, rows, seen, backed, hooked, failures, exit>>
        BY <1>1 DEF vars
    <2>2. ReadLines' = ReadLines /\ Checked' = Checked
        BY <2>1 DEF ReadLines, Checked
    <2>3. TypeInv' /\ RowsInv' /\ VerdictInv'
        BY <2>1, <2>2, RowsStay DEF IInv, TypeInv, VerdictInv
    <2>4. Clean' <=> Clean
        BY <2>1, <2>2 DEF Clean
    <2>5. FailuresInv' /\ IdsInv'
        BY <2>1, <2>2, <2>4 DEF IInv, FailuresInv, IdsInv
    <2> QED BY <2>3, <2>5 DEF IInv
<1> QED BY <1>1, MissingStep, ParseStep, ParseEndsStep, CheckRowStep, CrashStep, RowsEndStep,
           ScanHooksStep, CloseStep DEF Next

\* A row has no fault exactly if it obeys the rules, as far as they are enforced.
LEMMA FaultlessRow ==
    ASSUME NEW row, NEW t
    PROVE  RowFaults(row, t) = {} <=>
              /\ row.well_formed /\ Graded(row)
              /\ row.spec_path \in DOMAIN t.specs /\ FirstWordOccurs(row, t)
              /\ row.test_path = "-" => NotPinned(row) /\ row.test_name = "-"
              /\ row.test_path # "-" => /\ row.test_path \in DOMAIN t.tests
                                        /\ row.test_name \in t.tests[row.test_path].fns
<1>1. SpecIsNamed(row, t) <=> FirstWordOccurs(row, t)
    BY DEF SpecIsNamed, FirstWordOccurs
<1> DEFINE F == RowFaults(row, t)
<1>2. /\ "malformed" \in F       <=> ~row.well_formed
      /\ "strength" \in F        <=> row.strength \notin STRENGTHS
      /\ "spec_kind" \in F       <=> row.spec_kind \notin SPEC_KINDS
      /\ "pinned_kind" \in F     <=> row.strength = "test-pinned" /\ row.spec_kind # "test"
      /\ "pinned_law" \in F      <=> row.strength = "test-pinned" /\ ~row.justified
      /\ "gate" \in F            <=> ~row.gated
      /\ "spec_path" \in F       <=> row.spec_path \notin DOMAIN t.specs
      /\ "spec_name" \in F       <=> row.spec_path \in DOMAIN t.specs /\ ~SpecIsNamed(row, t)
      /\ "formal_strength" \in F <=> FormalOnly(row) /\ row.strength \notin PROOF_STRENGTHS
      /\ "formal_name" \in F     <=> FormalOnly(row) /\ row.test_name # "-"
      /\ "test_path" \in F       <=> ~FormalOnly(row) /\ row.test_path \notin DOMAIN t.tests
      /\ "test_name" \in F       <=> /\ ~FormalOnly(row) /\ row.test_path \in DOMAIN t.tests
                                     /\ row.test_name \notin t.tests[row.test_path].fns
    BY DEF RowFaults
<1>3. F \subseteq {"malformed", "strength", "spec_kind", "pinned_kind", "pinned_law", "gate",
                   "spec_path", "spec_name", "formal_strength", "formal_name",
                   "test_path", "test_name"}
    BY DEF RowFaults
<1>4. row.strength \in PROOF_STRENGTHS <=> row.strength \in STRENGTHS /\ row.strength # "test-pinned"
    BY DEF PROOF_STRENGTHS
<1> HIDE DEF F
<1>5. F = {} <=> /\ row.well_formed /\ row.strength \in STRENGTHS
                 /\ row.spec_kind \in SPEC_KINDS /\ row.gated
                 /\ row.strength = "test-pinned" => row.spec_kind = "test" /\ row.justified
                 /\ row.spec_path \in DOMAIN t.specs /\ SpecIsNamed(row, t)
                 /\ FormalOnly(row) => row.strength # "test-pinned" /\ row.test_name = "-"
                 /\ ~FormalOnly(row) => /\ row.test_path \in DOMAIN t.tests
                                        /\ row.test_name \in t.tests[row.test_path].fns
    BY <1>2, <1>3, <1>4, Zenon
<1> QED BY <1>1, <1>5 DEF F, Graded, NotPinned, FormalOnly

\* The verdict, in the words of the rules.
LEMMA InOrderIsEnforced == ASSUME NEW t PROVE InOrder(t) <=> Enforced(t)
<1> DEFINE Obeys(row) == /\ row.well_formed /\ Graded(row)
                         /\ row.spec_path \in DOMAIN t.specs /\ FirstWordOccurs(row, t)
                         /\ row.test_path = "-" => NotPinned(row) /\ row.test_name = "-"
                         /\ row.test_path # "-" => /\ row.test_path \in DOMAIN t.tests
                                                   /\ row.test_name \in t.tests[row.test_path].fns
<1>1. \A row : RowFaults(row, t) = {} <=> Obeys(row)
    BY FaultlessRow
<1> HIDE DEF Obeys
<1>2. InOrder(t) <=>
         /\ t.registry # NoRegistry
         /\ \A n \in DOMAIN t.registry : t.registry[n].kind # "columns"
         /\ \A m, n \in RowLines(t) : t.registry[m].id = t.registry[n].id => m = n
         /\ \A row \in RowsOf(t) : Obeys(row) /\ (row.test_path # "-" => row.id \in Hooks(t))
         /\ Hooks(t) \subseteq Registered(t)
    BY <1>1 DEF InOrder, RowsOf
<1>3. Enforced(t) <=>
         /\ t.registry # NoRegistry
         /\ \A n \in DOMAIN t.registry : t.registry[n].kind # "columns"
         /\ \A m, n \in RowLines(t) : t.registry[m].id = t.registry[n].id => m = n
         /\ \A row \in RowsOf(t) : Obeys(row) /\ (row.test_path # "-" => row.id \in Hooks(t))
         /\ Hooks(t) \subseteq Registered(t)
    BY DEF Enforced, Traceable, Shaped, Obeys
<1> QED BY <1>2, <1>3

\* What the docstring describes, with one id to a comment, is enforced.
LEMMA DocumentedIsEnforced ==
    ASSUME NEW t, Documented(t), Referenced(t) = Hooks(t)
    PROVE  Enforced(t)
<1>1. ASSUME NEW row, NamedVerbatim(row, t) PROVE FirstWordOccurs(row, t)
    <2> DEFINE name == Needle(row)
               text == t.specs[row.spec_path]
    <2>1. PICK i \in 0..Len(text) : \A k \in DOMAIN name : i + k \in DOMAIN text /\ text[i + k] = name[k]
        BY <1>1 DEF NamedVerbatim
    <2>2. i + 1 \in DOMAIN text /\ text[i + 1] = name[1]
        BY <1>1, <2>1 DEF NamedVerbatim
    <2> QED BY <2>2 DEF FirstWordOccurs
<1>2. \A row : FormallyProved(row) => NotPinned(row)
    BY DEF FormallyProved, NotPinned
<1> QED BY <1>1, <1>2 DEF Documented, Enforced, Traceable

\* The gate exits 0 if and only if the registry obeys the rules as far as they are
\* enforced, and it turns down nothing that its docstring describes, whatever the
\* registry, the specifications and the tests are (check-lattice-invariants.py:
\* 11-22, 105-205).
THEOREM AcceptsExactly == Spec => []AcceptsExactlyTheTraceable
<1>1. Spec => []IInv
    BY InitIInv, NextIInv, PTL DEF Spec
<1>2. IInv => AcceptsExactlyTheTraceable
    BY InOrderIsEnforced, DocumentedIsEnforced DEF IInv, VerdictInv, AcceptsExactlyTheTraceable
<1> QED BY <1>1, <1>2, PTL
-----------------------------------------------------------------------------
(* Every fault is reported: what was wrong with the lines that were read and  *)
(* the rows that were checked is among the failures.                         *)
ReportInv ==
    /\ \A n \in Checked : \A f \in RowFaults(rows[n], tree) : <<f, n>> \in failures
    /\ \A m, n \in Checked : m < n /\ rows[m].id = rows[n].id => <<"duplicate", n>> \in failures
    /\ \A n \in ReadLines : tree.registry[n].kind = "columns" => <<"columns", n>> \in failures

LEMMA InitReport == Init => ReportInv
BY RegistriesAreLists DEF Init, ReportInv, ReadLines, Checked

\* A step that reads no line and checks no row keeps it, as no failure is lost.
LEMMA ReportStays ==
    ASSUME ReportInv, UNCHANGED <<tree, rows>>, ReadLines' = ReadLines,
           Checked' \subseteq Checked, failures \subseteq failures'
    PROVE  ReportInv'
BY DEF ReportInv

LEMMA ReportParse == ASSUME IInv, ReportInv, ParseLine PROVE ReportInv'
<1>1. /\ pc = "parse" /\ tree.registry # NoRegistry /\ line <= Len(tree.registry)
      /\ pc' = "parse" /\ tree' = tree /\ line' = line + 1
    BY DEF ParseLine
<1>2. Checked' = {} /\ ReadLines' = ReadLines \cup {line}
    BY <1>1, NextLine DEF Checked
<1>3. /\ failures \subseteq failures'
      /\ tree.registry[line].kind = "columns" => <<"columns", line>> \in failures'
    BY FailNotes DEF ParseLine
<1> QED BY <1>1, <1>2, <1>3 DEF ReportInv

LEMMA ReportCheck == ASSUME IInv, ReportInv, CheckRow PROVE ReportInv'
<1> DEFINE row == rows[line]
<1>1. /\ pc = "rows" /\ line <= Len(rows) /\ pc' = "rows" /\ line' = line + 1
      /\ UNCHANGED <<tree, rows>>
      /\ Fail(RowFaults(row, tree) \cup (IF row.id \in seen THEN {"duplicate"} ELSE {}), line)
    BY DEF CheckRow
<1>2. line \in Nat /\ line >= 1 /\ Len(rows) \in Nat
    BY LenProperties DEF IInv, TypeInv
<1>3. ReadLines' = ReadLines
    BY <1>1 DEF ReadLines
<1>4. /\ Checked' = Checked \cup {line} /\ line \notin Checked
      /\ \A k \in Checked : k < line /\ k \in Int
    BY <1>1, <1>2 DEF Checked
<1>5. seen = {rows[k].id : k \in Checked}
    BY <1>1 DEF IInv, IdsInv
<1>6. /\ failures \subseteq failures'
      /\ \A f \in RowFaults(row, tree) : <<f, line>> \in failures'
      /\ row.id \in seen => <<"duplicate", line>> \in failures'
    BY <1>1, FailNotes
<1> HIDE DEF row
<1>7. \A n \in Checked' : \A f \in RowFaults(rows[n], tree) : <<f, n>> \in failures'
    BY <1>4, <1>6 DEF ReportInv, row
<1>8. ASSUME NEW m \in Checked', NEW n \in Checked', m < n, rows[m].id = rows[n].id
      PROVE  <<"duplicate", n>> \in failures'
    <2>1. m \in Checked
        BY <1>2, <1>4, <1>8
    <2>2. CASE n \in Checked
        BY <1>6, <1>8, <2>1, <2>2 DEF ReportInv
    <2>3. CASE n = line
        BY <1>5, <1>6, <1>8, <2>1, <2>3 DEF row
    <2> QED BY <1>4, <2>2, <2>3
<1> QED BY <1>1, <1>3, <1>6, <1>7, <1>8 DEF ReportInv

LEMMA NextReport == IInv /\ ReportInv /\ [Next]_vars => ReportInv'
<1> SUFFICES ASSUME IInv, ReportInv, [Next]_vars PROVE ReportInv'
    OBVIOUS
<1>1. CASE RegistryMissing
    <2>1. /\ UNCHANGED <<tree, rows>> /\ failures \subseteq failures' /\ line = 1
          /\ tree.registry = NoRegistry /\ pc' = "rows" /\ line' = 1
        BY <1>1, FailNotes DEF RegistryMissing, IInv, TypeInv
    <2>2. ReadLines' = ReadLines /\ Checked' = {}
        BY <2>1 DEF ReadLines, Checked
    <2> QED BY <2>1, <2>2, ReportStays
<1>2. CASE ParseEnds
    <2>1. /\ UNCHANGED <<tree, rows, failures>> /\ pc = "parse" /\ pc' = "rows" /\ line' = 1
          /\ tree.registry # NoRegistry /\ line > Len(tree.registry) /\ line \in Nat
          /\ Len(tree.registry) \in Nat /\ DOMAIN tree.registry = 1..Len(tree.registry)
        BY <1>2, RegistriesAreLists DEF ParseEnds, IInv, TypeInv
    <2>2. ReadLines' = ReadLines /\ Checked' = {}
        BY <2>1 DEF ReadLines, Checked
    <2> QED BY <2>1, <2>2, ReportStays
<1>3. CASE Crash
    BY <1>3, ReportStays DEF Crash, ReadLines, Checked
<1>4. CASE RowsEnd
    <2>1. Len(rows) \in Nat /\ line \in Nat /\ line = Len(rows) + 1
        BY <1>4, LenProperties DEF RowsEnd, IInv, TypeInv
    <2> QED BY <1>4, <2>1, ReportStays DEF RowsEnd, ReadLines, Checked
<1>5. CASE ScanHooks
    BY <1>5, ReportStays DEF ScanHooks, ReadLines, Checked
<1>6. CASE Close
    BY <1>6, ReportStays DEF Close, ReadLines, Checked
<1>7. CASE UNCHANGED vars
    BY <1>7, ReportStays DEF vars, ReadLines, Checked
<1> QED BY <1>1, <1>2, <1>3, <1>4, <1>5, <1>6, <1>7, ReportParse, ReportCheck DEF Next

\* One run names every fault there is (check-lattice-invariants.py:196-200).
THEOREM ReportsAll == Spec => []EveryFaultIsReported
<1>1. IInv /\ ReportInv => EveryFaultIsReported
    <2> SUFFICES ASSUME IInv, ReportInv, pc = "done" PROVE EveryFaultIsReported
        BY DEF EveryFaultIsReported
    <2>1. Checked = 1..Len(rows)
        BY DEF Checked
    <2>2. ASSUME tree.registry # NoRegistry
          PROVE  /\ {rows[n] : n \in 1..Len(rows)} = {tree.registry[n] : n \in RowLines(tree)}
                 /\ \A n \in DOMAIN tree.registry :
                       tree.registry[n].kind = "columns" => <<"columns", n>> \in failures
        <3>1. /\ ReadLines = DOMAIN tree.registry
              /\ RowLines(tree) = {n \in ReadLines : IsRow(n)}
            BY <2>2 DEF ReadLines, RowLines, IsRow
        <3>2. /\ \A k \in 1..Len(rows) : \E n \in ReadLines : IsRow(n) /\ rows[k] = tree.registry[n]
              /\ \A n \in ReadLines : IsRow(n) => \E k \in 1..Len(rows) : rows[k] = tree.registry[n]
            BY DEF IInv, RowsInv
        <3> QED BY <3>1, <3>2 DEF ReportInv
    <2> QED BY <2>1, <2>2 DEF ReportInv, EveryFaultIsReported
<1>2. Spec => [](IInv /\ ReportInv)
    BY InitIInv, NextIInv, InitReport, NextReport, PTL DEF Spec
<1> QED BY <1>1, <1>2, PTL
=============================================================================
