---------------------------- MODULE AbiGenerator ----------------------------
(***************************************************************************)
(* The generator of the Raku provider ABI at work                          *)
(* (scripts/generate-raku-provider-abi.py): one process that rewrites or   *)
(* checks the two generated files, in a tree where the contract and the    *)
(* files change under it, and the handshake between a Raku module and a    *)
(* native library that come from different generations.                    *)
(*                                                                         *)
(* A contract goes by a name, and a file by the name of the contract that  *)
(* it was rendered from; Header and Raku give the texts.                   *)
(***************************************************************************)
EXTENDS ProviderContract

CONSTANTS Contracts,  \* a function from names to contracts
          Other       \* any other text: edited by hand, torn, or no file

Accepted == {c \in DOMAIN Contracts : ValidModel(Contracts[c]) /\ ~RakuAborts(Contracts[c])}

Header == [c \in Accepted |-> RenderCHeader(Contracts[c])]
Raku   == [c \in Accepted |-> RenderRaku(Contracts[c])]

\* The pairs of a Raku module and a library that it may take.
Takes == {cd \in Accepted \X Accepted : ValidateProviderAbi(Raku[cd[1]], Header[cd[2]])}

ASSUME OtherAssumption == Other \notin DOMAIN Contracts

\* A list in JSON is a sequence.
ASSUME ListsAssumption ==
    \A c \in DOMAIN Contracts :
        /\ Contracts[c].callbacks \in Seq(Range(Contracts[c].callbacks))
        /\ Contracts[c].capabilities \in Seq(Range(Contracts[c].capabilities))
        /\ Contracts[c].functions \in Seq(Range(Contracts[c].functions))

VARIABLES contract,  \* provider-api.json
          header,    \* llattice_raku_provider.h
          raku,      \* GeneratedProviderAbi.rakumod
          library,   \* the header that the native library was built with
          pc,        \* where the generator is: "idle" or the file it comes to next
          mode,      \* "--write" or "--check"
          model,     \* the contract it has loaded, or Other when it does not run
          stale,     \* check_outputs: the files found to differ
          exit,      \* exit code of the last run, or -1
          disturbed  \* history: the tree changed during the last run or after it

tree == <<contract, header, raku>>
generator == <<pc, mode, model, stale, exit>>
vars == <<tree, generator, library, disturbed>>

Files == Accepted \cup {Other}

TypeOK ==
    /\ contract \in DOMAIN Contracts
    /\ header \in Files /\ raku \in Files
    /\ library \in Files
    /\ pc \in {"idle", "header", "raku"}
    /\ mode \in {"--write", "--check"}
    /\ pc # "idle" => model \in Accepted
    /\ stale \subseteq {"header", "raku"}
    /\ exit \in {-1, 0, 1}
    /\ disturbed \in BOOLEAN

Init ==
    /\ contract \in Accepted
    /\ header = contract /\ raku = contract
    /\ library = Other
    /\ pc = "idle" /\ mode = "--check" /\ model = Other
    /\ stale = {} /\ exit = -1
    /\ disturbed = FALSE
-----------------------------------------------------------------------------
(* The tree changes: an editor, a merge, a checkout. *)

EditContract(c) ==
    /\ contract' = c
    /\ disturbed' = TRUE
    /\ UNCHANGED <<header, raku, library, generator>>

ReplaceHeader(f) ==
    /\ header' = f
    /\ disturbed' = TRUE
    /\ UNCHANGED <<contract, raku, library, generator>>

ReplaceRaku(f) ==
    /\ raku' = f
    /\ disturbed' = TRUE
    /\ UNCHANGED <<contract, header, library, generator>>

\* The shim is compiled with the header of the tree.
BuildLibrary ==
    /\ header \in Accepted
    /\ library' = header
    /\ UNCHANGED <<tree, generator, disturbed>>
-----------------------------------------------------------------------------
(* The generator. *)

\* The contract is read once, validated and rendered.
Start(m) ==
    /\ pc = "idle"
    /\ mode' = m
    /\ stale' = {}
    /\ disturbed' = FALSE
    /\ IF contract \in Accepted THEN pc' = "header" /\ model' = contract /\ exit' = -1
                                ELSE pc' = "idle"   /\ model' = Other    /\ exit' = 1
    /\ UNCHANGED <<tree, library>>

\* write_outputs, the header.
WriteHeader ==
    /\ pc = "header" /\ mode = "--write"
    /\ header' = model
    /\ pc' = "raku"
    /\ UNCHANGED <<contract, raku, library, mode, model, stale, exit, disturbed>>

\* write_outputs, the Raku module.
WriteRaku ==
    /\ pc = "raku" /\ mode = "--write"
    /\ raku' = model
    /\ pc' = "idle" /\ model' = Other /\ exit' = 0
    /\ UNCHANGED <<contract, header, library, mode, stale, disturbed>>

\* The process is stopped, or a file cannot be written, or only in part.
Interrupted ==
    /\ pc # "idle"
    /\ pc' = "idle" /\ model' = Other /\ exit' = 1
    /\ \/ UNCHANGED <<header, raku>>
       \/ pc = "header" /\ mode = "--write" /\ header' = Other /\ UNCHANGED raku
       \/ pc = "raku"   /\ mode = "--write" /\ raku' = Other   /\ UNCHANGED header
    /\ UNCHANGED <<contract, library, mode, stale, disturbed>>

\* A file that holds this text does not differ from what was rendered.
SameHeader(file, m) == file \in Accepted /\ Header[file] = Header[m]
SameRaku(file, m)   == file \in Accepted /\ Raku[file] = Raku[m]

\* check_outputs, the header: line ends are not looked at (see the README).
CheckHeader ==
    /\ pc = "header" /\ mode = "--check"
    /\ stale' = IF SameHeader(header, model) THEN stale ELSE stale \cup {"header"}
    /\ pc' = "raku"
    /\ UNCHANGED <<tree, library, mode, model, exit, disturbed>>

\* Mutant: the exit code is that of the last file.
CheckRaku_LastOnly ==
    /\ pc = "raku" /\ mode = "--check"
    /\ stale' = IF SameRaku(raku, model) THEN stale ELSE stale \cup {"raku"}
    /\ pc' = "idle" /\ model' = Other
    /\ exit' = IF SameRaku(raku, model) THEN 0 ELSE 1
    /\ UNCHANGED <<tree, library, mode, disturbed>>

\* check_outputs, the Raku module, and the exit code.
CheckRaku ==
    /\ pc = "raku" /\ mode = "--check"
    /\ stale' = IF SameRaku(raku, model) THEN stale ELSE stale \cup {"raku"}
    /\ pc' = "idle" /\ model' = Other
    /\ exit' = IF stale' = {} THEN 0 ELSE 1
    /\ UNCHANGED <<tree, library, mode, disturbed>>

Next ==
    \/ \E c \in DOMAIN Contracts : EditContract(c)
    \/ \E f \in Files : ReplaceHeader(f) \/ ReplaceRaku(f)
    \/ BuildLibrary
    \/ \E m \in {"--write", "--check"} : Start(m)
    \/ WriteHeader \/ WriteRaku \/ Interrupted
    \/ CheckHeader \/ CheckRaku

Spec == Init /\ [][Next]_vars
-----------------------------------------------------------------------------
(* Properties *)

Fresh ==
    /\ contract \in Accepted
    /\ SameHeader(header, contract) /\ SameRaku(raku, contract)

\* In a tree that was left alone, --write that ended well has made both files
\* what the contract says, and --check ends well if and only if they are, so
\* that a write that was cut short between the files, or in one of them, is
\* always noticed (generate-raku-provider-abi.py:452-477, 480-496).
ExitCodeIsHonest ==
    pc = "idle" /\ ~disturbed =>
        /\ exit = 0 => Fresh
        /\ mode = "--check" /\ exit = 1 /\ stale # {} => ~Fresh

\* The pairs of a Map.
Entries(map) == UNION {Range(map[i]) : i \in DOMAIN map}

\* The contract of this name, its header and its Raku module say the same.
Agree(name) ==
    LET m == Contracts[name]
        h == RenderCHeader(m)
        r == RenderRaku(m)
    IN  /\ r.required < 2^Width
        /\ Bits(r.required) = NativeCapabilities(h)
        /\ \A item \in Range(m.callbacks) \cup Range(m.functions) :
              \A p \in Range(item.parameters) :
                  {e \in Entries(r.ownership) : e[1] = <<item.name, p.name>>}
                      = {<< <<item.name, p.name>>, p.ownership>>}
        /\ Len(r.subs) = Len(h.prototypes)
        /\ \A i \in DOMAIN r.subs :
              LET s == r.subs[i]
                  c == h.prototypes[i]
              IN  /\ s.symbol = c.name
                  /\ DOMAIN s.parameters = DOMAIN c.parameters
                  /\ \A j \in DOMAIN c.parameters :
                        /\ s.parameters[j].type # Abort
                        /\ \A k \in DOMAIN h.typedefs :
                              /\ h.typedefs[k].name = c.parameters[j][1]
                              /\ m.functions[i].parameters[j].rakuType = Missing
                              => /\ "returns" \in DOMAIN s.parameters[j].type
                                 /\ DOMAIN s.parameters[j].type.parameters
                                        = DOMAIN h.typedefs[k].parameters

Agreeing == {c \in Accepted : Agree(c)}

\* The two outputs of a contract that is accepted say the same: the mask that
\* the facade asks for is the disjunction of the header's macros and fits, each
\* parameter keeps its ownership rule, and each C prototype has one sub with
\* as many parameters, none of them without a type, and a callback parameter
\* has the parameters of its typedef (generate-raku-provider-abi.py:82-98,
\* 195-221, 236-310, 327-449).
OutputsAgree == pc # "idle" => model \in Agreeing

\* The pairs of which the numbers of the module and those of the library go
\* together.
Compatible ==
    {cd \in Accepted \X Accepted :
        LET r == Raku[cd[1]]
            h == Header[cd[2]]
        IN  /\ h.abi = r.abi /\ h.api >= r.api
            /\ \A i \in DOMAIN r.capabilities :
                  Bits(r.capabilities[i][2]) \subseteq NativeCapabilities(h)}

\* The subs that the handshake calls are those that it means.
Handshake == {AbiGetter, ApiGetter, CapabilitiesGetter, InterfaceIdGetter, ResourceGetter}

NamesAreTied(r) == Handshake \subseteq Range(r.subs)

Tied == {c \in Accepted : NamesAreTied(Raku[c])}

\* The library has the functions that the handshake means.
HasHandshake(h) == {g.symbol : g \in Handshake} \subseteq {p.name : p \in Range(h.prototypes)}

\* A Raku module whose contract gives the five getters their names takes no
\* library of another ABI version, of an older revision, or without one of its
\* capabilities, whichever generations the two come from; and one that can be
\* compiled takes every other library that has the getters.  No rule for
\* contracts asks for those names (generate-raku-provider-abi.py:153-157,
\* 328-329, 424-448; bindings/raku/README.md:60-63).
HandshakeIsSafe ==
    raku \in Tied /\ library \in Accepted =>
        LET pair == <<raku, library>>
        IN  /\ pair \in Takes => pair \in Compatible
            /\ pair \in Compatible \ Takes =>
                  ~RakuCompiles(Raku[raku]) \/ ~HasHandshake(Header[library])
=============================================================================
