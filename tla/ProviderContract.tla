-------------------------- MODULE ProviderContract --------------------------
(***************************************************************************)
(* The contract of the Raku provider ABI (bindings/raku/provider-api.json) *)
(* and what scripts/generate-raku-provider-abi.py makes of it: the rules a *)
(* contract must obey, the C header and the Raku module.  A rendering is   *)
(* kept as the declarations it consists of, not as text.                   *)
(*                                                                         *)
(* Lists of the contract are sequences; its objects are sequences of       *)
(* records whose names differ, since a JSON object has one value per name. *)
(***************************************************************************)
EXTENDS Integers, SequencesExt

CONSTANTS Text,             \* the strings that are not empty
          ParameterNames,   \* those that match [a-z][a-z0-9_]*
          CapabilityNames,  \* [A-Z][A-Z0-9_]*
          CallbackNames,    \* LlatticeRaku[A-Z][A-Za-z0-9]*
          FunctionNames,    \* llattice_raku_provider_[a-z0-9_]+
          RakuNames,        \* [a-z][a-z0-9-]*
          Width,            \* bits of a capability mask; 64 in the code
          InterfaceIdSize,  \* sizes of the two structures of the interop package,
          ResourceSize,     \*   which the shim and the Raku module share
          Missing,          \* a field that is not there, or of another JSON type
          Abort             \* the generator gives up

\* Callbacks and functions are told apart by how their names begin.
ASSUME NamesAssumption ==
    /\ CallbackNames \subseteq Text
    /\ CallbackNames \cap FunctionNames = {}
    /\ Missing \notin Text
    /\ Abort \notin Text
    /\ Width \in Nat \ {0}
-----------------------------------------------------------------------------
C_RETURN_TYPES == {"void", "VtStatus", "uint32_t", "uint64_t", "size_t"}

\* "" is the None of the code: a sub that returns nothing.
RAKU_RETURN_TYPES == [void |-> "", VtStatus |-> "int32", uint32_t |-> "uint32",
                      uint64_t |-> "uint64", size_t |-> "size_t"]

RAKU_PARAMETER_TYPES ==
    [c \in {"const VtInterfaceId*", "const VtResource*", "VtResource*",
            "uint64_t", "size_t", "void*", "void**"} |->
        CASE c = "const VtInterfaceId*" -> "InterfaceId"
          [] c \in {"const VtResource*", "VtResource*"} -> "RawResource"
          [] c \in {"void*", "void**"} -> "Pointer"
          [] OTHER -> IF c = "size_t" THEN "size_t" ELSE "uint64"]

\* The Raku type of a parameter that is no callback: its rakuType, or else the
\* type that its C type maps to.
PlainType(p) ==
    CASE p.rakuType \in Text -> p.rakuType
      [] p.rakuType = Missing /\ p.cType \in DOMAIN RAKU_PARAMETER_TYPES ->
            RAKU_PARAMETER_TYPES[p.cType]
      [] OTHER -> Abort

\* A callback parameter is a signature of its own.  (A callback among its
\* parameters aborts here; the code goes deeper, but no contract that is
\* accepted gets there, see ValidParameters.)
CallbackSignature(p, callback) ==
    LET types == [i \in DOMAIN callback.parameters |-> PlainType(callback.parameters[i])]
    IN  IF Abort \in Range(types) THEN Abort
        ELSE [name |-> p.name, parameters |-> types,
              returns |-> RAKU_RETURN_TYPES[callback.returnType]]

RakuParameterType(p, callbacks) ==
    IF p.rakuType = Missing /\ \E i \in DOMAIN callbacks : callbacks[i].name = p.cType
    THEN CallbackSignature(p, callbacks[CHOOSE i \in DOMAIN callbacks :
                                            callbacks[i].name = p.cType])
    ELSE PlainType(p)
-----------------------------------------------------------------------------
(* validate_model *)

ValidParameter(p) ==
    /\ p.name \in ParameterNames
    /\ p.cType \in Text
    /\ p.direction \in {"in", "out", "inout"}
    /\ p.ownership \in Text /\ p.nullability \in Text

DistinctNames(items) == \A i, j \in DOMAIN items : items[i].name = items[j].name => i = j

\* Every parameter has its own name and a Raku type; a callback cannot take a
\* callback, for it is validated with no callbacks known.
ValidParameters(parameters, callbacks) ==
    /\ parameters # Missing
    /\ \A i \in DOMAIN parameters :
          /\ ValidParameter(parameters[i])
          /\ RakuParameterType(parameters[i], callbacks) # Abort
    /\ DistinctNames(parameters)

ValidHeader(m) ==
    /\ m.callingConvention = "cdecl"
    /\ {m.headerGuard, m.exportMacro, m.interopHeader} \subseteq Text
    /\ m.abiVersion # Missing /\ m.abiVersion >= 1
    /\ m.apiRevision # Missing /\ m.apiRevision >= 1

\* Mutant: two capabilities may have one bit.
ValidCapabilities_Overlap(m) ==
    /\ m.capabilities # <<>>
    /\ \A i \in DOMAIN m.capabilities :
          /\ m.capabilities[i].name \in CapabilityNames
          /\ m.capabilities[i].value \in {2^k : k \in 0..Width - 1}

\* Each capability is a single bit of the mask, and its own.
ValidCapabilities(m) ==
    /\ m.capabilities # <<>>
    /\ \A i \in DOMAIN m.capabilities :
          /\ m.capabilities[i].name \in CapabilityNames
          /\ m.capabilities[i].value \in {2^k : k \in 0..Width - 1}
          /\ \A j \in 1..i - 1 : m.capabilities[j].value # m.capabilities[i].value

ValidTypes(m) ==
    /\ m.types # <<>>
    /\ \A i \in DOMAIN m.types : LET t == m.types[i]
                                 IN  {t.kind, t.rakuType, t.ownership, t.sizeProbe} \subseteq Text

ValidCallbacks(m) ==
    /\ m.callbacks # <<>>
    /\ \A i \in DOMAIN m.callbacks :
          /\ m.callbacks[i].name \in CallbackNames
          /\ m.callbacks[i].returnType \in C_RETURN_TYPES
          /\ ValidParameters(m.callbacks[i].parameters, <<>>)
    /\ DistinctNames(m.callbacks)

\* No rule is about which symbol a rakuName is for, nor that it has no other.
ValidFunctions(m) ==
    /\ m.functions # <<>>
    /\ \A i \in DOMAIN m.functions : LET f == m.functions[i]
                                     IN  /\ f.name \in FunctionNames
                                         /\ f.rakuName \in RakuNames
                                         /\ f.sinceApiRevision \in 1..m.apiRevision
                                         /\ f.returnType \in C_RETURN_TYPES
                                         /\ ValidParameters(f.parameters, m.callbacks)
    /\ DistinctNames(m.functions)

CONFIGURE == "llattice_raku_provider_configure"

\* The functions the facade and the shim cannot do without.
RequiredFunctions(m) ==
    {CONFIGURE,
     "llattice_raku_provider_abi_version", "llattice_raku_provider_api_revision",
     "llattice_raku_provider_capabilities", "llattice_raku_provider_create",
     "llattice_raku_provider_host_context", "llattice_raku_provider_host_context_at"}
        \cup {m.types[i].sizeProbe : i \in DOMAIN m.types}

FunctionNamed(m, name) == m.functions[CHOOSE i \in DOMAIN m.functions : m.functions[i].name = name]

\* The C types of configure, each where it first appears.
ConfiguredCallbacks(m) ==
    LET parameters == FunctionNamed(m, CONFIGURE).parameters
    IN  FoldLeft(LAMBDA seen, p : IF p.cType \in Range(seen) THEN seen ELSE Append(seen, p.cType),
                 <<>>, parameters)

\* Configure takes every callback, in the order of their declarations.
ConfigureTakesCallbacks(m) ==
    ConfiguredCallbacks(m) = [i \in DOMAIN m.callbacks |-> m.callbacks[i].name]

\* The order matters: a rule is asked for only if those before it hold.
ValidModel(m) ==
    /\ ValidHeader(m)
    /\ ValidCapabilities(m)
    /\ ValidTypes(m)
    /\ ValidCallbacks(m)
    /\ ValidFunctions(m)
    /\ RequiredFunctions(m) \subseteq {m.functions[i].name : i \in DOMAIN m.functions}
    /\ ConfigureTakesCallbacks(m)
-----------------------------------------------------------------------------
(* render_c_header *)

CParameter(p) == <<p.cType, p.name>>

CPrototype(f) ==
    [name |-> f.name, returns |-> f.returnType,
     parameters |-> [i \in DOMAIN f.parameters |-> CParameter(f.parameters[i])]]

\* The macros, then a typedef for each callback, then the prototypes.
RenderCHeader(m) ==
    [guard |-> m.headerGuard, export |-> m.exportMacro, include |-> m.interopHeader,
     abi |-> m.abiVersion, api |-> m.apiRevision,
     capabilities |-> [i \in DOMAIN m.capabilities |->
                          <<m.capabilities[i].name, m.capabilities[i].value>>],
     typedefs   |-> [i \in DOMAIN m.callbacks |-> CPrototype(m.callbacks[i])],
     prototypes |-> [i \in DOMAIN m.functions |-> CPrototype(m.functions[i])]]
-----------------------------------------------------------------------------
(* render_raku *)

\* PROVIDER-REQUIRED-CAPABILITIES.
RequiredMask(m) == FoldLeft(LAMBDA sum, c : sum + c.value, 0, m.capabilities)

\* PARAMETER-OWNERSHIP and PARAMETER-NULLABILITY: the pairs of a Map as they
\* are written, item by item, keyed by the names of the item and the parameter.
ParameterMap(m, field) ==
    LET items == m.callbacks \o m.functions
    IN  [i \in DOMAIN items |->
            [j \in DOMAIN items[i].parameters |->
                << <<items[i].name, items[i].parameters[j].name>>,
                   items[i].parameters[j][field] >>]]

\* A parameter that is void** is rw in Raku.
NativeParameter(p, callbacks) ==
    [type |-> RakuParameterType(p, callbacks), rw |-> p.cType = "void**"]

NativeSub(f, callbacks) ==
    [name |-> f.rakuName, symbol |-> f.name,
     parameters |-> [i \in DOMAIN f.parameters |-> NativeParameter(f.parameters[i], callbacks)],
     returns |-> RAKU_RETURN_TYPES[f.returnType]]

\* The constants, the maps about types, functions and parameters, and one
\* native sub per function, in the order in which they are written.
RenderRaku(m) ==
    [abi |-> m.abiVersion, api |-> m.apiRevision, required |-> RequiredMask(m),
     convention |-> m.callingConvention, export |-> m.exportMacro,
     capabilities |-> [i \in DOMAIN m.capabilities |->
                          <<m.capabilities[i].name, m.capabilities[i].value>>],
     types |-> [i \in DOMAIN m.types |->
                   <<m.types[i].name, m.types[i].rakuType, m.types[i].ownership>>],
     signatures |-> [i \in DOMAIN m.functions |-> CPrototype(m.functions[i])],
     since |-> [i \in DOMAIN m.functions |-> m.functions[i].sinceApiRevision],
     ownership |-> ParameterMap(m, "ownership"),
     nullability |-> ParameterMap(m, "nullability"),
     subs |-> [i \in DOMAIN m.functions |-> NativeSub(m.functions[i], m.callbacks)]]

\* Some sub has no type for one of its parameters: the generator aborts.
RakuAborts(m) ==
    \E f \in Range(m.functions) : \E p \in Range(f.parameters) :
        RakuParameterType(p, m.callbacks) = Abort
-----------------------------------------------------------------------------
(* validate-provider-abi, the sub at the end of the Raku module *)

\* The bits that are set in n.
Bits(n) == {k \in 0..Width - 1 : (n \div 2^k) % 2 = 1}

\* What llattice_raku_provider_capabilities of a shim built with the header
\* returns, as bits: the disjunction of the capability macros.
NativeCapabilities(lib) ==
    UNION {Bits(lib.capabilities[i][2]) : i \in DOMAIN lib.capabilities}

\* A native sub without parameters.
Getter(name, symbol, type) ==
    [name |-> name, symbol |-> symbol, parameters |-> <<>>, returns |-> type]

AbiGetter ==
    Getter("provider-abi-version", "llattice_raku_provider_abi_version", "uint32")
ApiGetter ==
    Getter("provider-api-revision", "llattice_raku_provider_api_revision", "uint32")
CapabilitiesGetter ==
    Getter("provider-capabilities", "llattice_raku_provider_capabilities", "uint64")
InterfaceIdGetter ==
    Getter("provider-sizeof-interface-id", "llattice_raku_provider_sizeof_interface_id", "size_t")
ResourceGetter ==
    Getter("provider-sizeof-resource", "llattice_raku_provider_sizeof_resource", "size_t")

\* What the function behind a sub may return, in a shim built with the header;
\* of another function, or one read with another type, nothing is known.
NativeAnswers(sub, lib) ==
    LET reads(getter) == sub.symbol = getter.symbol /\ sub.returns = getter.returns
        words == 0..2^Width - 1
    IN  CASE reads(AbiGetter)          -> {lib.abi}
          [] reads(ApiGetter)          -> {lib.api}
          [] reads(CapabilitiesGetter) -> {n \in words : Bits(n) = NativeCapabilities(lib)}
          [] reads(InterfaceIdGetter)  -> {InterfaceIdSize}
          [] reads(ResourceGetter)     -> {ResourceSize}
          [] sub.returns = ""          -> {}
          [] OTHER                     -> words

\* What the call name() may give: nothing if there is no such sub, if it takes
\* arguments or returns none, or if the library has no such symbol.
Answers(unit, lib, name) ==
    UNION {NativeAnswers(s, lib) :
              s \in {s \in Range(unit.subs) :
                        /\ s.name = name /\ s.parameters = <<>>
                        /\ \E p \in Range(lib.prototypes) : p.name = s.symbol}}

\* A sub is declared once; two of them the generator adds itself.  (All names
\* are taken for identifiers, and none for one that the module uses from Raku.)
RakuCompiles(unit) ==
    /\ DistinctNames(unit.subs)
    /\ \A s \in Range(unit.subs) : s.name \notin {"provider-library", "validate-provider-abi"}

\* Mutant: one capability of those that are asked for will do.
ValidateProviderAbi_AnyCapability(unit, lib) ==
    /\ RakuCompiles(unit)
    /\ unit.abi \in Answers(unit, lib, "provider-abi-version")
    /\ \E api \in Answers(unit, lib, "provider-api-revision") : api >= unit.api
    /\ \E mask \in Answers(unit, lib, "provider-capabilities") :
          Bits(unit.required) \cap Bits(mask) # {}
    /\ InterfaceIdSize \in Answers(unit, lib, "provider-sizeof-interface-id")
    /\ ResourceSize \in Answers(unit, lib, "provider-sizeof-resource")

\* The Raku module unit may take a library that was built with the header lib.
ValidateProviderAbi(unit, lib) ==
    /\ RakuCompiles(unit)
    /\ unit.abi \in Answers(unit, lib, "provider-abi-version")
    /\ \E api \in Answers(unit, lib, "provider-api-revision") : api >= unit.api
    /\ \E mask \in Answers(unit, lib, "provider-capabilities") :
          Bits(unit.required) \subseteq Bits(mask)
    /\ InterfaceIdSize \in Answers(unit, lib, "provider-sizeof-interface-id")
    /\ ResourceSize \in Answers(unit, lib, "provider-sizeof-resource")
=============================================================================
