--------------------------- MODULE MCAbiGenerator ---------------------------
(* Contracts for AbiGenerator: five that are accepted, and drafts that break  *)
(* one rule each.                                                             *)
EXTENDS AbiGenerator

MCWidth == 4
MCInterfaceIdSize == 8
MCResourceSize == 12

MCParameterNames  == {"a", "b", "h"}
MCCapabilityNames == {"HOST", "BATCH"}
MCCallbackNames   == {"LlatticeRakuDrop", "LlatticeRakuBinary"}
Shim(n)           == "llattice_raku_provider_" \o n
RakuName ==
    [abi_version |-> "provider-abi-version", api_revision |-> "provider-api-revision",
     capabilities |-> "provider-capabilities",
     sizeof_interface_id |-> "provider-sizeof-interface-id",
     sizeof_resource |-> "provider-sizeof-resource",
     configure |-> "configure-provider", create |-> "create-provider",
     host_context |-> "provider-host-context", host_context_at |-> "provider-host-context-at",
     flush |-> "flush-provider"]
MCRakuNames     == Range(RakuName)
MCFunctionNames == {Shim(n) : n \in DOMAIN RakuName}
MCText == MCParameterNames \cup MCCapabilityNames \cup MCCallbackNames \cup MCRakuNames
          \cup MCFunctionNames \cup DOMAIN RAKU_PARAMETER_TYPES
          \cup {"guard", "struct", "Pointer", "owned", "borrowed", "uint8_t*", "bad name"}

P(n, c) == [name |-> n, cType |-> c, rakuType |-> Missing, direction |-> "in",
            ownership |-> "borrowed", nullability |-> "owned"]

F(n, since, returned, parameters) ==
    [name |-> Shim(n), rakuName |-> RakuName[n], sinceApiRevision |-> since,
     returnType |-> returned, parameters |-> parameters]

Drop   == [name |-> "LlatticeRakuDrop", returnType |-> "void", parameters |-> <<P("h", "void*")>>]
Binary == [name |-> "LlatticeRakuBinary", returnType |-> "VtStatus",
           parameters |-> <<P("h", "void*"),
                            [P("a", "uint8_t*") EXCEPT !.rakuType = "Pointer"]>>]

Base ==
    [callingConvention |-> "cdecl", headerGuard |-> "guard", exportMacro |-> "guard",
     interopHeader |-> "guard", abiVersion |-> 1, apiRevision |-> 1,
     capabilities |-> << [name |-> "HOST", value |-> 1], [name |-> "BATCH", value |-> 4] >>,
     types |-> << [name |-> "VtInterfaceId", kind |-> "struct", rakuType |-> "Pointer",
                   ownership |-> "borrowed", sizeProbe |-> Shim("sizeof_interface_id")],
                  [name |-> "VtResource", kind |-> "struct", rakuType |-> "Pointer",
                   ownership |-> "owned", sizeProbe |-> Shim("sizeof_resource")] >>,
     callbacks |-> <<Drop, Binary>>,
     functions |->
        << F("abi_version", 1, "uint32_t", <<>>), F("api_revision", 1, "uint32_t", <<>>),
           F("capabilities", 1, "uint64_t", <<>>),
           F("sizeof_interface_id", 1, "size_t", <<>>), F("sizeof_resource", 1, "size_t", <<>>),
           F("configure", 1, "VtStatus", <<P("h", "LlatticeRakuDrop"), P("a", "LlatticeRakuBinary"),
                                           P("b", "LlatticeRakuBinary")>>),
           F("create", 1, "VtStatus", <<P("h", "void*"), P("a", "VtResource*")>>),
           F("host_context", 1, "VtStatus", <<P("h", "void**")>>),
           F("host_context_at", 1, "VtStatus", <<P("a", "size_t"), P("h", "void**")>>) >>]

Flush == F("flush", 2, "void", <<>>)
Grown == [Base EXCEPT !.apiRevision = 2, !.functions = Append(@, Flush)]

Versions ==
    [ v1         |-> Base,
      v1_grown   |-> Grown,
      v1_capable |-> [Grown EXCEPT !.capabilities[1].value = 8],
      v1_twins   |-> [Grown EXCEPT !.functions[10].rakuName = "create-provider",
                                   !.callbacks[1].parameters[1].ownership = "owned"],
      v2_swapped |-> [Base EXCEPT !.abiVersion = 2,
                                  !.functions[1].rakuName = "provider-api-revision",
                                  !.functions[2].rakuName = "provider-abi-version"] ]

Drafts ==
    [ convention |-> [Base EXCEPT !.callingConvention = "stdcall"],
      guard      |-> [Base EXCEPT !.headerGuard = ""],
      no_abi     |-> [Base EXCEPT !.abiVersion = 0],
      no_api     |-> [Base EXCEPT !.apiRevision = Missing],
      no_bits    |-> [Base EXCEPT !.capabilities = <<>>],
      two_bits   |-> [Base EXCEPT !.capabilities[2].value = 6],
      high_bit   |-> [Base EXCEPT !.capabilities[2].value = 16],
      overlap    |-> [Base EXCEPT !.capabilities[2].value = 1],
      no_types   |-> [Base EXCEPT !.types = <<>>],
      no_probe   |-> [Base EXCEPT !.types[2].sizeProbe = Shim("flush")],
      lower_case |-> [Base EXCEPT !.callbacks[1].name = "bad name"],
      twice      |-> [Base EXCEPT !.callbacks[2].name = "LlatticeRakuDrop"],
      nested     |-> [Base EXCEPT !.callbacks[2].parameters[1].cType = "LlatticeRakuDrop"],
      itself     |-> [Base EXCEPT !.callbacks[1].parameters[1].cType = "LlatticeRakuDrop"],
      unmapped   |-> [Base EXCEPT !.callbacks[2].parameters[2].rakuType = Missing],
      empty_type |-> [Base EXCEPT !.callbacks[2].parameters[2].rakuType = ""],
      sideways   |-> [Base EXCEPT !.functions[7].parameters[1].direction = "sideways"],
      unowned    |-> [Base EXCEPT !.functions[7].parameters[1].ownership = ""],
      same_name  |-> [Base EXCEPT !.functions[7].parameters[2].name = "h"],
      announced  |-> [Base EXCEPT !.functions = Append(@, Flush)],
      returns    |-> [Base EXCEPT !.functions[7].returnType = "int"],
      no_list    |-> [Base EXCEPT !.functions[7].parameters = Missing],
      doubled    |-> [Base EXCEPT !.functions = Append(@, Base.functions[7])],
      no_create  |-> [Base EXCEPT !.functions[7] = [Flush EXCEPT !.sinceApiRevision = 1]],
      reordered  |-> [Base EXCEPT !.functions[6].parameters = <<@[2], @[1], @[3]>>],
      left_out   |-> [Base EXCEPT !.functions[6].parameters = <<@[1]>>] ]

MCContracts == Versions @@ Drafts

\* The documentation says that an incompatible ABI version or an older revision
\* is rejected.  A contract that passes validation can give the getters of the
\* two numbers each other's names; its module takes a library of another ABI
\* version (generate-raku-provider-abi.py:153-157; bindings/raku/README.md:60-63).
ASSUME ADifferentAbiMayBeTaken ==
    \E cd \in Takes : Raku[cd[1]].abi # Header[cd[2]].abi
=============================================================================
