--------------------------- MODULE ConflictResolvers ---------------------------
(***************************************************************************)
(* The conflict resolvers, pkg/resolver/{scala_grpc_zio,                   *)
(* scala_proto_package,predefined_label,preferred_deps}_conflict_          *)
(* resolver.go: which of several providers of one symbol is meant.  Two of *)
(* them look at what the other imports of the rule are resolved to so far. *)
(*                                                                         *)
(* An import is [imp, sym, error] with sym a set of at most one symbol     *)
(* [name, label, type, conflicts]; what a test on the suffix of a name     *)
(* finds out is a constant.                                                *)
(***************************************************************************)
EXTENDS Scopes

CONSTANTS
    NoLabel,      \* the label of what the platform provides
    GrpcLabel,    \* labels named *_grpc_scala_library
    ZioLabel,     \* labels named *_grpc_zio_scala_library
    ProtoLabel,   \* labels named *_proto_scala_library
    ZioName,      \* symbols named *.Zio*
    ServiceName,  \* symbols whose name has one of the serviceSuffixes
    Begins,       \* <<s, t>>: segments where the text of t begins with that of s and goes on
    Preferred     \* [some names -> label]: the preferred deps of the jar index

\* append(symbol.Conflicts, symbol)
Providers(sym) == Append(sym.conflicts, sym)

\* The first provider with a label of some kind.
FirstOf(sym, labels) ==
    FirstAnswer([i \in DOMAIN Providers(sym) |->
        {p \in {Providers(sym)[i]} : p.label \in labels}])

\* The symbols of the other imports that are resolved and without error.
Others(map, sym) ==
    (UNION {map[i].sym : i \in {j \in DOMAIN map : ~map[j].error}}) \ {sym}

\* A Zio service of the rule tells that zio is meant.
UsesZio(map, sym) ==
    \E o \in Others(map, sym) : o.type = "PROTO_SERVICE" /\ o.name \in ZioName

ScalaGrpcZio(map, sym) ==
    LET grpc == FirstOf(sym, GrpcLabel)
        zio == FirstOf(sym, ZioLabel)
    IN IF grpc = {} \/ zio = {} \/ \E g \in grpc, z \in zio : g.name # z.name
       THEN {}
       ELSE IF UsesZio(map, sym) THEN zio ELSE grpc

\* strings.HasPrefix of two dotted names: a.b has the prefix a, and so has ab.
HasTextPrefix(name, prefix) ==
    \/ IsPrefixOf(prefix, name)
    \/ /\ prefix # <<>> /\ Len(prefix) <= Len(name)
       /\ \A i \in 1 .. Len(prefix) - 1 : name[i] = prefix[i]
       /\ <<prefix[Len(prefix)], name[Len(prefix)]>> \in Begins

UsesGrpc(map, sym) ==
    \E o \in Others(map, sym) : HasTextPrefix(o.name, sym.name) /\ o.name \in ServiceName

\* A proto package that a proto and a grpc library provide: the grpc library if the
\* rule uses a service whose name begins with that of the package.  The two are swapped
\* when the first is not the proto library.
ScalaProtoPackage(map, sym) ==
    IF \/ Len(sym.conflicts) # 1
       \/ {sym.type, sym.conflicts[1].type} # {"PROTO_PACKAGE"}
       \/ sym.name # sym.conflicts[1].name
    THEN {}
    ELSE LET other == sym.conflicts[1]
             proto == IF sym.label \in ProtoLabel THEN sym ELSE other
             grpc == IF sym.label \in ProtoLabel THEN other ELSE sym
         IN IF grpc.label \notin GrpcLabel
            THEN {}
            ELSE IF UsesGrpc(map, sym) THEN {grpc} ELSE {proto}

\* The symbol itself first, then its conflicts in their order.
ProvidedAt(sym, label) ==
    FirstAnswer([i \in 0 .. Len(sym.conflicts) |->
        LET p == IF i = 0 THEN sym ELSE sym.conflicts[i]
        IN {q \in {p} : q.label = label}])

PredefinedLabel(sym) == ProvidedAt(sym, NoLabel)

PreferredDeps(sym) ==
    IF sym.name \in DOMAIN Preferred THEN ProvidedAt(sym, Preferred[sym.name]) ELSE {}

\* Config.ResolveConflict: the first configured resolver that has an answer.
ResolveConflict(resolvers, map, sym) ==
    FirstAnswer([i \in DOMAIN resolvers |->
        CASE resolvers[i] = "scala_grpc_zio" -> ScalaGrpcZio(map, sym)
          [] resolvers[i] = "scala_proto_package" -> ScalaProtoPackage(map, sym)
          [] resolvers[i] = "predefined_label" -> PredefinedLabel(sym)
          [] resolvers[i] = "preferred_deps" -> PreferredDeps(sym)])
=============================================================================
