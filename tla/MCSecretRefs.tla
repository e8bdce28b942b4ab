---------------------------- MODULE MCSecretRefs ----------------------------
(***************************************************************************)
(* An instance of SecretRefs for TLC: a config type with a field of every  *)
(* kind the check tells apart, documents with one or two of the paths that *)
(* reach them or miss them, and registrations that agree and disagree.     *)
(***************************************************************************)
EXTENDS SecretRefs

CONSTANTS n1, n2, noName, text, marker, empty, v0, refValue

TwoNames == {n1, n2}
PlainTexts == {v0, empty, refValue}

\* Keys are written in lower case but for one.
FoldCase(k) == IF k = "API" THEN "api" ELSE k
KeysThatAreRefs == {"!secret k"}

Key(k) == [isIndex |-> FALSE, key |-> k]
Index(i) == [isIndex |-> TRUE, key |-> i]

SecretType == [kind |-> "secret"]
StringType == [kind |-> "string"]
AnyType == [kind |-> "any"]
MapOf(t) == [kind |-> "map", elem |-> t]
SliceOf(t) == [kind |-> "slice", elem |-> t]
PointerTo(t) == [kind |-> "pointer", elem |-> t]
StructOf(fields) == [kind |-> "struct", fields |-> fields]

Field(k, t) ==
    [key |-> k, type |-> t, squash |-> FALSE, exported |-> TRUE, embedded |-> FALSE]
Squashed(t) ==
    [key |-> "", type |-> t, squash |-> TRUE, exported |-> FALSE, embedded |-> TRUE]

Item == StructOf(<<Field("tok", PointerTo(SecretType)), Field("note", AnyType)>>)
Base == StructOf(<<Field("-", SecretType), Field("db", SecretType)>>)
Root ==
    StructOf(<<Field("name", StringType), Squashed(Base), Field("api", SecretType),
               Field("extra", MapOf(SecretType)), Field("list", SliceOf(Item))>>)

StructAt(path, t) == [kind |-> "struct", path |-> path, type |-> t]
Load == StructAt(<<>>, Root)
KeyOf(path, t) == [kind |-> "key", path |-> path, type |-> t]

Registrations ==
    { {Load},
      {Load, KeyOf(<<"api">>, SecretType)},
      {Load, KeyOf(<<"api">>, StringType)},
      {StructAt(<<"extra">>, MapOf(SecretType)), KeyOf(<<"extra", "x">>, SecretType)},
      {StructAt(<<"list">>, Item)},
      {Load, StructAt(<<"list">>, Item)} }

Paths ==
    { <<Key("name")>>, <<Key("API")>>, <<Key("api"), Index("0")>>, <<Key("db")>>,
      <<Key("-")>>, <<Key("extra")>>, <<Key("extra"), Key("x")>>,
      <<Key("list"), Index("0"), Key("tok")>>,
      <<Key("list"), Index("0"), Key("note")>>,
      <<Key("list"), Key("tok")>>, <<Key("extra"), Key("!secret k")>> }

Scalars ==
    { Str(1, n1), Str(1, n2), Str(2, n2), Str(3, n2), Str(1, noName),
      Str(0, text), Str(0, marker), Str(0, empty),
      [form |-> "tagged", body |-> n1], [form |-> "tagged mapping", body |-> n1],
      [form |-> "number", body |-> text] }

\* The first key of a path says which other paths it can stand beside.
Apart(p, q) == Fold(p[1].key) # Fold(q[1].key)

OneOrTwo ==
    UNION {[{p} -> Scalars] : p \in Paths}
    \cup {[x \in {pq[1], pq[2]} |-> IF x = pq[1] THEN s ELSE r] :
             pq \in {c \in Paths \X Paths : Apart(c[1], c[2])},
             s \in Scalars, r \in {Str(1, n2), Str(0, text)}}

ConfigTypes ==
    {Root, Base, Item, SecretType, PointerTo(SecretType), StringType, AnyType,
     MapOf(SecretType), SliceOf(Item)}
Depth ==
    [t \in ConfigTypes |->
        CASE t = Root -> 4
          [] t = SliceOf(Item) -> 3
          [] t = Item -> 2
          [] t.kind \in {"secret", "string", "any"} -> 0
          [] OTHER -> 1]

StepsOfPaths == UNION {{p[i] : i \in DOMAIN p} : p \in Paths}
=============================================================================
