---------------------------- MODULE SecretTypes -----------------------------
(***************************************************************************)
(* Where a scalar of the document lands in the types of the program.  How  *)
(* a type is decoded is mapstructure's and Viper's business:               *)
(* RecomputeTarget models it from the side of the type, as they do, with   *)
(* the whole document below each field; SecretFieldReason, which the check *)
(* uses, follows one path from the side of the document.                   *)
(*                                                                         *)
(* A recursion over types is a function; the operator before it is one     *)
(* level of the recursion, and is given the function for the levels below. *)
(***************************************************************************)
EXTENDS SecretScalars

CONSTANTS
    Types,      \* the types of the program
    Rank,       \* how deep a type is
    MaxRank,    \* no type is deeper
    Steps       \* the keys and indexes of a document

Inner(t) ==
    CASE t.kind \in {"pointer", "map", "slice"} -> {t.elem}
      [] t.kind = "struct" -> {t.fields[i].type : i \in DOMAIN t.fields}
      [] OTHER -> {}

NoField == [kind |-> "none"]

\* Types are finite: none contains itself.
ASSUME TypesAssumption ==
    /\ MaxRank \in Nat
    /\ Rank \in [Types -> 0 .. MaxRank]
    /\ NoField \notin Types
    /\ \A t \in Types :
          /\ \A u \in Inner(t) : u \in Types /\ Rank[u] < Rank[t]
          /\ t.kind = "struct" => DOMAIN t.fields \subseteq Nat

-----------------------------------------------------------------------------
(* Where a reference lands: the check. *)

Keys == {s.key : s \in Steps}

\* Fields that mapstructure leaves out.
Ignored(f) == f.key = "-" \/ ~(f.exported \/ f.embedded)

\* Variant: a field tagged "-" decodes the key "-".
FoundInSkipped(f, key, byKey) ==
    CASE f.squash -> byKey[f.type][key]
      [] ~f.squash /\ f.exported /\ Fold(f.key) = Fold(key) -> f.type
      [] OTHER -> NoField

\* The type that a field decodes the key into: its own, or one inside it.
FoundIn(f, key, byKey) ==
    CASE ~Ignored(f) /\ f.squash -> byKey[f.type][key]
      [] ~Ignored(f) /\ ~f.squash /\ f.exported /\ Fold(f.key) = Fold(key) -> f.type
      [] OTHER -> NoField

Hits(t, key, byKey) ==
    {i \in DOMAIN t.fields : FoundIn(t.fields[i], key, byKey) # NoField}
First(S) == CHOOSE i \in S : \A j \in S : i <= j

\* fieldByKey: the first field that decodes the key, those of squashed structs
\* in their place, behind pointers or not; NoField if there is none.
FieldIn(t, key, byKey) ==
    CASE t.kind = "pointer" -> byKey[t.elem][key]
      [] t.kind = "struct" /\ Hits(t, key, byKey) # {} ->
            FoundIn(t.fields[First(Hits(t, key, byKey))], key, byKey)
      [] OTHER -> NoField

FieldByKey[t \in Types] == [key \in Keys |-> FieldIn(t, key, FieldByKey)]

Reasons == {"", "no Secret", "a list", "a mapping", "no field", "unknown"}

\* secretFieldReason: why the path does not end on a Secret; "" if it does.
ReasonIn(t, path, reason) ==
    CASE t.kind = "pointer" -> reason[t.elem][path]
      [] t.kind = "secret" /\ path = <<>> -> ""
      [] t.kind \notin {"pointer", "secret"} /\ path = <<>> -> "no Secret"
      [] t.kind \in {"struct", "map"} /\ path # <<>> /\ Head(path).isIndex -> "a list"
      [] t.kind = "slice" /\ path # <<>> /\ ~Head(path).isIndex -> "a mapping"
      [] /\ t.kind = "struct" /\ path # <<>> /\ ~Head(path).isIndex
         /\ FieldByKey[t][Head(path).key] = NoField -> "no field"
      [] /\ t.kind = "struct" /\ path # <<>> /\ ~Head(path).isIndex
         /\ FieldByKey[t][Head(path).key] # NoField ->
            reason[FieldByKey[t][Head(path).key]][Tail(path)]
      [] t.kind = "map" /\ path # <<>> /\ ~Head(path).isIndex -> reason[t.elem][Tail(path)]
      [] t.kind = "slice" /\ path # <<>> /\ Head(path).isIndex -> reason[t.elem][Tail(path)]
      [] OTHER -> "unknown"

SecretFieldReason[t \in Types] ==
    [path \in Seq(Steps) |-> ReasonIn(t, path, SecretFieldReason)]

LandsOnSecret(t, path) == SecretFieldReason[t][path] = ""

-----------------------------------------------------------------------------
(* What mapstructure and Viper decode. *)

\* The fields of a struct, squashed ones replaced by theirs.
FieldsIn(t, fields) ==
    LET read == {f \in {t.fields[i] : i \in DOMAIN t.fields} : ~Ignored(f)}
    IN  CASE t.kind = "pointer" -> fields[t.elem]
          [] t.kind = "struct" ->
                {f \in read : ~f.squash /\ f.exported}
                \cup UNION {fields[f.type] : f \in {g \in read : g.squash}}
          [] OTHER -> {}

Fields[t \in Types] == FieldsIn(t, Fields)

\* No two fields decode the same key.
ASSUME FieldsAssumption ==
    \A t \in Types : \A f, g \in Fields[t] : Fold(f.key) = Fold(g.key) => f = g

\* A document is known by the paths of its leaves.  What is below a step, and
\* below a path, and the steps at its root.
Below(D, s) == {Tail(q) : q \in {r \in D : r # <<>> /\ Head(r) = s}}
Under(D, p) ==
    {SubSeq(q, Len(p) + 1, Len(q)) :
        q \in {r \in D : Len(r) >= Len(p) /\ SubSeq(r, 1, Len(p)) = p}}
Heads(D) == {Head(q) : q \in D \ {<<>>}}

\* A node of a document is a scalar, a mapping or a list: where two paths part,
\* they do so in two keys or in two indexes.
Parts(q, r, n) ==
    /\ n <= Len(q) /\ n <= Len(r)
    /\ \A i \in 1 .. n - 1 : q[i] = r[i]
    /\ q[n] # r[n]
    /\ q[n].isIndex = r[n].isIndex
Shaped(D) == \A q, r \in D : q = r \/ \E n \in 1 .. Len(q) : Parts(q, r, n)

\* A place in a type for the scalar at a path.  It is loose if mapstructure's
\* weak typing makes a list of a mapping on the way.
Slot(path, kind, loose) == [path |-> path, kind |-> kind, loose |-> loose]
At(s, slots) == {Slot(<<s>> \o x.path, x.kind, x.loose) : x \in slots}
Loosely(slots) == {Slot(x.path, x.kind, TRUE) : x \in slots}

IsMapping(D) == <<>> \notin D /\ \A s \in Heads(D) : ~s.isIndex
IsList(D) == <<>> \notin D /\ \A s \in Heads(D) : s.isIndex

\* The fields of a struct and the steps of the document that they decode.
FieldSteps(t, D) == {c \in Fields[t] \X Heads(D) : Fold(c[2].key) = Fold(c[1].key)}

\* The places for the leaves of a document.
SlotsIn(t, D, slots) ==
    CASE t.kind = "pointer" -> slots[t.elem][D]
      [] t.kind # "pointer" /\ <<>> \in D -> {Slot(<<>>, t.kind, FALSE)}
      [] t.kind = "any" /\ <<>> \notin D -> {Slot(q, "any", FALSE) : q \in D}
      [] t.kind = "struct" /\ IsMapping(D) ->
            UNION {At(c[2], slots[c[1].type][Below(D, c[2])]) : c \in FieldSteps(t, D)}
      [] t.kind = "map" /\ IsMapping(D) ->
            UNION {At(s, slots[t.elem][Below(D, s)]) : s \in Heads(D)}
      [] t.kind = "slice" /\ IsList(D) ->
            UNION {At(s, slots[t.elem][Below(D, s)]) : s \in Heads(D)}
      [] t.kind = "slice" /\ <<>> \notin D /\ ~IsList(D) -> Loosely(slots[t.elem][D])
      [] OTHER -> {Slot(<<>>, "error", FALSE)}

Slots[t \in Types] == [D \in SUBSET Seq(Steps) |-> SlotsIn(t, D, Slots)]

\* A value in a place, at a path of the document.
Landed(p, kind, value, loose) ==
    [path |-> p, kind |-> kind, value |-> value, loose |-> loose]

Fits(s, p, d) ==
    CASE s.kind = "secret" /\ Decodable(d[p]) ->
            Landed(p, "secret", DecodeSecret(d[p]), s.loose)
      [] s.kind = "string" /\ d[p].form # "secret" -> Landed(p, "string", d[p], s.loose)
      [] s.kind = "any" -> Landed(p, "any", d[p], s.loose)
      [] OTHER -> Landed(p, "error", NoName, s.loose)

\* viperGet: a value of the wanted type, a string from anything that prints, or
\* the zero value.
ViperGet(kind, p, value) ==
    CASE kind = "secret" /\ value.form = "secret" -> Landed(p, kind, value, FALSE)
      [] kind = "secret" /\ value.form # "secret" ->
            Landed(p, kind, NewSecret(Empty), FALSE)
      [] kind = "string" -> Landed(p, kind, Printed(value), FALSE)
      [] OTHER -> Landed(p, "any", value, FALSE)

\* The kind of a type behind its pointers.
BehindIn(t, behind) == IF t.kind = "pointer" THEN behind[t.elem] ELSE t.kind

Behind[t \in Types] == BehindIn(t, Behind)

\* The targets that can be registered: a Key is of a scalar type.  Left out are a
\* Struct of type Secret and one of a slice: the check lets a reference at or below
\* their path through, though what is there is no mapping for Sub to find and the
\* target gets the zero value.
Registered(t) ==
    /\ t.kind \in {"key", "struct"}
    /\ t.path \in Seq(Keys)
    /\ t.type \in Types
    /\ t.kind = "key" => t.type.kind \in {"secret", "string", "any"}
    /\ t.kind = "struct" => Behind[t.type] \notin {"secret", "slice"}

\* keyNode.recompute, and structNode.recompute, for which a Sub that is no
\* mapping, a list as much as a scalar, is the zero value.
RecomputeTarget(t, d) ==
    LET read == {p \in DOMAIN d : Covers(t, p)}
        subs == {r \in {SubSeq(p, 1, Len(t.path)) : p \in read} :
                    IsMapping(Under(DOMAIN d, r))}
    IN  IF t.kind = "key"
        THEN {ViperGet(t.type.kind, p, d[p]) : p \in {q \in read : Len(q) = Len(t.path)}}
        ELSE UNION {{Fits(s, r \o s.path, d) : s \in Slots[t.type][Under(DOMAIN d, r)]} :
                      r \in subs}
=============================================================================
