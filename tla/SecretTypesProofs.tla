------------------------- MODULE SecretTypesProofs -------------------------
(***************************************************************************)
(* The walk of the check over a type and the decoding of a document into   *)
(* it agree on every leaf, for all types and documents.                    *)
(***************************************************************************)
EXTENDS SecretTypes, NaturalsInduction, WellFoundedInduction, SequenceTheorems, TLAPS

-----------------------------------------------------------------------------
(* Recursion over types. *)

\* A set of numbers has a least one.
LEMMA NatMin ==
    ASSUME NEW S, S \subseteq Nat, S # {}
    PROVE  \E n \in S : \A m \in S : n <= m
<1> DEFINE Less == {ss \in Nat \X Nat : ss[1] < ss[2]}
<1>1. OpToRel(<, Nat) = Less
  BY DEF OpToRel
<1>2. IsWellFoundedOn(Less, Nat)
  BY <1>1, NatLessThanWellFounded, Zenon
<1>3. PICK n \in S : \A m \in S : <<m, n>> \notin Less
  <2> HIDE DEF Less
  <2>1. S \subseteq Nat /\ S # {}
    OBVIOUS
  <2>2. \E n \in S : \A m \in S : ~(<<m, n>> \in Less)
    BY <1>2, <2>1, WFMin, Zenon
  <2> QED BY <2>2, Zenon
<1>4. ASSUME NEW m \in S PROVE n <= m
  <2>1. n \in Nat /\ m \in Nat
    OBVIOUS
  <2>2. m < n => <<m, n>> \in Less
    BY <2>1
  <2>3. <<m, n>> \notin Less
    BY <1>3, Zenon
  <2> HIDE DEF Less
  <2> QED BY <2>1, <2>2, <2>3
<1> QED BY <1>4, Zenon

\* A property of 0 and of the successor of every number that has it.
LEMMA NatBySteps ==
    ASSUME NEW S, 0 \in S, \A n \in Nat : n \in S => n + 1 \in S
    PROVE  Nat \subseteq S
<1> SUFFICES ASSUME Nat \ S # {} PROVE FALSE
  OBVIOUS
<1>1. PICK n \in Nat \ S : \A m \in Nat \ S : n <= m
  <2>1. Nat \ S \subseteq Nat
    OBVIOUS
  <2> QED BY <2>1, NatMin, Zenon
<1>2. n # 0 /\ n - 1 \in Nat /\ ~(n <= n - 1)
  BY <1>1
<1>3. n - 1 \in S
  BY <1>1, <1>2
<1> QED BY <1>1, <1>2, <1>3

\* A property of every type all of whose lower types have it.
LEMMA TypesByRank ==
    ASSUME NEW S,
           \A t \in Types : (\A u \in Types : Rank[u] < Rank[t] => u \in S) => t \in S
    PROVE  Types \subseteq S
<1> DEFINE R == {n \in Nat : \A t \in Types : Rank[t] < n => t \in S}
<1>0. \A t \in Types : Rank[t] \in Nat
  BY TypesAssumption
<1>1. 0 \in R
  BY <1>0
<1>2. \A n \in Nat : n \in R => n + 1 \in R
  <2> SUFFICES ASSUME NEW n \in R, NEW t \in Types, Rank[t] < n + 1 PROVE t \in S
    OBVIOUS
  <2>1. \A u \in Types : Rank[u] < Rank[t] => Rank[u] < n
    BY <1>0
  <2>2. \A u \in Types : Rank[u] < Rank[t] => u \in S
    BY <2>1
  <2> QED BY <2>2
<1>3. Nat \subseteq R
  <2> HIDE DEF R
  <2> QED BY <1>1, <1>2, NatBySteps, Zenon
<1>4. ASSUME NEW t \in Types PROVE t \in S
  <2>1. Rank[t] + 1 \in R /\ Rank[t] < Rank[t] + 1
    BY <1>0, <1>3
  <2> QED BY <2>1
<1> QED BY <1>4

\* A recursion over types has a solution if one level of it uses no more than
\* the values of lower types.
Descends(V, G) ==
    /\ V # {}
    /\ G \in [Types -> [[Types -> V] -> V]]
    /\ \A t \in Types : \A f, g \in [Types -> V] :
          (\A u \in Types : Rank[u] < Rank[t] => f[u] = g[u]) => G[t][f] = G[t][g]

Solvable(V, G) == \E f \in [Types -> V] : \A t \in Types : f[t] = G[t][f]

\* Such a function exists: there is one on the types up to each rank.
LEMMA Recursion ==
    ASSUME NEW V, NEW G, Descends(V, G)
    PROVE  Solvable(V, G)
<1> USE DEF Descends, Solvable
<1> DEFINE Solves(f, n) == \A t \in Types : Rank[t] < n => f[t] = G[t][f]
           R == {n \in Nat : \E f \in [Types -> V] : Solves(f, n)}
<1>0. \A t \in Types : Rank[t] \in Nat
  BY TypesAssumption
<1>1. 0 \in R
  <2>1. PICK v : v \in V
    OBVIOUS
  <2>2. [t \in Types |-> v] \in [Types -> V]
    BY <2>1
  <2>3. Solves([t \in Types |-> v], 0)
    BY <1>0
  <2> HIDE DEF Solves
  <2> QED BY <2>2, <2>3
<1>2. \A n \in Nat : n \in R => n + 1 \in R
  <2> SUFFICES ASSUME NEW n \in Nat, n \in R PROVE n + 1 \in R
    OBVIOUS
  <2>1. PICK f \in [Types -> V] : Solves(f, n)
    OBVIOUS
  <2> DEFINE g == [t \in Types |-> IF Rank[t] = n THEN G[t][f] ELSE f[t]]
  <2>2. g \in [Types -> V]
    OBVIOUS
  <2>3. ASSUME NEW t \in Types, Rank[t] < n + 1 PROVE g[t] = G[t][g]
    <3>1. \A u \in Types : Rank[u] < Rank[t] => g[u] = f[u]
      BY <1>0, <2>3
    <3>2. G[t][g] = G[t][f]
      <4> HIDE DEF g
      <4> QED BY <2>2, <3>1
    <3>3. g[t] = G[t][f]
      <4>1. CASE Rank[t] = n
        BY <4>1
      <4>2. CASE Rank[t] < n
        <5>1. f[t] = G[t][f]
          BY <2>1, <4>2
        <5>2. g[t] = f[t]
          BY <1>0, <4>2
        <5> QED BY <5>1, <5>2, Zenon
      <4>3. Rank[t] = n \/ Rank[t] < n
        <5>1. Rank[t] \in Nat /\ Rank[t] < n + 1
          BY <1>0, <2>3, Zenon
        <5>2. \A r \in Nat : r < n + 1 => r = n \/ r < n
          OBVIOUS
        <5> QED BY <5>1, <5>2, Zenon
      <4> QED BY <4>1, <4>2, <4>3
    <3> HIDE DEF g
    <3> QED BY <3>2, <3>3
  <2>4. Solves(g, n + 1)
    <3> HIDE DEF g
    <3> QED BY <2>3
  <2>5. n + 1 \in Nat
    OBVIOUS
  <2> HIDE DEF g, Solves
  <2> QED BY <2>2, <2>4, <2>5
<1>3. Nat \subseteq R
  <2> HIDE DEF R
  <2> QED BY <1>1, <1>2, NatBySteps, Zenon
<1>4. PICK f \in [Types -> V] : Solves(f, MaxRank + 1)
  <2>1. MaxRank + 1 \in R
    BY <1>3, TypesAssumption
  <2> QED BY <2>1
<1>5. \A t \in Types : Rank[t] < MaxRank + 1
  BY TypesAssumption
<1> QED BY <1>4, <1>5

\* Two functions are the same if they are wherever they are for lower types.
LEMMA Alike ==
    ASSUME NEW f, NEW g,
           \A t \in Types : (\A u \in Types : Rank[u] < Rank[t] => f[u] = g[u])
                            => f[t] = g[t]
    PROVE  \A t \in Types : f[t] = g[t]
<1> DEFINE S == {t \in Types : f[t] = g[t]}
<1>1. ASSUME NEW t \in Types, \A u \in Types : Rank[u] < Rank[t] => u \in S
      PROVE  t \in S
  BY <1>1
<1>2. Types \subseteq S
  <2> HIDE DEF S
  <2>1. \A t \in Types : (\A u \in Types : Rank[u] < Rank[t] => u \in S) => t \in S
    BY <1>1
  <2> QED BY <2>1, TypesByRank, Zenon
<1> QED BY <1>2

-----------------------------------------------------------------------------
(* The recursive definitions are solutions of their equations. *)

\* The types inside a type are lower.
LEMMA InnerTypes ==
    ASSUME NEW t \in Types
    PROVE  /\ t.kind \in {"pointer", "map", "slice"} =>
                 t.elem \in Types /\ Rank[t.elem] < Rank[t]
           /\ t.kind = "struct" => \A i \in DOMAIN t.fields :
                 /\ i \in Nat
                 /\ t.fields[i].type \in Types
                 /\ Rank[t.fields[i].type] < Rank[t]
<1>1. \A u \in Inner(t) : u \in Types /\ Rank[u] < Rank[t]
  BY TypesAssumption
<1>2. t.kind = "struct" => DOMAIN t.fields \subseteq Nat
  BY TypesAssumption
<1>3. ASSUME t.kind \in {"pointer", "map", "slice"} PROVE t.elem \in Inner(t)
  BY <1>3 DEF Inner
<1>4. ASSUME t.kind = "struct", NEW i \in DOMAIN t.fields
      PROVE  t.fields[i].type \in Inner(t)
  BY <1>4 DEF Inner
<1> QED BY <1>1, <1>2, <1>3, <1>4, Zenon

FieldValues == [Keys -> Types \cup {NoField}]

\* What a field decodes a key into is a type of the program, or nothing.
LEMMA FoundInTypes ==
    ASSUME NEW f, f.type \in Types, NEW key \in Keys, NEW byKey \in [Types -> FieldValues]
    PROVE  FoundIn(f, key, byKey) \in Types \cup {NoField}
BY DEF FoundIn, FieldValues

\* The first hit is a hit.
LEMMA FirstHit ==
    ASSUME NEW t \in Types, t.kind = "struct", NEW key, NEW byKey,
           Hits(t, key, byKey) # {}
    PROVE  First(Hits(t, key, byKey)) \in Hits(t, key, byKey)
<1>1. Hits(t, key, byKey) \subseteq Nat
  BY InnerTypes DEF Hits
<1>2. \E n \in Hits(t, key, byKey) : \A j \in Hits(t, key, byKey) : n <= j
  BY <1>1, NatMin, Zenon
<1> QED BY <1>2, Zenon DEF First

\* One level of it uses no more than the values of lower types.
LEMMA FieldInLower ==
    ASSUME NEW t \in Types, NEW f, NEW g,
           \A u \in Types : Rank[u] < Rank[t] => f[u] = g[u]
    PROVE  \A key \in Keys : FieldIn(t, key, f) = FieldIn(t, key, g)
<1> SUFFICES ASSUME NEW key \in Keys PROVE FieldIn(t, key, f) = FieldIn(t, key, g)
  OBVIOUS
<1>1. CASE t.kind = "pointer"
  BY <1>1, InnerTypes DEF FieldIn
<1>2. CASE t.kind = "struct"
  <2>1. \A i \in DOMAIN t.fields :
           FoundIn(t.fields[i], key, f) = FoundIn(t.fields[i], key, g)
    BY <1>2, InnerTypes DEF FoundIn
  <2>2. Hits(t, key, f) = Hits(t, key, g)
    BY <2>1 DEF Hits
  <2>3. Hits(t, key, f) # {} => First(Hits(t, key, f)) \in DOMAIN t.fields
    BY <1>2, FirstHit DEF Hits
  <2> QED BY <1>2, <2>1, <2>2, <2>3 DEF FieldIn
<1>3. CASE t.kind \notin {"pointer", "struct"}
  BY <1>3 DEF FieldIn
<1> QED BY <1>1, <1>2, <1>3

\* FieldByKey exists, and is one level of fieldByKey at every type
\* (secretref.go:318-354).
LEMMA FieldByKeyDef ==
    /\ FieldByKey \in [Types -> FieldValues]
    /\ \A t \in Types : \A key \in Keys :
          FieldByKey[t][key] = FieldIn(t, key, FieldByKey)
<1> DEFINE F == [Types -> FieldValues]
           G == [t \in Types |-> [byKey \in F |-> [key \in Keys |-> FieldIn(t, key, byKey)]]]
<1>1. ASSUME NEW t \in Types, NEW key \in Keys, NEW byKey \in F
      PROVE  FieldIn(t, key, byKey) \in Types \cup {NoField}
  <2>1. CASE t.kind = "pointer"
    <3>1. t.elem \in Types
      BY <2>1, InnerTypes
    <3> QED BY <2>1, <3>1 DEF FieldIn, FieldValues
  <2>2. CASE t.kind = "struct" /\ Hits(t, key, byKey) # {}
    <3>1. FieldIn(t, key, byKey)
             = FoundIn(t.fields[First(Hits(t, key, byKey))], key, byKey)
      BY <2>2 DEF FieldIn
    <3>2. First(Hits(t, key, byKey)) \in DOMAIN t.fields
      BY <2>2, FirstHit DEF Hits
    <3>3. t.fields[First(Hits(t, key, byKey))].type \in Types
      BY <2>2, <3>2, InnerTypes
    <3> QED BY <3>1, <3>3, FoundInTypes
  <2>3. CASE t.kind # "pointer" /\ ~(t.kind = "struct" /\ Hits(t, key, byKey) # {})
    BY <2>3 DEF FieldIn
  <2> QED BY <2>1, <2>2, <2>3
<1>2. G \in [Types -> [F -> FieldValues]]
  BY <1>1 DEF FieldValues
<1>3. ASSUME NEW t \in Types, NEW f \in F, NEW g \in F,
             \A u \in Types : Rank[u] < Rank[t] => f[u] = g[u]
      PROVE  G[t][f] = G[t][g]
  BY <1>3, FieldInLower
<1>4. FieldValues # {}
  <2>1. [key \in Keys |-> NoField] \in FieldValues
    BY DEF FieldValues
  <2> QED BY <2>1
<1>5. PICK f \in F : \A t \in Types : f[t] = G[t][f]
  <2> HIDE DEF G
  <2>1. \A t \in Types : \A f, g \in F :
           (\A u \in Types : Rank[u] < Rank[t] => f[u] = g[u]) => G[t][f] = G[t][g]
    BY <1>3
  <2>2. Descends(FieldValues, G)
    BY <1>2, <1>4, <2>1, Zenon DEF Descends
  <2>3. Solvable(FieldValues, G)
    BY <2>2, Recursion, Zenon
  <2> QED BY <2>3, Zenon DEF Solvable
<1>6. f = [t \in Types |-> [key \in Keys |-> FieldIn(t, key, f)]]
  BY <1>5
<1>7. FieldByKey = [t \in Types |-> [key \in Keys |-> FieldIn(t, key, FieldByKey)]]
  <2> DEFINE Is(x) == x = [t \in Types |-> [key \in Keys |-> FieldIn(t, key, x)]]
  <2>1. FieldByKey = CHOOSE x : Is(x)
    BY DEF FieldByKey
  <2>2. \E x : Is(x)
    BY <1>6
  <2>3. Is(CHOOSE x : Is(x))
    <3> HIDE DEF Is
    <3> QED BY <2>2
  <2> QED BY <2>1, <2>3
<1>8. FieldByKey = f
  <2>1. \A t \in Types : (\A u \in Types : Rank[u] < Rank[t] => FieldByKey[u] = f[u])
                         => FieldByKey[t] = f[t]
    <3> SUFFICES ASSUME NEW t \in Types,
                        \A u \in Types : Rank[u] < Rank[t] => FieldByKey[u] = f[u]
                 PROVE  FieldByKey[t] = f[t]
      OBVIOUS
    <3>1. \A key \in Keys : FieldIn(t, key, FieldByKey) = FieldIn(t, key, f)
      BY FieldInLower
    <3>2. FieldByKey[t] = [key \in Keys |-> FieldIn(t, key, FieldByKey)]
      BY <1>7
    <3>3. f[t] = [key \in Keys |-> FieldIn(t, key, f)]
      BY <1>6
    <3> QED BY <3>1, <3>2, <3>3
  <2>2. \A t \in Types : FieldByKey[t] = f[t]
    BY <2>1, Alike, Zenon
  <2> QED BY <1>6, <1>7, <2>2
<1> QED BY <1>5, <1>7, <1>8

AllFields == UNION {{t.fields[i] : i \in DOMAIN t.fields} : t \in {u \in Types : u.kind = "struct"}}

\* One level of Fields looks at the types below only.
LEMMA FieldsInLower ==
    ASSUME NEW t \in Types, NEW f, NEW g,
           \A u \in Types : Rank[u] < Rank[t] => f[u] = g[u]
    PROVE  FieldsIn(t, f) = FieldsIn(t, g)
<1>1. CASE t.kind = "pointer"
  BY <1>1, InnerTypes DEF FieldsIn
<1>2. CASE t.kind = "struct"
  <2>1. \A i \in DOMAIN t.fields : f[t.fields[i].type] = g[t.fields[i].type]
    BY <1>2, InnerTypes
  <2> QED BY <1>2, <2>1 DEF FieldsIn
<1>3. CASE t.kind \notin {"pointer", "struct"}
  BY <1>3 DEF FieldsIn
<1> QED BY <1>1, <1>2, <1>3

\* Fields exists, and is one level of it at every type.
LEMMA FieldsDef ==
    /\ Fields \in [Types -> SUBSET AllFields]
    /\ \A t \in Types : Fields[t] = FieldsIn(t, Fields)
<1> DEFINE F == [Types -> SUBSET AllFields]
           G == [t \in Types |-> [fields \in F |-> FieldsIn(t, fields)]]
<1>1. ASSUME NEW t \in Types, NEW fields \in F
      PROVE  FieldsIn(t, fields) \subseteq AllFields
  <2>1. CASE t.kind = "pointer"
    BY <2>1, InnerTypes DEF FieldsIn
  <2>2. CASE t.kind = "struct"
    <3>1. \A i \in DOMAIN t.fields : /\ t.fields[i] \in AllFields
                                     /\ fields[t.fields[i].type] \subseteq AllFields
      BY <2>2, InnerTypes DEF AllFields
    <3> QED BY <2>2, <3>1 DEF FieldsIn
  <2>3. CASE t.kind \notin {"pointer", "struct"}
    BY <2>3 DEF FieldsIn
  <2> QED BY <2>1, <2>2, <2>3
<1>2. G \in [Types -> [F -> SUBSET AllFields]]
  BY <1>1
<1>3. \A t \in Types : \A f, g \in F :
         (\A u \in Types : Rank[u] < Rank[t] => f[u] = g[u]) => G[t][f] = G[t][g]
  BY FieldsInLower
<1>4. PICK f \in F : \A t \in Types : f[t] = G[t][f]
  <2> HIDE DEF G
  <2>1. Descends(SUBSET AllFields, G)
    BY <1>2, <1>3 DEF Descends
  <2>2. Solvable(SUBSET AllFields, G)
    BY <2>1, Recursion, Zenon
  <2> QED BY <2>2, Zenon DEF Solvable
<1>5. f = [t \in Types |-> FieldsIn(t, f)]
  BY <1>4
<1>6. Fields = [t \in Types |-> FieldsIn(t, Fields)]
  <2> DEFINE Is(x) == x = [t \in Types |-> FieldsIn(t, x)]
  <2>1. Fields = CHOOSE x : Is(x)
    BY DEF Fields
  <2>2. \E x : Is(x)
    BY <1>5
  <2>3. Is(CHOOSE x : Is(x))
    <3> HIDE DEF Is
    <3> QED BY <2>2
  <2> QED BY <2>1, <2>3
<1>7. Fields = f
  <2>1. \A t \in Types : (\A u \in Types : Rank[u] < Rank[t] => Fields[u] = f[u])
                         => Fields[t] = f[t]
    BY <1>5, <1>6, FieldsInLower
  <2>2. \A t \in Types : Fields[t] = f[t]
    BY <2>1, Alike, Zenon
  <2> QED BY <1>5, <1>6, <2>2
<1> QED BY <1>4, <1>6, <1>7

-----------------------------------------------------------------------------
(* The fields of a type, and the field of a key. *)

\* The type of a field is lower.
LEMMA FieldTypes ==
    \A t \in Types : \A f \in Fields[t] : f.type \in Types /\ Rank[f.type] < Rank[t]
<1> DEFINE S == {t \in Types : \A f \in Fields[t] : f.type \in Types /\ Rank[f.type] < Rank[t]}
<1>1. ASSUME NEW t \in Types, \A u \in Types : Rank[u] < Rank[t] => u \in S
      PROVE  t \in S
  <2>0. \A u \in Types : Rank[u] \in Nat
    BY TypesAssumption
  <2> SUFFICES ASSUME NEW f \in Fields[t]
               PROVE  f.type \in Types /\ Rank[f.type] < Rank[t]
    OBVIOUS
  <2>1. f \in FieldsIn(t, Fields)
    BY FieldsDef
  <2>2. CASE t.kind = "pointer"
    <3>1. f \in Fields[t.elem] /\ t.elem \in Types /\ Rank[t.elem] < Rank[t]
      BY <2>1, <2>2, InnerTypes DEF FieldsIn
    <3>2. f.type \in Types /\ Rank[f.type] < Rank[t.elem]
      BY <1>1, <3>1
    <3> QED BY <2>0, <3>1, <3>2
  <2>3. CASE t.kind = "struct"
    <3>1. \/ \E i \in DOMAIN t.fields : f = t.fields[i]
          \/ \E i \in DOMAIN t.fields : f \in Fields[t.fields[i].type]
      BY <2>1, <2>3 DEF FieldsIn
    <3>2. CASE \E i \in DOMAIN t.fields : f = t.fields[i]
      BY <2>3, <3>2, InnerTypes
    <3>3. ASSUME NEW i \in DOMAIN t.fields, f \in Fields[t.fields[i].type]
          PROVE  f.type \in Types /\ Rank[f.type] < Rank[t]
      <4>1. t.fields[i].type \in Types /\ Rank[t.fields[i].type] < Rank[t]
        BY <2>3, InnerTypes
      <4>2. f.type \in Types /\ Rank[f.type] < Rank[t.fields[i].type]
        BY <1>1, <3>3, <4>1
      <4> QED BY <2>0, <4>1, <4>2
    <3> QED BY <3>1, <3>2, <3>3
  <2>4. CASE t.kind \notin {"pointer", "struct"}
    BY <2>1, <2>4 DEF FieldsIn
  <2> QED BY <2>2, <2>3, <2>4
<1>2. Types \subseteq S
  <2> HIDE DEF S
  <2>1. \A t \in Types : (\A u \in Types : Rank[u] < Rank[t] => u \in S) => t \in S
    BY <1>1
  <2> QED BY <2>1, TypesByRank, Zenon
<1> QED BY <1>2

\* fieldByKey finds the field of the key, and nothing if there is none.
Finds(t, key) ==
    \/ \E f \in Fields[t] : Fold(f.key) = Fold(key) /\ FieldByKey[t][key] = f.type
    \/ /\ FieldByKey[t][key] = NoField
       /\ \A f \in Fields[t] : Fold(f.key) # Fold(key)

\* fieldByKey finds the very field that mapstructure decodes the key into, and
\* none when there is none (secretref.go:318-354).
LEMMA FieldFound == \A t \in Types : \A key \in Keys : Finds(t, key)
<1> DEFINE S == {t \in Types : \A key \in Keys : Finds(t, key)}
<1>1. ASSUME NEW t \in Types, \A u \in Types : Rank[u] < Rank[t] => u \in S
      PROVE  t \in S
  <2> SUFFICES ASSUME NEW key \in Keys PROVE Finds(t, key)
    OBVIOUS
  <2>1. FieldByKey[t][key] = FieldIn(t, key, FieldByKey) /\ Fields[t] = FieldsIn(t, Fields)
    BY FieldByKeyDef, FieldsDef
  <2>2. CASE t.kind = "pointer"
    <3>1. FieldByKey[t][key] = FieldByKey[t.elem][key] /\ Fields[t] = Fields[t.elem]
      BY <2>1, <2>2 DEF FieldIn, FieldsIn
    <3>2. Finds(t.elem, key)
      BY <1>1, <2>2, InnerTypes
    <3> QED BY <3>1, <3>2 DEF Finds
  <2>3. CASE t.kind = "struct"
    <3> DEFINE Found(i) == FoundIn(t.fields[i], key, FieldByKey)
    <3>1. ASSUME NEW i \in DOMAIN t.fields, Found(i) # NoField
          PROVE  \E f \in Fields[t] : Fold(f.key) = Fold(key) /\ Found(i) = f.type
      <4>1. CASE ~Ignored(t.fields[i]) /\ t.fields[i].squash
        <5>1. Found(i) = FieldByKey[t.fields[i].type][key]
          BY <4>1 DEF FoundIn
        <5>2. Finds(t.fields[i].type, key)
          BY <1>1, <2>3, InnerTypes
        <5>3. Fields[t.fields[i].type] \subseteq Fields[t]
          BY <2>1, <2>3, <4>1 DEF FieldsIn
        <5> QED BY <3>1, <5>1, <5>2, <5>3 DEF Finds
      <4>2. CASE ~Ignored(t.fields[i]) /\ ~t.fields[i].squash
        <5>1. /\ t.fields[i].exported /\ Fold(t.fields[i].key) = Fold(key)
              /\ Found(i) = t.fields[i].type
          BY <3>1, <4>2 DEF FoundIn
        <5>2. t.fields[i] \in Fields[t]
          BY <2>1, <2>3, <4>2, <5>1 DEF FieldsIn
        <5> QED BY <5>1, <5>2
      <4>3. CASE Ignored(t.fields[i])
        BY <3>1, <4>3 DEF FoundIn
      <4> QED BY <4>1, <4>2, <4>3
    <3>2. ASSUME NEW f \in Fields[t], Fold(f.key) = Fold(key)
          PROVE  \E i \in DOMAIN t.fields : Found(i) # NoField
      <4>1. CASE \E i \in DOMAIN t.fields :
                    /\ f = t.fields[i] /\ ~Ignored(f) /\ ~f.squash /\ f.exported
        <5>1. PICK i \in DOMAIN t.fields :
                 f = t.fields[i] /\ ~Ignored(f) /\ ~f.squash /\ f.exported
          BY <4>1
        <5>2. Found(i) = f.type
          BY <3>2, <5>1 DEF FoundIn
        <5>3. f.type # NoField
          BY FieldTypes, TypesAssumption
        <5> QED BY <5>2, <5>3
      <4>2. CASE \E i \in DOMAIN t.fields :
                    /\ f \in Fields[t.fields[i].type] /\ ~Ignored(t.fields[i])
                    /\ t.fields[i].squash
        <5>1. PICK i \in DOMAIN t.fields :
                 /\ f \in Fields[t.fields[i].type] /\ ~Ignored(t.fields[i])
                 /\ t.fields[i].squash
          BY <4>2
        <5>2. Found(i) = FieldByKey[t.fields[i].type][key]
          BY <5>1 DEF FoundIn
        <5>3. Finds(t.fields[i].type, key) /\ t.fields[i].type \in Types
          BY <1>1, <2>3, InnerTypes
        <5>4. \E g \in Fields[t.fields[i].type] : Found(i) = g.type
          BY <3>2, <5>1, <5>2, <5>3 DEF Finds
        <5> QED BY <5>3, <5>4, FieldTypes, TypesAssumption
      <4> QED BY <2>1, <2>3, <4>1, <4>2 DEF FieldsIn
    <3>3. CASE Hits(t, key, FieldByKey) # {}
      <4>1. First(Hits(t, key, FieldByKey)) \in Hits(t, key, FieldByKey)
        BY <2>3, <3>3, FirstHit
      <4>2. FieldByKey[t][key] = Found(First(Hits(t, key, FieldByKey)))
        BY <2>1, <2>3, <3>3 DEF FieldIn
      <4> QED BY <3>1, <4>1, <4>2 DEF Finds, Hits
    <3>4. CASE Hits(t, key, FieldByKey) = {}
      <4>1. FieldByKey[t][key] = NoField
        BY <2>1, <2>3, <3>4 DEF FieldIn
      <4>2. \A i \in DOMAIN t.fields : Found(i) = NoField
        BY <3>4 DEF Hits
      <4> QED BY <3>2, <4>1, <4>2 DEF Finds
    <3> QED BY <3>3, <3>4
  <2>4. CASE t.kind \notin {"pointer", "struct"}
    BY <2>1, <2>4 DEF FieldIn, FieldsIn, Finds
  <2> QED BY <2>2, <2>3, <2>4
<1>2. Types \subseteq S
  <2> HIDE DEF S
  <2>1. \A t \in Types : (\A u \in Types : Rank[u] < Rank[t] => u \in S) => t \in S
    BY <1>1
  <2> QED BY <2>1, TypesByRank, Zenon
<1> QED BY <1>2

-----------------------------------------------------------------------------
(* The walk of the check. *)

\* The first step of a path, and the rest.
LEMMA HeadAndTail ==
    ASSUME NEW path \in Seq(Steps), path # <<>>
    PROVE  Head(path) \in Steps /\ Tail(path) \in Seq(Steps) /\ Head(path).key \in Keys
<1>1. Head(path) \in Steps /\ Tail(path) \in Seq(Steps)
  BY HeadTailProperties
<1> QED BY <1>1 DEF Keys

\* A field that is found has a lower type.
LEMMA FoundLower ==
    ASSUME NEW t \in Types, NEW key \in Keys, FieldByKey[t][key] # NoField
    PROVE  FieldByKey[t][key] \in Types /\ Rank[FieldByKey[t][key]] < Rank[t]
<1>1. \E f \in Fields[t] : FieldByKey[t][key] = f.type
  BY FieldFound DEF Finds
<1> QED BY <1>1, FieldTypes

\* Where the walk goes on from a type, for a path that goes further.
GoesOn(t, path) ==
    \/ t.kind = "struct" /\ ~Head(path).isIndex /\ FieldByKey[t][Head(path).key] # NoField
    \/ t.kind = "map" /\ ~Head(path).isIndex
    \/ t.kind = "slice" /\ Head(path).isIndex

NextType(t, path) == IF t.kind = "struct" THEN FieldByKey[t][Head(path).key] ELSE t.elem

\* The cases of the walk.
LEMMA ReasonPointer ==
    ASSUME NEW t \in Types, NEW path, NEW f, t.kind = "pointer"
    PROVE  ReasonIn(t, path, f) = f[t.elem][path]
BY DEF ReasonIn

\* At the end of a path only a Secret will do.
LEMMA ReasonEnd ==
    ASSUME NEW t \in Types, NEW f, t.kind # "pointer"
    PROVE  ReasonIn(t, <<>>, f) = IF t.kind = "secret" THEN "" ELSE "no Secret"
BY DEF ReasonIn

\* The walk goes on into the next type with the rest of the path.
LEMMA ReasonOn ==
    ASSUME NEW t \in Types, NEW path, NEW f, path # <<>>, GoesOn(t, path)
    PROVE  ReasonIn(t, path, f) = f[NextType(t, path)][Tail(path)]
<1>1. CASE t.kind = "struct"
  BY <1>1 DEF ReasonIn, GoesOn, NextType
<1>2. CASE t.kind = "map"
  BY <1>2 DEF ReasonIn, GoesOn, NextType
<1>3. CASE t.kind = "slice"
  BY <1>3 DEF ReasonIn, GoesOn, NextType
<1> QED BY <1>1, <1>2, <1>3 DEF GoesOn

Stopped(t, path) ==
    CASE t.kind \in {"struct", "map"} /\ Head(path).isIndex -> "a list"
      [] t.kind = "slice" -> "a mapping"
      [] t.kind = "struct" /\ ~Head(path).isIndex -> "no field"
      [] OTHER -> "unknown"

\* A walk that cannot go on gives a reason.
LEMMA ReasonStop ==
    ASSUME NEW t \in Types, NEW path, NEW f,
           t.kind # "pointer", path # <<>>, ~GoesOn(t, path)
    PROVE  ReasonIn(t, path, f) = Stopped(t, path) /\ Stopped(t, path) \in Reasons \ {""}
<1>1. CASE t.kind \in {"struct", "map"} /\ Head(path).isIndex
  BY <1>1 DEF ReasonIn, Stopped, Reasons
<1>2. CASE t.kind = "slice"
  BY <1>2 DEF ReasonIn, GoesOn, Stopped, Reasons
<1>3. CASE t.kind = "struct" /\ ~Head(path).isIndex
  BY <1>3 DEF ReasonIn, GoesOn, Stopped, Reasons
<1>4. CASE t.kind \notin {"struct", "map", "slice"}
  BY <1>4 DEF ReasonIn, Stopped, Reasons
<1> QED BY <1>1, <1>2, <1>3, <1>4 DEF GoesOn

\* Where it goes on, the type is lower.
LEMMA NextLower ==
    ASSUME NEW t \in Types, NEW path \in Seq(Steps), path # <<>>, GoesOn(t, path)
    PROVE  NextType(t, path) \in Types /\ Rank[NextType(t, path)] < Rank[t]
<1>1. CASE t.kind = "struct"
  BY <1>1, HeadAndTail, FoundLower DEF GoesOn, NextType
<1>2. CASE t.kind # "struct"
  BY <1>2, InnerTypes DEF GoesOn, NextType
<1> QED BY <1>1, <1>2

Verdicts == [Seq(Steps) -> Reasons]

\* One level of the walk looks at the types below only.
LEMMA ReasonInLower ==
    ASSUME NEW t \in Types, NEW f, NEW g,
           \A u \in Types : Rank[u] < Rank[t] => f[u] = g[u]
    PROVE  \A path \in Seq(Steps) : ReasonIn(t, path, f) = ReasonIn(t, path, g)
<1> SUFFICES ASSUME NEW path \in Seq(Steps)
             PROVE  ReasonIn(t, path, f) = ReasonIn(t, path, g)
  OBVIOUS
<1>1. CASE t.kind = "pointer"
  <2>1. f[t.elem] = g[t.elem]
    BY <1>1, InnerTypes
  <2> QED BY <1>1, <2>1, ReasonPointer
<1>2. CASE t.kind # "pointer" /\ path # <<>> /\ GoesOn(t, path)
  <2>1. f[NextType(t, path)] = g[NextType(t, path)]
    BY <1>2, NextLower
  <2> QED BY <1>2, <2>1, ReasonOn
<1>3. CASE t.kind # "pointer" /\ path # <<>> /\ ~GoesOn(t, path)
  BY <1>3, ReasonStop
<1>4. CASE t.kind # "pointer" /\ path = <<>>
  BY <1>4, ReasonEnd
<1> QED BY <1>1, <1>2, <1>3, <1>4

\* SecretFieldReason exists, and is one level of secretFieldReason at every type
\* (secretref.go:281-316).
LEMMA ReasonDef ==
    /\ SecretFieldReason \in [Types -> Verdicts]
    /\ \A t \in Types : \A path \in Seq(Steps) :
          SecretFieldReason[t][path] = ReasonIn(t, path, SecretFieldReason)
<1> DEFINE F == [Types -> Verdicts]
           G == [t \in Types |-> [reason \in F |->
                   [path \in Seq(Steps) |-> ReasonIn(t, path, reason)]]]
<1>1. ASSUME NEW t \in Types, NEW path \in Seq(Steps), NEW reason \in F
      PROVE  ReasonIn(t, path, reason) \in Reasons
  <2>0. \A u \in Types : \A p \in Seq(Steps) : reason[u][p] \in Reasons
    BY DEF Verdicts
  <2>1. CASE t.kind = "pointer"
    BY <2>0, <2>1, InnerTypes, ReasonPointer
  <2>2. CASE t.kind # "pointer" /\ path # <<>> /\ GoesOn(t, path)
    <3>1. NextType(t, path) \in Types /\ Tail(path) \in Seq(Steps)
      BY <2>2, NextLower, HeadAndTail
    <3>2. ReasonIn(t, path, reason) = reason[NextType(t, path)][Tail(path)]
      BY <2>2, ReasonOn
    <3> QED BY <2>0, <3>1, <3>2
  <2>3. CASE t.kind # "pointer" /\ path # <<>> /\ ~GoesOn(t, path)
    BY <2>3, ReasonStop
  <2>4. CASE t.kind # "pointer" /\ path = <<>>
    BY <2>4, ReasonEnd DEF Reasons
  <2> QED BY <2>1, <2>2, <2>3, <2>4
<1>2. G \in [Types -> [F -> Verdicts]]
  BY <1>1 DEF Verdicts
<1>3. \A t \in Types : \A f, g \in F :
         (\A u \in Types : Rank[u] < Rank[t] => f[u] = g[u]) => G[t][f] = G[t][g]
  BY ReasonInLower
<1>4. Verdicts # {}
  <2>1. [path \in Seq(Steps) |-> ""] \in Verdicts
    BY DEF Verdicts, Reasons
  <2> QED BY <2>1
<1>5. PICK f \in F : \A t \in Types : f[t] = G[t][f]
  <2> HIDE DEF G
  <2>1. Descends(Verdicts, G)
    BY <1>2, <1>3, <1>4 DEF Descends
  <2>2. Solvable(Verdicts, G)
    BY <2>1, Recursion, Zenon
  <2> QED BY <2>2, Zenon DEF Solvable
<1>6. f = [t \in Types |-> [path \in Seq(Steps) |-> ReasonIn(t, path, f)]]
  BY <1>5
<1>7. SecretFieldReason =
         [t \in Types |-> [path \in Seq(Steps) |-> ReasonIn(t, path, SecretFieldReason)]]
  <2> DEFINE Is(x) == x = [t \in Types |-> [path \in Seq(Steps) |-> ReasonIn(t, path, x)]]
  <2>1. SecretFieldReason = CHOOSE x : Is(x)
    BY DEF SecretFieldReason
  <2>2. \E x : Is(x)
    BY <1>6
  <2>3. Is(CHOOSE x : Is(x))
    <3> HIDE DEF Is
    <3> QED BY <2>2
  <2> QED BY <2>1, <2>3
<1>8. SecretFieldReason = f
  <2>1. \A t \in Types :
           (\A u \in Types : Rank[u] < Rank[t] => SecretFieldReason[u] = f[u])
           => SecretFieldReason[t] = f[t]
    <3> SUFFICES ASSUME NEW t \in Types,
                        \A u \in Types : Rank[u] < Rank[t] => SecretFieldReason[u] = f[u]
                 PROVE  SecretFieldReason[t] = f[t]
      OBVIOUS
    <3>1. \A path \in Seq(Steps) :
             ReasonIn(t, path, SecretFieldReason) = ReasonIn(t, path, f)
      BY ReasonInLower
    <3>2. SecretFieldReason[t] = [path \in Seq(Steps) |-> ReasonIn(t, path, SecretFieldReason)]
      BY <1>7
    <3>3. f[t] = [path \in Seq(Steps) |-> ReasonIn(t, path, f)]
      BY <1>6
    <3> QED BY <3>1, <3>2, <3>3
  <2>2. \A t \in Types : SecretFieldReason[t] = f[t]
    BY <2>1, Alike, Zenon
  <2> QED BY <1>6, <1>7, <2>2
<1> QED BY <1>5, <1>7, <1>8

-----------------------------------------------------------------------------
(* Documents, and what is below a step. *)

\* A path with a step before it.
LEMMA Prefixed ==
    ASSUME NEW s \in Steps, NEW q \in Seq(Steps)
    PROVE  /\ <<s>> \o q \in Seq(Steps)
           /\ <<s>> \o q # <<>>
           /\ Head(<<s>> \o q) = s
           /\ Tail(<<s>> \o q) = q
<1> DEFINE p == <<s>> \o q
<1>1. /\ p \in Seq(Steps) /\ Len(p) = Len(q) + 1 /\ Len(q) \in Nat
      /\ \A i \in 1 .. Len(q) + 1 : p[i] = IF i <= 1 THEN s ELSE q[i - 1]
  OBVIOUS
<1>2. p # <<>>
  <2> HIDE DEF p
  <2> QED BY <1>1
<1>3. Head(p) = s
  <2> HIDE DEF p
  <2> QED BY <1>1, <1>2
<1>4. Tail(p) = q
  <2> HIDE DEF p
  <2>1. /\ Tail(p) \in Seq(Steps) /\ Len(Tail(p)) = Len(q)
        /\ \A i \in 1 .. Len(q) : Tail(p)[i] = p[i + 1]
    BY <1>1, <1>2, HeadTailProperties
  <2>2. \A i \in 1 .. Len(q) : Tail(p)[i] = q[i]
    BY <1>1, <2>1
  <2> QED BY <2>1, <2>2, SeqEqual
<1> QED BY <1>1, <1>2, <1>3, <1>4

\* A path is its first step before the rest.
LEMMA Split ==
    ASSUME NEW path \in Seq(Steps), path # <<>>
    PROVE  /\ Head(path) \in Steps /\ Tail(path) \in Seq(Steps)
           /\ path = <<Head(path)>> \o Tail(path)
<1>1. /\ Head(path) \in Steps /\ Tail(path) \in Seq(Steps)
      /\ Len(Tail(path)) = Len(path) - 1 /\ Len(path) \in Nat \ {0}
      /\ \A i \in 1 .. Len(path) - 1 : Tail(path)[i] = path[i + 1]
  BY HeadTailProperties, EmptySeq
<1> DEFINE p == <<Head(path)>> \o Tail(path)
<1>2. /\ p \in Seq(Steps) /\ Len(p) = Len(path)
      /\ p[1] = Head(path)
      /\ \A i \in 2 .. Len(path) : p[i] = Tail(path)[i - 1]
  BY <1>1
<1>3. path[1] = Head(path)
  OBVIOUS
<1>4. \A i \in 1 .. Len(path) : p[i] = path[i]
  <2> HIDE DEF p
  <2> QED BY <1>1, <1>2, <1>3
<1>5. p = path
  <2> HIDE DEF p
  <2> QED BY <1>2, <1>4, SeqEqual
<1> QED BY <1>1, <1>5

Docs == SUBSET Seq(Steps)

\* The paths below a step are those that follow it.
LEMMA BelowPaths ==
    ASSUME NEW D \in Docs, NEW s \in Steps
    PROVE  /\ Below(D, s) \in Docs
           /\ \A q \in Seq(Steps) : q \in Below(D, s) <=> <<s>> \o q \in D
<1>1. ASSUME NEW q \in Below(D, s) PROVE q \in Seq(Steps) /\ <<s>> \o q \in D
  <2>1. PICK r \in D : r # <<>> /\ Head(r) = s /\ q = Tail(r)
    BY DEF Below
  <2> QED BY <2>1, Split DEF Docs
<1>2. ASSUME NEW q \in Seq(Steps), <<s>> \o q \in D PROVE q \in Below(D, s)
  <2>1. <<s>> \o q # <<>> /\ Head(<<s>> \o q) = s /\ Tail(<<s>> \o q) = q
    BY Prefixed
  <2> QED BY <1>2, <2>1 DEF Below
<1> QED BY <1>1, <1>2 DEF Docs

\* A path that begins with a step has it at the root.
LEMMA HeadSteps ==
    ASSUME NEW D \in Docs
    PROVE  /\ Heads(D) \subseteq Steps
           /\ \A s \in Steps, q \in Seq(Steps) : <<s>> \o q \in D => s \in Heads(D)
<1>1. ASSUME NEW q \in D, q # <<>> PROVE Head(q) \in Steps
  BY <1>1, Split DEF Docs
<1>2. ASSUME NEW s \in Steps, NEW q \in Seq(Steps), <<s>> \o q \in D
      PROVE  s \in Heads(D)
  BY <1>2, Prefixed DEF Heads
<1> QED BY <1>1, <1>2 DEF Heads

-----------------------------------------------------------------------------
(* The decoding of a document. *)

Kinds == {t.kind : t \in Types} \cup {"any", "error"}
SlotSet == [path : Seq(Steps), kind : Kinds, loose : BOOLEAN]

\* Which case it is.
Each(t, D) == (t.kind = "map" /\ IsMapping(D)) \/ (t.kind = "slice" /\ IsList(D))
Fails(t, D) ==
    /\ t.kind \notin {"pointer", "any", "slice"}
    /\ <<>> \notin D
    /\ ~(t.kind \in {"struct", "map"} /\ IsMapping(D))

\* The cases of the decoding.
LEMMA SlotsPointer ==
    ASSUME NEW t \in Types, NEW D, NEW f, t.kind = "pointer"
    PROVE  SlotsIn(t, D, f) = f[t.elem][D]
BY DEF SlotsIn

\* A scalar has one place.
LEMMA SlotsLeaf ==
    ASSUME NEW t \in Types, NEW D, NEW f, t.kind # "pointer", <<>> \in D
    PROVE  SlotsIn(t, D, f) = {Slot(<<>>, t.kind, FALSE)}
BY DEF SlotsIn, IsMapping, IsList

\* A value of any type takes all that is there.
LEMMA SlotsAny ==
    ASSUME NEW t \in Types, NEW D, NEW f, t.kind = "any", <<>> \notin D
    PROVE  SlotsIn(t, D, f) = {Slot(q, "any", FALSE) : q \in D}
BY DEF SlotsIn

\* A struct has the places of its fields, each below the step it decodes.
LEMMA SlotsStruct ==
    ASSUME NEW t \in Types, NEW D, NEW f, t.kind = "struct", IsMapping(D)
    PROVE  SlotsIn(t, D, f) =
              UNION {At(c[2], f[c[1].type][Below(D, c[2])]) : c \in FieldSteps(t, D)}
BY DEF SlotsIn, IsMapping

\* A map or a list has the places of each of its elements.
LEMMA SlotsEach ==
    ASSUME NEW t \in Types, NEW D, NEW f,
           Each(t, D)
    PROVE  SlotsIn(t, D, f) = UNION {At(s, f[t.elem][Below(D, s)]) : s \in Heads(D)}
BY DEF SlotsIn, IsMapping, IsList, Each

\* A mapping in the place of a list is its only element.
LEMMA SlotsLoose ==
    ASSUME NEW t \in Types, NEW D, NEW f, t.kind = "slice", <<>> \notin D, ~IsList(D)
    PROVE  SlotsIn(t, D, f) = Loosely(f[t.elem][D])
BY DEF SlotsIn

\* Nothing else can be decoded.
LEMMA SlotsFail ==
    ASSUME NEW t \in Types, NEW D, NEW f, Fails(t, D)
    PROVE  SlotsIn(t, D, f) = {Slot(<<>>, "error", FALSE)}
BY DEF SlotsIn, Fails

\* These are all the cases.
LEMMA SlotsCases ==
    ASSUME NEW t \in Types, NEW D
    PROVE  \/ t.kind = "pointer"
           \/ t.kind # "pointer" /\ <<>> \in D
           \/ t.kind = "any" /\ <<>> \notin D
           \/ t.kind = "struct" /\ IsMapping(D)
           \/ Each(t, D)
           \/ t.kind = "slice" /\ <<>> \notin D /\ ~IsList(D)
           \/ Fails(t, D)
BY DEF Each, Fails, IsMapping, IsList

\* The types of the fields that steps select, and what is below the steps.
LEMMA FieldStepTypes ==
    ASSUME NEW t \in Types, NEW D \in Docs, NEW c \in FieldSteps(t, D)
    PROVE  /\ c[1] \in Fields[t] /\ c[2] \in Heads(D) /\ c[2] \in Steps
           /\ Fold(c[2].key) = Fold(c[1].key)
           /\ c[1].type \in Types /\ Rank[c[1].type] < Rank[t]
           /\ Below(D, c[2]) \in Docs
<1>1. c[1] \in Fields[t] /\ c[2] \in Heads(D) /\ Fold(c[2].key) = Fold(c[1].key)
  BY DEF FieldSteps
<1>2. c[2] \in Steps
  BY <1>1, HeadSteps
<1>3. c[1].type \in Types /\ Rank[c[1].type] < Rank[t]
  BY <1>1, FieldTypes
<1> QED BY <1>1, <1>2, <1>3, BelowPaths

\* One level of Slots looks at the types below only.
LEMMA SlotsInLower ==
    ASSUME NEW t \in Types, NEW f, NEW g,
           \A u \in Types : Rank[u] < Rank[t] => f[u] = g[u]
    PROVE  \A D \in Docs : SlotsIn(t, D, f) = SlotsIn(t, D, g)
<1> SUFFICES ASSUME NEW D \in Docs PROVE SlotsIn(t, D, f) = SlotsIn(t, D, g)
  OBVIOUS
<1>0. ASSUME t.kind \in {"pointer", "map", "slice"} PROVE f[t.elem] = g[t.elem]
  BY <1>0, InnerTypes
<1>1. CASE t.kind = "pointer"
  BY <1>0, <1>1, SlotsPointer
<1>2. CASE t.kind # "pointer" /\ <<>> \in D
  BY <1>2, SlotsLeaf
<1>3. CASE t.kind = "any" /\ <<>> \notin D
  BY <1>3, SlotsAny
<1>4. CASE t.kind = "struct" /\ IsMapping(D)
  <2>1. \A c \in FieldSteps(t, D) : f[c[1].type] = g[c[1].type]
    BY FieldStepTypes
  <2>2. \A c \in FieldSteps(t, D) : At(c[2], f[c[1].type][Below(D, c[2])])
                                      = At(c[2], g[c[1].type][Below(D, c[2])])
    BY <2>1
  <2>3. UNION {At(c[2], f[c[1].type][Below(D, c[2])]) : c \in FieldSteps(t, D)}
           = UNION {At(c[2], g[c[1].type][Below(D, c[2])]) : c \in FieldSteps(t, D)}
    BY <2>2
  <2> QED BY <1>4, <2>3, SlotsStruct
<1>5. CASE Each(t, D)
  <2>1. f[t.elem] = g[t.elem]
    BY <1>0, <1>5 DEF Each
  <2>2. SlotsIn(t, D, f) = UNION {At(s, f[t.elem][Below(D, s)]) : s \in Heads(D)}
    BY <1>5, SlotsEach
  <2>3. SlotsIn(t, D, g) = UNION {At(s, g[t.elem][Below(D, s)]) : s \in Heads(D)}
    BY <1>5, SlotsEach
  <2> QED BY <2>1, <2>2, <2>3
<1>6. CASE t.kind = "slice" /\ <<>> \notin D /\ ~IsList(D)
  BY <1>0, <1>6, SlotsLoose
<1>7. CASE Fails(t, D)
  BY <1>7, SlotsFail
<1> QED BY <1>1, <1>2, <1>3, <1>4, <1>5, <1>6, <1>7, SlotsCases

\* Places stay places.
LEMMA SlotTypes ==
    ASSUME NEW slots \in SUBSET SlotSet
    PROVE  /\ \A s \in Steps : At(s, slots) \in SUBSET SlotSet
           /\ Loosely(slots) \in SUBSET SlotSet
<1>1. ASSUME NEW x \in slots
      PROVE  x.path \in Seq(Steps) /\ x.kind \in Kinds /\ x.loose \in BOOLEAN
  BY DEF SlotSet
<1>2. ASSUME NEW s \in Steps, NEW x \in slots
      PROVE  Slot(<<s>> \o x.path, x.kind, x.loose) \in SlotSet
  <2>1. <<s>> \o x.path \in Seq(Steps)
    BY <1>1, Prefixed
  <2> QED BY <1>1, <2>1 DEF Slot, SlotSet
<1>3. ASSUME NEW x \in slots PROVE Slot(x.path, x.kind, TRUE) \in SlotSet
  BY <1>1 DEF Slot, SlotSet
<1>4. ASSUME NEW s \in Steps PROVE At(s, slots) \in SUBSET SlotSet
  BY <1>2 DEF At
<1>5. Loosely(slots) \in SUBSET SlotSet
  BY <1>3 DEF Loosely
<1> QED BY <1>4, <1>5

Decodings == [Docs -> SUBSET SlotSet]

\* One level of Slots gives places.
LEMMA SlotsInTypes ==
    ASSUME NEW t \in Types, NEW D \in Docs, NEW slots,
           \A u \in Types : Rank[u] < Rank[t] => slots[u] \in Decodings
    PROVE  SlotsIn(t, D, slots) \in SUBSET SlotSet
<1>0. \A u \in Types, E \in Docs : Rank[u] < Rank[t] => slots[u][E] \in SUBSET SlotSet
  BY DEF Decodings
<1>1. CASE t.kind = "pointer"
  BY <1>0, <1>1, InnerTypes, SlotsPointer
<1>2. CASE t.kind # "pointer" /\ <<>> \in D
  <2>1. Slot(<<>>, t.kind, FALSE) \in SlotSet
    BY EmptySeq DEF Slot, SlotSet, Kinds
  <2> QED BY <1>2, <2>1, SlotsLeaf
<1>3. CASE t.kind = "any" /\ <<>> \notin D
  <2>1. \A q \in D : Slot(q, "any", FALSE) \in SlotSet
    BY DEF Slot, SlotSet, Kinds, Docs
  <2>2. {Slot(q, "any", FALSE) : q \in D} \in SUBSET SlotSet
    BY <2>1
  <2> QED BY <1>3, <2>2, SlotsAny
<1>4. CASE t.kind = "struct" /\ IsMapping(D)
  <2>1. \A c \in FieldSteps(t, D) : At(c[2], slots[c[1].type][Below(D, c[2])]) \subseteq SlotSet
    <3> SUFFICES ASSUME NEW c \in FieldSteps(t, D)
                 PROVE  At(c[2], slots[c[1].type][Below(D, c[2])]) \subseteq SlotSet
      OBVIOUS
    <3>1. slots[c[1].type][Below(D, c[2])] \in SUBSET SlotSet /\ c[2] \in Steps
      BY <1>0, FieldStepTypes
    <3> QED BY <3>1, SlotTypes
  <2> QED BY <1>4, <2>1, SlotsStruct
<1>5. CASE Each(t, D)
  <2>1. t.elem \in Types /\ Rank[t.elem] < Rank[t]
    BY <1>5, InnerTypes DEF Each
  <2>2. \A s \in Heads(D) : s \in Steps /\ slots[t.elem][Below(D, s)] \in SUBSET SlotSet
    BY <1>0, <2>1, HeadSteps, BelowPaths
  <2>3. \A s \in Heads(D) : At(s, slots[t.elem][Below(D, s)]) \subseteq SlotSet
    BY <2>2, SlotTypes
  <2> QED BY <1>5, <2>3, SlotsEach
<1>6. CASE t.kind = "slice" /\ <<>> \notin D /\ ~IsList(D)
  BY <1>0, <1>6, InnerTypes, SlotsLoose, SlotTypes
<1>7. CASE Fails(t, D)
  <2>1. Slot(<<>>, "error", FALSE) \in SlotSet
    BY EmptySeq DEF Slot, SlotSet, Kinds
  <2> QED BY <1>7, <2>1, SlotsFail
<1> QED BY <1>1, <1>2, <1>3, <1>4, <1>5, <1>6, <1>7, SlotsCases

\* Slots exists, and is one level of the decoding at every type.
LEMMA SlotsDef ==
    /\ Slots \in [Types -> Decodings]
    /\ \A t \in Types : \A D \in Docs : Slots[t][D] = SlotsIn(t, D, Slots)
<1> DEFINE F == [Types -> Decodings]
           G == [t \in Types |-> [slots \in F |-> [D \in Docs |-> SlotsIn(t, D, slots)]]]
<1>1. ASSUME NEW t \in Types, NEW D \in Docs, NEW slots \in F
      PROVE  SlotsIn(t, D, slots) \in SUBSET SlotSet
  BY SlotsInTypes
<1>2. G \in [Types -> [F -> Decodings]]
  BY <1>1 DEF Decodings
<1>3. \A t \in Types : \A f, g \in F :
         (\A u \in Types : Rank[u] < Rank[t] => f[u] = g[u]) => G[t][f] = G[t][g]
  BY SlotsInLower
<1>4. Decodings # {}
  <2>1. [D \in Docs |-> {}] \in Decodings
    BY DEF Decodings
  <2> QED BY <2>1
<1>5. PICK f \in F : \A t \in Types : f[t] = G[t][f]
  <2> HIDE DEF G
  <2>1. Descends(Decodings, G)
    BY <1>2, <1>3, <1>4 DEF Descends
  <2>2. Solvable(Decodings, G)
    BY <2>1, Recursion, Zenon
  <2> QED BY <2>2, Zenon DEF Solvable
<1>6. f = [t \in Types |-> [D \in Docs |-> SlotsIn(t, D, f)]]
  BY <1>5
<1>7. Slots = [t \in Types |-> [D \in Docs |-> SlotsIn(t, D, Slots)]]
  <2> DEFINE Is(x) == x = [t \in Types |-> [D \in Docs |-> SlotsIn(t, D, x)]]
  <2>1. Slots = CHOOSE x : Is(x)
    BY DEF Slots, Docs
  <2>2. \E x : Is(x)
    BY <1>6
  <2>3. Is(CHOOSE x : Is(x))
    <3> HIDE DEF Is
    <3> QED BY <2>2
  <2> QED BY <2>1, <2>3
<1>8. Slots = f
  <2>1. \A t \in Types : (\A u \in Types : Rank[u] < Rank[t] => Slots[u] = f[u])
                         => Slots[t] = f[t]
    <3> SUFFICES ASSUME NEW t \in Types,
                        \A u \in Types : Rank[u] < Rank[t] => Slots[u] = f[u]
                 PROVE  Slots[t] = f[t]
      OBVIOUS
    <3>1. \A D \in Docs : SlotsIn(t, D, Slots) = SlotsIn(t, D, f)
      BY SlotsInLower
    <3>2. Slots[t] = [D \in Docs |-> SlotsIn(t, D, Slots)]
      BY <1>7
    <3>3. f[t] = [D \in Docs |-> SlotsIn(t, D, f)]
      BY <1>6
    <3> QED BY <3>1, <3>2, <3>3
  <2>2. \A t \in Types : Slots[t] = f[t]
    BY <2>1, Alike, Zenon
  <2> QED BY <1>6, <1>7, <2>2
<1> QED BY <1>5, <1>7, <1>8

-----------------------------------------------------------------------------
(* Shapes. *)

\* Where the places of a mapping or a list come from, and where they go.
LEMMA InAt ==
    ASSUME NEW s \in Steps, NEW slots \in SUBSET SlotSet
    PROVE  /\ \A y \in slots : Slot(<<s>> \o y.path, y.kind, y.loose) \in At(s, slots)
           /\ \A x \in At(s, slots) : \E y \in slots :
                 x = Slot(<<s>> \o y.path, y.kind, y.loose)
BY DEF At

\* The first step of a path, and the rest, are its own.
LEMMA SamePath ==
    ASSUME NEW s \in Steps, NEW r \in Steps, NEW p \in Seq(Steps), NEW q \in Seq(Steps),
           <<s>> \o p = <<r>> \o q
    PROVE  s = r /\ p = q
BY Prefixed

\* The root of a document is a scalar, a mapping or a list.
LEMMA ShapedNode ==
    ASSUME NEW D \in Docs, Shaped(D)
    PROVE  /\ <<>> \in D => D = {<<>>}
           /\ \A r, s \in Heads(D) : r.isIndex = s.isIndex
<1>1. ASSUME <<>> \in D, NEW q \in D PROVE q = <<>>
  <2>1. q = <<>> \/ \E n \in 1 .. Len(<<>>) : Parts(<<>>, q, n)
    BY <1>1 DEF Shaped
  <2>2. 1 .. Len(<<>>) = {}
    OBVIOUS
  <2> QED BY <2>1, <2>2
<1>2. ASSUME NEW q \in D \ {<<>>}, NEW p \in D \ {<<>>}
      PROVE  Head(q).isIndex = Head(p).isIndex
  <2>0. q \in Seq(Steps) /\ p \in Seq(Steps) /\ Head(q) = q[1] /\ Head(p) = p[1]
    BY DEF Docs
  <2>1. CASE q = p
    BY <2>1
  <2>2. CASE \E n \in 1 .. Len(q) : Parts(q, p, n)
    <3>1. PICK n \in 1 .. Len(q) : Parts(q, p, n)
      BY <2>2
    <3>2. CASE n = 1
      BY <2>0, <3>1, <3>2 DEF Parts
    <3>3. CASE n # 1
      <4>1. 1 \in 1 .. n - 1
        BY <2>0, <3>1, <3>3
      <4>2. q[1] = p[1]
        BY <3>1, <4>1 DEF Parts
      <4> QED BY <2>0, <4>2
    <3> QED BY <3>2, <3>3
  <2> QED BY <2>1, <2>2 DEF Shaped
<1> QED BY <1>1, <1>2 DEF Heads

\* What is below a step is a document.
LEMMA ShapedBelow ==
    ASSUME NEW D \in Docs, Shaped(D), NEW s \in Steps
    PROVE  Shaped(Below(D, s))
<1> SUFFICES ASSUME NEW q \in Below(D, s), NEW r \in Below(D, s), q # r
             PROVE  \E n \in 1 .. Len(q) : Parts(q, r, n)
  BY DEF Shaped
<1>1. /\ q \in Seq(Steps) /\ r \in Seq(Steps)
      /\ <<s>> \o q \in D /\ <<s>> \o r \in D
  BY BelowPaths DEF Docs
<1> DEFINE sq == <<s>> \o q
           sr == <<s>> \o r
<1>2. /\ Len(sq) = Len(q) + 1 /\ Len(sr) = Len(r) + 1
      /\ Len(q) \in Nat /\ Len(r) \in Nat
      /\ sq[1] = s /\ sr[1] = s
      /\ \A i \in 1 .. Len(q) : sq[i + 1] = q[i]
      /\ \A i \in 1 .. Len(r) : sr[i + 1] = r[i]
  BY <1>1
<1>3. sq # sr
  BY <1>1, SamePath
<1>4. PICK m \in 1 .. Len(sq) : Parts(sq, sr, m)
  BY <1>1, <1>3 DEF Shaped
<1> HIDE DEF sq, sr
<1>5. m # 1 /\ m \in Nat /\ m <= Len(q) + 1 /\ m <= Len(r) + 1 /\ m >= 1
  BY <1>2, <1>4 DEF Parts
<1>6. m - 1 \in 1 .. Len(q) /\ m - 1 \in 1 .. Len(r) /\ (m - 1) + 1 = m
  BY <1>2, <1>5
<1>7. sq[m] = q[m - 1] /\ sr[m] = r[m - 1]
  BY <1>2, <1>6
<1>8. \A i \in 1 .. (m - 1) - 1 : q[i] = r[i]
  <2> SUFFICES ASSUME NEW i \in 1 .. (m - 1) - 1 PROVE q[i] = r[i]
    OBVIOUS
  <2>1. i + 1 \in 1 .. m - 1 /\ i \in 1 .. Len(q) /\ i \in 1 .. Len(r)
    BY <1>2, <1>5
  <2>2. sq[i + 1] = sr[i + 1]
    BY <1>4, <2>1 DEF Parts
  <2> QED BY <1>2, <2>1, <2>2
<1>9. Parts(q, r, m - 1)
  BY <1>2, <1>4, <1>6, <1>7, <1>8 DEF Parts
<1> QED BY <1>6, <1>9

-----------------------------------------------------------------------------
(* The two walks. *)

\* The places in a struct are those in its fields, and the places in a map or a
\* slice those in its elements.
LEMMA InStruct ==
    ASSUME NEW t \in Types, NEW D \in Docs, t.kind = "struct", IsMapping(D)
    PROVE  /\ \A c \in FieldSteps(t, D) : \A y \in Slots[c[1].type][Below(D, c[2])] :
                 Slot(<<c[2]>> \o y.path, y.kind, y.loose) \in Slots[t][D]
           /\ \A x \in Slots[t][D] : \E c \in FieldSteps(t, D) :
                 \E y \in Slots[c[1].type][Below(D, c[2])] :
                    x = Slot(<<c[2]>> \o y.path, y.kind, y.loose)
<1>1. Slots[t][D] =
         UNION {At(c[2], Slots[c[1].type][Below(D, c[2])]) : c \in FieldSteps(t, D)}
  BY SlotsDef, SlotsStruct
<1>2. \A c \in FieldSteps(t, D) :
         c[2] \in Steps /\ Slots[c[1].type][Below(D, c[2])] \in SUBSET SlotSet
  BY FieldStepTypes, SlotsDef DEF Decodings
<1>3. ASSUME NEW c \in FieldSteps(t, D), NEW y \in Slots[c[1].type][Below(D, c[2])]
      PROVE  Slot(<<c[2]>> \o y.path, y.kind, y.loose) \in Slots[t][D]
  <2>1. Slot(<<c[2]>> \o y.path, y.kind, y.loose)
           \in At(c[2], Slots[c[1].type][Below(D, c[2])])
    BY <1>2, InAt
  <2> QED BY <1>1, <2>1
<1>4. ASSUME NEW x \in Slots[t][D]
      PROVE  \E c \in FieldSteps(t, D) : \E y \in Slots[c[1].type][Below(D, c[2])] :
                x = Slot(<<c[2]>> \o y.path, y.kind, y.loose)
  <2>1. PICK c \in FieldSteps(t, D) : x \in At(c[2], Slots[c[1].type][Below(D, c[2])])
    BY <1>1
  <2>2. \E y \in Slots[c[1].type][Below(D, c[2])] :
           x = Slot(<<c[2]>> \o y.path, y.kind, y.loose)
    BY <1>2, <2>1, InAt
  <2> QED BY <2>2
<1> QED BY <1>3, <1>4

\* The places of a map or a list, one by one.
LEMMA InEach ==
    ASSUME NEW t \in Types, NEW D \in Docs, Each(t, D)
    PROVE  /\ t.elem \in Types /\ Rank[t.elem] < Rank[t]
           /\ \A s \in Heads(D) : s \in Steps /\ Below(D, s) \in Docs
           /\ \A s \in Heads(D) : \A y \in Slots[t.elem][Below(D, s)] :
                 Slot(<<s>> \o y.path, y.kind, y.loose) \in Slots[t][D]
           /\ \A x \in Slots[t][D] : \E s \in Heads(D) :
                 \E y \in Slots[t.elem][Below(D, s)] :
                    x = Slot(<<s>> \o y.path, y.kind, y.loose)
<1>1. Slots[t][D] = UNION {At(s, Slots[t.elem][Below(D, s)]) : s \in Heads(D)}
  BY SlotsDef, SlotsEach
<1>2. t.elem \in Types /\ Rank[t.elem] < Rank[t]
  BY InnerTypes DEF Each
<1>3. \A s \in Heads(D) : /\ s \in Steps /\ Below(D, s) \in Docs
                          /\ Slots[t.elem][Below(D, s)] \in SUBSET SlotSet
  BY <1>2, HeadSteps, BelowPaths, SlotsDef DEF Decodings
<1>4. ASSUME NEW s \in Heads(D), NEW y \in Slots[t.elem][Below(D, s)]
      PROVE  Slot(<<s>> \o y.path, y.kind, y.loose) \in Slots[t][D]
  <2>1. Slot(<<s>> \o y.path, y.kind, y.loose) \in At(s, Slots[t.elem][Below(D, s)])
    BY <1>3, InAt
  <2> QED BY <1>1, <2>1
<1>5. ASSUME NEW x \in Slots[t][D]
      PROVE  \E s \in Heads(D) : \E y \in Slots[t.elem][Below(D, s)] :
                x = Slot(<<s>> \o y.path, y.kind, y.loose)
  <2>1. PICK s \in Heads(D) : x \in At(s, Slots[t.elem][Below(D, s)])
    BY <1>1
  <2>2. \E y \in Slots[t.elem][Below(D, s)] : x = Slot(<<s>> \o y.path, y.kind, y.loose)
    BY <1>3, <2>1, InAt
  <2> QED BY <2>2
<1> QED BY <1>2, <1>3, <1>4, <1>5

\* The places of a mapping that is taken for a list, one by one.
LEMMA InLoose ==
    ASSUME NEW t \in Types, NEW D \in Docs,
           t.kind = "slice", <<>> \notin D, ~IsList(D)
    PROVE  /\ t.elem \in Types /\ Rank[t.elem] < Rank[t]
           /\ \A y \in Slots[t.elem][D] : Slot(y.path, y.kind, TRUE) \in Slots[t][D]
           /\ \A x \in Slots[t][D] : \E y \in Slots[t.elem][D] :
                 x = Slot(y.path, y.kind, TRUE)
<1>1. t.elem \in Types /\ Rank[t.elem] < Rank[t]
  BY InnerTypes
<1>2. Slots[t][D] = SlotsIn(t, D, Slots)
  BY SlotsDef
<1>3. Slots[t][D] = Loosely(Slots[t.elem][D])
  BY <1>2, SlotsLoose
<1> QED BY <1>1, <1>3 DEF Loosely

\* The other cases.
LEMMA InPointer ==
    ASSUME NEW t \in Types, NEW D \in Docs, t.kind = "pointer"
    PROVE  /\ t.elem \in Types /\ Rank[t.elem] < Rank[t]
           /\ Slots[t][D] = Slots[t.elem][D]
<1>1. Slots[t][D] = SlotsIn(t, D, Slots)
  BY SlotsDef
<1> QED BY <1>1, InnerTypes, SlotsPointer

\* The place of a scalar.
LEMMA InLeaf ==
    ASSUME NEW t \in Types, NEW D \in Docs, t.kind # "pointer", <<>> \in D
    PROVE  Slots[t][D] = {Slot(<<>>, t.kind, FALSE)}
<1>1. Slots[t][D] = SlotsIn(t, D, Slots)
  BY SlotsDef
<1> QED BY <1>1, SlotsLeaf

\* The places of a value of any type.
LEMMA InAny ==
    ASSUME NEW t \in Types, NEW D \in Docs, t.kind = "any", <<>> \notin D
    PROVE  Slots[t][D] = {Slot(q, "any", FALSE) : q \in D}
<1>1. Slots[t][D] = SlotsIn(t, D, Slots)
  BY SlotsDef
<1> QED BY <1>1, SlotsAny

\* What cannot be decoded has an error for its only place.
LEMMA InFail ==
    ASSUME NEW t \in Types, NEW D \in Docs, Fails(t, D)
    PROVE  Slots[t][D] = {Slot(<<>>, "error", FALSE)}
<1>1. Slots[t][D] = SlotsIn(t, D, Slots)
  BY SlotsDef
<1> QED BY <1>1, SlotsFail

\* Types of the parts of a place.
LEMMA PlaceTypes ==
    ASSUME NEW t \in Types, NEW D \in Docs, NEW x \in Slots[t][D]
    PROVE  /\ x.path \in Seq(Steps)
           /\ x = Slot(x.path, x.kind, x.loose)
<1>1. x \in SlotSet
  BY SlotsDef DEF Decodings
<1> QED BY <1>1 DEF SlotSet, Slot

\* The parts of a place.
LEMMA SlotParts ==
    \A p, k, l : Slot(p, k, l).path = p /\ Slot(p, k, l).kind = k /\ Slot(p, k, l).loose = l
BY DEF Slot

\* A place that is no error is that of a leaf.
LEMMA PlacePaths ==
    \A t \in Types : \A D \in Docs : \A x \in Slots[t][D] : x.kind # "error" => x.path \in D
<1> DEFINE P(t) == \A D \in Docs : \A x \in Slots[t][D] : x.kind # "error" => x.path \in D
           S == {t \in Types : P(t)}
<1>1. ASSUME NEW t \in Types, \A u \in Types : Rank[u] < Rank[t] => u \in S
      PROVE  P(t)
  <2> SUFFICES ASSUME NEW D \in Docs, NEW x \in Slots[t][D], x.kind # "error"
               PROVE  x.path \in D
    OBVIOUS
  <2>0. \A u \in Types : \A E \in Docs : \A y \in Slots[u][E] :
           Rank[u] < Rank[t] /\ y.kind # "error" => y.path \in E
    BY <1>1
  <2> HIDE DEF S
  <2>1. CASE t.kind = "pointer"
    <3>1. x \in Slots[t.elem][D] /\ t.elem \in Types /\ Rank[t.elem] < Rank[t]
      BY <2>1, InPointer
    <3> QED BY <2>0, <3>1
  <2>2. CASE t.kind # "pointer" /\ <<>> \in D
    <3>1. x = Slot(<<>>, t.kind, FALSE)
      BY <2>2, InLeaf
    <3> QED BY <2>2, <3>1 DEF Slot
  <2>3. CASE t.kind = "any" /\ <<>> \notin D
    <3>1. PICK q \in D : x = Slot(q, "any", FALSE)
      BY <2>3, InAny DEF Slot
    <3> QED BY <3>1 DEF Slot
  <2>4. CASE t.kind = "struct" /\ IsMapping(D)
    <3>1. PICK c \in FieldSteps(t, D) : \E y \in Slots[c[1].type][Below(D, c[2])] :
             x = Slot(<<c[2]>> \o y.path, y.kind, y.loose)
      BY <2>4, InStruct
    <3>2. PICK y \in Slots[c[1].type][Below(D, c[2])] :
             x = Slot(<<c[2]>> \o y.path, y.kind, y.loose)
      BY <3>1
    <3>3. /\ c[1].type \in Types /\ Rank[c[1].type] < Rank[t]
          /\ Below(D, c[2]) \in Docs /\ c[2] \in Steps
      BY FieldStepTypes
    <3>4. y.path \in Below(D, c[2])
      BY <2>0, <3>2, <3>3, SlotParts
    <3> QED BY <3>2, <3>3, <3>4, BelowPaths, SlotParts DEF Docs
  <2>5. CASE Each(t, D)
    <3>1. PICK s \in Heads(D) : \E y \in Slots[t.elem][Below(D, s)] :
             x = Slot(<<s>> \o y.path, y.kind, y.loose)
      BY <2>5, InEach
    <3>2. PICK y \in Slots[t.elem][Below(D, s)] : x = Slot(<<s>> \o y.path, y.kind, y.loose)
      BY <3>1
    <3>3. /\ t.elem \in Types /\ Rank[t.elem] < Rank[t]
          /\ Below(D, s) \in Docs /\ s \in Steps
      BY <2>5, InEach
    <3>4. y.path \in Below(D, s)
      BY <2>0, <3>2, <3>3, SlotParts
    <3> QED BY <3>2, <3>3, <3>4, BelowPaths, SlotParts DEF Docs
  <2>6. CASE t.kind = "slice" /\ <<>> \notin D /\ ~IsList(D)
    <3>1. PICK y \in Slots[t.elem][D] : x = Slot(y.path, y.kind, TRUE)
      BY <2>6, InLoose
    <3>2. t.elem \in Types /\ Rank[t.elem] < Rank[t]
      BY <2>6, InLoose
    <3> QED BY <2>0, <3>1, <3>2 DEF Slot
  <2>7. CASE Fails(t, D)
    <3>1. x = Slot(<<>>, "error", FALSE)
      BY <2>7, InFail DEF Slot
    <3> QED BY <3>1 DEF Slot
  <2> QED BY <2>1, <2>2, <2>3, <2>4, <2>5, <2>6, <2>7, SlotsCases
<1>2. Types \subseteq S
  <2>1. \A t \in Types : (\A u \in Types : Rank[u] < Rank[t] => u \in S) => t \in S
    BY <1>1
  <2> HIDE DEF S
  <2> QED BY <2>1, TypesByRank, Zenon
<1> QED BY <1>2

\* The cases of the check.
LEMMA LandsCases ==
    ASSUME NEW t \in Types, NEW path \in Seq(Steps)
    PROVE  /\ t.kind = "pointer" => (LandsOnSecret(t, path) <=> LandsOnSecret(t.elem, path))
           /\ t.kind # "pointer" /\ path = <<>> => (LandsOnSecret(t, path) <=> t.kind = "secret")
           /\ path # <<>> /\ GoesOn(t, path) =>
                 (LandsOnSecret(t, path) <=> LandsOnSecret(NextType(t, path), Tail(path)))
           /\ t.kind # "pointer" /\ path # <<>> /\ ~GoesOn(t, path) => ~LandsOnSecret(t, path)
<1>0. SecretFieldReason[t][path] = ReasonIn(t, path, SecretFieldReason)
  BY ReasonDef
<1>1. CASE t.kind = "pointer"
  <2>1. ~GoesOn(t, path)
    BY <1>1 DEF GoesOn
  <2> QED BY <1>0, <1>1, <2>1, ReasonPointer DEF LandsOnSecret
<1>2. CASE t.kind # "pointer" /\ path = <<>>
  BY <1>0, <1>2, ReasonEnd DEF LandsOnSecret
<1>3. CASE t.kind # "pointer" /\ path # <<>> /\ GoesOn(t, path)
  BY <1>0, <1>3, ReasonOn DEF LandsOnSecret
<1>4. CASE t.kind # "pointer" /\ path # <<>> /\ ~GoesOn(t, path)
  BY <1>0, <1>4, ReasonStop DEF LandsOnSecret
<1> QED BY <1>1, <1>2, <1>3, <1>4

\* The kinds that a pointer leads to exist, and are one level of it at every type.
LEMMA BehindDef == \A t \in Types : Behind[t] = BehindIn(t, Behind)
<1> DEFINE V == {t.kind : t \in Types} \cup {"secret"}
           F == [Types -> V]
           G == [t \in Types |-> [behind \in F |-> BehindIn(t, behind)]]
<1>1. G \in [Types -> [F -> V]]
  <2>1. ASSUME NEW t \in Types, NEW behind \in F PROVE BehindIn(t, behind) \in V
    BY InnerTypes DEF BehindIn
  <2> QED BY <2>1
<1>2. ASSUME NEW t \in Types, NEW f, NEW g, \A u \in Types : Rank[u] < Rank[t] => f[u] = g[u]
      PROVE  BehindIn(t, f) = BehindIn(t, g)
  BY <1>2, InnerTypes DEF BehindIn
<1>3. \A t \in Types : \A f, g \in F :
         (\A u \in Types : Rank[u] < Rank[t] => f[u] = g[u]) => G[t][f] = G[t][g]
  BY <1>2
<1>4. PICK f \in F : \A t \in Types : f[t] = G[t][f]
  <2> HIDE DEF G
  <2>1. V # {}
    OBVIOUS
  <2> HIDE DEF V
  <2>2. Descends(V, G)
    BY <1>1, <1>3, <2>1 DEF Descends
  <2>3. Solvable(V, G)
    BY <2>2, Recursion, Zenon
  <2> QED BY <2>3, Zenon DEF Solvable
<1>5. f = [t \in Types |-> BehindIn(t, f)]
  BY <1>4
<1>6. Behind = [t \in Types |-> BehindIn(t, Behind)]
  <2> DEFINE Is(x) == x = [t \in Types |-> BehindIn(t, x)]
  <2>1. Behind = CHOOSE x : Is(x)
    BY DEF Behind
  <2>2. \E x : Is(x)
    BY <1>5
  <2>3. Is(CHOOSE x : Is(x))
    <3> HIDE DEF Is
    <3> QED BY <2>2
  <2> QED BY <2>1, <2>3
<1> QED BY <1>6

\* Behind its pointers, a type that is no Secret has nothing for a scalar to land
\* on, and one that is no slice nothing for what is in a list.
LEMMA BehindLands ==
    ASSUME NEW t \in Types
    PROVE  /\ Behind[t] # "secret" => ~LandsOnSecret(t, <<>>)
           /\ Behind[t] # "slice" =>
                 \A q \in Seq(Steps) : q # <<>> /\ Head(q).isIndex => ~LandsOnSecret(t, q)
<1> DEFINE NoScalar(u) == Behind[u] # "secret" => ~LandsOnSecret(u, <<>>)
           NoList(u) ==
              Behind[u] # "slice" =>
                 \A q \in Seq(Steps) : q # <<>> /\ Head(q).isIndex => ~LandsOnSecret(u, q)
           S == {u \in Types : NoScalar(u) /\ NoList(u)}
<1>1. ASSUME NEW u \in Types, \A w \in Types : Rank[w] < Rank[u] => w \in S
      PROVE  u \in S
  <2>1. CASE u.kind = "pointer"
    <3>1. u.elem \in S /\ Behind[u] = Behind[u.elem]
      BY <1>1, <2>1, InnerTypes, BehindDef DEF BehindIn
    <3>2. \A q \in Seq(Steps) : LandsOnSecret(u, q) <=> LandsOnSecret(u.elem, q)
      BY <2>1, LandsCases
    <3>3. <<>> \in Seq(Steps)
      OBVIOUS
    <3> QED BY <3>1, <3>2, <3>3
  <2>2. CASE u.kind # "pointer"
    <3>1. Behind[u] = u.kind
      BY <2>2, BehindDef DEF BehindIn
    <3>2. LandsOnSecret(u, <<>>) <=> u.kind = "secret"
      <4>1. <<>> \in Seq(Steps)
        OBVIOUS
      <4> QED BY <2>2, <4>1, LandsCases
    <3>3. ASSUME u.kind # "slice", NEW q \in Seq(Steps), q # <<>>, Head(q).isIndex
          PROVE  ~LandsOnSecret(u, q)
      BY <2>2, <3>3, LandsCases DEF GoesOn
    <3> QED BY <3>1, <3>2, <3>3
  <2> QED BY <2>1, <2>2
<1>2. Types \subseteq S
  <2> HIDE DEF S
  <2> QED BY <1>1, TypesByRank, Zenon
<1> QED BY <1>2

\* The decoder makes a Secret of the leaf at a path.
Secures(t, D, q) == \E x \in Slots[t][D] : x.path = q /\ x.kind = "secret" /\ ~x.loose

\* The check lets a path of a document through exactly when it does.
Agree(t) == \A D \in Docs : Shaped(D) => \A q \in D : LandsOnSecret(t, q) <=> Secures(t, D, q)

\* A field of a mapping.
LEMMA AgreeStruct ==
    ASSUME NEW t \in Types, \A u \in Types : Rank[u] < Rank[t] => Agree(u),
           NEW D \in Docs, Shaped(D), NEW q \in D, t.kind = "struct", IsMapping(D)
    PROVE  LandsOnSecret(t, q) <=> Secures(t, D, q)
<1> DEFINE s == Head(q)
           r == Tail(q)
<1>0. q \in Seq(Steps) /\ q # <<>>
  BY DEF IsMapping, Docs
<1>1. s \in Steps /\ r \in Seq(Steps) /\ q = <<s>> \o r /\ s.key \in Keys
  BY <1>0, Split DEF Keys
<1>2. /\ s \in Heads(D) /\ ~s.isIndex /\ r \in Below(D, s)
      /\ Below(D, s) \in Docs /\ Shaped(Below(D, s))
  BY <1>0, <1>1, HeadSteps, BelowPaths, ShapedBelow DEF IsMapping, Heads
<1>h. s = Head(q) /\ r = Tail(q)
  OBVIOUS
<1> HIDE DEF s, r
<1>3. CASE \E f \in Fields[t] : Fold(f.key) = Fold(s.key) /\ FieldByKey[t][s.key] = f.type
  <2>1. PICK f \in Fields[t] : Fold(f.key) = Fold(s.key) /\ FieldByKey[t][s.key] = f.type
    BY <1>3
  <2>2. f.type \in Types /\ Rank[f.type] < Rank[t] /\ f.type # NoField
    BY FieldTypes, TypesAssumption
  <2>3. GoesOn(t, q) /\ NextType(t, q) = f.type
    BY <1>2, <1>h, <2>1, <2>2 DEF GoesOn, NextType
  <2>4. LandsOnSecret(t, q) <=> LandsOnSecret(f.type, r)
    BY <1>0, <1>h, <2>3, LandsCases
  <2>5. LandsOnSecret(f.type, r) <=> Secures(f.type, Below(D, s), r)
    BY <1>2, <2>2 DEF Agree
  <2>6. ASSUME Secures(f.type, Below(D, s), r) PROVE Secures(t, D, q)
    <3>1. PICK y \in Slots[f.type][Below(D, s)] : y.path = r /\ y.kind = "secret" /\ ~y.loose
      BY <2>6 DEF Secures
    <3>2. <<f, s>> \in FieldSteps(t, D)
      BY <1>2, <2>1 DEF FieldSteps
    <3>3. Slot(<<s>> \o y.path, y.kind, y.loose) \in Slots[t][D]
      BY <3>1, <3>2, InStruct
    <3>4. Slot(<<s>> \o y.path, y.kind, y.loose).path = q
      <4>1. Slot(<<s>> \o y.path, y.kind, y.loose).path = <<s>> \o y.path
        BY DEF Slot
      <4> QED BY <1>1, <3>1, <4>1
    <3> QED BY <3>1, <3>3, <3>4, SlotParts DEF Secures
  <2>7. ASSUME Secures(t, D, q) PROVE Secures(f.type, Below(D, s), r)
    <3>1. PICK x \in Slots[t][D] : x.path = q /\ x.kind = "secret" /\ ~x.loose
      BY <2>7 DEF Secures
    <3>2. PICK c \in FieldSteps(t, D) : \E y \in Slots[c[1].type][Below(D, c[2])] :
             x = Slot(<<c[2]>> \o y.path, y.kind, y.loose)
      BY InStruct
    <3>3. PICK y \in Slots[c[1].type][Below(D, c[2])] :
             x = Slot(<<c[2]>> \o y.path, y.kind, y.loose)
      BY <3>2
    <3>4. /\ c[2] \in Steps /\ c[1].type \in Types /\ Below(D, c[2]) \in Docs
          /\ c[1] \in Fields[t] /\ Fold(c[2].key) = Fold(c[1].key)
      BY FieldStepTypes
    <3>5. y.path \in Seq(Steps)
      BY <3>4, PlaceTypes
    <3>6. <<c[2]>> \o y.path = <<s>> \o r
      <4>1. x.path = <<c[2]>> \o y.path
        BY <3>3 DEF Slot
      <4> QED BY <1>1, <3>1, <4>1
    <3>7. c[2] = s /\ y.path = r
      BY <1>1, <3>4, <3>5, <3>6, SamePath
    <3>8. c[1] = f
      BY <2>1, <3>4, <3>7, FieldsAssumption
    <3>9. y \in Slots[f.type][Below(D, s)]
      BY <3>3, <3>7, <3>8
    <3> QED BY <3>1, <3>3, <3>7, <3>9, SlotParts DEF Secures
  <2> QED BY <2>4, <2>5, <2>6, <2>7
<1>4. CASE FieldByKey[t][s.key] = NoField /\ \A f \in Fields[t] : Fold(f.key) # Fold(s.key)
  <2>1. ~GoesOn(t, q)
    BY <1>4, <1>h DEF GoesOn
  <2>2. ~LandsOnSecret(t, q)
    BY <1>0, <2>1, LandsCases
  <2>3. ASSUME Secures(t, D, q) PROVE FALSE
    <3>1. PICK x \in Slots[t][D] : x.path = q
      BY <2>3 DEF Secures
    <3>2. PICK c \in FieldSteps(t, D) : \E y \in Slots[c[1].type][Below(D, c[2])] :
             x = Slot(<<c[2]>> \o y.path, y.kind, y.loose)
      BY InStruct
    <3>3. PICK y \in Slots[c[1].type][Below(D, c[2])] :
             x = Slot(<<c[2]>> \o y.path, y.kind, y.loose)
      BY <3>2
    <3>4. /\ c[2] \in Steps /\ c[1].type \in Types /\ Below(D, c[2]) \in Docs
          /\ c[1] \in Fields[t] /\ Fold(c[2].key) = Fold(c[1].key)
      BY FieldStepTypes
    <3>5. y.path \in Seq(Steps)
      BY <3>4, PlaceTypes
    <3>6. <<c[2]>> \o y.path = <<s>> \o r
      <4>1. x.path = <<c[2]>> \o y.path
        BY <3>3 DEF Slot
      <4> QED BY <1>1, <3>1, <4>1
    <3>7. c[2] = s
      BY <1>1, <3>4, <3>5, <3>6, SamePath
    <3> QED BY <1>4, <3>4, <3>7
  <2> QED BY <2>2, <2>3
<1> QED BY <1>1, <1>3, <1>4, FieldFound DEF Finds

\* An element of a map or a list.
LEMMA AgreeEach ==
    ASSUME NEW t \in Types, \A u \in Types : Rank[u] < Rank[t] => Agree(u),
           NEW D \in Docs, Shaped(D), NEW q \in D, Each(t, D)
    PROVE  LandsOnSecret(t, q) <=> Secures(t, D, q)
<1> DEFINE s == Head(q)
           r == Tail(q)
<1>0. q \in Seq(Steps) /\ q # <<>>
  BY DEF IsMapping, IsList, Each, Docs
<1>1. s \in Steps /\ r \in Seq(Steps) /\ q = <<s>> \o r
  BY <1>0, Split
<1>2. /\ s \in Heads(D) /\ r \in Below(D, s)
      /\ Below(D, s) \in Docs /\ Shaped(Below(D, s))
  BY <1>0, <1>1, BelowPaths, ShapedBelow DEF Heads
<1>h. s = Head(q) /\ r = Tail(q)
  OBVIOUS
<1> HIDE DEF s, r
<1>3. GoesOn(t, q) /\ NextType(t, q) = t.elem
  BY <1>2, <1>h DEF GoesOn, NextType, Each, IsMapping, IsList
<1>4. LandsOnSecret(t, q) <=> LandsOnSecret(t.elem, r)
  BY <1>0, <1>h, <1>3, LandsCases
<1>5. t.elem \in Types /\ Rank[t.elem] < Rank[t]
  BY InEach
<1>6. LandsOnSecret(t.elem, r) <=> Secures(t.elem, Below(D, s), r)
  BY <1>2, <1>5 DEF Agree
<1>7. ASSUME Secures(t.elem, Below(D, s), r) PROVE Secures(t, D, q)
  <2>1. PICK y \in Slots[t.elem][Below(D, s)] : y.path = r /\ y.kind = "secret" /\ ~y.loose
    BY <1>7 DEF Secures
  <2>2. Slot(<<s>> \o y.path, y.kind, y.loose) \in Slots[t][D]
    BY <1>2, <2>1, InEach
  <2>3. Slot(<<s>> \o y.path, y.kind, y.loose).path = q
    <3>1. Slot(<<s>> \o y.path, y.kind, y.loose).path = <<s>> \o y.path
      BY DEF Slot
    <3> QED BY <1>1, <2>1, <3>1
  <2> QED BY <2>1, <2>2, <2>3, SlotParts DEF Secures
<1>8. ASSUME Secures(t, D, q) PROVE Secures(t.elem, Below(D, s), r)
  <2>1. PICK x \in Slots[t][D] : x.path = q /\ x.kind = "secret" /\ ~x.loose
    BY <1>8 DEF Secures
  <2>2. PICK h \in Heads(D) : \E y \in Slots[t.elem][Below(D, h)] :
           x = Slot(<<h>> \o y.path, y.kind, y.loose)
    BY InEach
  <2>3. PICK y \in Slots[t.elem][Below(D, h)] : x = Slot(<<h>> \o y.path, y.kind, y.loose)
    BY <2>2
  <2>4. h \in Steps /\ Below(D, h) \in Docs
    BY InEach
  <2>5. y.path \in Seq(Steps)
    BY <1>5, <2>4, PlaceTypes
  <2>6. <<h>> \o y.path = <<s>> \o r
    <3>1. x.path = <<h>> \o y.path
      BY <2>3 DEF Slot
    <3> QED BY <1>1, <2>1, <3>1
  <2>7. h = s /\ y.path = r
    BY <1>1, <2>4, <2>5, <2>6, SamePath
  <2>8. y \in Slots[t.elem][Below(D, s)]
    BY <2>3, <2>7
  <2> QED BY <2>1, <2>3, <2>7, <2>8, SlotParts DEF Secures
<1> QED BY <1>4, <1>6, <1>7, <1>8

\* The check says of every leaf what the decoder does with it.
THEOREM WalksAgree == \A t \in Types : Agree(t)
<1> DEFINE S == {t \in Types : Agree(t)}
<1>1. ASSUME NEW t \in Types, \A u \in Types : Rank[u] < Rank[t] => u \in S
      PROVE  Agree(t)
  <2>0. \A u \in Types : Rank[u] < Rank[t] => Agree(u)
    BY <1>1
  <2> SUFFICES ASSUME NEW D \in Docs, Shaped(D), NEW q \in D
               PROVE  LandsOnSecret(t, q) <=> Secures(t, D, q)
    BY DEF Agree
  <2> HIDE DEF S
  <2>00. q \in Seq(Steps)
    BY DEF Docs
  <2>1. CASE t.kind = "pointer"
    <3>1. /\ t.elem \in Types /\ Rank[t.elem] < Rank[t]
          /\ Slots[t][D] = Slots[t.elem][D]
      BY <2>1, InPointer
    <3>2. LandsOnSecret(t, q) <=> LandsOnSecret(t.elem, q)
      BY <2>00, <2>1, LandsCases
    <3>3. LandsOnSecret(t.elem, q) <=> Secures(t.elem, D, q)
      BY <2>0, <3>1 DEF Agree
    <3> QED BY <3>1, <3>2, <3>3 DEF Secures
  <2>2. CASE t.kind # "pointer" /\ <<>> \in D
    <3>1. q = <<>>
      BY <2>2, ShapedNode
    <3>2. LandsOnSecret(t, q) <=> t.kind = "secret"
      BY <2>00, <2>2, <3>1, LandsCases
    <3>3. Slots[t][D] = {Slot(<<>>, t.kind, FALSE)}
      BY <2>2, InLeaf
    <3> QED BY <3>1, <3>2, <3>3 DEF Secures, Slot
  <2>3. CASE t.kind = "any" /\ <<>> \notin D
    <3>1. ~LandsOnSecret(t, q)
      BY <2>00, <2>3, LandsCases DEF GoesOn
    <3>2. \A x \in Slots[t][D] : x.kind = "any"
      BY <2>3, InAny DEF Slot
    <3> QED BY <3>1, <3>2 DEF Secures
  <2>4. CASE t.kind = "struct" /\ IsMapping(D)
    BY <2>0, <2>4, AgreeStruct
  <2>5. CASE Each(t, D)
    BY <2>0, <2>5, AgreeEach
  <2>6. CASE t.kind = "slice" /\ <<>> \notin D /\ ~IsList(D)
    <3>1. q # <<>> /\ Head(q) \in Heads(D)
      BY <2>6 DEF Heads
    <3>2. ~Head(q).isIndex
      BY <2>6, <3>1, ShapedNode DEF IsList
    <3>3. ~LandsOnSecret(t, q)
      BY <2>00, <2>6, <3>1, <3>2, LandsCases DEF GoesOn
    <3>4. \A x \in Slots[t][D] : x.loose
      BY <2>6, InLoose DEF Slot
    <3> QED BY <3>3, <3>4 DEF Secures
  <2>7. CASE Fails(t, D)
    <3>1. q # <<>> /\ Head(q) \in Heads(D)
      BY <2>7 DEF Heads, Fails
    <3>2. t.kind \in {"struct", "map"} => Head(q).isIndex
      BY <2>7, <3>1, ShapedNode DEF IsMapping, Fails
    <3>3. ~LandsOnSecret(t, q)
      BY <2>00, <2>7, <3>1, <3>2, LandsCases DEF GoesOn, Fails
    <3>4. \A x \in Slots[t][D] : x.kind = "error"
      BY <2>7, InFail DEF Slot
    <3> QED BY <3>3, <3>4 DEF Secures
  <2> QED BY <2>1, <2>2, <2>3, <2>4, <2>5, <2>6, <2>7, SlotsCases
<1>2. Types \subseteq S
  <2>1. \A t \in Types : (\A u \in Types : Rank[u] < Rank[t] => u \in S) => t \in S
    BY <1>1
  <2> HIDE DEF S
  <2> QED BY <2>1, TypesByRank, Zenon
<1> QED BY <1>2

-----------------------------------------------------------------------------
(* What a dump is read as. *)

\* A path has one place.
Single(t) ==
    \A D \in Docs : \A x, z \in Slots[t][D] : x.path = z.path => x = z

\* A path has one place in a struct, if it has one in each of its fields: no two
\* fields decode the same key.
LEMMA SingleStruct ==
    ASSUME NEW t \in Types, \A u \in Types : Rank[u] < Rank[t] => Single(u),
           NEW D \in Docs, t.kind = "struct", IsMapping(D),
           NEW x \in Slots[t][D], NEW z \in Slots[t][D], x.path = z.path
    PROVE  x = z
<1>1. PICK c \in FieldSteps(t, D) : \E y \in Slots[c[1].type][Below(D, c[2])] :
         x = Slot(<<c[2]>> \o y.path, y.kind, y.loose)
  BY InStruct
<1>2. PICK y \in Slots[c[1].type][Below(D, c[2])] :
         x = Slot(<<c[2]>> \o y.path, y.kind, y.loose)
  BY <1>1
<1>3. PICK e \in FieldSteps(t, D) : \E y1 \in Slots[e[1].type][Below(D, e[2])] :
         z = Slot(<<e[2]>> \o y1.path, y1.kind, y1.loose)
  BY InStruct
<1>4. PICK w \in Slots[e[1].type][Below(D, e[2])] :
         z = Slot(<<e[2]>> \o w.path, w.kind, w.loose)
  BY <1>3
<1>5. /\ c[1] \in Fields[t] /\ c[2] \in Steps /\ Fold(c[2].key) = Fold(c[1].key)
      /\ c[1].type \in Types /\ Rank[c[1].type] < Rank[t] /\ Below(D, c[2]) \in Docs
  BY FieldStepTypes
<1>6. /\ e[1] \in Fields[t] /\ e[2] \in Steps /\ Fold(e[2].key) = Fold(e[1].key)
      /\ e[1].type \in Types /\ Below(D, e[2]) \in Docs
  BY FieldStepTypes
<1>7. y.path \in Seq(Steps) /\ w.path \in Seq(Steps)
  BY <1>5, <1>6, PlaceTypes
<1>8. x.path = <<c[2]>> \o y.path /\ z.path = <<e[2]>> \o w.path
  BY <1>2, <1>4 DEF Slot
<1>9. <<c[2]>> \o y.path = <<e[2]>> \o w.path
  BY <1>8
<1>10. c[2] = e[2] /\ y.path = w.path
  <2>1. \A s, r \in Steps, p, q \in Seq(Steps) : <<s>> \o p = <<r>> \o q => s = r /\ p = q
    BY SamePath
  <2>2. c[2] \in Steps /\ e[2] \in Steps
    BY <1>5, <1>6
  <2> DEFINE a == c[2]
             b == e[2]
             u == y.path
             v == w.path
  <2>3. a \in Steps /\ b \in Steps /\ u \in Seq(Steps) /\ v \in Seq(Steps) /\ <<a>> \o u = <<b>> \o v
    BY <2>2, <1>7, <1>9
  <2> HIDE DEF a, b, u, v
  <2>4. a = b /\ u = v
    BY <2>1, <2>3
  <2> QED BY <2>4 DEF a, b, u, v
<1>11. c[1] = e[1]
  BY <1>5, <1>6, <1>10, FieldsAssumption
<1>12. w \in Slots[c[1].type][Below(D, c[2])]
  BY <1>4, <1>10, <1>11
<1>13. y = w
  BY <1>2, <1>5, <1>10, <1>12 DEF Single
<1> QED BY <1>2, <1>4, <1>10, <1>13

\* A path has one place in a map or a list, if it has one in its elements.
LEMMA SingleEach ==
    ASSUME NEW t \in Types, \A u \in Types : Rank[u] < Rank[t] => Single(u),
           NEW D \in Docs, Each(t, D),
           NEW x \in Slots[t][D], NEW z \in Slots[t][D], x.path = z.path
    PROVE  x = z
<1>1. PICK s \in Heads(D) : \E y \in Slots[t.elem][Below(D, s)] :
         x = Slot(<<s>> \o y.path, y.kind, y.loose)
  BY InEach
<1>2. PICK y \in Slots[t.elem][Below(D, s)] : x = Slot(<<s>> \o y.path, y.kind, y.loose)
  BY <1>1
<1>3. PICK r \in Heads(D) : \E y1 \in Slots[t.elem][Below(D, r)] :
         z = Slot(<<r>> \o y1.path, y1.kind, y1.loose)
  BY InEach
<1>4. PICK w \in Slots[t.elem][Below(D, r)] : z = Slot(<<r>> \o w.path, w.kind, w.loose)
  BY <1>3
<1>5. /\ s \in Steps /\ r \in Steps /\ t.elem \in Types /\ Rank[t.elem] < Rank[t]
      /\ Below(D, s) \in Docs /\ Below(D, r) \in Docs
  BY InEach
<1>7. y.path \in Seq(Steps) /\ w.path \in Seq(Steps)
  BY <1>5, PlaceTypes
<1>8. x.path = <<s>> \o y.path /\ z.path = <<r>> \o w.path
  BY <1>2, <1>4 DEF Slot
<1>9. <<s>> \o y.path = <<r>> \o w.path
  BY <1>8
<1>10. s = r /\ y.path = w.path
  BY <1>5, <1>7, <1>9, SamePath
<1>13. y = w
  BY <1>2, <1>4, <1>5, <1>10 DEF Single
<1> QED BY <1>2, <1>4, <1>10, <1>13

\* Whatever is decoded, no path of the document is decoded into two places.
LEMMA OnePlace == \A t \in Types : Single(t)
<1> DEFINE S == {t \in Types : Single(t)}
<1>1. ASSUME NEW t \in Types, \A u \in Types : Rank[u] < Rank[t] => u \in S
      PROVE  Single(t)
  <2>0. \A u \in Types : Rank[u] < Rank[t] => Single(u)
    BY <1>1
  <2> SUFFICES ASSUME NEW D \in Docs, NEW x \in Slots[t][D], NEW z \in Slots[t][D],
                      x.path = z.path
               PROVE  x = z
    BY DEF Single
  <2> HIDE DEF S
  <2>1. CASE t.kind = "pointer"
    <3>1. /\ t.elem \in Types /\ Rank[t.elem] < Rank[t]
          /\ x \in Slots[t.elem][D] /\ z \in Slots[t.elem][D]
      BY <2>1, InPointer
    <3> QED BY <2>0, <3>1 DEF Single
  <2>2. CASE t.kind # "pointer" /\ <<>> \in D
    <3>1. Slots[t][D] = {Slot(<<>>, t.kind, FALSE)}
      BY <2>2, InLeaf
    <3> QED BY <3>1
  <2>3. CASE t.kind = "any" /\ <<>> \notin D
    <3>0. Slots[t][D] = {Slot(q, "any", FALSE) : q \in D}
      BY <2>3, InAny
    <3>1. PICK q \in D : x = Slot(q, "any", FALSE)
      BY <3>0
    <3>2. PICK r \in D : z = Slot(r, "any", FALSE)
      BY <3>0
    <3>3. x.path = q /\ z.path = r
      BY <3>1, <3>2 DEF Slot
    <3> QED BY <3>1, <3>2, <3>3
  <2>4. CASE t.kind = "struct" /\ IsMapping(D)
    BY <2>0, <2>4, SingleStruct
  <2>5. CASE Each(t, D)
    BY <2>0, <2>5, SingleEach
  <2>6. CASE t.kind = "slice" /\ <<>> \notin D /\ ~IsList(D)
    <3>1. PICK y \in Slots[t.elem][D] : x = Slot(y.path, y.kind, TRUE)
      BY <2>6, InLoose
    <3>2. PICK w \in Slots[t.elem][D] : z = Slot(w.path, w.kind, TRUE)
      BY <2>6, InLoose
    <3>3. t.elem \in Types /\ Rank[t.elem] < Rank[t]
      BY <2>6, InLoose
    <3>4. x.path = y.path /\ z.path = w.path
      BY <3>1, <3>2 DEF Slot
    <3>5. y = w
      BY <2>0, <3>3, <3>4 DEF Single
    <3> QED BY <3>1, <3>2, <3>5
  <2>7. CASE Fails(t, D)
    <3>1. Slots[t][D] = {Slot(<<>>, "error", FALSE)}
      BY <2>7, InFail
    <3> QED BY <3>1
  <2> QED BY <2>1, <2>2, <2>3, <2>4, <2>5, <2>6, <2>7, SlotsCases
<1>2. Types \subseteq S
  <2>1. \A t \in Types : (\A u \in Types : Rank[u] < Rank[t] => u \in S) => t \in S
    BY <1>1
  <2> HIDE DEF S
  <2> QED BY <2>1, TypesByRank, Zenon
<1> QED BY <1>2

\* A document of the paths that were decoded is decoded into the same places.
PathsOf(slots) == {x.path : x \in slots}
Sound(slots) == \A x \in slots : x.kind # "error"
Stable(t) ==
    \A D \in Docs : Shaped(D) /\ Sound(Slots[t][D]) =>
        Slots[t][PathsOf(Slots[t][D])] = Slots[t][D]

\* Such a document is a part of the one that was decoded.
LEMMA PartOf ==
    ASSUME NEW t \in Types, NEW D \in Docs, Sound(Slots[t][D])
    PROVE  /\ PathsOf(Slots[t][D]) \in Docs
           /\ PathsOf(Slots[t][D]) \subseteq D
<1>1. \A x \in Slots[t][D] : x.path \in D
  BY PlacePaths DEF Sound
<1> QED BY <1>1 DEF PathsOf, Docs

\* A part of a document has the shape of the whole.
LEMMA PartHeads ==
    ASSUME NEW D \in Docs, NEW E \in Docs, E \subseteq D
    PROVE  /\ Heads(E) \subseteq Heads(D)
           /\ IsMapping(D) => IsMapping(E)
           /\ IsList(D) => IsList(E)
<1>1. Heads(E) \subseteq Heads(D)
  BY DEF Heads
<1> QED BY <1>1 DEF IsMapping, IsList

\* What a struct kept of a document is decoded alike, if that holds of its fields.
LEMMA StableStruct ==
    ASSUME NEW t \in Types, \A u \in Types : Rank[u] < Rank[t] => Stable(u),
           NEW D \in Docs, Shaped(D), Sound(Slots[t][D]), t.kind = "struct", IsMapping(D)
    PROVE  Slots[t][PathsOf(Slots[t][D])] = Slots[t][D]
<1> DEFINE E == PathsOf(Slots[t][D])
<1>1. /\ E \in Docs /\ E \subseteq D /\ IsMapping(E) /\ Heads(E) \subseteq Heads(D)
      /\ \A q \in E : \E x \in Slots[t][D] : x.path = q
      /\ \A x \in Slots[t][D] : x.path \in E
  BY PartOf, PartHeads DEF PathsOf
<1> HIDE DEF E
<1>2. ASSUME NEW c \in FieldSteps(t, D)
      PROVE  Slots[c[1].type][Below(E, c[2])] = Slots[c[1].type][Below(D, c[2])]
  <2> DEFINE u == c[1].type
             s == c[2]
             F == Below(D, s)
  <2>1. /\ c[1] \in Fields[t] /\ s \in Steps /\ Fold(s.key) = Fold(c[1].key)
        /\ u \in Types /\ Rank[u] < Rank[t] /\ F \in Docs
    BY FieldStepTypes
  <2>2. \A y \in Slots[u][F] : Slot(<<s>> \o y.path, y.kind, y.loose) \in Slots[t][D]
    BY <1>2, InStruct
  <2>3. Shaped(F) /\ Below(E, s) \in Docs
    BY <1>1, <2>1, ShapedBelow, BelowPaths
  <2>u. u = c[1].type /\ s = c[2] /\ F = Below(D, s)
    OBVIOUS
  <2> HIDE DEF u, s, F
  <2>4. Sound(Slots[u][F])
    <3> SUFFICES ASSUME NEW y \in Slots[u][F] PROVE y.kind # "error"
      BY DEF Sound
    <3>1. Slot(<<s>> \o y.path, y.kind, y.loose).kind # "error"
      BY <2>2 DEF Sound
    <3> QED BY <3>1 DEF Slot
  <2>5. ASSUME NEW q \in Below(E, s) PROVE q \in PathsOf(Slots[u][F])
    <3>1. q \in Seq(Steps)
      BY <2>3 DEF Docs
    <3>2. <<s>> \o q \in E
      BY <1>1, <2>1, <3>1, BelowPaths
    <3>3. PICK x \in Slots[t][D] : x.path = <<s>> \o q
      BY <1>1, <3>2
    <3>4. PICK e \in FieldSteps(t, D) : \E y \in Slots[e[1].type][Below(D, e[2])] :
             x = Slot(<<e[2]>> \o y.path, y.kind, y.loose)
      BY InStruct
    <3>5. PICK y \in Slots[e[1].type][Below(D, e[2])] :
             x = Slot(<<e[2]>> \o y.path, y.kind, y.loose)
      BY <3>4
    <3>6. /\ e[2] \in Steps /\ e[1].type \in Types /\ Below(D, e[2]) \in Docs
          /\ e[1] \in Fields[t] /\ Fold(e[2].key) = Fold(e[1].key)
      BY FieldStepTypes
    <3>7. y.path \in Seq(Steps)
      BY <3>6, PlaceTypes
    <3>8. <<e[2]>> \o y.path = <<s>> \o q
      <4>1. x.path = <<e[2]>> \o y.path
        BY <3>5 DEF Slot
      <4> QED BY <3>3, <4>1
    <3>9. e[2] = s /\ y.path = q
      BY <2>1, <3>1, <3>6, <3>7, <3>8, SamePath
    <3>10. e[1] = c[1]
      BY <2>1, <3>6, <3>9, FieldsAssumption
    <3>11. y \in Slots[u][F]
      BY <2>u, <3>5, <3>9, <3>10
    <3> QED BY <3>9, <3>11 DEF PathsOf
  <2>6. ASSUME NEW q \in PathsOf(Slots[u][F]) PROVE q \in Below(E, s)
    <3>1. PICK y \in Slots[u][F] : y.path = q
      BY DEF PathsOf
    <3>2. q \in Seq(Steps)
      BY <2>1, <3>1, PlaceTypes
    <3>3. Slot(<<s>> \o y.path, y.kind, y.loose).path = <<s>> \o q
      <4>1. Slot(<<s>> \o y.path, y.kind, y.loose).path = <<s>> \o y.path
        BY DEF Slot
      <4> QED BY <3>1, <4>1
    <3>4. <<s>> \o q \in E
      BY <1>1, <2>2, <3>3
    <3> QED BY <1>1, <2>1, <3>2, <3>4, BelowPaths
  <2>7. Below(E, s) = PathsOf(Slots[u][F])
    BY <2>5, <2>6
  <2>8. Slots[u][PathsOf(Slots[u][F])] = Slots[u][F]
    BY <2>1, <2>3, <2>4 DEF Stable
  <2> QED BY <2>7, <2>8, <2>u
<1>3. ASSUME NEW x \in Slots[t][E] PROVE x \in Slots[t][D]
  <2>1. PICK c \in FieldSteps(t, E) : \E y \in Slots[c[1].type][Below(E, c[2])] :
           x = Slot(<<c[2]>> \o y.path, y.kind, y.loose)
    BY <1>1, InStruct
  <2>2. c \in FieldSteps(t, D)
    BY <1>1 DEF FieldSteps
  <2>3. PICK y \in Slots[c[1].type][Below(D, c[2])] :
           x = Slot(<<c[2]>> \o y.path, y.kind, y.loose)
    BY <1>2, <2>1, <2>2
  <2> QED BY <2>2, <2>3, InStruct
<1>4. ASSUME NEW x \in Slots[t][D] PROVE x \in Slots[t][E]
  <2>1. PICK c \in FieldSteps(t, D) : \E y \in Slots[c[1].type][Below(D, c[2])] :
           x = Slot(<<c[2]>> \o y.path, y.kind, y.loose)
    BY InStruct
  <2>2. PICK y \in Slots[c[1].type][Below(D, c[2])] :
           x = Slot(<<c[2]>> \o y.path, y.kind, y.loose)
    BY <2>1
  <2>3. c[2] \in Steps /\ c[1].type \in Types /\ Below(D, c[2]) \in Docs
    BY FieldStepTypes
  <2>4. y.path \in Seq(Steps)
    BY <2>3, PlaceTypes
  <2>5. <<c[2]>> \o y.path \in E
    <3>1. x.path = <<c[2]>> \o y.path
      BY <2>2 DEF Slot
    <3> QED BY <1>1, <3>1
  <2>6. c[2] \in Heads(E)
    BY <1>1, <2>3, <2>4, <2>5, HeadSteps
  <2>7. c \in FieldSteps(t, E)
    BY <2>6 DEF FieldSteps
  <2>8. y \in Slots[c[1].type][Below(E, c[2])]
    BY <1>2, <2>2
  <2> QED BY <1>1, <2>2, <2>7, <2>8, InStruct
<1>5. Slots[t][E] = Slots[t][D]
  BY <1>3, <1>4
<1> QED BY <1>5 DEF E

\* The same of a map or a list.
LEMMA StableEach ==
    ASSUME NEW t \in Types, \A u \in Types : Rank[u] < Rank[t] => Stable(u),
           NEW D \in Docs, Shaped(D), Sound(Slots[t][D]), Each(t, D)
    PROVE  Slots[t][PathsOf(Slots[t][D])] = Slots[t][D]
<1> DEFINE E == PathsOf(Slots[t][D])
<1>1. /\ E \in Docs /\ E \subseteq D /\ Each(t, E) /\ Heads(E) \subseteq Heads(D)
      /\ \A q \in E : \E x \in Slots[t][D] : x.path = q
      /\ \A x \in Slots[t][D] : x.path \in E
  BY PartOf, PartHeads DEF PathsOf, Each
<1> HIDE DEF E
<1>2. ASSUME NEW s \in Heads(D)
      PROVE  Slots[t.elem][Below(E, s)] = Slots[t.elem][Below(D, s)]
  <2> DEFINE F == Below(D, s)
  <2>1. t.elem \in Types /\ Rank[t.elem] < Rank[t] /\ s \in Steps /\ F \in Docs
    BY InEach
  <2>2. \A y \in Slots[t.elem][F] : Slot(<<s>> \o y.path, y.kind, y.loose) \in Slots[t][D]
    BY InEach
  <2>3. Shaped(F) /\ Below(E, s) \in Docs
    BY <1>1, <2>1, ShapedBelow, BelowPaths
  <2>u. F = Below(D, s)
    OBVIOUS
  <2> HIDE DEF F
  <2>4. Sound(Slots[t.elem][F])
    <3> SUFFICES ASSUME NEW y \in Slots[t.elem][F] PROVE y.kind # "error"
      BY DEF Sound
    <3>1. Slot(<<s>> \o y.path, y.kind, y.loose).kind # "error"
      BY <2>2 DEF Sound
    <3> QED BY <3>1 DEF Slot
  <2>5. ASSUME NEW q \in Below(E, s) PROVE q \in PathsOf(Slots[t.elem][F])
    <3>1. q \in Seq(Steps)
      BY <2>3 DEF Docs
    <3>2. <<s>> \o q \in E
      BY <1>1, <2>1, <3>1, BelowPaths
    <3>3. PICK x \in Slots[t][D] : x.path = <<s>> \o q
      BY <1>1, <3>2
    <3>4. PICK h \in Heads(D) : \E y \in Slots[t.elem][Below(D, h)] :
             x = Slot(<<h>> \o y.path, y.kind, y.loose)
      BY InEach
    <3>5. PICK y \in Slots[t.elem][Below(D, h)] : x = Slot(<<h>> \o y.path, y.kind, y.loose)
      BY <3>4
    <3>6. h \in Steps /\ Below(D, h) \in Docs
      BY InEach
    <3>7. y.path \in Seq(Steps)
      BY <2>1, <3>6, PlaceTypes
    <3>8. <<h>> \o y.path = <<s>> \o q
      <4>1. x.path = <<h>> \o y.path
        BY <3>5 DEF Slot
      <4> QED BY <3>3, <4>1
    <3>9. h = s /\ y.path = q
      BY <2>1, <3>1, <3>6, <3>7, <3>8, SamePath
    <3>10. y \in Slots[t.elem][F]
      BY <2>u, <3>5, <3>9
    <3> QED BY <3>9, <3>10 DEF PathsOf
  <2>6. ASSUME NEW q \in PathsOf(Slots[t.elem][F]) PROVE q \in Below(E, s)
    <3>1. PICK y \in Slots[t.elem][F] : y.path = q
      BY DEF PathsOf
    <3>2. q \in Seq(Steps)
      BY <2>1, <3>1, PlaceTypes
    <3>3. Slot(<<s>> \o y.path, y.kind, y.loose).path = <<s>> \o q
      <4>1. Slot(<<s>> \o y.path, y.kind, y.loose).path = <<s>> \o y.path
        BY DEF Slot
      <4> QED BY <3>1, <4>1
    <3>4. <<s>> \o q \in E
      BY <1>1, <2>2, <3>3
    <3> QED BY <1>1, <2>1, <3>2, <3>4, BelowPaths
  <2>7. Below(E, s) = PathsOf(Slots[t.elem][F])
    BY <2>5, <2>6
  <2>8. Slots[t.elem][PathsOf(Slots[t.elem][F])] = Slots[t.elem][F]
    BY <2>1, <2>3, <2>4 DEF Stable
  <2> QED BY <2>7, <2>8, <2>u
<1>3. ASSUME NEW x \in Slots[t][E] PROVE x \in Slots[t][D]
  <2>1. PICK s \in Heads(E) : \E y \in Slots[t.elem][Below(E, s)] :
           x = Slot(<<s>> \o y.path, y.kind, y.loose)
    BY <1>1, InEach
  <2>2. s \in Heads(D)
    BY <1>1
  <2>3. PICK y \in Slots[t.elem][Below(D, s)] : x = Slot(<<s>> \o y.path, y.kind, y.loose)
    BY <1>2, <2>1, <2>2
  <2> QED BY <2>2, <2>3, InEach
<1>4. ASSUME NEW x \in Slots[t][D] PROVE x \in Slots[t][E]
  <2>1. PICK s \in Heads(D) : \E y \in Slots[t.elem][Below(D, s)] :
           x = Slot(<<s>> \o y.path, y.kind, y.loose)
    BY InEach
  <2>2. PICK y \in Slots[t.elem][Below(D, s)] : x = Slot(<<s>> \o y.path, y.kind, y.loose)
    BY <2>1
  <2>3. s \in Steps /\ t.elem \in Types /\ Below(D, s) \in Docs
    BY InEach
  <2>4. y.path \in Seq(Steps)
    BY <2>3, PlaceTypes
  <2>5. <<s>> \o y.path \in E
    <3>1. x.path = <<s>> \o y.path
      BY <2>2 DEF Slot
    <3> QED BY <1>1, <3>1
  <2>6. s \in Heads(E)
    BY <1>1, <2>3, <2>4, <2>5, HeadSteps
  <2>8. y \in Slots[t.elem][Below(E, s)]
    BY <1>2, <2>2
  <2> QED BY <1>1, <2>2, <2>6, <2>8, InEach
<1>5. Slots[t][E] = Slots[t][D]
  BY <1>3, <1>4
<1> QED BY <1>5 DEF E

\* The same of a mapping that is taken for a list.
LEMMA StableLoose ==
    ASSUME NEW t \in Types, \A u \in Types : Rank[u] < Rank[t] => Stable(u),
           NEW D \in Docs, Shaped(D), Sound(Slots[t][D]),
           t.kind = "slice", <<>> \notin D, ~IsList(D)
    PROVE  Slots[t][PathsOf(Slots[t][D])] = Slots[t][D]
<1> DEFINE S == Slots[t.elem][D]
           E == PathsOf(Slots[t][D])
<1>1. /\ t.elem \in Types /\ Rank[t.elem] < Rank[t]
      /\ \A y \in S : Slot(y.path, y.kind, TRUE) \in Slots[t][D]
      /\ \A x \in Slots[t][D] : \E y \in S : x = Slot(y.path, y.kind, TRUE)
  BY InLoose
<1>2. E \in Docs /\ E \subseteq D
  BY PartOf
<1>3. Sound(S)
  <2> SUFFICES ASSUME NEW y \in S PROVE y.kind # "error"
    BY DEF Sound
  <2>1. Slot(y.path, y.kind, TRUE).kind # "error"
    BY <1>1 DEF Sound
  <2> QED BY <2>1 DEF Slot
<1>4. E = PathsOf(S)
  <2>1. ASSUME NEW q \in E PROVE q \in PathsOf(S)
    <3>1. PICK x \in Slots[t][D] : x.path = q
      BY DEF PathsOf
    <3>2. PICK y \in S : x = Slot(y.path, y.kind, TRUE)
      BY <1>1
    <3>3. y.path = q
      BY <3>1, <3>2 DEF Slot
    <3> QED BY <3>3 DEF PathsOf
  <2>2. ASSUME NEW q \in PathsOf(S) PROVE q \in E
    <3>1. PICK y \in S : y.path = q
      BY DEF PathsOf
    <3>2. Slot(y.path, y.kind, TRUE) \in Slots[t][D] /\ Slot(y.path, y.kind, TRUE).path = q
      BY <1>1, <3>1 DEF Slot
    <3> QED BY <3>2 DEF PathsOf
  <2> QED BY <2>1, <2>2
<1>5. Slots[t.elem][E] = S
  BY <1>1, <1>3, <1>4 DEF Stable
<1>6. CASE E = {}
  <2>1. \A x \in Slots[t][D] : x.path \in E
    BY DEF PathsOf
  <2>2. Slots[t][D] = {}
    BY <1>6, <2>1
  <2>3. Each(t, E) /\ Heads(E) = {}
    BY <1>6 DEF Each, IsList, Heads
  <2>4. \A x \in Slots[t][E] : \E s \in Heads(E) : TRUE
    BY <1>2, <2>3, InEach
  <2> HIDE DEF E
  <2>5. Slots[t][E] = {}
    BY <2>3, <2>4
  <2> QED BY <2>2, <2>5 DEF E
<1>7. CASE E # {}
  <2>1. <<>> \notin E
    BY <1>2
  <2>2. PICK q \in E : q # <<>>
    BY <1>7, <2>1
  <2>3. Head(q) \in Heads(E) /\ Head(q) \in Heads(D)
    BY <1>2, <2>2 DEF Heads
  <2>4. PICK r \in Heads(D) : ~r.isIndex
    BY DEF IsList
  <2>5. ~Head(q).isIndex
    BY <2>3, <2>4, ShapedNode
  <2>6. ~IsList(E)
    BY <2>3, <2>5 DEF IsList
  <2> HIDE DEF E
  <2>7. Slots[t][E] = Loosely(Slots[t.elem][E])
    BY <1>2, <2>1, <2>6, SlotsDef, SlotsLoose
  <2>8. Slots[t][D] = Loosely(S)
    BY SlotsDef, SlotsLoose
  <2> QED BY <1>5, <2>7, <2>8 DEF E
<1> QED BY <1>6, <1>7

\* What was decoded without an error is decoded alike from its own paths.
THEOREM DumpStable == \A t \in Types : Stable(t)
<1> DEFINE S == {t \in Types : Stable(t)}
<1>1. ASSUME NEW t \in Types, \A u \in Types : Rank[u] < Rank[t] => u \in S
      PROVE  Stable(t)
  <2>0. \A u \in Types : Rank[u] < Rank[t] => Stable(u)
    BY <1>1
  <2> SUFFICES ASSUME NEW D \in Docs, Shaped(D), Sound(Slots[t][D])
               PROVE  Slots[t][PathsOf(Slots[t][D])] = Slots[t][D]
    BY DEF Stable
  <2> HIDE DEF S
  <2> DEFINE E == PathsOf(Slots[t][D])
  <2>00. E \in Docs
    BY PartOf
  <2> HIDE DEF E
  <2>1. CASE t.kind = "pointer"
    <3>1. /\ t.elem \in Types /\ Rank[t.elem] < Rank[t]
          /\ Slots[t][D] = Slots[t.elem][D] /\ Slots[t][E] = Slots[t.elem][E]
      BY <2>00, <2>1, InPointer
    <3> QED BY <2>0, <3>1 DEF Stable, E
  <2>2. CASE t.kind # "pointer" /\ <<>> \in D
    <3>1. Slots[t][D] = {Slot(<<>>, t.kind, FALSE)}
      BY <2>2, InLeaf
    <3>2. <<>> \in E
      BY <3>1 DEF E, PathsOf, Slot
    <3>3. Slots[t][E] = {Slot(<<>>, t.kind, FALSE)}
      BY <2>00, <2>2, <3>2, InLeaf
    <3> QED BY <3>1, <3>3 DEF E
  <2>3. CASE t.kind = "any" /\ <<>> \notin D
    <3>1. Slots[t][D] = {Slot(q, "any", FALSE) : q \in D}
      BY <2>3, InAny
    <3>2. \A q \in D : Slot(q, "any", FALSE).path = q
      BY DEF Slot
    <3>3. ASSUME NEW q \in E PROVE q \in D
      <4>1. PICK x \in Slots[t][D] : x.path = q
        BY DEF E, PathsOf
      <4>2. PICK r \in D : x = Slot(r, "any", FALSE)
        BY <3>1
      <4> QED BY <3>2, <4>1, <4>2
    <3>4. ASSUME NEW q \in D PROVE q \in E
      <4>1. Slot(q, "any", FALSE) \in Slots[t][D]
        BY <3>1
      <4> QED BY <3>2, <4>1 DEF E, PathsOf
    <3>5. E = D
      BY <3>3, <3>4
    <3> QED BY <3>5 DEF E
  <2>4. CASE t.kind = "struct" /\ IsMapping(D)
    BY <2>0, <2>4, StableStruct
  <2>5. CASE Each(t, D)
    BY <2>0, <2>5, StableEach
  <2>6. CASE t.kind = "slice" /\ <<>> \notin D /\ ~IsList(D)
    BY <2>0, <2>6, StableLoose
  <2>7. CASE Fails(t, D)
    <3>1. Slots[t][D] = {Slot(<<>>, "error", FALSE)}
      BY <2>7, InFail
    <3> QED BY <3>1 DEF Sound, Slot
  <2> QED BY <2>1, <2>2, <2>3, <2>4, <2>5, <2>6, <2>7, SlotsCases
<1>2. Types \subseteq S
  <2>1. \A t \in Types : (\A u \in Types : Rank[u] < Rank[t] => u \in S) => t \in S
    BY <1>1
  <2> HIDE DEF S
  <2> QED BY <2>1, TypesByRank, Zenon
<1> QED BY <1>2

-----------------------------------------------------------------------------
(* A target. *)

\* A path in two parts.
LEMMA Joined ==
    ASSUME NEW r \in Seq(Steps), NEW q \in Seq(Steps)
    PROVE  /\ r \o q \in Seq(Steps)
           /\ Len(r \o q) = Len(r) + Len(q)
           /\ SubSeq(r \o q, 1, Len(r)) = r
           /\ SubSeq(r \o q, Len(r) + 1, Len(r \o q)) = q
<1>1. r \o q \in Seq(Steps) /\ Len(r \o q) = Len(r) + Len(q)
  OBVIOUS
<1>2. SubSeq(r \o q, 1, Len(r)) = r
  <2>1. SubSeq(r \o q, 1, Len(r)) \in Seq(Steps) /\ Len(SubSeq(r \o q, 1, Len(r))) = Len(r)
    BY <1>1, SubSeqProperties
  <2>2. \A i \in 1 .. Len(r) : SubSeq(r \o q, 1, Len(r))[i] = r[i]
    BY <1>1
  <2> QED BY <2>1, <2>2, SeqEqual
<1>3. SubSeq(r \o q, Len(r) + 1, Len(r \o q)) = q
  <2> DEFINE u == SubSeq(r \o q, Len(r) + 1, Len(r \o q))
  <2>1. u \in Seq(Steps) /\ Len(u) = Len(q)
    BY <1>1
  <2>2. \A i \in 1 .. Len(q) : u[i] = q[i]
    BY <1>1
  <2> HIDE DEF u
  <2>3. u = q
    BY <2>1, <2>2, SeqEqual
  <2> QED BY <2>3 DEF u
<1> QED BY <1>1, <1>2, <1>3

\* A path is its first n steps and the rest.
LEMMA Cut ==
    ASSUME NEW p \in Seq(Steps), NEW n \in Nat, n <= Len(p)
    PROVE  /\ SubSeq(p, 1, n) \in Seq(Steps) /\ Len(SubSeq(p, 1, n)) = n
           /\ SubSeq(p, n + 1, Len(p)) \in Seq(Steps)
           /\ Len(SubSeq(p, n + 1, Len(p))) = Len(p) - n
           /\ p = SubSeq(p, 1, n) \o SubSeq(p, n + 1, Len(p))
<1> DEFINE u == SubSeq(p, 1, n)
           v == SubSeq(p, n + 1, Len(p))
<1>1. u \in Seq(Steps) /\ Len(u) = n /\ v \in Seq(Steps) /\ Len(v) = Len(p) - n
  OBVIOUS
<1>2. \A i \in 1 .. Len(u) : u[i] = p[i]
  OBVIOUS
<1>3. \A i \in 1 .. Len(v) : v[i] = p[n + i]
  OBVIOUS
<1> HIDE DEF u, v
<1>4. u \o v \in Seq(Steps) /\ Len(u \o v) = Len(p)
  BY <1>1
<1>5. \A i \in 1 .. Len(p) : (u \o v)[i] = p[i]
  BY <1>1, <1>2, <1>3
<1>6. p = u \o v
  BY <1>4, <1>5, SeqEqual
<1> QED BY <1>1, <1>6 DEF u, v

\* Equal paths whose first parts are equally long have equal parts.
LEMMA JoinedAlike ==
    ASSUME NEW r \in Seq(Steps), NEW s \in Seq(Steps), NEW p \in Seq(Steps),
           NEW q \in Seq(Steps), Len(r) = Len(s), r \o p = s \o q
    PROVE  r = s /\ p = q
<1>1. SubSeq(r \o p, 1, Len(r)) = r /\ SubSeq(s \o q, 1, Len(s)) = s
  BY Joined
<1>2. r = s
  BY <1>1
<1>3. /\ SubSeq(r \o p, Len(r) + 1, Len(r \o p)) = p
      /\ SubSeq(s \o q, Len(s) + 1, Len(s \o q)) = q
  BY Joined
<1>4. p = q
  BY <1>3
<1> QED BY <1>2, <1>4

\* The paths below a path.
LEMMA UnderPaths ==
    ASSUME NEW D \in Docs, NEW r \in Seq(Steps)
    PROVE  /\ Under(D, r) \in Docs
           /\ \A q \in Seq(Steps) : q \in Under(D, r) <=> r \o q \in D
<1>1. ASSUME NEW q \in Under(D, r) PROVE q \in Seq(Steps) /\ r \o q \in D
  <2>1. PICK p \in D : /\ Len(p) >= Len(r) /\ SubSeq(p, 1, Len(r)) = r
                       /\ q = SubSeq(p, Len(r) + 1, Len(p))
    BY DEF Under
  <2>2. p \in Seq(Steps) /\ Len(r) \in Nat /\ Len(p) \in Nat
    BY DEF Docs
  <2> QED BY <2>1, <2>2, Cut
<1>2. ASSUME NEW q \in Seq(Steps), r \o q \in D PROVE q \in Under(D, r)
  <2>1. /\ Len(r \o q) >= Len(r) /\ SubSeq(r \o q, 1, Len(r)) = r
        /\ q = SubSeq(r \o q, Len(r) + 1, Len(r \o q))
    <3>1. Len(r) \in Nat /\ Len(q) \in Nat
      OBVIOUS
    <3> QED BY <3>1, Joined
  <2> QED BY <1>2, <2>1 DEF Under
<1> QED BY <1>1, <1>2 DEF Docs

\* What is below a path is a document.
LEMMA UnderShaped ==
    ASSUME NEW D \in Docs, Shaped(D), NEW r \in Seq(Steps)
    PROVE  Shaped(Under(D, r))
<1> SUFFICES ASSUME NEW p \in Under(D, r), NEW q \in Under(D, r), p # q
             PROVE  \E n \in 1 .. Len(p) : Parts(p, q, n)
  BY DEF Shaped
<1>1. /\ p \in Seq(Steps) /\ q \in Seq(Steps) /\ r \o p \in D /\ r \o q \in D
      /\ Len(r) \in Nat /\ Len(p) \in Nat /\ Len(q) \in Nat
  BY UnderPaths DEF Docs
<1>2. r \o p # r \o q
  BY <1>1, JoinedAlike
<1> DEFINE u == r \o p
           v == r \o q
<1>3. /\ Len(u) = Len(r) + Len(p) /\ Len(v) = Len(r) + Len(q)
      /\ \A i \in 1 .. Len(r) : u[i] = v[i]
      /\ \A i \in 1 .. Len(p) : u[Len(r) + i] = p[i]
      /\ \A i \in 1 .. Len(q) : v[Len(r) + i] = q[i]
  BY <1>1
<1>4. PICK n \in 1 .. Len(u) : Parts(u, v, n)
  BY <1>1, <1>2 DEF Shaped
<1> HIDE DEF u, v
<1>5. n \in Nat /\ n > Len(r) /\ n <= Len(r) + Len(p) /\ n <= Len(r) + Len(q)
  BY <1>1, <1>3, <1>4 DEF Parts
<1>6. PICK m \in 1 .. Len(p) : n = Len(r) + m /\ m \in 1 .. Len(q)
  <2>1. n - Len(r) \in 1 .. Len(p) /\ n - Len(r) \in 1 .. Len(q) /\ n = Len(r) + (n - Len(r))
    BY <1>1, <1>5
  <2> QED BY <2>1
<1>7. \A i \in 1 .. m - 1 : p[i] = q[i]
  <2> SUFFICES ASSUME NEW i \in 1 .. m - 1 PROVE p[i] = q[i]
    OBVIOUS
  <2>1. i \in 1 .. Len(p) /\ i \in 1 .. Len(q) /\ Len(r) + i \in 1 .. n - 1
    BY <1>1, <1>6
  <2> QED BY <1>3, <1>4, <2>1 DEF Parts
<1>8. u[n] = p[m] /\ v[n] = q[m]
  BY <1>3, <1>6
<1>9. Parts(p, q, m)
  BY <1>1, <1>4, <1>6, <1>7, <1>8 DEF Parts
<1> QED BY <1>9

\* What a place makes of a value.
LEMMA FitsParts ==
    ASSUME NEW s, NEW p, NEW d
    PROVE  /\ Fits(s, p, d).path = p
           /\ Fits(s, p, d).kind \in {"secret", "string", "any", "error"}
           /\ Fits(s, p, d).kind # "error" => s.kind = Fits(s, p, d).kind
BY DEF Fits, Landed

\* The decode hook passes a Secret on as it is, and nothing else takes it
\* (secret.go:159-188).
LEMMA FitsSecret ==
    ASSUME NEW s, NEW p, NEW d, d[p].form = "secret"
    PROVE  /\ s.kind = "secret" => Fits(s, p, d) = Landed(p, "secret", d[p], s.loose)
           /\ Fits(s, p, d).kind = "secret" <=> s.kind = "secret"
           /\ s.kind = "secret" => (Fits(s, p, d).loose <=> s.loose)
<1>1. Decodable(d[p]) /\ DecodeSecret(d[p]) = d[p]
  BY DEF Decodable, DecodeSecret
<1>2. s.kind = "secret" => Fits(s, p, d) = Landed(p, "secret", d[p], s.loose)
  BY <1>1 DEF Fits
<1>3. Landed(p, "secret", d[p], s.loose).loose = s.loose
      /\ Landed(p, "secret", d[p], s.loose).kind = "secret"
  BY DEF Landed
<1>4. Fits(s, p, d).kind = "secret" => s.kind = "secret"
  BY FitsParts
<1> QED BY <1>2, <1>3, <1>4

\* What has a name after decoding had it before: no string becomes a named Secret.
LEMMA FitsNamed ==
    ASSUME NEW s, NEW p, NEW d, Fits(s, p, d).kind # "error",
           Fits(s, p, d).value.form = "secret", Fits(s, p, d).value.ref # NoName
    PROVE  Fits(s, p, d).value = d[p]
<1>1. CASE s.kind = "secret" /\ Decodable(d[p])
  <2>1. Fits(s, p, d).value = DecodeSecret(d[p])
    BY <1>1 DEF Fits, Landed
  <2>2. d[p].form = "secret"
    BY <2>1 DEF DecodeSecret, NewSecret, Secret
  <2> QED BY <2>1, <2>2 DEF DecodeSecret
<1>2. CASE ~(s.kind = "secret" /\ Decodable(d[p]))
  BY <1>2 DEF Fits, Landed
<1> QED BY <1>1, <1>2

\* Where the documents of a Struct begin.
Roots(t, D) ==
    {r \in {SubSeq(p, 1, Len(t.path)) : p \in {q \in D : Covers(t, q)}} :
        IsMapping(Under(D, r))}

\* What is no mapping is, behind every path that is not empty, a list.
LEMMA ListHeads ==
    ASSUME NEW D \in Docs, Shaped(D), ~IsMapping(D), NEW q \in D, q # <<>>
    PROVE  Head(q).isIndex
<1>1. <<>> \notin D
  BY ShapedNode
<1>2. PICK s \in Heads(D) : s.isIndex
  BY <1>1 DEF IsMapping
<1>3. Head(q) \in Heads(D)
  BY DEF Heads
<1> QED BY <1>2, <1>3, ShapedNode

\* The documents of a Struct begin at paths as long as its own.
LEMMA RootPaths ==
    ASSUME NEW t, Registered(t), NEW D \in Docs
    PROVE  /\ Len(t.path) \in Nat
           /\ \A r \in Roots(t, D) : /\ r \in Seq(Steps) /\ Len(r) = Len(t.path)
                                     /\ \E q \in Seq(Steps) : q # <<>> /\ r \o q \in D
<1>1. Len(t.path) \in Nat
  BY DEF Registered
<1>2. ASSUME NEW r \in Roots(t, D)
      PROVE  /\ r \in Seq(Steps) /\ Len(r) = Len(t.path)
             /\ \E q \in Seq(Steps) : q # <<>> /\ r \o q \in D
  <2>1. PICK p \in D : Covers(t, p) /\ r = SubSeq(p, 1, Len(t.path))
    BY DEF Roots
  <2>2. /\ p \in Seq(Steps) /\ Len(p) \in Nat /\ Len(p) >= Len(t.path)
        /\ IsMapping(Under(D, r))
    BY <2>1 DEF Docs, Covers, Roots
  <2> DEFINE q == SubSeq(p, Len(t.path) + 1, Len(p))
  <2>3. /\ r \in Seq(Steps) /\ Len(r) = Len(t.path) /\ p = r \o q
        /\ q \in Seq(Steps)
    <3> DEFINE n == Len(t.path)
    <3>1. n \in Nat /\ n <= Len(p)
      BY <1>1, <2>2
    <3>2. r = SubSeq(p, 1, n) /\ q = SubSeq(p, n + 1, Len(p))
      BY <2>1
    <3> HIDE DEF n, q
    <3>3. /\ r \in Seq(Steps) /\ Len(r) = n /\ p = r \o q
          /\ q \in Seq(Steps)
      BY <2>2, <3>1, <3>2, Cut
    <3> QED BY <3>3 DEF n
  <2> HIDE DEF q
  <2>4. q # <<>>
    <3>1. q \in Under(D, r)
      BY <2>3, UnderPaths
    <3> QED BY <2>2, <3>1 DEF IsMapping
  <2> QED BY <2>1, <2>3, <2>4
<1> QED BY <1>1, <1>2

\* The leaves of a Struct are those of the places in its type.
LEMMA StructLeaves ==
    ASSUME NEW t, NEW d, t.kind = "struct"
    PROVE  /\ \A r \in Roots(t, DOMAIN d) : \A s \in Slots[t.type][Under(DOMAIN d, r)] :
                 Fits(s, r \o s.path, d) \in RecomputeTarget(t, d)
           /\ \A l \in RecomputeTarget(t, d) : \E r \in Roots(t, DOMAIN d) :
                 \E s \in Slots[t.type][Under(DOMAIN d, r)] : l = Fits(s, r \o s.path, d)
<1>1. RecomputeTarget(t, d) =
         UNION {{Fits(s, r \o s.path, d) : s \in Slots[t.type][Under(DOMAIN d, r)]} :
                   r \in Roots(t, DOMAIN d)}
  BY Zenon DEF RecomputeTarget, Roots
<1> QED BY <1>1

\* The leaf of a Key is what Viper gets at its path.
LEMMA KeyLeaves ==
    ASSUME NEW t, NEW d, t.kind = "key"
    PROVE  /\ \A p \in DOMAIN d : Covers(t, p) /\ Len(p) = Len(t.path) =>
                 ViperGet(t.type.kind, p, d[p]) \in RecomputeTarget(t, d)
           /\ \A l \in RecomputeTarget(t, d) : \E p \in DOMAIN d :
                 /\ Covers(t, p) /\ Len(p) = Len(t.path)
                 /\ l = ViperGet(t.type.kind, p, d[p])
BY DEF RecomputeTarget

\* A path that a target covers, in two parts.
LEMMA InsidePath ==
    ASSUME NEW t, Registered(t), NEW p \in Seq(Steps), Covers(t, p)
    PROVE  /\ Inside(t, p) \in Seq(Steps)
           /\ SubSeq(p, 1, Len(t.path)) \in Seq(Steps)
           /\ Len(SubSeq(p, 1, Len(t.path))) = Len(t.path)
           /\ p = SubSeq(p, 1, Len(t.path)) \o Inside(t, p)
           /\ Len(t.path) \in Nat /\ Len(p) \in Nat /\ Len(p) >= Len(t.path)
           /\ Inside(t, p) = <<>> <=> Len(p) = Len(t.path)
<1>1. Len(t.path) \in Nat /\ Len(p) \in Nat /\ Len(p) >= Len(t.path)
  BY DEF Registered, Covers
<1>2. /\ Inside(t, p) \in Seq(Steps) /\ Len(Inside(t, p)) = Len(p) - Len(t.path)
      /\ SubSeq(p, 1, Len(t.path)) \in Seq(Steps)
      /\ Len(SubSeq(p, 1, Len(t.path))) = Len(t.path)
      /\ p = SubSeq(p, 1, Len(t.path)) \o Inside(t, p)
  BY <1>1, Cut DEF Inside
<1>3. Inside(t, p) = <<>> <=> Len(Inside(t, p)) = 0
  BY <1>2
<1> QED BY <1>1, <1>2, <1>3

\* What the check says of a path that a Struct covers is what the places of its
\* document say.
SecuredAt(t, D, p) ==
    \E r \in Roots(t, D) : \E s \in Slots[t.type][Under(D, r)] :
        r \o s.path = p /\ s.kind = "secret" /\ ~s.loose

\* For a Struct, the walk of the check accepts a path exactly when the decoder has
\* a place for a Secret there (secretref.go:259-316, derived.go:178-204).
LEMMA StructLands ==
    ASSUME NEW t, Registered(t), t.kind = "struct", NEW D \in Docs, Shaped(D),
           NEW p \in D, Covers(t, p)
    PROVE  LandsOnSecret(t.type, Inside(t, p)) <=> SecuredAt(t, D, p)
<1> DEFINE b == SubSeq(p, 1, Len(t.path))
           i == Inside(t, p)
<1>1. /\ p \in Seq(Steps) /\ i \in Seq(Steps) /\ b \in Seq(Steps) /\ p = b \o i
      /\ Len(b) = Len(t.path) /\ Len(t.path) \in Nat
      /\ i = <<>> <=> Len(p) = Len(t.path)
      /\ Len(p) \in Nat /\ Len(p) >= Len(t.path)
      /\ t.type \in Types /\ Behind[t.type] \notin {"secret", "slice"}
  BY InsidePath DEF Docs, Registered
<1>2. IsMapping(Under(D, b)) <=> b \in Roots(t, D)
  BY DEF Roots
<1> HIDE DEF b, i
<1>n. /\ ~LandsOnSecret(t.type, <<>>)
      /\ \A q \in Seq(Steps) : q # <<>> /\ Head(q).isIndex => ~LandsOnSecret(t.type, q)
  BY <1>1, BehindLands
<1>3. ASSUME NEW r \in Roots(t, D), NEW s \in Slots[t.type][Under(D, r)], r \o s.path = p
      PROVE  r = b /\ s.path = i /\ i # <<>>
  <2>1. r \in Seq(Steps) /\ Len(r) = Len(t.path) /\ Under(D, r) \in Docs
    BY RootPaths, UnderPaths
  <2>2. s.path \in Seq(Steps)
    BY <1>1, <2>1, PlaceTypes
  <2>3. r = b /\ s.path = i
    <3> DEFINE u == s.path
    <3>1. u \in Seq(Steps) /\ r \o u = b \o i
      BY <1>1, <1>3, <2>2
    <3> HIDE DEF u
    <3>2. /\ r \in Seq(Steps) /\ b \in Seq(Steps) /\ u \in Seq(Steps)
          /\ i \in Seq(Steps) /\ Len(r) = Len(b) /\ r \o u = b \o i
      BY <1>1, <2>1, <3>1
    <3>3. r = b /\ u = i
      BY ONLY <3>2, JoinedAlike
    <3> QED BY <3>3 DEF u
  <2>4. i # <<>>
    <3> SUFFICES ASSUME i = <<>> PROVE FALSE
      OBVIOUS
    <3>1. PICK q \in Seq(Steps) : q # <<>> /\ r \o q \in D
      BY RootPaths
    <3>2. Shaped(Under(D, r)) /\ q \in Under(D, r) /\ i \in Under(D, r)
      BY <1>1, <2>1, <2>3, <3>1, UnderPaths, UnderShaped
    <3> QED BY <2>1, <3>1, <3>2, ShapedNode
  <2> QED BY <2>3, <2>4
<1>4. CASE i = <<>>
  BY <1>n, <1>3, <1>4 DEF i, SecuredAt
<1>6. CASE i # <<>> /\ ~IsMapping(Under(D, b))
  <2>1. /\ Under(D, b) \in Docs /\ Shaped(Under(D, b)) /\ i \in Under(D, b)
    BY <1>1, UnderPaths, UnderShaped
  <2>2. Head(i).isIndex
    BY <1>6, <2>1, ListHeads
  <2>3. ~LandsOnSecret(t.type, i)
    BY <1>n, <1>1, <1>6, <2>2
  <2>4. ~SecuredAt(t, D, p)
    BY <1>2, <1>3, <1>6 DEF SecuredAt
  <2> QED BY <2>3, <2>4 DEF i
<1>5. CASE i # <<>> /\ IsMapping(Under(D, b))
  <2>1. /\ Under(D, b) \in Docs /\ Shaped(Under(D, b)) /\ i \in Under(D, b)
    BY <1>1, UnderPaths, UnderShaped
  <2>2. LandsOnSecret(t.type, i) <=> Secures(t.type, Under(D, b), i)
    BY <1>1, <2>1, WalksAgree DEF Agree
  <2>3. ASSUME Secures(t.type, Under(D, b), i)
        PROVE  SecuredAt(t, D, p)
    <3>1. PICK s \in Slots[t.type][Under(D, b)] :
             s.path = i /\ s.kind = "secret" /\ ~s.loose
      BY <2>3 DEF Secures
    <3> QED BY <1>1, <1>2, <1>5, <3>1 DEF SecuredAt
  <2>4. ASSUME SecuredAt(t, D, p) PROVE Secures(t.type, Under(D, b), i)
    <3>1. PICK r \in Roots(t, D) : \E s \in Slots[t.type][Under(D, r)] :
             r \o s.path = p /\ s.kind = "secret" /\ ~s.loose
      BY <2>4 DEF SecuredAt
    <3> QED BY <1>3, <3>1 DEF Secures
  <2> QED BY <2>2, <2>3, <2>4 DEF i
<1> QED BY <1>4, <1>5, <1>6

\* A Secret at a path that a target covers becomes a Secret of the target, and
\* arrives unchanged, exactly when the check lets its reference through.
LandedAt(t, d, p) ==
    \E l \in RecomputeTarget(t, d) : l.path = p /\ l.kind = "secret" /\ ~l.loose
ReadAt(t, d, p) ==
    \E l \in RecomputeTarget(t, d) : l.kind # "error" /\ l.path = p /\ l.value = d[p]

\* A Key reads a Secret alike in the check and in the decoder.
LEMMA KeyReads ==
    ASSUME NEW t, Registered(t), t.kind = "key", NEW d, DOMAIN d \in Docs,
           NEW p \in DOMAIN d, Covers(t, p), d[p].form = "secret"
    PROVE  /\ LandsOnSecret(t.type, Inside(t, p)) <=> LandedAt(t, d, p)
           /\ LandsOnSecret(t.type, Inside(t, p)) => ReadAt(t, d, p)
<1> DEFINE i == Inside(t, p)
           k == t.type.kind
<1>1. /\ p \in Seq(Steps) /\ i \in Seq(Steps)
      /\ i = <<>> <=> Len(p) = Len(t.path)
      /\ t.type \in Types /\ k \in {"secret", "string", "any"}
  BY InsidePath DEF Docs, Registered
<1> HIDE DEF i
<1>2. LandsOnSecret(t.type, i) <=> i = <<>> /\ k = "secret"
  <2>1. CASE i = <<>>
    BY <1>1, <2>1, LandsCases
  <2>2. CASE i # <<>>
    BY <1>1, <2>2, LandsCases DEF GoesOn
  <2> QED BY <2>1, <2>2
<1>3. \A l \in RecomputeTarget(t, d) : l.kind = k /\ Len(l.path) = Len(t.path)
  <2> SUFFICES ASSUME NEW l \in RecomputeTarget(t, d)
               PROVE  l.kind = k /\ Len(l.path) = Len(t.path)
    OBVIOUS
  <2>1. PICK q \in DOMAIN d : Len(q) = Len(t.path) /\ l = ViperGet(k, q, d[q])
    BY KeyLeaves
  <2> QED BY <1>1, <2>1 DEF ViperGet, Landed
<1>4. ASSUME i = <<>>, k = "secret"
      PROVE  LandedAt(t, d, p) /\ ReadAt(t, d, p)
  <2>1. ViperGet(k, p, d[p]) \in RecomputeTarget(t, d)
    BY <1>1, <1>4, KeyLeaves
  <2>2. ViperGet(k, p, d[p]) = Landed(p, "secret", d[p], FALSE)
    BY <1>4 DEF ViperGet
  <2>3. Landed(p, "secret", d[p], FALSE) \in RecomputeTarget(t, d)
    BY <2>1, <2>2
  <2> QED BY <2>3 DEF Landed, LandedAt, ReadAt
<1>5. LandedAt(t, d, p) => i = <<>> /\ k = "secret"
  BY <1>1, <1>3 DEF LandedAt
<1> QED BY <1>2, <1>4, <1>5 DEF i

\* So does a Struct.
LEMMA StructReads ==
    ASSUME NEW t, Registered(t), t.kind = "struct", NEW d, DOMAIN d \in Docs,
           Shaped(DOMAIN d), NEW p \in DOMAIN d, Covers(t, p), d[p].form = "secret"
    PROVE  /\ LandsOnSecret(t.type, Inside(t, p)) <=> LandedAt(t, d, p)
           /\ LandsOnSecret(t.type, Inside(t, p)) => ReadAt(t, d, p)
<1> DEFINE D == DOMAIN d
<1>0. D \in Docs /\ Shaped(D) /\ p \in D /\ D = DOMAIN d
  OBVIOUS
<1> HIDE DEF D
<1>1. LandsOnSecret(t.type, Inside(t, p)) <=> SecuredAt(t, D, p)
  BY <1>0, StructLands
<1>2. ASSUME SecuredAt(t, D, p)
      PROVE  LandedAt(t, d, p) /\ ReadAt(t, d, p)
  <2>p. PICK r \in Roots(t, D) : \E s \in Slots[t.type][Under(D, r)] :
           r \o s.path = p /\ s.kind = "secret" /\ ~s.loose
    BY <1>2 DEF SecuredAt
  <2>s. PICK s \in Slots[t.type][Under(D, r)] :
           r \o s.path = p /\ s.kind = "secret" /\ ~s.loose
    BY <2>p
  <2>1. Fits(s, p, d) \in RecomputeTarget(t, d)
    BY <1>0, <2>s, StructLeaves
  <2>2. /\ Fits(s, p, d).path = p /\ Fits(s, p, d).kind = "secret" /\ ~Fits(s, p, d).loose
    BY <2>s, FitsParts, FitsSecret
  <2>3. Fits(s, p, d).value = d[p]
    BY <2>s, FitsSecret DEF Landed
  <2> QED BY <2>1, <2>2, <2>3 DEF LandedAt, ReadAt
<1>3. ASSUME LandedAt(t, d, p)
      PROVE  SecuredAt(t, D, p)
  <2>1. PICK l \in RecomputeTarget(t, d) : l.path = p /\ l.kind = "secret" /\ ~l.loose
    BY <1>3 DEF LandedAt
  <2>2. PICK r \in Roots(t, D) :
           \E s \in Slots[t.type][Under(D, r)] : l = Fits(s, r \o s.path, d)
    BY <1>0, StructLeaves
  <2>3. PICK s \in Slots[t.type][Under(D, r)] : l = Fits(s, r \o s.path, d)
    BY <2>2
  <2>4. r \o s.path = p
    BY <2>1, <2>3, FitsParts
  <2>5. l = Fits(s, p, d)
    BY <2>3, <2>4
  <2>6. s.kind = "secret" /\ ~s.loose
    BY <2>1, <2>5, FitsSecret
  <2> QED BY <2>4, <2>6 DEF SecuredAt
<1> QED BY <1>1, <1>2, <1>3

\* So does every target that can be registered.
LEMMA TargetReads ==
    ASSUME NEW t, Registered(t), NEW d, DOMAIN d \in Docs, Shaped(DOMAIN d),
           NEW p \in DOMAIN d, Covers(t, p), d[p].form = "secret"
    PROVE  /\ LandsOnSecret(t.type, Inside(t, p)) <=> LandedAt(t, d, p)
           /\ LandsOnSecret(t.type, Inside(t, p)) => ReadAt(t, d, p)
BY KeyReads, StructReads DEF Registered

\* A named Secret in a target is the one of the document.
LEMMA NamedReads ==
    ASSUME NEW t, Registered(t), NEW d, DOMAIN d \in Docs, NEW l \in RecomputeTarget(t, d),
           l.kind # "error", l.value.form = "secret", l.value.ref # NoName
    PROVE  l.path \in DOMAIN d /\ l.value = d[l.path]
<1>1. CASE t.kind = "key"
  <2>1. PICK p \in DOMAIN d : l = ViperGet(t.type.kind, p, d[p])
    BY <1>1, KeyLeaves
  <2> QED BY <2>1 DEF Registered, ViperGet, Landed, NewSecret, Secret, Printed, Str
<1>2. CASE t.kind = "struct"
  <2>1. PICK r \in Roots(t, DOMAIN d) :
           \E s \in Slots[t.type][Under(DOMAIN d, r)] : l = Fits(s, r \o s.path, d)
    BY <1>2, StructLeaves
  <2>2. PICK s \in Slots[t.type][Under(DOMAIN d, r)] : l = Fits(s, r \o s.path, d)
    BY <2>1
  <2>3. s.kind # "error" /\ l.path = r \o s.path /\ l.value = d[r \o s.path]
    <3> DEFINE q == r \o s.path
    <3>1. l = Fits(s, q, d)
      BY <2>2
    <3> HIDE DEF q
    <3>2. s.kind # "error" /\ l.path = q
      BY <3>1, FitsParts
    <3>3. l.value = d[q]
      BY <3>1, FitsNamed
    <3> QED BY <3>2, <3>3 DEF q
  <2>4. r \in Seq(Steps) /\ Under(DOMAIN d, r) \in Docs /\ t.type \in Types
    BY RootPaths, UnderPaths DEF Registered
  <2>5. s.path \in Under(DOMAIN d, r) /\ s.path \in Seq(Steps)
    BY <2>3, <2>4, PlacePaths, PlaceTypes
  <2> QED BY <2>3, <2>4, <2>5, UnderPaths
<1> QED BY <1>1, <1>2 DEF Registered

\* A leaf that is no error is at a path of the document.
LEMMA LeafPaths ==
    ASSUME NEW t, Registered(t), NEW d, DOMAIN d \in Docs, NEW l \in RecomputeTarget(t, d),
           l.kind # "error"
    PROVE  l.path \in DOMAIN d
<1>1. CASE t.kind = "key"
  <2>1. PICK p \in DOMAIN d : l = ViperGet(t.type.kind, p, d[p])
    BY <1>1, KeyLeaves
  <2>2. l.path = p
    BY <2>1 DEF ViperGet, Landed
  <2> QED BY <2>2
<1>2. CASE t.kind = "struct"
  <2>1. PICK r \in Roots(t, DOMAIN d) :
           \E s \in Slots[t.type][Under(DOMAIN d, r)] : l = Fits(s, r \o s.path, d)
    BY <1>2, StructLeaves
  <2>2. PICK s \in Slots[t.type][Under(DOMAIN d, r)] : l = Fits(s, r \o s.path, d)
    BY <2>1
  <2>3. s.kind # "error" /\ l.path = r \o s.path
    <3> DEFINE q == r \o s.path
    <3>1. l = Fits(s, q, d)
      BY <2>2
    <3> HIDE DEF q
    <3>2. s.kind # "error" /\ l.path = q
      BY <3>1, FitsParts
    <3> QED BY <3>2 DEF q
  <2>4. r \in Seq(Steps) /\ Under(DOMAIN d, r) \in Docs /\ t.type \in Types
    BY RootPaths, UnderPaths DEF Registered
  <2>5. s.path \in Under(DOMAIN d, r) /\ s.path \in Seq(Steps)
    BY <2>3, <2>4, PlacePaths, PlaceTypes
  <2> QED BY <2>3, <2>4, <2>5, UnderPaths
<1> QED BY <1>1, <1>2 DEF Registered

\* A Struct of the whole document.
IsLoad(t) == Registered(t) /\ t.kind = "struct" /\ t.path = <<>>

\* A Load decodes the whole document, if there is anything in it.
LEMMA LoadLeaves ==
    ASSUME NEW t, IsLoad(t), NEW d, DOMAIN d \in Docs, IsMapping(DOMAIN d)
    PROVE  /\ DOMAIN d # {} =>
                 RecomputeTarget(t, d) = {Fits(s, s.path, d) : s \in Slots[t.type][DOMAIN d]}
           /\ DOMAIN d = {} => RecomputeTarget(t, d) = {}
<1> DEFINE D == DOMAIN d
<1>1. Registered(t) /\ t.kind = "struct" /\ Len(t.path) = 0 /\ t.type \in Types
  BY DEF IsLoad, Registered
<1>2. \A q \in D : q \in Seq(Steps) /\ Covers(t, q)
  <2> SUFFICES ASSUME NEW q \in D
               PROVE  q \in Seq(Steps) /\ Covers(t, q)
    OBVIOUS
  <2>1. q \in Seq(Steps) /\ Len(q) \in Nat /\ DOMAIN t.path = {}
    BY DEF Docs, IsLoad
  <2> QED BY <1>1, <2>1 DEF Covers
<1>3. \A q \in D : SubSeq(q, 1, Len(t.path)) = <<>>
  BY <1>1, <1>2
<1>4. CASE D = {}
  <2>1. Roots(t, D) = {}
    BY <1>4 DEF Roots
  <2>2. \A l \in RecomputeTarget(t, d) : \E r \in Roots(t, D) : TRUE
    BY <1>1, StructLeaves
  <2> QED BY <1>4, <2>1, <2>2
<1>5. CASE D # {}
  <2>2. Under(D, <<>>) = D
    <3>1. \A q \in Seq(Steps) : <<>> \o q = q
      OBVIOUS
    <3>2. <<>> \in Seq(Steps)
      OBVIOUS
    <3>3. ASSUME NEW q \in Seq(Steps) PROVE q \in Under(D, <<>>) <=> q \in D
      <4>1. q \in Under(D, <<>>) <=> <<>> \o q \in D
        BY <3>2, UnderPaths
      <4> QED BY <3>1, <4>1
    <3>4. Under(D, <<>>) \in Docs
      BY <3>2, UnderPaths
    <3> QED BY <1>2, <3>3, <3>4 DEF Docs
  <2>1. Roots(t, D) = {<<>>}
    <3>1. PICK p \in D : TRUE
      BY <1>5
    <3>2. SubSeq(p, 1, Len(t.path)) = <<>> /\ Covers(t, p)
      BY <1>2, <1>3
    <3>3. <<>> \in Roots(t, D)
      BY <2>2, <3>2 DEF Roots
    <3>4. \A r \in Roots(t, D) : r = <<>>
      BY <1>3 DEF Roots
    <3> QED BY <3>3, <3>4
  <2>3. \A s \in Slots[t.type][D] : <<>> \o s.path = s.path
    BY <1>1, PlaceTypes
  <2>4. ASSUME NEW l \in RecomputeTarget(t, d)
        PROVE  \E s \in Slots[t.type][D] : l = Fits(s, s.path, d)
    <3>1. PICK r \in Roots(t, D) :
             \E s \in Slots[t.type][Under(D, r)] : l = Fits(s, r \o s.path, d)
      BY <1>1, StructLeaves
    <3>2. PICK s \in Slots[t.type][Under(D, r)] : l = Fits(s, r \o s.path, d)
      BY <3>1
    <3>3. r = <<>> /\ s \in Slots[t.type][D]
      BY <2>1, <2>2, <3>1, <3>2
    <3>4. r \o s.path = s.path
      BY <2>3, <3>3
    <3>5. l = Fits(s, s.path, d)
      BY <3>2, <3>4
    <3> QED BY <3>3, <3>5
  <2>5. ASSUME NEW s \in Slots[t.type][D]
        PROVE  Fits(s, s.path, d) \in RecomputeTarget(t, d)
    <3>1. Fits(s, <<>> \o s.path, d) \in RecomputeTarget(t, d)
      BY <1>1, <2>1, <2>2, StructLeaves
    <3> QED BY <2>3, <3>1
  <2>6. RecomputeTarget(t, d) = {Fits(s, s.path, d) : s \in Slots[t.type][D]}
    BY <2>4, <2>5
  <2> QED BY <1>5, <2>6
<1> QED BY <1>4, <1>5

\* The leaves of a Struct of the whole document, when none is an error: each is
\* what its place makes of the scalar at its path, and no two are at one path.
LEMMA CleanLoad ==
    ASSUME NEW t, IsLoad(t), NEW d, DOMAIN d \in Docs, Shaped(DOMAIN d), IsMapping(DOMAIN d),
           DOMAIN d # {}, \A l \in RecomputeTarget(t, d) : l.kind # "error"
    PROVE  /\ Sound(Slots[t.type][DOMAIN d])
           /\ \A s \in Slots[t.type][DOMAIN d] : /\ Fits(s, s.path, d) \in RecomputeTarget(t, d)
                                                /\ Fits(s, s.path, d).kind = s.kind
           /\ \A l \in RecomputeTarget(t, d) : \E s \in Slots[t.type][DOMAIN d] :
                 l = Fits(s, s.path, d) /\ s.path = l.path /\ s.kind = l.kind
           /\ \A l, m \in RecomputeTarget(t, d) : l.path = m.path => l = m
           /\ {l.path : l \in RecomputeTarget(t, d)} = PathsOf(Slots[t.type][DOMAIN d])
<1> DEFINE S == Slots[t.type][DOMAIN d]
           C == RecomputeTarget(t, d)
<1>1. C = {Fits(s, s.path, d) : s \in S} /\ t.type \in Types
  BY LoadLeaves DEF IsLoad, Registered
<1>2. \A x, z \in S : x.path = z.path => x = z
  BY <1>1, OnePlace DEF Single
<1>3. \A l \in C : l.kind # "error"
  OBVIOUS
<1> HIDE DEF S, C
<1>4. ASSUME NEW s \in S
      PROVE  /\ Fits(s, s.path, d) \in C /\ Fits(s, s.path, d).kind = s.kind
             /\ Fits(s, s.path, d).path = s.path /\ s.kind # "error"
  <2>1. Fits(s, s.path, d) \in C
    BY <1>1
  <2>2. Fits(s, s.path, d).kind # "error"
    BY <1>3, <2>1
  <2> DEFINE q == s.path
  <2>3. Fits(s, q, d).kind # "error"
    BY <2>2
  <2> HIDE DEF q
  <2>4. Fits(s, q, d).kind = s.kind /\ Fits(s, q, d).path = q
    BY <2>3, FitsParts
  <2> QED BY <2>1, <2>3, <2>4 DEF q
<1>5. ASSUME NEW l \in C
      PROVE  \E s \in S : l = Fits(s, s.path, d) /\ s.path = l.path /\ s.kind = l.kind
  <2>1. PICK s \in S : l = Fits(s, s.path, d)
    BY <1>1
  <2> QED BY <1>4, <2>1
<1>6. ASSUME NEW l \in C, NEW m \in C, l.path = m.path PROVE l = m
  <2>1. PICK s \in S : l = Fits(s, s.path, d) /\ s.path = l.path
    BY <1>5
  <2>2. PICK r \in S : m = Fits(r, r.path, d) /\ r.path = m.path
    BY <1>5
  <2>3. s = r
    BY <1>2, <1>6, <2>1, <2>2
  <2> QED BY <2>1, <2>2, <2>3
<1>7. {l.path : l \in C} = PathsOf(S)
  <2>1. ASSUME NEW l \in C PROVE l.path \in PathsOf(S)
    BY <1>5 DEF PathsOf
  <2>2. ASSUME NEW s \in S PROVE s.path \in {l.path : l \in C}
    BY <1>4
  <2> QED BY <2>1, <2>2 DEF PathsOf
<1>8. Sound(S)
  BY <1>4 DEF Sound
<1> QED BY <1>4, <1>5, <1>6, <1>7, <1>8 DEF S, C

\* Two documents of the same paths, the second those of what the first is
\* decoded to.
LEMMA Reread ==
    ASSUME NEW t, IsLoad(t), NEW d, DOMAIN d \in Docs, Shaped(DOMAIN d),
           IsMapping(DOMAIN d), \A l \in RecomputeTarget(t, d) : l.kind # "error",
           NEW e, DOMAIN e = {l.path : l \in RecomputeTarget(t, d)},
           \A l \in RecomputeTarget(t, e) : l.kind # "error",
           \A l \in RecomputeTarget(t, d) :
              l.kind = "secret" /\ Decodable(d[l.path]) /\ Decodable(e[l.path]) =>
                 DecodeSecret(d[l.path]) = DecodeSecret(e[l.path])
    PROVE  {l \in RecomputeTarget(t, e) : l.kind = "secret"} =
              {l \in RecomputeTarget(t, d) : l.kind = "secret"}
<1>1. CASE DOMAIN d = {}
  <2>1. RecomputeTarget(t, d) = {}
    BY <1>1, LoadLeaves
  <2>2. DOMAIN e \in Docs /\ DOMAIN e = {} /\ IsMapping(DOMAIN e)
    BY <2>1 DEF Docs, IsMapping, Heads
  <2> QED BY <2>1, <2>2, LoadLeaves
<1>2. CASE DOMAIN d # {}
  <2> DEFINE S == Slots[t.type][DOMAIN d]
  <2>0. t.type \in Types
    BY DEF IsLoad, Registered
  <2>1. /\ Sound(S) /\ DOMAIN e = PathsOf(S)
        /\ \A s \in S : /\ Fits(s, s.path, d) \in RecomputeTarget(t, d)
                        /\ Fits(s, s.path, d).kind = s.kind
        /\ \A l \in RecomputeTarget(t, d) : \E s \in S :
              l = Fits(s, s.path, d) /\ s.path = l.path /\ s.kind = l.kind
    <3>1. Sound(S)
      BY <1>2, CleanLoad
    <3>2. DOMAIN e = PathsOf(S)
      BY <1>2, CleanLoad
    <3>3. \A s \in S : /\ Fits(s, s.path, d) \in RecomputeTarget(t, d)
                       /\ Fits(s, s.path, d).kind = s.kind
      BY <1>2, CleanLoad
    <3>4. \A l \in RecomputeTarget(t, d) : \E s \in S :
             l = Fits(s, s.path, d) /\ s.path = l.path /\ s.kind = l.kind
      BY <1>2, CleanLoad
    <3> QED BY <3>1, <3>2, <3>3, <3>4
  <2>2. DOMAIN e \in Docs /\ DOMAIN e \subseteq DOMAIN d /\ IsMapping(DOMAIN e)
    <3>1. DOMAIN e \in Docs /\ DOMAIN e \subseteq DOMAIN d
      BY <2>0, <2>1, PartOf
    <3> QED BY <3>1 DEF IsMapping, Heads
  <2>3. Slots[t.type][DOMAIN e] = S
    BY <2>0, <2>1, DumpStable DEF Stable
  <2>s. S = Slots[t.type][DOMAIN d]
    OBVIOUS
  <2> HIDE DEF S
  <2>4. CASE DOMAIN e = {}
    <3>1. S = {}
      BY <2>1, <2>4 DEF PathsOf
    <3>2. RecomputeTarget(t, d) = {}
      BY <2>1, <3>1
    <3> QED BY <2>2, <2>4, <3>2, LoadLeaves
  <2>5. CASE DOMAIN e # {}
    <3>3. Shaped(DOMAIN e)
      BY <2>2 DEF Shaped
    <3>4. /\ \A s \in S : /\ Fits(s, s.path, e) \in RecomputeTarget(t, e)
                          /\ Fits(s, s.path, e).kind = s.kind
          /\ \A l \in RecomputeTarget(t, e) : \E s \in S :
                l = Fits(s, s.path, e) /\ s.path = l.path /\ s.kind = l.kind
      BY <2>2, <2>3, <2>5, <3>3, CleanLoad
    <3>5. ASSUME NEW s \in S, s.kind = "secret"
          PROVE  Fits(s, s.path, d) = Fits(s, s.path, e)
      <4> DEFINE p == s.path
      <4>1. Fits(s, p, d) \in RecomputeTarget(t, d)
        BY <2>1
      <4>2. Fits(s, p, d).kind = "secret" /\ Fits(s, p, e).kind = "secret"
        BY <2>1, <3>4, <3>5
      <4> HIDE DEF p
      <4>3. Decodable(d[p]) /\ Decodable(e[p])
        BY <3>5, <4>2 DEF Fits, Landed
      <4>4. /\ Fits(s, p, d) = Landed(p, "secret", DecodeSecret(d[p]), s.loose)
            /\ Fits(s, p, e) = Landed(p, "secret", DecodeSecret(e[p]), s.loose)
        BY <3>5, <4>3 DEF Fits
      <4>5. DecodeSecret(d[p]) = DecodeSecret(e[p])
        <5>1. Fits(s, p, d).path = p
          BY FitsParts
        <5> QED BY <4>1, <4>2, <4>3, <5>1
      <4>6. Fits(s, p, d) = Fits(s, p, e)
        BY <4>4, <4>5
      <4> QED BY <4>6 DEF p
    <3>6. ASSUME NEW l \in RecomputeTarget(t, d), l.kind = "secret"
          PROVE  l \in RecomputeTarget(t, e)
      <4>1. PICK s \in S : l = Fits(s, s.path, d) /\ s.kind = l.kind
        BY <2>1
      <4>2. l = Fits(s, s.path, e)
        BY <3>5, <3>6, <4>1
      <4> QED BY <3>4, <4>2
    <3>7. ASSUME NEW l \in RecomputeTarget(t, e), l.kind = "secret"
          PROVE  l \in RecomputeTarget(t, d)
      <4>1. PICK s \in S : l = Fits(s, s.path, e) /\ s.kind = l.kind
        BY <3>4
      <4>2. l = Fits(s, s.path, d)
        BY <3>5, <3>7, <4>1
      <4> QED BY <2>1, <4>2
    <3> QED BY <3>6, <3>7
  <2> QED BY <2>4, <2>5
<1> QED BY <1>1, <1>2

\* A Secret in a Struct of the whole document is what the scalar at its path is
\* decoded to, and its path tells it.
LEMMA SecretLeaf ==
    ASSUME NEW t, IsLoad(t), NEW d, DOMAIN d \in Docs, Shaped(DOMAIN d),
           IsMapping(DOMAIN d), \A l \in RecomputeTarget(t, d) : l.kind # "error",
           NEW l \in RecomputeTarget(t, d), l.kind = "secret"
    PROVE  /\ Decodable(d[l.path]) /\ l.value = DecodeSecret(d[l.path])
           /\ \A m \in RecomputeTarget(t, d) : m.path = l.path => m = l
<1>1. DOMAIN d # {}
  BY LoadLeaves
<1>2. PICK s \in Slots[t.type][DOMAIN d] :
         l = Fits(s, s.path, d) /\ s.path = l.path /\ s.kind = l.kind
  BY <1>1, CleanLoad
<1>3. \A m \in RecomputeTarget(t, d) : m.path = l.path => m = l
  BY <1>1, CleanLoad
<1> DEFINE p == l.path
<1>4. l = Fits(s, p, d) /\ s.kind = "secret"
  BY <1>2
<1> HIDE DEF p
<1>5. Decodable(d[p])
  BY <1>4 DEF Fits, Landed
<1>6. l = Landed(p, "secret", DecodeSecret(d[p]), s.loose)
  BY <1>4, <1>5 DEF Fits
<1>7. l.value = DecodeSecret(d[p])
  BY <1>6 DEF Landed
<1> QED BY <1>3, <1>5, <1>7 DEF p
=============================================================================
