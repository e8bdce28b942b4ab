-------------------------- MODULE SecretRefsProofs --------------------------
(***************************************************************************)
(* Theorems about a document with secret references, for all documents,    *)
(* types, registrations and stores.                                        *)
(***************************************************************************)
EXTENDS SecretRefs, SecretTypesProofs

-----------------------------------------------------------------------------
(* Scalars. *)

\* No more than the references of the document are references in the parsed one.
LEMMA ParsedRefs ==
    /\ Uses(Parsed) = References
    /\ DOMAIN Parsed = DOMAIN doc
    /\ \A p \in References : Parsed[p].body = NameAt(p) /\ IsRef(Parsed[p])
BY DEF Uses, Parsed, References, NameAt

\* In a document that parses, each of them has a name.
LEMMA NamedRefs ==
    ASSUME Parsable(Parsed)
    PROVE  Wanted \subseteq Names /\ NoName \notin Wanted
<1>1. \A p \in References : NameAt(p) # NoName /\ NameAt(p) \in Names
  BY ParsedRefs DEF Parsable, IsRef, LooksLikeRef
<1> QED BY <1>1 DEF Wanted

\* A scalar of the source stays one that is no Secret until it is filled, and
\* so does what a dump prints.
LEMMA ScalarForms ==
    /\ \A s : s.form # "secret" => TagsToStrings(s).form # "secret"
    /\ \A s : s.form # "secret" => Unescape(s).form # "secret"
    /\ \A s : Printed(s).form # "secret"
<1>1. \A s : s.form # "secret" => TagsToStrings(s).form # "secret"
  BY DEF TagsToStrings, Str
<1>2. ASSUME NEW s, s.form # "secret" PROVE Unescape(s).form # "secret"
  <2>1. CASE s.form = "string" /\ s.bangs >= 2 /\ LooksLikeRef(s.body)
    BY <1>2, <2>1 DEF Unescape
  <2> QED BY <1>2, <2>1 DEF Unescape
<1>3. \A s : Printed(s).form # "secret"
  BY DEF Printed, Str
<1> QED BY <1>1, <1>2, <1>3

\* The document holds what a parser delivers.
Scalars == \A p \in DOMAIN doc : doc[p].form # "secret"

\* Filling puts Secrets where the references are, and nowhere else.
LEMMA FillLeaves ==
    ASSUME Scalars, NEW values
    PROVE  /\ DOMAIN Filled(Parsed, values) = DOMAIN doc
           /\ \A p \in References : /\ p \in DOMAIN doc
                                   /\ Filled(Parsed, values)[p] = values[NameAt(p)]
           /\ \A p \in DOMAIN doc : p \notin References =>
                 Filled(Parsed, values)[p].form # "secret"
<1>1. DOMAIN Filled(Parsed, values) = DOMAIN doc
  BY DEF Filled, Parsed
<1>2. \A p \in References : /\ p \in DOMAIN doc
                           /\ Filled(Parsed, values)[p] = values[NameAt(p)]
  BY DEF Filled, Parsed, References, NameAt
<1>3. ASSUME NEW p \in DOMAIN doc, p \notin References
      PROVE  Filled(Parsed, values)[p].form # "secret"
  <2>1. Filled(Parsed, values)[p] = Unescape(TagsToStrings(doc[p]))
    BY <1>3 DEF Filled, Parsed, References
  <2> QED BY <2>1, ScalarForms DEF Scalars
<1> QED BY <1>1, <1>2, <1>3

\* The registered targets.
LEMMA RegisteredTargets == TypeOK => \A t \in targets : Registered(t)
BY TargetsAssumption DEF TypeOK

\* The filled tree has the paths of the document.
LEMMA FilledDocument ==
    ASSUME IsDocument(doc), NEW values
    PROVE  /\ DOMAIN Filled(Parsed, values) = DOMAIN doc
           /\ DOMAIN Filled(Parsed, values) \in Docs
           /\ Shaped(DOMAIN Filled(Parsed, values))
           /\ IsMapping(DOMAIN Filled(Parsed, values))
<1>1. DOMAIN Filled(Parsed, values) = DOMAIN doc
  BY DEF Filled, Parsed
<1> QED BY <1>1 DEF IsDocument, Docs

\* What is dumped is a document.
LEMMA DumpDocument ==
    ASSUME NEW t \in targets, TypeOK, NEW d, DOMAIN d \in Docs, Shaped(DOMAIN d),
           IsMapping(DOMAIN d), NEW leaves, leaves = RecomputeTarget(t, d), \A l \in leaves : l.kind # "error"
    PROVE  IsDocument(Dump(leaves))
<1>1. DOMAIN Dump(leaves) = {l.path : l \in leaves}
  BY DEF Dump
<1>2. \A l \in leaves : l.path \in DOMAIN d
  BY LeafPaths, RegisteredTargets
<1>3. DOMAIN Dump(leaves) \subseteq DOMAIN d
  BY <1>1, <1>2
<1>4. DOMAIN Dump(leaves) \subseteq Seq(Steps) /\ Shaped(DOMAIN Dump(leaves))
  BY <1>3 DEF Docs, Shaped
<1>6. IsMapping(DOMAIN Dump(leaves))
  BY <1>3 DEF IsMapping, Heads
<1>5. \A p \in DOMAIN Dump(leaves) : Dump(leaves)[p].form # "secret"
  BY ScalarForms DEF Dump
<1> QED BY <1>4, <1>5, <1>6 DEF IsDocument

-----------------------------------------------------------------------------
(* The stages. *)

\* The initial states: a document that nobody has looked at.
LEMMA InitStaged == Init => TypeOK /\ Staged /\ Kept /\ Dumped
<1> SUFFICES ASSUME Init PROVE TypeOK /\ Staged /\ Kept /\ Dumped
  OBVIOUS
<1>1. TypeOK
  BY DEF Init, TypeOK, NoTree, NoSecrets
<1>2. Staged
  BY RefsAssumption DEF Init, Staged
<1>3. Kept /\ Dumped
  BY DEF Init, Kept, Dumped, NoPrior
<1> QED BY <1>1, <1>2, <1>3

\* The names that are resolved are those of the document.
LEMMA WantedIsUsed ==
    ASSUME Staged, phase \in {"parsed", "checked", "resolved"}
    PROVE  UsedNames = Wanted /\ tree = Parsed
<1>1. tree = Parsed
  BY DEF Staged
<1> QED BY <1>1, ParsedRefs DEF UsedNames, Wanted

\* A new document starts from nothing.
LEMMA AgainStaged ==
    ASSUME NEW why, NEW dumped, TypeOK, Again(why, dumped), store' \in [Names -> Plain], IsDocument(doc')
    PROVE  TypeOK' /\ Staged'
<1>1. /\ phase' = "fetched" /\ asked' = {} /\ secrets' = NoSecrets
      /\ tree' = NoTree /\ config' = NoTree /\ UNCHANGED <<targets, mode>>
  BY DEF Again
<1>2. TypeOK'
  BY <1>1 DEF TypeOK, NoSecrets, NoTree
<1>3. Staged'
  BY <1>1 DEF Staged
<1> QED BY <1>2, <1>3

\* Each step establishes its stage and keeps the types.
LEMMA StagedStep == TypeOK /\ Staged /\ [Next]_vars => TypeOK' /\ Staged'
<1> SUFFICES ASSUME TypeOK, Staged, [Next]_vars PROVE TypeOK' /\ Staged'
  OBVIOUS
<1>0. ASSUME UNCHANGED doc
      PROVE  Parsed' = Parsed /\ References' = References /\ Wanted' = Wanted
  BY <1>0 DEF Parsed, References, Wanted, NameAt
<1>1. CASE Parse
  <2>1. UNCHANGED <<doc, targets, store, mode, asked, secrets, config, prior>>
        /\ phase = "fetched" /\ tree' = Parsed
        /\ phase' = IF Parsable(Parsed) THEN "parsed" ELSE "unparsed"
    <3>1. tree' = Parsed
      BY <1>1 DEF Parse, Parsed
    <3>2. phase' = IF Parsable(tree') THEN "parsed" ELSE "unparsed"
      BY <1>1 DEF Parse
    <3>3. phase' = IF Parsable(Parsed) THEN "parsed" ELSE "unparsed"
      BY <3>1, <3>2
    <3> QED BY <1>1, <3>1, <3>3 DEF Parse
  <2>2. TypeOK'
    BY <2>1 DEF TypeOK, Parsed, Failures
  <2>3. Staged'
    BY <1>0, <2>1 DEF Staged
  <2> QED BY <2>2, <2>3
<1>2. CASE Check
  <2>1. UNCHANGED <<doc, targets, store, mode, asked, secrets, tree, config, prior>>
        /\ tree = Parsed /\ phase = "parsed"
        /\ phase' = IF Violations(Parsed) = {} THEN "checked" ELSE "rejected"
    BY <1>2, WantedIsUsed DEF Check
  <2>2. TypeOK'
    BY <2>1 DEF TypeOK, Failures
  <2>3. Staged'
    BY <1>0, <2>1 DEF Staged, Violations
  <2> QED BY <2>2, <2>3
<1>3. CASE Resolve
  <2>1. /\ UNCHANGED <<doc, targets, store, mode, tree, config, prior>>
        /\ phase = "checked" /\ mode = "resolver" /\ tree = Parsed
        /\ asked' = Wanted /\ phase' = "resolved" /\ Wanted \subseteq Names
        /\ secrets' = [n \in Wanted |-> Secret(store[n], n, FALSE)]
    <3>1. phase = "checked"
      BY <1>3 DEF Resolve
    <3>2. tree = Parsed /\ UsedNames = Wanted
      BY <3>1, WantedIsUsed
    <3>3. Wanted \subseteq Names
      BY <3>1, NamedRefs DEF Staged
    <3> QED BY <1>3, <3>2, <3>3 DEF Resolve
  <2>2. TypeOK'
    BY <2>1 DEF TypeOK, Secret
  <2>3. Staged'
    BY <1>0, <2>1 DEF Staged, Violations
  <2> QED BY <2>2, <2>3
<1>4. CASE ResolveFails
  <2>1. /\ UNCHANGED <<doc, targets, store, mode, secrets, tree, config, prior>>
        /\ phase = "checked" /\ tree = Parsed /\ phase' = "unresolvable"
        /\ asked' \subseteq Names
    BY <1>4, WantedIsUsed, NamedRefs DEF ResolveFails, Staged
  <2>2. TypeOK'
    BY <2>1 DEF TypeOK, Failures
  <2>3. Staged'
    BY <1>0, <2>1 DEF Staged, Violations
  <2> QED BY <2>2, <2>3
<1>5. CASE ResolveNone
  <2>1. /\ UNCHANGED <<doc, targets, store, mode, asked, tree, config, prior>>
        /\ phase = "checked" /\ mode # "resolver" /\ tree = Parsed
        /\ Wanted \subseteq Names
        /\ IF mode = "none" /\ Wanted # {}
           THEN phase' = "unresolvable" /\ UNCHANGED secrets
           ELSE /\ phase' = "resolved"
                /\ secrets' = [n \in Wanted |-> Secret(Empty, n, TRUE)]
    BY <1>5, WantedIsUsed, NamedRefs DEF ResolveNone, Staged
  <2>2. CASE phase' = "unresolvable" /\ UNCHANGED secrets
    <3>1. TypeOK'
      BY <2>1, <2>2 DEF TypeOK, Failures
    <3>2. Staged'
      BY <1>0, <2>1, <2>2 DEF Staged, Violations
    <3> QED BY <3>1, <3>2
  <2>3. CASE ~(mode = "none" /\ Wanted # {})
    <3>1. phase' = "resolved" /\ secrets' = [n \in Wanted |-> Secret(Empty, n, TRUE)]
      BY <2>1, <2>3
    <3>2. secrets' = [n \in Wanted |-> IF mode = "unresolved" THEN Secret(Empty, n, TRUE)
                                       ELSE Secret(store[n], n, FALSE)]
      BY <2>1, <2>3, <3>1 DEF TypeOK
    <3>3. TypeOK'
      BY <2>1, <3>1 DEF TypeOK, Secret
    <3>4. Staged'
      BY <1>0, <2>1, <3>1, <3>2 DEF Staged, Violations
    <3> QED BY <3>3, <3>4
  <2> QED BY <2>1, <2>2, <2>3
<1>6. CASE Fill
  <2>1. /\ UNCHANGED <<doc, targets, store, mode, asked, secrets, config, prior>>
        /\ phase = "resolved" /\ phase' = "filled" /\ tree' = Filled(Parsed, secrets)
    BY <1>6, WantedIsUsed DEF Fill
  <2>2. DOMAIN tree' = DOMAIN doc'
    BY <2>1, FillLeaves DEF Staged, Scalars, IsDocument
  <2>3. TypeOK'
    BY <2>1, <2>2 DEF TypeOK
  <2>4. Staged'
    BY <1>0, <2>1 DEF Staged, Violations
  <2> QED BY <2>3, <2>4
<1>7. CASE Decode
  <2>1. /\ UNCHANGED <<doc, targets, store, mode, asked, secrets, tree, prior>>
        /\ phase = "filled"
        /\ \/ phase' = "undecodable" /\ UNCHANGED config
           \/ /\ phase' = "loaded"
              /\ config' = [t \in targets |-> RecomputeTarget(t, tree)]
              /\ \A t \in targets : \A l \in config'[t] : l.kind # "error"
    BY <1>7 DEF Decode
  <2>2. TypeOK'
    BY <2>1 DEF TypeOK, Failures
  <2>3. Staged'
    BY <1>0, <2>1 DEF Staged, Violations
  <2> QED BY <2>2, <2>3
<1>8. CASE Rotate
  BY <1>8, AgainStaged DEF Rotate, Staged
<1>9. CASE WriteBack
  <2>1. PICK t \in targets : Again("dumped", {t}) /\ doc' = Dump(config[t])
    BY <1>9 DEF WriteBack
  <2>2. /\ phase = "loaded" /\ IsDocument(doc) /\ tree = Filled(Parsed, secrets)
        /\ config[t] = RecomputeTarget(t, tree) /\ \A l \in config[t] : l.kind # "error"
    BY <2>1 DEF Again, Staged
  <2>3. IsDocument(doc')
    BY <2>1, <2>2, FilledDocument, DumpDocument
  <2>4. store' \in [Names -> Plain]
    BY <1>9 DEF WriteBack, TypeOK
  <2> QED BY <2>1, <2>3, <2>4, AgainStaged
<1>10. CASE UNCHANGED vars
  BY <1>0, <1>10 DEF vars, TypeOK, Staged, Violations
<1> QED BY <1>1, <1>2, <1>3, <1>4, <1>5, <1>6, <1>7, <1>8, <1>9, <1>10 DEF Next

-----------------------------------------------------------------------------
(* What is loaded. *)

\* The decoder reads a leaf as the check does.
LEMMA ReadsAlike == TypeOK /\ Staged => DecoderReads
<1> SUFFICES ASSUME TypeOK, Staged, NEW t \in targets
             PROVE  /\ \A p \in References :
                          phase \notin {"fetched", "unparsed"} /\ Covers(t, p) =>
                             (LandsOnSecret(t.type, Inside(t, p)) <=> Lands(t, p))
                    /\ \A l \in RecomputeTarget(t, tree) :
                          l.kind # "error" /\ l.value.form = "secret" /\ l.value.ref # NoName =>
                             l.path \in DOMAIN tree /\ l.value = tree[l.path]
                    /\ \A p \in DOMAIN tree :
                          /\ tree[p].form = "secret" /\ Covers(t, p)
                          /\ LandsOnSecret(t.type, Inside(t, p))
                          => \E l \in RecomputeTarget(t, tree) :
                                l.kind # "error" /\ l.path = p /\ l.value = tree[p]
  BY DEF DecoderReads
<1>1. Registered(t) /\ IsDocument(doc)
  BY RegisteredTargets DEF Staged
<1>2. DOMAIN tree \in {DOMAIN doc, {}} /\ DOMAIN tree \in Docs /\ Shaped(DOMAIN tree)
  BY <1>1 DEF TypeOK, IsDocument, Docs, Shaped
<1>3. ASSUME NEW p \in References, phase \notin {"fetched", "unparsed"}, Covers(t, p)
      PROVE  LandsOnSecret(t.type, Inside(t, p)) <=> Lands(t, p)
  <2> DEFINE dummy == Filled(Parsed, [n \in Names |-> Secret(Empty, n, TRUE)])
  <2>1. NameAt(p) \in Names
    BY <1>3, NamedRefs DEF Staged, Wanted
  <2>2. p \in DOMAIN dummy /\ dummy[p] = Secret(Empty, NameAt(p), TRUE)
    BY <1>1, <2>1, FillLeaves DEF Scalars, IsDocument
  <2>3. DOMAIN dummy \in Docs /\ Shaped(DOMAIN dummy)
    BY <1>1, FilledDocument
  <2>d. Lands(t, p) <=> LandedAt(t, dummy, p)
    BY Zenon DEF Lands, LandedAt, Parsed
  <2> HIDE DEF dummy
  <2>4. dummy[p].form = "secret"
    BY <2>2 DEF Secret
  <2>5. LandsOnSecret(t.type, Inside(t, p)) <=> LandedAt(t, dummy, p)
    BY <1>1, <1>3, <2>2, <2>3, <2>4, TargetReads
  <2> QED BY <2>d, <2>5
<1>4. ASSUME NEW p \in DOMAIN tree, tree[p].form = "secret", Covers(t, p),
             LandsOnSecret(t.type, Inside(t, p))
      PROVE  \E l \in RecomputeTarget(t, tree) :
                l.kind # "error" /\ l.path = p /\ l.value = tree[p]
  BY <1>1, <1>2, <1>4, TargetReads DEF ReadAt
<1>5. ASSUME NEW l \in RecomputeTarget(t, tree),
             l.kind # "error", l.value.form = "secret", l.value.ref # NoName
      PROVE  l.path \in DOMAIN tree /\ l.value = tree[l.path]
  BY <1>1, <1>2, <1>5, NamedReads
<1> QED BY <1>3, <1>4, <1>5

\* In a state where the decoder reads leaves as the check does, what is loaded
\* has the Secrets of the references and no others.
LEMMA LoadedSecrets ==
    ASSUME Staged, DecoderReads, phase = "loaded"
    PROVE  /\ RefsBecomeSecrets
           /\ \A t \in targets : \A l \in config[t] :
                 l.value.form = "secret" /\ l.value.ref # NoName =>
                    l.path \in References /\ l.value = secrets[NameAt(l.path)]
<1>1. /\ tree = Filled(Parsed, secrets) /\ Scalars /\ Violations(Parsed) = {}
      /\ config = [t \in targets |-> RecomputeTarget(t, tree)]
      /\ \A t \in targets : \A l \in config[t] : l.kind # "error"
      /\ Wanted \subseteq Names /\ NoName \notin Wanted
  BY NamedRefs DEF Staged, Scalars, IsDocument
<1>2. \A n \in Wanted : /\ secrets[n] = IF mode = "unresolved" THEN Secret(Empty, n, TRUE)
                                        ELSE Secret(store[n], n, FALSE)
                        /\ secrets[n].form = "secret" /\ secrets[n].ref = n
  BY DEF Staged, Secret
<1>3. \A p \in References : /\ p \in DOMAIN tree
                            /\ NameAt(p) \in Wanted
                            /\ tree[p] = secrets[NameAt(p)]
  BY <1>1, FillLeaves DEF Wanted
<1>4. \A p \in DOMAIN tree : tree[p].form = "secret" => p \in References
  BY <1>1, FillLeaves
<1>5. ASSUME NEW p \in References, NEW t \in targets, Covers(t, p)
      PROVE  \E l \in config[t] : l.path = p /\ l.value = secrets[NameAt(p)]
  <2>1. LandsOnSecret(t.type, Inside(t, p))
    <3>1. p \in Uses(Parsed) /\ p \notin Violations(Parsed)
      BY <1>1, <1>5, ParsedRefs
    <3>2. ~ (Covers(t, p) /\ ~LandsOnSecret(t.type, Inside(t, p)))
      BY <1>5, <3>1, Zenon DEF Violations
    <3> QED BY <1>5, <3>2, Zenon
  <2>2. p \in DOMAIN tree /\ tree[p].form = "secret"
    <3>1. /\ p \in DOMAIN tree /\ NameAt(p) \in Wanted
          /\ tree[p] = secrets[NameAt(p)]
      BY <1>3
    <3>2. secrets[NameAt(p)].form = "secret"
      BY <1>2, <3>1, Zenon
    <3> QED BY <3>1, <3>2, Zenon
  <2>3. \E l \in RecomputeTarget(t, tree) : l.path = p /\ l.value = tree[p]
    BY <1>5, <2>1, <2>2 DEF DecoderReads
  <2> QED BY <1>1, <1>3, <2>3
<1>6. ASSUME NEW t \in targets, NEW l \in config[t],
             l.value.form = "secret", l.value.ref # NoName
      PROVE  l.path \in References /\ l.value = secrets[NameAt(l.path)]
  <2>1. l \in RecomputeTarget(t, tree) /\ l.kind # "error"
    BY <1>1
  <2>2. l.path \in DOMAIN tree /\ l.value = tree[l.path]
    BY <1>6, <2>1 DEF DecoderReads
  <2>3. l.path \in References
    BY <1>4, <1>6, <2>2
  <2> QED BY <1>3, <2>2, <2>3
<1>7. RefsBecomeSecrets
  <2>1. ASSUME NEW p \in References, NEW t \in targets, Covers(t, p)
        PROVE  \E l \in config[t] :
                  /\ l.path = p
                  /\ l.value = IF mode = "unresolved"
                               THEN Secret(Empty, NameAt(p), TRUE)
                               ELSE Secret(store[NameAt(p)], NameAt(p), FALSE)
    <3>1. PICK l \in config[t] : l.path = p /\ l.value = secrets[NameAt(p)]
      BY <1>5, <2>1
    <3>2. secrets[NameAt(p)] = IF mode = "unresolved"
                               THEN Secret(Empty, NameAt(p), TRUE)
                               ELSE Secret(store[NameAt(p)], NameAt(p), FALSE)
      BY <1>2, <1>3, <2>1
    <3>3. /\ l.path = p
          /\ l.value = IF mode = "unresolved"
                       THEN Secret(Empty, NameAt(p), TRUE)
                       ELSE Secret(store[NameAt(p)], NameAt(p), FALSE)
      BY <3>1, <3>2, Zenon
    <3> QED BY <3>3, Zenon
  <2>2. ASSUME NEW t \in targets, NEW l \in config[t],
               l.value.form = "secret", l.value.ref # NoName
        PROVE  l.path \in References /\ NameAt(l.path) = l.value.ref
    BY <1>2, <1>3, <1>6, <2>2
  <2> QED BY <2>1, <2>2 DEF RefsBecomeSecrets
<1> QED BY <1>6, <1>7

\* The check lets a document through exactly when every reference lands.
LEMMA CheckDecides ==
    ASSUME Staged, DecoderReads, phase \notin {"fetched", "parsed", "unparsed"}
    PROVE  Violations(Parsed) = {} <=> \A p \in References : LandsEverywhere(p)
<1>1. \A p \in References, t \in targets :
         Covers(t, p) => (LandsOnSecret(t.type, Inside(t, p)) <=> Lands(t, p))
  BY DEF DecoderReads
<1>2. \A p : p \in Violations(Parsed) <=>
         /\ p \in References
         /\ \/ ~ \E t \in targets : Covers(t, p)
            \/ \E t \in targets : Covers(t, p) /\ ~LandsOnSecret(t.type, Inside(t, p))
  BY ParsedRefs, Zenon DEF Violations
<1>3. ASSUME NEW p \in References
      PROVE  p \notin Violations(Parsed) <=> LandsEverywhere(p)
  BY <1>1, <1>2, <1>3, Zenon DEF LandsEverywhere
<1>4. Violations(Parsed) \subseteq References
  BY <1>2
<1> QED BY <1>3, <1>4

\* The way to the next load keeps what the key of the one before it tells.
LEMMA KeptStep ==
    TypeOK /\ Staged /\ Kept /\ DecoderReads /\ [Next]_vars => Kept'
<1> SUFFICES ASSUME TypeOK, Staged, Kept, DecoderReads, [Next]_vars,
                    (prior.why = "rotated")'
             PROVE  Kept'
  BY DEF Kept
<1>0. ASSUME UNCHANGED <<doc, targets>>
      PROVE  Parsed' = Parsed /\ References' = References /\ Wanted' = Wanted
  BY <1>0 DEF Parsed, References, Wanted, NameAt
<1>1. CASE Rotate
  <2>1. /\ phase = "loaded" /\ mode = "resolver" /\ UNCHANGED <<doc, targets, mode>>
        /\ prior' = [why |-> "rotated", dumped |-> {}, doc |-> doc, config |-> config,
                     key |-> ChangeKey(doc, secrets)]
    BY <1>1 DEF Rotate, Again
  <2>2. PICK values : values = [n \in Wanted |-> store[n]]
    OBVIOUS
  <2>3. secrets = [n \in Wanted |-> Secret(store[n], n, FALSE)]
    BY <2>1 DEF Staged
  <2>4. values \in [Wanted -> Plain] /\ \A n \in Wanted : values[n] = store[n]
    BY <2>1, <2>2, NamedRefs DEF TypeOK, Staged
  <2>5. secrets = [n \in Wanted |-> Secret(values[n], n, FALSE)]
    BY <2>3, <2>4
  <2>6. prior'.key = [doc |-> doc', values |-> values]
    <3>1. [n \in DOMAIN secrets |-> secrets[n].plain] = values
      BY <2>4, <2>5 DEF Secret
    <3> QED BY <2>1, <3>1 DEF ChangeKey
  <2>7. prior'.config = [t \in targets' |->
                           RecomputeTarget(t, Filled(Parsed',
                              [n \in Wanted' |-> Secret(values[n], n, FALSE)]))]
    <3>1. prior'.config = [t \in targets |-> RecomputeTarget(t, Filled(Parsed, secrets))]
      BY <2>1 DEF Staged
    <3>2. Parsed' = Parsed /\ Wanted' = Wanted /\ targets' = targets
      BY <1>0, <2>1
    <3> QED BY ONLY <2>5, <3>1, <3>2, Zenon
  <2>8. ASSUME NEW p \in References, NEW t \in targets, Covers(t, p)
        PROVE  \E l \in prior'.config[t] :
                  l.path = p /\ l.value = Secret(values[NameAt(p)], NameAt(p), FALSE)
    <3>1. NameAt(p) \in Wanted
      BY DEF Wanted
    <3>2. PICK l \in config[t] :
             l.path = p /\ l.value = Secret(store[NameAt(p)], NameAt(p), FALSE)
      BY <2>1, <2>8, LoadedSecrets DEF RefsBecomeSecrets
    <3> QED BY <2>1, <2>4, <3>1, <3>2
  <2>9. \A p : NameAt(p)' = NameAt(p)
    BY <2>1 DEF NameAt
  <2>10. MadeOf(values)'
    BY <1>0, <2>1, <2>6, <2>7, <2>8, <2>9 DEF MadeOf
  <2> QED BY <1>0, <2>1, <2>4, <2>10 DEF Kept
<1>2. CASE WriteBack
  BY <1>2 DEF WriteBack, Again
<1>3. CASE ~Rotate /\ ~WriteBack
  <2>1. UNCHANGED <<doc, targets, mode, prior>>
    BY <1>3 DEF Next, vars, Parse, Check, Resolve, ResolveFails, ResolveNone, Fill,
                Decode
  <2>2. \A p : NameAt(p)' = NameAt(p)
    BY <2>1 DEF NameAt
  <2>3. PICK values \in [Wanted -> Plain] : MadeOf(values)
    BY <2>1 DEF Kept
  <2>4. MadeOf(values)'
    BY <1>0, <2>1, <2>2, <2>3 DEF MadeOf
  <2> QED BY <1>0, <2>1, <2>3, <2>4 DEF Kept
<1> QED BY <1>1, <1>2, <1>3

-----------------------------------------------------------------------------
(* What is dumped. *)

\* What the document of the state is filled with.
LEMMA FilledNow ==
    ASSUME Staged, Parsable(Parsed),
           secrets = [n \in Wanted |-> IF mode = "unresolved" THEN Secret(Empty, n, TRUE)
                                       ELSE Secret(store[n], n, FALSE)]
    PROVE  Filled(Parsed, secrets) = FilledOf(doc)
<1> DEFINE all == [n \in Names |-> SecretOf(n)]
<1>1. ParsedOf(doc) = Parsed
  BY DEF ParsedOf, Parsed
<1>2. \A n \in Wanted : n \in Names /\ secrets[n] = SecretOf(n)
  BY NamedRefs DEF SecretOf
<1>3. \A p \in DOMAIN Parsed : IsRef(Parsed[p]) => Parsed[p].body \in Wanted
  BY DEF Parsed, Wanted, References, NameAt
<1>4. \A n \in Names : all[n] = SecretOf(n)
  OBVIOUS
<1> HIDE DEF all
<1>5. ASSUME NEW p \in DOMAIN Parsed
      PROVE  (IF IsRef(Parsed[p]) THEN secrets[Parsed[p].body] ELSE Unescape(Parsed[p])) =
             (IF IsRef(Parsed[p]) THEN all[Parsed[p].body] ELSE Unescape(Parsed[p]))
  BY <1>2, <1>3, <1>4
<1>6. Filled(Parsed, secrets) = Filled(Parsed, all)
  BY <1>5, Zenon DEF Filled
<1> QED BY <1>1, <1>6 DEF FilledOf, all

\* The way to the next load keeps what is known of the dump.
LEMMA DumpedStep == TypeOK /\ Staged /\ Dumped /\ [Next]_vars => Dumped'
<1> SUFFICES ASSUME TypeOK, Staged, Dumped, [Next]_vars, (prior.why = "dumped")'
             PROVE  Dumped'
  BY DEF Dumped
<1>0. ASSUME UNCHANGED <<store, mode>>
      PROVE  \A d : FilledOf(d)' = FilledOf(d)
  BY <1>0 DEF FilledOf, SecretOf
<1>1. CASE WriteBack
  <2>1. PICK t \in targets : /\ t.kind = "struct" /\ t.path = <<>>
                             /\ Again("dumped", {t}) /\ doc' = Dump(config[t])
    BY <1>1 DEF WriteBack
  <2>2. /\ phase = "loaded" /\ UNCHANGED <<targets, store, mode>>
        /\ prior' = [why |-> "dumped", dumped |-> {t}, doc |-> doc, config |-> config,
                     key |-> ChangeKey(doc, secrets)]
    BY <1>1, <2>1 DEF WriteBack, Again
  <2>3. /\ IsDocument(doc) /\ Parsable(Parsed)
        /\ config[t] = RecomputeTarget(t, Filled(Parsed, secrets))
        /\ \A l \in config[t] : l.kind # "error"
    BY <2>2 DEF Staged
  <2>4. Filled(Parsed, secrets) = FilledOf(doc)
    BY <2>2, <2>3, FilledNow DEF Staged
  <2>5. ParsedOf(doc) = Parsed
    BY DEF ParsedOf, Parsed
  <2>6. prior'.doc = doc /\ prior'.dumped = {t} /\ prior'.config = config
    BY <2>2
  <2>7. FilledOf(doc)' = FilledOf(doc') /\ \A d : FilledOf(d)' = FilledOf(d)
    BY <1>0, <2>2
  <2> QED BY <2>1, <2>2, <2>3, <2>4, <2>5, <2>6, <2>7 DEF Dumped
<1>2. CASE Rotate
  BY <1>2 DEF Rotate, Again
<1>3. CASE ~Rotate /\ ~WriteBack
  <2>1. UNCHANGED <<doc, targets, store, mode, prior>>
    BY <1>3 DEF Next, vars, Parse, Check, Resolve, ResolveFails, ResolveNone, Fill,
                Decode
  <2>2. \A d : FilledOf(d)' = FilledOf(d)
    BY <1>0, <2>1
  <2> QED BY <2>1, <2>2 DEF Dumped
<1> QED BY <1>1, <1>2, <1>3

\* What a Secret prints is read as the same Secret, or not as a Secret.
LEMMA ScalarKept ==
    ASSUME NEW x, Decodable(x),
           x.form = "secret" => x.ref \in Names /\ x.ref # NoName /\ x = SecretOf(x.ref),
           NEW z, z = TagsToStrings(Printed(DecodeSecret(x))),
           NEW y, y = IF IsRef(z) THEN SecretOf(z.body) ELSE Unescape(z), Decodable(y)
    PROVE  DecodeSecret(y) = DecodeSecret(x)
<1>1. CASE x.form = "secret"
  <2>1. DecodeSecret(x) = x /\ Printed(x) = Str(1, x.ref)
    BY <1>1 DEF DecodeSecret, Printed
  <2>2. z = Str(1, x.ref)
    BY <2>1 DEF TagsToStrings, Str
  <2>3. IsRef(z) /\ z.body = x.ref
    BY <1>1, <2>2 DEF IsRef, LooksLikeRef, Str
  <2>4. y = x
    BY <1>1, <2>3
  <2> QED BY <2>4
<1>2. CASE x.form # "secret"
  <2> DEFINE v == DecodeSecret(x)
  <2>1. v = NewSecret(IF x = Str(0, Empty) THEN Empty ELSE x)
    BY <1>2 DEF DecodeSecret
  <2>2. v.form = "secret" /\ v.ref = NoName /\ ~v.unresolved
    BY <2>1 DEF NewSecret, Secret
  <2>3. CASE IsEmpty(v)
    <3>1. v = NewSecret(Empty)
      <4>1. PICK w : v = NewSecret(w)
        BY <2>1
      <4>2. w = Empty
        BY <2>3, <4>1 DEF IsEmpty, NewSecret, Secret
      <4> QED BY <4>1, <4>2
    <3>2. Printed(v) = Str(0, Empty)
      BY <2>2, <2>3 DEF Printed
    <3> HIDE DEF v
    <3>3. z = Str(0, Empty)
      BY <3>2 DEF TagsToStrings, Str, v
    <3>4. y = Str(0, Empty)
      BY <3>3 DEF IsRef, Unescape, Str
    <3>5. DecodeSecret(y) = NewSecret(Empty)
      BY <3>4 DEF DecodeSecret, Str
    <3> QED BY <3>1, <3>5 DEF v
  <2>4. CASE ~IsEmpty(v)
    <3>1. Printed(v) = Str(0, Marker)
      BY <2>2, <2>4 DEF Printed
    <3> HIDE DEF v
    <3>2. z = Str(0, Marker)
      BY <3>1 DEF TagsToStrings, Str, v
    <3>3. y = Str(0, Marker)
      BY <3>2 DEF IsRef, Unescape, Str
    <3> QED BY <3>3 DEF Decodable, Str
  <2> QED BY <2>3, <2>4
<1> QED BY <1>1, <1>2

\* The Secrets that a document is filled with.
LEMMA FilledSecrets ==
    ASSUME NEW d, IsDocument(d), Parsable(ParsedOf(d)), NEW p \in DOMAIN d,
           FilledOf(d)[p].form = "secret"
    PROVE  /\ FilledOf(d)[p].ref \in Names /\ FilledOf(d)[p].ref # NoName
           /\ FilledOf(d)[p] = SecretOf(FilledOf(d)[p].ref)
<1> DEFINE z == ParsedOf(d)[p]
<1>0. z = TagsToStrings(d[p]) /\ DOMAIN ParsedOf(d) = DOMAIN d
  BY DEF ParsedOf
<1>1. FilledOf(d)[p] = IF IsRef(z) THEN [n \in Names |-> SecretOf(n)][z.body] ELSE Unescape(z)
  BY <1>0 DEF FilledOf, Filled
<1>2. z.form # "secret"
  BY <1>0, ScalarForms DEF IsDocument
<1>3. IsRef(z)
  BY <1>1, <1>2, ScalarForms
<1>4. z.body \in Names /\ z.body # NoName
  BY <1>0, <1>3 DEF Parsable, Uses, IsRef, LooksLikeRef
<1>5. FilledOf(d)[p] = SecretOf(z.body)
  BY <1>1, <1>3, <1>4
<1>6. SecretOf(z.body).ref = z.body
  BY DEF SecretOf, Secret
<1> QED BY <1>4, <1>5, <1>6

\* A dump that is loaded again has the secrets it was made of.
LEMMA DumpKeeps == TypeOK /\ Staged /\ Dumped => DumpKeepsSecrets
<1> SUFFICES ASSUME TypeOK, Staged, Dumped, phase = "loaded", prior.why = "dumped",
                    NEW t \in prior.dumped
             PROVE  {l \in config[t] : l.kind = "secret"} =
                       {l \in prior.config[t] : l.kind = "secret"}
  BY DEF DumpKeepsSecrets
<1> DEFINE d == FilledOf(prior.doc)
           C == RecomputeTarget(t, d)
<1>1. /\ IsDocument(prior.doc) /\ Parsable(ParsedOf(prior.doc))
      /\ t \in targets /\ t.kind = "struct" /\ t.path = <<>>
      /\ prior.config[t] = C /\ doc = Dump(C) /\ \A l \in C : l.kind # "error"
  BY DEF Dumped
<1>2. IsLoad(t)
  BY <1>1, RegisteredTargets DEF IsLoad
<1>3. /\ DOMAIN d = DOMAIN prior.doc /\ DOMAIN d \in Docs /\ Shaped(DOMAIN d)
      /\ IsMapping(DOMAIN d)
  <2>1. DOMAIN d = DOMAIN prior.doc
    BY DEF FilledOf, Filled, ParsedOf
  <2> QED BY <1>1, <2>1 DEF IsDocument, Docs
<1>4. /\ config[t] = RecomputeTarget(t, tree) /\ \A l \in config[t] : l.kind # "error"
      /\ tree = FilledOf(doc)
  <2>1. /\ config[t] = RecomputeTarget(t, tree) /\ \A l \in config[t] : l.kind # "error"
        /\ tree = Filled(Parsed, secrets)
    BY <1>1 DEF Staged
  <2>2. Filled(Parsed, secrets) = FilledOf(doc)
    BY FilledNow DEF Staged
  <2> QED BY <2>1, <2>2
<1>5. DOMAIN tree = {l.path : l \in C}
  <2>1. DOMAIN tree = DOMAIN doc
    BY <1>4 DEF FilledOf, Filled, ParsedOf
  <2> QED BY <1>1, <2>1 DEF Dump
<1>d. \A p \in DOMAIN d : d[p].form = "secret" =>
         d[p].ref \in Names /\ d[p].ref # NoName /\ d[p] = SecretOf(d[p].ref)
  BY <1>1, <1>3, FilledSecrets
<1> HIDE DEF d, C
<1>6. ASSUME NEW l \in C, l.kind = "secret", Decodable(d[l.path]), Decodable(tree[l.path])
      PROVE  DecodeSecret(d[l.path]) = DecodeSecret(tree[l.path])
  <2> DEFINE p == l.path
             z == TagsToStrings(doc[p])
  <2>1. /\ l.value = DecodeSecret(d[p])
        /\ \A m \in C : m.path = p => m = l
    BY <1>1, <1>2, <1>3, <1>6, SecretLeaf DEF C
  <2>2. p \in DOMAIN d
    BY <1>1, <1>2, <1>3, LeafPaths DEF C, IsLoad
  <2>3. p \in DOMAIN doc /\ doc[p] = Printed(l.value)
    <3>1. p \in {m.path : m \in C}
      OBVIOUS
    <3>2. (CHOOSE m \in C : m.path = p) = l
      BY <2>1
    <3>3. doc[p] = Printed((CHOOSE m \in C : m.path = p).value)
      BY <1>1, <3>1 DEF Dump
    <3> QED BY <1>1, <3>1, <3>2, <3>3 DEF Dump
  <2>4. z = TagsToStrings(Printed(DecodeSecret(d[p])))
    BY <2>1, <2>3
  <2>5. tree[p] = IF IsRef(z) THEN [n \in Names |-> SecretOf(n)][z.body] ELSE Unescape(z)
    <3>1. p \in DOMAIN ParsedOf(doc) /\ ParsedOf(doc)[p] = z
      BY <2>3 DEF ParsedOf
    <3> HIDE DEF z, p
    <3>2. FilledOf(doc)[p] =
             IF IsRef(z) THEN [n \in Names |-> SecretOf(n)][z.body] ELSE Unescape(z)
      BY <3>1 DEF FilledOf, Filled
    <3> QED BY <1>4, <3>2
  <2> HIDE DEF z, p
  <2>6. tree[p] = IF IsRef(z) THEN SecretOf(z.body) ELSE Unescape(z)
    <3>1. ASSUME IsRef(z) PROVE z.body \in Names
      <4>1. doc = Dump(C) /\ p \in Uses(Parsed) /\ Parsed[p] = z
        BY <1>1, <2>3, <3>1 DEF Uses, Parsed, z
      <4>2. Parsable(Parsed)
        BY DEF Staged
      <4> QED BY <3>1, <4>1, <4>2 DEF Parsable, IsRef, LooksLikeRef
    <3> QED BY <2>5, <3>1
  <2>7. DecodeSecret(tree[p]) = DecodeSecret(d[p])
    BY <1>6, <1>d, <2>2, <2>4, <2>6, ScalarKept DEF p
  <2> QED BY <2>7 DEF p
<1>7. {l \in RecomputeTarget(t, tree) : l.kind = "secret"} = {l \in C : l.kind = "secret"}
  BY <1>1, <1>2, <1>3, <1>4, <1>5, <1>6, Reread DEF C
<1> QED BY <1>1, <1>4, <1>7

-----------------------------------------------------------------------------
(* The theorems. *)

\* Type correctness, what each stage has established, and what is known of the
\* load before this one.
IInv == TypeOK /\ Staged /\ Kept /\ Dumped

\* The invariant, of every behaviour.
LEMMA Inductive == Spec => []IInv
<1>1. Init => IInv
  BY InitStaged DEF IInv
<1>2. IInv /\ [Next]_vars => IInv'
  BY StagedStep, KeptStep, DumpedStep, ReadsAlike DEF IInv
<1> QED BY <1>1, <1>2, PTL DEF Spec

\* The types, for all documents and registrations.
THEOREM TypeCorrect == Spec => []TypeOK
<1>1. IInv => TypeOK
  BY DEF IInv
<1> QED BY <1>1, Inductive, PTL

\* The walk of the check over a type and the decoder read a leaf alike, for all
\* types that are finite and documents (secretref.go:281-316, secret.go:159-188).
THEOREM WalksReadAlike == Spec => []DecoderReads
<1>1. IInv => DecoderReads
  BY ReadsAlike DEF IInv
<1> QED BY <1>1, Inductive, PTL

\* A document gets past the check, and its names to the resolver, exactly when
\* every reference lands on a Secret in every target that reads it
\* (secretref.go:281-283, 518-526).
THEOREM Acceptance == Spec => []AcceptedIffLands
<1>1. IInv => AcceptedIffLands
  BY CheckDecides, ReadsAlike DEF AcceptedIffLands, Staged, IInv
<1> QED BY <1>1, Inductive, PTL

\* Every reference of the document, and nothing else, becomes a Secret of its
\* name with the store's value in every target that reads it; no reference gets
\* past the check to be left as a string (secretref.go:226-237, 281-316).
THEOREM Landing == Spec => []RefsBecomeSecrets
<1>1. IInv => RefsBecomeSecrets
  BY LoadedSecrets, ReadsAlike DEF RefsBecomeSecrets, IInv
<1> QED BY <1>1, Inductive, PTL

\* What the load after a rotation shows against the key of the one before.
LEMMA KeyDecides ==
    TypeOK /\ Staged /\ Kept /\ DecoderReads => KeyTracksConfig
<1> SUFFICES ASSUME TypeOK, Staged, Kept, DecoderReads, phase = "loaded",
                    prior.why = "rotated"
             PROVE  ChangeKey(doc, secrets) = prior.key <=> config = prior.config
  BY DEF KeyTracksConfig
<1>1. PICK values \in [Wanted -> Plain] : MadeOf(values)
  BY DEF Kept
<1>2. mode = "resolver" /\ prior.key = [doc |-> doc, values |-> values]
  BY <1>1 DEF Kept, MadeOf
<1>3. secrets = [n \in Wanted |-> Secret(store[n], n, FALSE)]
  BY <1>2 DEF Staged
<1>4. ChangeKey(doc, secrets) = [doc |-> doc, values |-> [n \in Wanted |-> store[n]]]
  BY <1>3 DEF ChangeKey, Secret
<1>5. config = [t \in targets |-> RecomputeTarget(t, Filled(Parsed, secrets))]
  BY DEF Staged
<1>6. ASSUME ChangeKey(doc, secrets) = prior.key PROVE config = prior.config
  <2>1. values = [n \in Wanted |-> store[n]]
    BY <1>2, <1>4, <1>6
  <2>2. \A n \in Wanted : values[n] = store[n]
    BY <2>1
  <2>3. secrets = [n \in Wanted |-> Secret(values[n], n, FALSE)]
    BY <1>3, <2>2
  <2>4. prior.config = [t \in targets |->
                          RecomputeTarget(t, Filled(Parsed,
                             [n \in Wanted |-> Secret(values[n], n, FALSE)]))]
    BY <1>1 DEF MadeOf
  <2> QED BY ONLY <1>5, <2>3, <2>4, Zenon
<1>7. ASSUME config = prior.config PROVE ChangeKey(doc, secrets) = prior.key
  <2>1. ASSUME NEW n \in Wanted PROVE values[n] = store[n]
    <3>1. PICK p \in References : n = NameAt(p)
      BY DEF Wanted
    <3>2. p \in Uses(Parsed) /\ p \notin Violations(Parsed)
      BY <3>1, ParsedRefs DEF Staged
    <3>3. PICK t \in targets : Covers(t, p)
      BY <3>2, Zenon DEF Violations
    <3>4. PICK l \in prior.config[t] :
             l.path = p /\ l.value = Secret(values[n], n, FALSE)
      BY <1>1, <3>1, <3>3 DEF MadeOf
    <3>5. l \in config[t] /\ l.value.form = "secret" /\ l.value.ref = n
          /\ n # NoName
      BY <1>7, <3>4, NamedRefs DEF Secret, Staged
    <3>6. Secret(values[n], n, FALSE) = secrets[n]
      BY <3>1, <3>4, <3>5, LoadedSecrets
    <3>7. Secret(values[n], n, FALSE) = Secret(store[n], n, FALSE)
      BY <1>3, <3>6
    <3> QED BY <3>7 DEF Secret
  <2>2. values = [n \in Wanted |-> store[n]]
    BY <2>1
  <2> QED BY <1>2, <1>4, <2>2
<1> QED BY <1>6, <1>7

\* The change key differs exactly when what is decoded does: for every store,
\* registration and document, a poll misses no rotation that matters and
\* reloads for no other (secretref.go:540-546).
THEOREM KeyTracks == Spec => []KeyTracksConfig
<1>1. IInv => KeyTracksConfig
  BY KeyDecides, ReadsAlike DEF IInv
<1> QED BY <1>1, Inductive, PTL

\* A configuration that is dumped and written back has the secrets it had, if
\* the dump is accepted: for every document, type and store, in every mode
\* (secret.go:60-126, README.md:210).
THEOREM DumpRoundTrip == Spec => []DumpKeepsSecrets
<1>1. IInv => DumpKeepsSecrets
  BY DumpKeeps DEF IInv
<1> QED BY <1>1, Inductive, PTL
=============================================================================
