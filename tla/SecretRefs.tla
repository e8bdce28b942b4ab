----------------------------- MODULE SecretRefs -----------------------------
(***************************************************************************)
(* A document with secret references on its way into a generation: it is   *)
(* parsed, its references are checked against the registered types and     *)
(* resolved, the document is filled with the Secrets, and every Load,      *)
(* Struct and Key target is decoded from it.  DecodeUnresolved takes the   *)
(* same way without a store.  Then the secret rotates, or the loaded       *)
(* configuration is dumped and written back as the document, and the way   *)
(* is taken once more.                                                     *)
(*                                                                         *)
(* A document is a function from the paths of its leaves to scalars.       *)
(* Module SecretTypes has the walk of the check over a type, and the       *)
(* decoding of a target.                                                   *)
(***************************************************************************)
EXTENDS SecretTypes

CONSTANTS
    Plain,      \* what the store may hold; Empty and a reference among it
    RefValue,   \* the plaintext in the store that is itself a reference
    Documents,  \* the documents to start from
    TargetSets, \* the registrations: sets of [kind, path, type]
    RefKeys     \* keys that are references

\* A parser delivers a mapping, or fails, and scalars in it, never a Secret.
IsDocument(d) ==
    /\ DOMAIN d \subseteq Seq(Steps)
    /\ Shaped(DOMAIN d)
    /\ IsMapping(DOMAIN d)
    /\ \A p \in DOMAIN d : d[p].form # "secret"

ASSUME RefsAssumption == \A d \in Documents : IsDocument(d)

ASSUME TargetsAssumption == \A T \in TargetSets : \A t \in T : Registered(t)

VARIABLES
    doc,      \* the document of the source
    targets,  \* the registered targets
    store,    \* the secret store
    mode,     \* with a resolver, without one, or DecodeUnresolved
    phase,    \* how far the document got, or how it failed
    asked,    \* the names the resolver was called with
    secrets,  \* the Secret of each name
    tree,     \* the document filled with them
    config,   \* what the targets were decoded to
    prior     \* history: the document and result of the load before this one

vars == <<doc, targets, store, mode, phase, asked, secrets, tree, config, prior>>

Failures == {"unparsed", "rejected", "unresolvable", "undecodable"}
NoSecrets == [n \in {} |-> n]
NoTree == [p \in {} |-> p]
NoPrior == [why |-> "none"]

-----------------------------------------------------------------------------
(* What the check looks at. *)

\* parseSecretDoc finds the references; it fails on a reference that is a key,
\* has no name, or tags something that is no scalar.
Uses(d) == {p \in DOMAIN d : IsRef(d[p])}

Parsable(d) ==
    /\ \A p \in DOMAIN d : d[p].form # "tagged mapping"
    /\ \A p \in DOMAIN d : \A i \in DOMAIN p : p[i].key \notin RefKeys
    /\ \A p \in Uses(d) : d[p].body # NoName

\* Variant: one target that reads the reference on a Secret is enough.
ViolationsAnyTarget(d) ==
    {p \in Uses(d) :
        ~ \E t \in targets : Covers(t, p) /\ LandsOnSecret(t.type, Inside(t, p))}

\* violations: the references that no target reads, or that one of those that
\* do reads on something else.
Violations(d) ==
    {p \in Uses(d) :
        \/ ~ \E t \in targets : Covers(t, p)
        \/ \E t \in targets : Covers(t, p) /\ ~LandsOnSecret(t.type, Inside(t, p))}

-----------------------------------------------------------------------------
(* The reload, as far as readConfig and the targets go. *)

TypeOK ==
    /\ targets \in TargetSets
    /\ store \in [Names -> Plain]
    /\ mode \in {"resolver", "none", "unresolved"}
    /\ phase \in {"fetched", "parsed", "checked", "resolved", "filled", "loaded"}
                  \cup Failures
    /\ asked \subseteq Names
    /\ DOMAIN secrets \subseteq Names
    /\ \A n \in DOMAIN secrets : secrets[n].ref = n
    /\ DOMAIN tree \in {DOMAIN doc, {}}
    /\ DOMAIN config \subseteq targets

Init ==
    /\ doc \in Documents
    /\ targets \in TargetSets
    /\ store \in [Names -> Plain]
    /\ mode \in {"resolver", "none", "unresolved"}
    /\ phase = "fetched"
    /\ asked = {}
    /\ secrets = NoSecrets
    /\ tree = NoTree
    /\ config = NoTree
    /\ prior = NoPrior

\* parseSecretDoc
Parse ==
    /\ phase = "fetched"
    /\ tree' = [p \in DOMAIN doc |-> TagsToStrings(doc[p])]
    /\ phase' = IF Parsable(tree') THEN "parsed" ELSE "unparsed"
    /\ UNCHANGED <<doc, targets, store, mode, asked, secrets, config, prior>>

\* A reference the types do not accept fails the reload before anything is
\* resolved; CheckSecretRefs stops here.
Check ==
    /\ phase = "parsed"
    /\ phase' = IF Violations(tree) = {} THEN "checked" ELSE "rejected"
    /\ UNCHANGED <<doc, targets, store, mode, asked, secrets, tree, config, prior>>

UsedNames == {tree[p].body : p \in Uses(tree)}

\* Variant: the Secrets do not remember their names.
ResolveAnonymous ==
    /\ phase = "checked"
    /\ mode = "resolver"
    /\ RefValue \notin {store[n] : n \in UsedNames}
    /\ asked' = UsedNames
    /\ secrets' = [n \in UsedNames |-> NewSecret(store[n])]
    /\ phase' = "resolved"
    /\ UNCHANGED <<doc, targets, store, mode, tree, config, prior>>

\* resolveSecrets, each name once; its goroutines are in module SecretResolve.
Resolve ==
    /\ phase = "checked"
    /\ mode = "resolver"
    /\ RefValue \notin {store[n] : n \in UsedNames}
    /\ asked' = UsedNames
    /\ secrets' = [n \in UsedNames |-> Secret(store[n], n, FALSE)]
    /\ phase' = "resolved"
    /\ UNCHANGED <<doc, targets, store, mode, tree, config, prior>>

\* The store fails for some name, or holds a reference under it.
ResolveFails ==
    /\ phase = "checked"
    /\ mode = "resolver"
    /\ asked' \in SUBSET UsedNames \ {{}}
    /\ phase' = "unresolvable"
    /\ UNCHANGED <<doc, targets, store, mode, secrets, tree, config, prior>>

\* Without a resolver a document may hold no reference; DecodeUnresolved makes
\* of each a Secret that was never fetched.
ResolveNone ==
    /\ phase = "checked"
    /\ mode # "resolver"
    /\ IF mode = "none" /\ UsedNames # {}
       THEN phase' = "unresolvable" /\ UNCHANGED secrets
       ELSE /\ phase' = "resolved"
            /\ secrets' = [n \in UsedNames |-> Secret(Empty, n, TRUE)]
    /\ UNCHANGED <<doc, targets, store, mode, asked, tree, config, prior>>

\* Secrets for references, literals for escaped references.
Filled(d, values) ==
    [p \in DOMAIN d |-> IF IsRef(d[p]) THEN values[d[p].body] ELSE Unescape(d[p])]

\* Variant: what was escaped is taken for a reference.
FillTwice ==
    /\ phase = "resolved"
    /\ tree' = [p \in DOMAIN tree |->
                   LET s == Unescape(tree[p])
                   IN  IF IsRef(s) /\ s.body \in DOMAIN secrets THEN secrets[s.body] ELSE s]
    /\ phase' = "filled"
    /\ UNCHANGED <<doc, targets, store, mode, asked, secrets, config, prior>>

Fill ==
    /\ phase = "resolved"
    /\ tree' = Filled(tree, secrets)
    /\ phase' = "filled"
    /\ UNCHANGED <<doc, targets, store, mode, asked, secrets, config, prior>>

Decode ==
    /\ phase = "filled"
    /\ LET decoded == [t \in targets |-> RecomputeTarget(t, tree)]
       IN  IF \E t \in targets : \E l \in decoded[t] : l.kind = "error"
           THEN phase' = "undecodable" /\ UNCHANGED config
           ELSE phase' = "loaded" /\ config' = decoded
    /\ UNCHANGED <<doc, targets, store, mode, asked, secrets, tree, prior>>

-----------------------------------------------------------------------------
(* What comes after a load. *)

\* Variant: the key covers the names of the secrets and not their values.
KeyOfNames(d, values) == [doc |-> d, values |-> DOMAIN values]

\* secretChangeKey of a document that is accepted.
ChangeKey(d, values) ==
    [doc |-> d, values |-> [n \in DOMAIN values |-> values[n].plain]]

Again(why, dumped) ==
    /\ phase = "loaded"
    /\ prior = NoPrior
    /\ prior' = [why |-> why, dumped |-> dumped, doc |-> doc, config |-> config,
                 key |-> ChangeKey(doc, secrets)]
    /\ phase' = "fetched"
    /\ asked' = {}
    /\ secrets' = NoSecrets
    /\ tree' = NoTree
    /\ config' = NoTree
    /\ UNCHANGED <<targets, mode>>

Rotate ==
    /\ Again("rotated", {})
    /\ mode = "resolver"
    /\ store' \in [Names -> Plain]
    /\ UNCHANGED doc

\* The program marshals what a Load returned and stores it as the document.
Dump(leaves) ==
    [p \in {l.path : l \in leaves} |-> Printed((CHOOSE l \in leaves : l.path = p).value)]

WriteBack ==
    /\ \E t \in targets :
          /\ t.kind = "struct" /\ t.path = <<>>
          /\ Again("dumped", {t})
          /\ doc' = Dump(config[t])
    /\ UNCHANGED store

Next ==
    \/ Parse \/ Check \/ Resolve \/ ResolveFails \/ ResolveNone \/ Fill \/ Decode
    \/ Rotate \/ WriteBack

Spec == Init /\ [][Next]_vars

-----------------------------------------------------------------------------
(* Properties. *)

References == {p \in DOMAIN doc : IsRef(TagsToStrings(doc[p]))}
NameAt(p) == TagsToStrings(doc[p]).body

\* Decoding makes a Secret of the reference at p, whatever its secret is.
Lands(t, p) ==
    LET plain == [q \in DOMAIN doc |-> TagsToStrings(doc[q])]
        dummy == Filled(plain, [n \in Names |-> Secret(Empty, n, TRUE)])
    IN  \E l \in RecomputeTarget(t, dummy) :
           l.path = p /\ l.kind = "secret" /\ ~l.loose

LandsEverywhere(p) ==
    /\ \E t \in targets : Covers(t, p)
    /\ \A t \in targets : Covers(t, p) => Lands(t, p)

\* The check, which follows a path through the types, and the decoder, which
\* follows the types through the document, agree on where a reference lands:
\* a document gets past the check exactly when every reference would become a
\* Secret in every target that reads its path, and only then is the resolver
\* called (secretref.go:281-283, README.md:206).
AcceptedIffLands ==
    /\ phase = "rejected" => \E p \in References : ~LandsEverywhere(p)
    /\ phase \notin {"fetched", "parsed", "unparsed", "rejected"} \/ asked # {} =>
          \A p \in References : LandsEverywhere(p)

\* Every reference of the document, and nothing else, is a Secret of its name
\* in what was loaded, with the store's value unless it was not to be fetched;
\* an escaped reference is never one (secretref.go:226-237).
RefsBecomeSecrets ==
    phase = "loaded" =>
        /\ \A p \in References : \A t \in targets : Covers(t, p) =>
              \E l \in config[t] :
                 /\ l.path = p
                 /\ l.value = IF mode = "unresolved" THEN Secret(Empty, NameAt(p), TRUE)
                              ELSE Secret(store[NameAt(p)], NameAt(p), FALSE)
        /\ \A t \in targets : \A l \in config[t] :
              l.value.form = "secret" /\ l.value.ref # NoName =>
                 l.path \in References /\ NameAt(l.path) = l.value.ref

\* "a config dumped as YAML or JSON and written back resolves the secret again
\* [...] a dump can never be stored as the secret itself" (README.md:210): if
\* the dump is accepted as a document, the secrets in it are the same.
DumpKeepsSecrets ==
    phase = "loaded" /\ prior.why = "dumped" =>
        \A t \in prior.dumped :
            {l \in config[t] : l.kind = "secret"} =
                {l \in prior.config[t] : l.kind = "secret"}

\* The change key differs exactly when the document or something decoded from it
\* does, so that a poll misses no rotation that matters and reloads for no
\* other (secretref.go:540-546).
KeyTracksConfig ==
    phase = "loaded" /\ prior.why = "rotated" =>
        (ChangeKey(doc, secrets) = prior.key <=> config = prior.config)

\* Both walks over the types read a leaf alike, target by target, also where the
\* document is rejected or a target cannot be built, of which AcceptedIffLands
\* says nothing: the check lets a reference through for a target exactly when it
\* would become a Secret of that target; a named Secret in a target is the one
\* at its path in the tree; and one that was let through arrives unchanged, its
\* name and value included, whatever else of the target fails
\* (secretref.go:281-316, secret.go:159-188).
DecoderReads ==
    \A t \in targets :
        /\ \A p \in References :
              phase \notin {"fetched", "unparsed"} /\ Covers(t, p) =>
                 (LandsOnSecret(t.type, Inside(t, p)) <=> Lands(t, p))
        /\ \A l \in RecomputeTarget(t, tree) :
              l.kind # "error" /\ l.value.form = "secret" /\ l.value.ref # NoName =>
                 l.path \in DOMAIN tree /\ l.value = tree[l.path]
        /\ \A p \in DOMAIN tree :
              /\ tree[p].form = "secret" /\ Covers(t, p)
              /\ LandsOnSecret(t.type, Inside(t, p))
              => \E l \in RecomputeTarget(t, tree) :
                    l.kind # "error" /\ l.path = p /\ l.value = tree[p]

-----------------------------------------------------------------------------
(* The inductive invariant of the proofs (module SecretRefsProofs). *)

Parsed == [p \in DOMAIN doc |-> TagsToStrings(doc[p])]
Wanted == {NameAt(p) : p \in References}

\* What each stage of the way has established.
Staged ==
    /\ IsDocument(doc)
    /\ phase \in {"parsed", "checked", "resolved"} => tree = Parsed
    /\ phase \notin {"fetched", "unparsed"} => Parsable(Parsed)
    /\ phase = "rejected" => Violations(Parsed) # {}
    /\ phase \notin {"fetched", "parsed", "unparsed", "rejected"} =>
          Violations(Parsed) = {}
    /\ phase \in {"fetched", "parsed", "unparsed", "rejected", "checked"} => asked = {}
    /\ phase \in {"resolved", "filled", "undecodable", "loaded"} =>
          secrets = [n \in Wanted |->
                        IF mode = "unresolved" THEN Secret(Empty, n, TRUE)
                        ELSE Secret(store[n], n, FALSE)]
    /\ phase \in {"filled", "undecodable", "loaded"} =>
          tree = Filled(Parsed, secrets)
    /\ phase = "loaded" =>
          /\ config = [t \in targets |-> RecomputeTarget(t, tree)]
          /\ \A t \in targets : \A l \in config[t] : l.kind # "error"

\* The load before this one was made of these plaintexts.
MadeOf(values) ==
    /\ prior.key = [doc |-> doc, values |-> values]
    /\ prior.config =
          [t \in targets |->
             RecomputeTarget(t, Filled(Parsed,
                [n \in Wanted |-> Secret(values[n], n, FALSE)]))]
    /\ \A p \in References : \A t \in targets : Covers(t, p) =>
          \E l \in prior.config[t] :
             /\ l.path = p
             /\ l.value = Secret(values[NameAt(p)], NameAt(p), FALSE)

\* The key of the load before a rotation tells the plaintexts it was made of.
Kept ==
    prior.why = "rotated" =>
        /\ mode = "resolver"
        /\ \E values \in [Wanted -> Plain] : MadeOf(values)

\* What a document is filled with.
SecretOf(n) ==
    IF mode = "unresolved" THEN Secret(Empty, n, TRUE) ELSE Secret(store[n], n, FALSE)
ParsedOf(d) == [p \in DOMAIN d |-> TagsToStrings(d[p])]
FilledOf(d) == Filled(ParsedOf(d), [n \in Names |-> SecretOf(n)])

\* A document that was written back is the dump of the load before this one.
Dumped ==
    prior.why = "dumped" =>
        /\ IsDocument(prior.doc)
        /\ Parsable(ParsedOf(prior.doc))
        /\ \A t \in prior.dumped :
              /\ t \in targets /\ t.kind = "struct" /\ t.path = <<>>
              /\ prior.config[t] = RecomputeTarget(t, FilledOf(prior.doc))
              /\ \A l \in prior.config[t] : l.kind # "error"
              /\ doc = Dump(prior.config[t])
=============================================================================
