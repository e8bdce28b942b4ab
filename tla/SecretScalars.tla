--------------------------- MODULE SecretScalars ----------------------------
(***************************************************************************)
(* The leaves of a document, and the paths that lead to them.              *)
(*                                                                         *)
(* A string scalar is a number of "!" before a body, so that "!secret NAME" *)
(* has one bang and the body NAME, and "!!secret NAME" two.  A Secret that *)
(* has taken the place of a reference is one more form of a leaf.          *)
(***************************************************************************)
EXTENDS Naturals, Sequences

CONSTANTS
    Names,      \* the names of secrets
    NoName,     \* the body of "!secret" without a name
    Marker,     \* the body of "[REDACTED]"
    Empty,      \* the body of the empty string
    Fold(_)     \* a key without its case

Str(bangs, body) == [form |-> "string", bangs |-> bangs, body |-> body]

\* secretRefName: the scalar is "!secret NAME" or a nameless "!secret".
LooksLikeRef(body) == body \in Names \cup {NoName}
IsRef(s) == s.form = "string" /\ s.bangs = 1 /\ LooksLikeRef(s.body)

\* unescapeSecretRef: one bang fewer.
Unescape(s) ==
    IF s.form = "string" /\ s.bangs >= 2 /\ LooksLikeRef(s.body)
    THEN [s EXCEPT !.bangs = @ - 1]
    ELSE s

\* tagsToStrings: a scalar tagged !secret becomes the string form.
TagsToStrings(s) == IF s.form = "tagged" THEN Str(1, s.body) ELSE s

Secret(plain, ref, unresolved) ==
    [form |-> "secret", plain |-> plain, ref |-> ref, unresolved |-> unresolved]

NewSecret(plain) == Secret(plain, NoName, FALSE)

IsEmpty(s) == s.plain = Empty /\ ~s.unresolved

\* Secret.String, which every marshaller uses: the reference, nothing, or the
\* redaction marker.
Printed(s) ==
    CASE s.form # "secret" -> s
      [] s.form = "secret" /\ s.ref # NoName -> Str(1, s.ref)
      [] s.form = "secret" /\ s.ref = NoName /\ IsEmpty(s) -> Str(0, Empty)
      [] OTHER -> Str(0, Marker)

\* Variant: the redaction marker is a value like any other.
DecodableMarker(s) == s.form = "secret" \/ (s.form = "string" /\ ~IsRef(s))

\* SecretDecodeHook accepts a Secret, and any string but two.
Decodable(s) ==
    \/ s.form = "secret"
    \/ s.form = "string" /\ ~IsRef(s) /\ s # Str(0, Marker)

\* A literal's plaintext is the string itself.
DecodeSecret(s) ==
    IF s.form = "secret" THEN s
    ELSE NewSecret(IF s = Str(0, Empty) THEN Empty ELSE s)

-----------------------------------------------------------------------------
(* Which targets read a path. *)

\* secretTarget.covers
Covers(target, path) ==
    /\ Len(target.path) <= Len(path)
    /\ \A i \in DOMAIN target.path :
          ~path[i].isIndex /\ Fold(path[i].key) = Fold(target.path[i])

Inside(target, path) == SubSeq(path, Len(target.path) + 1, Len(path))
=============================================================================
