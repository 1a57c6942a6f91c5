---------------------------- MODULE Certificates ----------------------------
(***************************************************************************)
(* Certificates (server/crypto/x509.ts): how one is read, whether it was   *)
(* signed by another, and whether a chain of them ends at a root.  A       *)
(* certificate is a record: its subject and issuer names, its key and the  *)
(* key that signed it, what its basicConstraints say ("true", "false" or      *)
(* "malformed"), its window, whether its signature algorithm is known, and  *)
(* "form", the elements it consists of.                                    *)
(***************************************************************************)
EXTENDS Naturals, Sequences

Least == INSTANCE FiniteSetsExt

----------------------------------------------------------------------------
(* Certificate.parse.  tbs is the sequence of the tbsCertificate's         *)
(* children: version [0], INTEGER, names and algorithms, a validity of as  *)
(* many times, a key, extensions [3] of as many parts; what is read of a   *)
(* missing child is a TypeError.                                           *)

Children == {"version", "integer", "structure", "validity", "half validity", "key",
             "other key", "empty key", "extensions", "empty extension", "bare extension"}

\* What the first of the steps that fails throws.
FirstFailure(steps) ==
    LET failed == {i \in 1..Len(steps) : steps[i] # "ok"}
    IN  IF failed = {} THEN "ok" ELSE steps[Least!Min(failed)]

Serial(tbs, index) ==
    IF index > Len(tbs) THEN "TypeError" ELSE IF tbs[index] = "integer" THEN "ok" ELSE "parse_error"

Required(tbs, index) == IF Len(tbs) < index + 5 THEN "parse_error" ELSE "ok"

Validity(tbs, index) == IF tbs[index + 3] = "validity" THEN "ok" ELSE "parse_error"

Extension(child) ==
    CASE child = "empty extension" -> "TypeError"
      [] child = "bare extension"  -> "parse_error"
      [] OTHER                     -> "ok"

Name(child) == IF child \in {"integer", "validity", "half validity"} THEN "parse_error" ELSE "ok"

PublicKeyInfo(child) ==
    CASE child = "key" -> "ok"  [] child = "other key" -> "unsupported_feature"
      [] child = "empty key" -> "TypeError"  [] OTHER -> "parse_error"

Parse(form) ==
    IF form.children < 3 THEN "parse_error" ELSE
    LET tbs == form.tbs
        index == IF tbs # <<>> /\ tbs[1] = "version" THEN 2 ELSE 1
        front == FirstFailure(<<Serial(tbs, index), Required(tbs, index)>>)
    IN  IF front # "ok" THEN front
        ELSE FirstFailure(<<Validity(tbs, index)>>
                          \o [i \in 1..Len(tbs) - index - 5 |-> Extension(tbs[index + 5 + i])]
                          \o <<Name(tbs[index + 2]), Name(tbs[index + 4]), PublicKeyInfo(tbs[index + 5])>>)

----------------------------------------------------------------------------
(* Chains                                                                  *)

IsValidAt(certificate, at) == certificate.notBefore <= at /\ at <= certificate.notAfter

IsIssuedBy(certificate, issuer) == certificate.issuer = issuer.subject

\* Variant: the name of the issuer vouches for the signature.
VerifyByName(certificate, issuer) == IF certificate.known THEN "true" ELSE "unsupported_feature"

VerifySignatureBy(certificate, issuer) ==
    IF ~certificate.known THEN "unsupported_feature"
    ELSE IF certificate.signer = issuer.key THEN "true" ELSE "false"

\* Variant: the authority of a certificate above the first is not asked for.
LinkOfAny(child, parent) ==
    IF IsIssuedBy(child, parent) THEN VerifySignatureBy(child, parent) ELSE "false"

Link(child, parent) ==
    IF ~IsIssuedBy(child, parent) THEN "false"
    ELSE CASE parent.ca = "true"  -> VerifySignatureBy(child, parent)
           [] parent.ca = "false" -> "false"
           [] OTHER               -> "parse_error"

\* Variant: the window of a root is not looked at.
EndsAnyTime(top, root, at) ==
    IF top = root THEN "true"
    ELSE IF IsIssuedBy(top, root) THEN VerifySignatureBy(top, root) ELSE "false"

EndsAt(top, root, at) ==
    IF top = root THEN "true"
    ELSE IF IsValidAt(root, at) /\ IsIssuedBy(top, root) THEN VerifySignatureBy(top, root)
    ELSE "false"

\* The first answer that is not the one that goes on; otherwise that one.
FirstOther(answers, goOn) ==
    LET other == {i \in 1..Len(answers) : answers[i] # goOn}
    IN  IF other = {} THEN goOn ELSE answers[Least!Min(other)]

\* Variant: the first root of the issuer's name decides.
FirstNamesake(top, roots, at) ==
    LET named == {i \in 1..Len(roots) : roots[i] = top \/ IsIssuedBy(top, roots[i])}
    IN  IF named = {} THEN "false" ELSE EndsAt(top, roots[Least!Min(named)], at)

AnyRoot(top, roots, at) == FirstOther([i \in 1..Len(roots) |-> EndsAt(top, roots[i], at)], "false")

ChainIsTrusted(chain, roots, at) ==
    IF chain = <<>> \/ roots = <<>> \/ \E i \in 1..Len(chain) : ~IsValidAt(chain[i], at) THEN "false"
    ELSE LET links == FirstOther([i \in 1..Len(chain) - 1 |-> Link(chain[i], chain[i + 1])], "true")
         IN  IF links = "true" THEN AnyRoot(chain[Len(chain)], roots, at) ELSE links

----------------------------------------------------------------------------
\* A chain of proof: one of the roots, valid now unless it is itself presented,
\* stands above the leaf, over certificates that are all presented, all valid now,
\* each the authority whose key signed the one below.  What is proven is the least
\* set that has what a root has signed, or is, and what is signed by an authority in it.
HasAProof(chain, roots, at) ==
    LET presented == {chain[i] : i \in 1..Len(chain)}
        given == {roots[i] : i \in 1..Len(roots)}
        Signed(c, p) == c.signer = p.key /\ c.issuer = p.subject /\ c.known
        Rooted(c) == c \in given \/ \E r \in given : IsValidAt(r, at) /\ Signed(c, r)
        Closed(proven) == \A c \in presented :
                              Rooted(c) \/ (\E p \in proven : p.ca = "true" /\ Signed(c, p)) => c \in proven
    IN  /\ \A proven \in SUBSET presented : Closed(proven) => chain[1] \in proven
        /\ \A c \in presented : IsValidAt(c, at)

\* A chain is trusted only with a chain of proof (x509.ts:368-374).
TrustHasAProof(chain, roots, at) == ChainIsTrusted(chain, roots, at) = "true" => HasAProof(chain, roots, at)

\* More roots never take trust away, as long as every signature algorithm is known
\* (the loop of x509.ts:397-402).
MoreRootsTrustMore(chain, roots, root, at) ==
    (\A i \in 1..Len(chain) : chain[i].known) /\ ChainIsTrusted(chain, roots, at) = "true" =>
        /\ ChainIsTrusted(chain, Append(roots, root), at) = "true"
        /\ ChainIsTrusted(chain, <<root>> \o roots, at) = "true"
=============================================================================
