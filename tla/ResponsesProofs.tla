--------------------------- MODULE ResponsesProofs ---------------------------
(***************************************************************************)
(* Theorems about Responses: for chains and lists of roots of any length,  *)
(* any statements, and any number of calls with any keys.                  *)
(***************************************************************************)
EXTENDS Responses, DecoderProofs

----------------------------------------------------------------------------
(* Chains                                                                  *)

\* The community modules' least element is one.
LEMMA MinOf ==
  ASSUME NEW S \in SUBSET Nat, S # {}
  PROVE  T!Least!Min(S) \in S /\ \A y \in S : T!Least!Min(S) <= y
  <1>1. \E x \in S : \A y \in S : x <= y
    BY LeastMember
  <1> QED BY <1>1 DEF T!Least!Min

\* What the loops over certificates and roots find: the first answer that is not
\* the one that goes on, with all before it going on, or that all go on.
LEMMA FirstOtherIs ==
  ASSUME NEW A, NEW answers \in Seq(A), NEW goOn
  PROVE  \/ T!FirstOther(answers, goOn) = goOn /\ \A i \in 1..Len(answers) : answers[i] = goOn
         \/ \E i \in 1..Len(answers) :
              /\ T!FirstOther(answers, goOn) = answers[i] /\ answers[i] # goOn
              /\ \A j \in 1..i - 1 : answers[j] = goOn
  <1> DEFINE other == {i \in 1..Len(answers) : answers[i] # goOn}
  <1>1. CASE other = {}
    BY <1>1 DEF T!FirstOther
  <1>2. CASE other # {}
    <2>1. T!Least!Min(other) \in other /\ \A j \in other : T!Least!Min(other) <= j
      <3>1. other \in SUBSET Nat
        OBVIOUS
      <3> HIDE DEF other
      <3> QED BY <1>2, <3>1, MinOf
    <2>2. T!FirstOther(answers, goOn) = answers[T!Least!Min(other)]
      BY <1>2 DEF T!FirstOther
    <2>3. \A j \in 1..T!Least!Min(other) - 1 : answers[j] = goOn
      BY <2>1
    <2> QED BY <2>1, <2>2, <2>3
  <1> QED BY <1>1, <1>2

Verdicts == {"true", "false", "unsupported_feature", "parse_error"}

\* A link is answered by one of the verdicts, and so is a root at the end.
LEMMA VerdictsOnly ==
  ASSUME NEW c, NEW p, NEW t
  PROVE  T!Link(c, p) \in Verdicts /\ T!EndsAt(c, p, t) \in Verdicts
  BY DEF T!Link, T!EndsAt, T!VerifySignatureBy, Verdicts

\* A chain is trusted when every link holds and one root ends it, before which
\* none threw.
LEMMA TrustedIs ==
  ASSUME NEW C, NEW ch \in Seq(C), NEW rs \in Seq(C), NEW t,
         T!ChainIsTrusted(ch, rs, t) = "true"
  PROVE  /\ ch # <<>>
         /\ \A i \in 1..Len(ch) : T!IsValidAt(ch[i], t)
         /\ \A i \in 1..Len(ch) - 1 : T!Link(ch[i], ch[i + 1]) = "true"
         /\ \E r \in 1..Len(rs) : /\ T!EndsAt(ch[Len(ch)], rs[r], t) = "true"
                                  /\ \A s \in 1..r - 1 : T!EndsAt(ch[Len(ch)], rs[s], t) = "false"
  <1> DEFINE links == [i \in 1..Len(ch) - 1 |-> T!Link(ch[i], ch[i + 1])]
             ends == [i \in 1..Len(rs) |-> T!EndsAt(ch[Len(ch)], rs[i], t)]
  <1>1. ch # <<>> /\ \A i \in 1..Len(ch) : T!IsValidAt(ch[i], t)
    BY DEF T!ChainIsTrusted
  <1>2. links \in Seq(Verdicts) /\ Len(links) = Len(ch) - 1
    BY <1>1, VerdictsOnly
  <1>3. ends \in Seq(Verdicts) /\ Len(ends) = Len(rs)
    BY VerdictsOnly
  <1>4. T!FirstOther(links, "true") = "true" /\ T!FirstOther(ends, "false") = "true"
    BY <1>1 DEF T!ChainIsTrusted, T!AnyRoot
  <1>5. \A i \in 1..Len(links) : links[i] = "true"
    <2> HIDE DEF links
    <2> QED BY <1>2, <1>4, FirstOtherIs
  <1>6. \E r \in 1..Len(ends) : ends[r] = "true" /\ \A s \in 1..r - 1 : ends[s] = "false"
    <2> HIDE DEF ends
    <2> QED BY <1>3, <1>4, FirstOtherIs
  <1>7. \A i \in 1..Len(ch) - 1 : T!Link(ch[i], ch[i + 1]) = "true"
    BY <1>2, <1>5
  <1>8. \E r \in 1..Len(rs) : ends[r] = "true" /\ \A s \in 1..r - 1 : ends[s] = "false"
    BY <1>3, <1>6
  <1>9. \E r \in 1..Len(rs) : /\ T!EndsAt(ch[Len(ch)], rs[r], t) = "true"
                             /\ \A s \in 1..r - 1 : T!EndsAt(ch[Len(ch)], rs[s], t) = "false"
    <2>1. PICK r \in 1..Len(rs) : ends[r] = "true" /\ \A s \in 1..r - 1 : ends[s] = "false"
      BY <1>8
    <2>2. T!EndsAt(ch[Len(ch)], rs[r], t) = "true"
      BY <2>1
    <2>3. ASSUME NEW s \in 1..r - 1 PROVE T!EndsAt(ch[Len(ch)], rs[s], t) = "false"
      <3>1. s \in 1..Len(rs)
        OBVIOUS
      <3>2. ends[s] = "false"
        BY <2>1
      <3>3. ends[s] = T!EndsAt(ch[Len(ch)], rs[s], t)
        BY <3>1
      <3> QED BY <3>2, <3>3
    <2> QED BY <2>2, <2>3
  <1> QED BY <1>1, <1>7, <1>9

\* And the other way round.
LEMMA TrustedIf ==
  ASSUME NEW C, NEW ch \in Seq(C), NEW rs \in Seq(C), NEW t,
         ch # <<>>, \A i \in 1..Len(ch) : T!IsValidAt(ch[i], t),
         \A i \in 1..Len(ch) - 1 : T!Link(ch[i], ch[i + 1]) = "true",
         NEW r \in 1..Len(rs), T!EndsAt(ch[Len(ch)], rs[r], t) = "true",
         \A s \in 1..r - 1 : T!EndsAt(ch[Len(ch)], rs[s], t) = "false"
  PROVE  T!ChainIsTrusted(ch, rs, t) = "true"
  <1> DEFINE links == [i \in 1..Len(ch) - 1 |-> T!Link(ch[i], ch[i + 1])]
             ends == [i \in 1..Len(rs) |-> T!EndsAt(ch[Len(ch)], rs[i], t)]
  <1>1. links \in Seq(Verdicts) /\ Len(links) = Len(ch) - 1
    BY VerdictsOnly
  <1>2. ends \in Seq(Verdicts) /\ Len(ends) = Len(rs)
    BY VerdictsOnly
  <1>3. \A i \in 1..Len(links) : links[i] = "true"
    BY <1>1
  <1>4. ends[r] = "true" /\ \A s \in 1..r - 1 : ends[s] = "false"
    OBVIOUS
  <1>5. T!FirstOther(links, "true") = "true"
    <2> HIDE DEF links
    <2> QED BY <1>1, <1>3, FirstOtherIs
  <1>6. T!FirstOther(ends, "false") = "true"
    <2> HIDE DEF ends
    <2>1. PICK i \in 1..Len(ends) : /\ T!FirstOther(ends, "false") = ends[i] /\ ends[i] # "false"
                                    /\ \A j \in 1..i - 1 : ends[j] = "false"
      BY <1>2, <1>4, FirstOtherIs
    <2>2. i = r
      BY <1>2, <1>4, <2>1
    <2> QED BY <1>4, <2>1, <2>2
  <1>7. rs # <<>>
    OBVIOUS
  <1> QED BY <1>5, <1>6, <1>7 DEF T!ChainIsTrusted, T!AnyRoot

\* Down the chain from the certificate below the root, each is in every closed set.
LEMMA TrustNeedsAProof ==
  ASSUME NEW C, NEW ch \in Seq(C), NEW rs \in Seq(C), NEW t
  PROVE  T!TrustHasAProof(ch, rs, t)
  <1> SUFFICES ASSUME T!ChainIsTrusted(ch, rs, t) = "true"
               PROVE  T!HasAProof(ch, rs, t)
    BY DEF T!TrustHasAProof
  <1> DEFINE presented == {ch[i] : i \in 1..Len(ch)}
             given == {rs[i] : i \in 1..Len(rs)}
             Signed(c, p) == c.signer = p.key /\ c.issuer = p.subject /\ c.known
             Rooted(c) == c \in given \/ \E r \in given : T!IsValidAt(r, t) /\ Signed(c, r)
             Closed(proven) == \A c \in presented :
                                 Rooted(c) \/ (\E p \in proven : p.ca = "true" /\ Signed(c, p)) => c \in proven
             n == Len(ch)
  <1>1. /\ ch # <<>> /\ \A i \in 1..n : T!IsValidAt(ch[i], t)
        /\ \A i \in 1..n - 1 : T!Link(ch[i], ch[i + 1]) = "true"
        /\ \E r \in 1..Len(rs) : T!EndsAt(ch[n], rs[r], t) = "true"
    BY TrustedIs
  <1>2. n \in Nat \ {0}
    BY <1>1
  <1>3. Rooted(ch[n])
    BY <1>1 DEF T!EndsAt, T!IsIssuedBy, T!VerifySignatureBy
  <1>4. \A i \in 1..n - 1 : ch[i + 1].ca = "true" /\ Signed(ch[i], ch[i + 1])
    BY <1>1 DEF T!Link, T!IsIssuedBy, T!VerifySignatureBy
  <1>5. ASSUME NEW proven \in SUBSET presented, Closed(proven)
        PROVE  ch[1] \in proven
    <2> DEFINE Below == {k \in Nat : k < n => ch[n - k] \in proven}
    <2>1. 0 \in Below
      BY <1>2, <1>3, <1>5
    <2>2. ASSUME NEW k \in Nat, k \in Below PROVE k + 1 \in Below
      <3>1. CASE k + 1 < n
        <4>1. ch[n - k] \in proven /\ n - k = (n - (k + 1)) + 1 /\ n - (k + 1) \in 1..n - 1
          BY <1>2, <2>2, <3>1
        <4>2. ch[n - k].ca = "true" /\ Signed(ch[n - (k + 1)], ch[n - k])
          BY <1>4, <4>1
        <4>3. ch[n - (k + 1)] \in presented
          BY <4>1
        <4>4. ch[n - (k + 1)] \in proven
          BY <1>5, <4>1, <4>2, <4>3
        <4> QED BY <4>4
      <3> QED BY <3>1, <1>2
    <2>3. Nat \subseteq Below
      <3> HIDE DEF Below
      <3> QED BY <2>1, <2>2, Induction
    <2> QED BY <1>2, <2>3
  <1>6. \A c \in presented : T!IsValidAt(c, t)
    BY <1>1
  <1> QED BY <1>5, <1>6 DEF T!HasAProof

\* Another root, asked last or first.
LEMMA AnotherRoot ==
  ASSUME NEW C, NEW ch \in Seq(C), NEW rs \in Seq(C), NEW root \in C, NEW t
  PROVE  T!MoreRootsTrustMore(ch, rs, root, t)
  <1> SUFFICES ASSUME \A i \in 1..Len(ch) : ch[i].known, T!ChainIsTrusted(ch, rs, t) = "true"
               PROVE  /\ T!ChainIsTrusted(ch, Append(rs, root), t) = "true"
                      /\ T!ChainIsTrusted(ch, <<root>> \o rs, t) = "true"
    BY DEF T!MoreRootsTrustMore
  <1> DEFINE top == ch[Len(ch)]
  <1>1. /\ ch # <<>> /\ \A i \in 1..Len(ch) : T!IsValidAt(ch[i], t)
        /\ \A i \in 1..Len(ch) - 1 : T!Link(ch[i], ch[i + 1]) = "true"
    BY TrustedIs
  <1>2. PICK r \in 1..Len(rs) : /\ T!EndsAt(top, rs[r], t) = "true"
                                /\ \A s \in 1..r - 1 : T!EndsAt(top, rs[s], t) = "false"
    BY TrustedIs
  <1>3. T!EndsAt(top, root, t) \in {"true", "false"}
    <2>1. top.known
      BY <1>1
    <2> QED BY <2>1 DEF T!EndsAt, T!VerifySignatureBy
  <1>4. T!ChainIsTrusted(ch, Append(rs, root), t) = "true"
    <2> DEFINE more == Append(rs, root)
    <2>1. more \in Seq(C) /\ r \in 1..Len(more) /\ more[r] = rs[r] /\ \A s \in 1..r - 1 : more[s] = rs[s]
      OBVIOUS
    <2> HIDE DEF more
    <2>2. /\ T!EndsAt(ch[Len(ch)], more[r], t) = "true"
          /\ \A s \in 1..r - 1 : T!EndsAt(ch[Len(ch)], more[s], t) = "false"
      BY <1>2, <2>1
    <2>3. T!ChainIsTrusted(ch, more, t) = "true"
      BY <1>1, <2>1, <2>2, TrustedIf
    <2> QED BY <2>3 DEF more
  <1>5. T!ChainIsTrusted(ch, <<root>> \o rs, t) = "true"
    <2> DEFINE more == <<root>> \o rs
    <2>1. /\ more \in Seq(C) /\ Len(more) = Len(rs) + 1 /\ more[1] = root
          /\ \A i \in 1..Len(rs) : more[i + 1] = rs[i]
      OBVIOUS
    <2> HIDE DEF more
    <2>2. CASE T!EndsAt(top, root, t) = "true"
      <3>1. 1 \in 1..Len(more) /\ T!EndsAt(top, more[1], t) = "true"
        BY <2>1, <2>2
      <3>2. \A s \in 1..1 - 1 : T!EndsAt(top, more[s], t) = "false"
        OBVIOUS
      <3>3. T!ChainIsTrusted(ch, more, t) = "true"
        BY <1>1, <2>1, <3>1, <3>2, TrustedIf
      <3> QED BY <3>3 DEF more
    <2>3. CASE T!EndsAt(top, root, t) = "false"
      <3>1. r + 1 \in 1..Len(more) /\ T!EndsAt(top, more[r + 1], t) = "true"
        BY <1>2, <2>1
      <3>2. ASSUME NEW s \in 1..(r + 1) - 1 PROVE T!EndsAt(top, more[s], t) = "false"
        <4>1. CASE s = 1
          BY <2>1, <2>3, <4>1
        <4>2. CASE s # 1
          <5>1. s - 1 \in 1..r - 1 /\ s - 1 \in 1..Len(rs) /\ (s - 1) + 1 = s
            BY <4>2
          <5>2. more[s] = rs[s - 1]
            BY <2>1, <5>1
          <5> QED BY <1>2, <5>1, <5>2
        <4> QED BY <4>1, <4>2
      <3>3. T!ChainIsTrusted(ch, more, t) = "true"
        BY <1>1, <2>1, <3>1, <3>2, TrustedIf
      <3> QED BY <3>3 DEF more
    <2> QED BY <1>3, <2>2, <2>3
  <1> QED BY <1>4, <1>5

----------------------------------------------------------------------------
(* Statements                                                              *)

Judging == {"self", "packed", "fido-u2f", "apple"}

\* A statement with a chain goes on only with a leaf that was valid when the call
\* began, and nothing is answered before the end.
StatementInv ==
  matter = "attestation" =>
    /\ statement \in Statements
    /\ clock \in Nat /\ began \in Nat /\ began <= clock
    /\ place \in {"waiting", "done"} \cup Judging
    /\ place # "done" => answer = T!None
    /\ place \in Judging \ {"self"} => T!X5c.chain # <<>> /\ T!IsValidAt(T!Leaf, began)

\* What is answered at the end.
AnswerInv ==
  /\ matter # "attestation" => answer = T!None
  /\ T!TrustedIsProven /\ T!AcceptedForThisResponse /\ T!NoFaultEscapes

ChainInv == chain \in Seq(Pool) /\ roots \in Seq(Pool)

\* A chain is answered by one of the verdicts.
LEMMA VerdictIs ==
  ASSUME NEW C, NEW ch \in Seq(C), NEW rs \in Seq(C), NEW t
  PROVE  T!ChainIsTrusted(ch, rs, t) \in Verdicts
  <1> DEFINE links == [i \in 1..Len(ch) - 1 |-> T!Link(ch[i], ch[i + 1])]
             ends == [i \in 1..Len(rs) |-> T!EndsAt(ch[Len(ch)], rs[i], t)]
  <1>1. CASE ch = <<>>
    BY <1>1 DEF T!ChainIsTrusted, Verdicts
  <1>2. CASE ch # <<>>
    <2>1. links \in Seq(Verdicts) /\ Len(links) = Len(ch) - 1
      BY <1>2, VerdictsOnly
    <2>2. ends \in Seq(Verdicts) /\ Len(ends) = Len(rs)
      BY VerdictsOnly
    <2>3. T!FirstOther(links, "true") \in Verdicts
      <3> HIDE DEF links
      <3> QED BY <2>1, FirstOtherIs DEF Verdicts
    <2>4. T!FirstOther(ends, "false") \in Verdicts
      <3> HIDE DEF ends
      <3> QED BY <2>2, FirstOtherIs DEF Verdicts
    <2> QED BY <2>3, <2>4 DEF T!ChainIsTrusted, T!AnyRoot, Verdicts
  <1> QED BY <1>1, <1>2

\* The end of a statement with a chain: "trusted" only with a proof at this moment.
LEMMA TrustIs ==
  ASSUME NEW type, statement \in Statements
  PROVE  \/ /\ T!Trust(type) = T!Answer(type, TRUE)
            /\ T!HasAProof(T!X5c.chain, statement.roots, clock)
         \/ T!Trust(type) = T!Answer(type, FALSE)
         \/ \E code \in {"configuration_error", "attestation_failed", "unsupported_feature", "parse_error"} :
              T!Trust(type) = T!Throw(code)
  <1> DEFINE verdict == T!ChainIsTrusted(T!X5c.chain, statement.roots, clock)
  <1>1. T!X5c.chain \in Seq(Shown) /\ statement.roots \in Seq(Shown)
    BY ResponsesAssumption DEF T!X5c
  <1>2. verdict \in Verdicts
    BY <1>1, VerdictIs
  <1>3. verdict = "true" => T!HasAProof(T!X5c.chain, statement.roots, clock)
    BY <1>1, TrustNeedsAProof DEF T!TrustHasAProof
  <1>4. \/ T!Trust(type) = T!Answer(type, FALSE)
        \/ T!Trust(type) = T!Throw("configuration_error")
        \/ T!Trust(type) = T!Throw("attestation_failed")
        \/ T!Trust(type) = (IF verdict \in {"true", "false"} THEN T!Answer(type, verdict = "true")
                            ELSE T!Throw(verdict))
    BY DEF T!Trust, T!Fail
  <1> HIDE DEF verdict
  <1>5. CASE verdict = "true"
    BY <1>3, <1>4, <1>5
  <1>6. CASE verdict = "false"
    BY <1>4, <1>6
  <1>7. CASE verdict \in {"unsupported_feature", "parse_error"}
    BY <1>4, <1>7
  <1> QED BY <1>2, <1>5, <1>6, <1>7 DEF Verdicts

\* An answer that trusts nobody and accepts at most the absence of a statement.
Plain(a) == a.trusted = FALSE /\ (a.code = "ok" => a.type = "none") /\ a.code # "TypeError"

\* Such an answer disturbs nothing that is promised of statements.
LEMMA PlainIsFine ==
  ASSUME Plain(answer)
  PROVE  T!TrustedIsProven /\ T!AcceptedForThisResponse /\ T!NoFaultEscapes
  BY DEF Plain, T!TrustedIsProven, T!AcceptedForThisResponse, T!NoFaultEscapes

\* A refusal is such an answer.
LEMMA PlainThrows ==
  /\ Plain(T!None) /\ Plain(T!Fail) /\ Plain(T!Answer("none", FALSE))
  /\ \A code : code \notin {"ok", "TypeError"} => Plain(T!Throw(code))
  BY DEF Plain, T!None, T!Fail, T!Answer, T!Throw

\* Reading the x5c member gives certificates, nothing or a PasskeyError.
LEMMA ChainOrNot == T!GetChain \in {"undefined", "attestation_failed", "ok"}
  BY DEF T!GetChain

\* The part of a verification before its first await.
LEMMA BeginKeeps ==
  ASSUME StatementInv, AnswerInv, matter = "attestation", matter' = matter, T!Begin
  PROVE  StatementInv' /\ AnswerInv'
  <1>1. /\ statement \in Statements /\ clock \in Nat /\ place = "waiting" /\ answer = T!None
        /\ statement' = statement /\ clock' = clock /\ began' = clock
    BY DEF StatementInv, T!Begin
  <1>2. \/ place' = "done" /\ Plain(answer')
        \/ place' = "self" /\ answer' = answer
        \/ /\ place' \in Judging \ {"self"} /\ answer' = answer
           /\ T!GetChain = "ok" /\ T!InWindow(T!Leaf)
    <2>1. CASE statement.format = "packed"
      <3>1. T!BeginPacked
        BY <2>1 DEF T!Begin
      <3> QED BY <3>1, PlainThrows, ChainOrNot DEF T!BeginPacked, T!Done, T!GoOn, Judging
    <2>2. CASE statement.format = "fido-u2f"
      <3>1. T!BeginU2f
        BY <2>2 DEF T!Begin
      <3> QED BY <3>1, PlainThrows, ChainOrNot DEF T!BeginU2f, T!Done, T!GoOn, Judging
    <2>3. CASE statement.format = "apple"
      <3>1. T!BeginApple
        BY <2>3 DEF T!Begin
      <3> QED BY <3>1, PlainThrows, ChainOrNot DEF T!BeginApple, T!Done, T!GoOn, Judging
    <2>4. CASE statement.format \notin {"packed", "fido-u2f", "apple"}
      <3>1. place' = "done" /\ answer' \in {T!Answer("none", FALSE), T!Fail, T!Throw("unsupported_feature")}
        BY <2>4 DEF T!Begin, T!Done
      <3> QED BY <3>1, PlainThrows
    <2> QED BY <2>1, <2>2, <2>3, <2>4
  <1>3. T!GetChain = "ok" => T!X5c.chain # <<>>
    BY DEF T!GetChain
  <1>4. T!X5c' = T!X5c /\ T!Leaf' = T!Leaf
    BY <1>1 DEF T!X5c, T!Leaf
  <1>5. StatementInv'
    BY <1>1, <1>2, <1>3, <1>4 DEF StatementInv, T!InWindow, Judging, T!IsValidAt
  <1>6. Plain(answer')
    BY <1>1, <1>2, PlainThrows
  <1>7. AnswerInv'
    BY <1>6, PlainIsFine DEF AnswerInv, Plain, T!TrustedIsProven, T!AcceptedForThisResponse, T!NoFaultEscapes
  <1> QED BY <1>5, <1>7

\* The part after it, which judges the chain.
LEMMA FinishKeeps ==
  ASSUME StatementInv, AnswerInv, matter = "attestation", matter' = matter, T!Finish
  PROVE  StatementInv' /\ AnswerInv'
  <1>1. /\ statement \in Statements /\ clock \in Nat /\ began \in Nat /\ began <= clock
        /\ statement' = statement /\ clock' = clock /\ began' = began /\ place' = "done"
        /\ place \in Judging
    BY DEF StatementInv, T!Finish, T!FinishSelf, T!FinishPacked, T!FinishU2f, T!FinishApple, T!Done, Judging
  <1>2. StatementInv'
    BY <1>1 DEF StatementInv, Judging
  <1>3. T!X5c' = T!X5c /\ T!Leaf' = T!Leaf /\ T!Sig' = T!Sig
    BY <1>1 DEF T!X5c, T!Leaf, T!Sig
  <1>4. \/ Plain(answer')
        \/ answer' = T!Answer("self", FALSE) /\ T!Sig.by = statement.credential.key /\ T!Sig.over = "response"
        \/ /\ place \in Judging \ {"self"}
           /\ \/ /\ answer' = T!Trust("basic")
                 /\ T!Sig.by = T!Leaf.key /\ T!Sig.over \in {"response", "u2f"}
              \/ /\ answer' = T!Trust("attca")
                 /\ T!Leaf.nonce = "response" /\ T!Leaf.key = statement.credential.key
    <2>1. CASE T!FinishSelf
      BY <2>1, PlainThrows DEF T!FinishSelf, T!Done
    <2>2. CASE T!FinishPacked
      BY <2>2, PlainThrows DEF T!FinishPacked, T!Done, T!VerifyWithCertificate, Judging
    <2>3. CASE T!FinishU2f
      BY <2>3, PlainThrows DEF T!FinishU2f, T!Done, T!VerifyWithCertificate, Judging
    <2>4. CASE T!FinishApple
      BY <2>4, PlainThrows DEF T!FinishApple, T!Done, Judging
    <2> QED BY <2>1, <2>2, <2>3, <2>4 DEF T!Finish
  <1>5. CASE Plain(answer')
    <2>1. T!TrustedIsProven'
      BY <1>5 DEF Plain, T!TrustedIsProven
    <2>2. T!AcceptedForThisResponse'
      BY <1>5 DEF Plain, T!AcceptedForThisResponse
    <2>3. T!NoFaultEscapes'
      BY <1>5 DEF Plain, T!NoFaultEscapes
    <2> QED BY <1>2, <2>1, <2>2, <2>3 DEF AnswerInv
  <1>6. CASE answer' = T!Answer("self", FALSE) /\ T!Sig.by = statement.credential.key /\ T!Sig.over = "response"
    <2>1. answer'.code = "ok" /\ answer'.type = "self" /\ answer'.trusted = FALSE
      BY <1>6 DEF T!Answer
    <2>2. T!TrustedIsProven'
      BY <2>1 DEF T!TrustedIsProven
    <2>3. T!AcceptedForThisResponse'
      BY <1>1, <1>3, <1>6, <2>1 DEF T!AcceptedForThisResponse
    <2>4. T!NoFaultEscapes'
      BY <2>1 DEF T!NoFaultEscapes
    <2> QED BY <1>2, <2>2, <2>3, <2>4 DEF AnswerInv
  <1>7. ASSUME NEW type \in {"basic", "attca"}, answer' = T!Trust(type), place \in Judging \ {"self"},
               type = "basic" => T!Sig.by = T!Leaf.key /\ T!Sig.over \in {"response", "u2f"},
               type = "attca" => T!Leaf.nonce = "response" /\ T!Leaf.key = statement.credential.key
        PROVE  AnswerInv'
    <2>1. T!IsValidAt(T!Leaf, began)
      BY <1>7 DEF StatementInv
    <2>5. ASSUME answer'.code = "ok", answer'.type = type
          PROVE  T!AcceptedForThisResponse' /\ T!NoFaultEscapes'
      <3>1. CASE type = "basic"
        BY <1>1, <1>3, <1>7, <2>5, <3>1 DEF T!AcceptedForThisResponse, T!NoFaultEscapes
      <3>2. CASE type = "attca"
        BY <1>1, <1>3, <1>7, <2>5, <3>2 DEF T!AcceptedForThisResponse, T!NoFaultEscapes
      <3> QED BY <1>7, <3>1, <3>2
    <2>2. CASE /\ answer' = T!Answer(type, TRUE)
               /\ T!HasAProof(T!X5c.chain, statement.roots, clock)
      <3>1. T!TrustedIsProven'
        <4>1. clock \in began..clock
          BY <1>1
        <4> QED BY <1>1, <1>3, <2>1, <2>2, <4>1 DEF T!TrustedIsProven
      <3>2. answer'.code = "ok" /\ answer'.type = type
        BY <2>2 DEF T!Answer
      <3> QED BY <3>1, <3>2, <2>5 DEF AnswerInv
    <2>3. CASE answer' = T!Answer(type, FALSE)
      <3>1. answer'.code = "ok" /\ answer'.type = type /\ answer'.trusted = FALSE
        BY <2>3 DEF T!Answer
      <3>2. T!TrustedIsProven'
        BY <3>1 DEF T!TrustedIsProven
      <3> QED BY <3>1, <3>2, <2>5 DEF AnswerInv
    <2>4. CASE \E code \in {"configuration_error", "attestation_failed", "unsupported_feature", "parse_error"} :
                 answer' = T!Throw(code)
      <3>1. Plain(answer')
        BY <2>4, PlainThrows
      <3> QED BY <1>5, <3>1
    <2> QED BY <1>1, <1>7, <2>2, <2>3, <2>4, TrustIs
  <1> QED BY <1>2, <1>4, <1>5, <1>6, <1>7

\* Time passes while a call awaits.
LEMMA TickKeeps ==
  ASSUME StatementInv, AnswerInv, matter = "attestation", matter' = matter, T!Tick
  PROVE  StatementInv' /\ AnswerInv'
  <1>1. /\ answer = T!None /\ answer' = answer /\ statement' = statement /\ began' = began /\ place' = place
        /\ clock' = clock + 1 /\ clock \in Nat /\ began \in Nat /\ began <= clock
    BY DEF StatementInv, T!Tick
  <1>2. StatementInv'
    BY <1>1 DEF StatementInv, T!X5c, T!Leaf
  <1>3. Plain(answer')
    BY <1>1, PlainThrows
  <1> QED BY <1>2, <1>3 DEF AnswerInv, Plain, T!TrustedIsProven, T!AcceptedForThisResponse, T!NoFaultEscapes

\* The other matters change neither the statement nor the answer.
LEMMA StatementStays ==
  ASSUME StatementInv, AnswerInv, UNCHANGED <<matter, attestation>>
  PROVE  StatementInv' /\ AnswerInv'
  <1>1. /\ statement' = statement /\ clock' = clock /\ began' = began /\ place' = place
        /\ answer' = answer /\ matter' = matter
    BY DEF attestation
  <1>2. T!X5c' = T!X5c /\ T!Leaf' = T!Leaf /\ T!Sig' = T!Sig
    BY <1>1 DEF T!X5c, T!Leaf, T!Sig
  <1>3. StatementInv'
    BY <1>1, <1>2 DEF StatementInv
  <1>4. T!TrustedIsProven'
    BY <1>1, <1>2 DEF AnswerInv, T!TrustedIsProven
  <1>5. T!AcceptedForThisResponse' /\ T!NoFaultEscapes'
    BY <1>1, <1>2 DEF AnswerInv, T!AcceptedForThisResponse, T!NoFaultEscapes
  <1> QED BY <1>1, <1>3, <1>4, <1>5 DEF AnswerInv

everything == <<matter, certificates, attestation, keys, trace>>

\* Every step keeps both parts.
LEMMA JudgedSafely == ResponsesSpec => [](StatementInv /\ AnswerInv)
  <1>1. ResponsesInit => StatementInv /\ AnswerInv
    <2> SUFFICES ASSUME ResponsesInit PROVE StatementInv /\ AnswerInv
      OBVIOUS
    <2>1. answer = T!None /\ place = "waiting"
      BY DEF ResponsesInit, T!Init
    <2>2. StatementInv
      BY <2>1 DEF StatementInv, ResponsesInit, T!Init, Judging
    <2>3. Plain(answer)
      BY <2>1, PlainThrows
    <2> QED BY <2>1, <2>2, <2>3, PlainIsFine DEF AnswerInv
  <1>2. StatementInv /\ AnswerInv /\ [ResponsesNext]_everything => (StatementInv /\ AnswerInv)'
    <2> SUFFICES ASSUME StatementInv, AnswerInv, [ResponsesNext]_everything
                 PROVE  StatementInv' /\ AnswerInv'
      OBVIOUS
    <2>1. CASE matter = "attestation" /\ T!Next /\ matter' = matter
      BY <2>1, BeginKeeps, FinishKeeps, TickKeeps DEF T!Next
    <2>2. CASE UNCHANGED <<matter, attestation>>
      BY <2>2, StatementStays
    <2> QED BY <2>1, <2>2 DEF ResponsesNext, everything
  <1> QED BY <1>1, <1>2, PTL DEF ResponsesSpec, everything

\* A chain that is presented is one of certificates.
LEMMA ChainsTyped == ResponsesSpec => []ChainInv
  <1>1. ResponsesInit => ChainInv
    BY DEF ResponsesInit, ChainInv
  <1>2. ChainInv /\ [ResponsesNext]_everything => ChainInv'
    <2> SUFFICES ASSUME ChainInv, [ResponsesNext]_everything PROVE ChainInv'
      OBVIOUS
    <2>1. CASE Present
      BY <2>1 DEF Present, ChainInv
    <2>2. CASE Supply
      BY <2>2 DEF Supply, ChainInv
    <2>3. CASE UNCHANGED certificates
      BY <2>3 DEF certificates, ChainInv
    <2> QED BY <2>1, <2>2, <2>3 DEF ResponsesNext, everything
  <1> QED BY <1>1, <1>2, PTL DEF ResponsesSpec, everything

\* However long the chain, however many roots and whenever it is judged: trust in a
\* certificate rests on signatures down from a root that the server was given, of
\* certificates that were valid and may issue, and another root never takes it away
\* (x509.ts:368-405, attestation.ts:49-52).
THEOREM TrustProven == ResponsesSpec => []TrustIsProven
  <1>1. ChainInv /\ AnswerInv => TrustIsProven
    <2> SUFFICES ASSUME ChainInv, AnswerInv PROVE TrustIsProven
      OBVIOUS
    <2>1. \A t \in 0..MaxTime : T!TrustHasAProof(chain, roots, t)
      BY TrustNeedsAProof DEF ChainInv
    <2>2. \A t \in 0..MaxTime, root \in Pool : T!MoreRootsTrustMore(chain, roots, root, t)
      BY AnotherRoot DEF ChainInv
    <2> QED BY <2>1, <2>2 DEF TrustIsProven, AnswerInv
  <1> QED BY <1>1, JudgedSafely, ChainsTyped, PTL

\* Whatever a statement holds, and however long its call awaits: it is accepted only
\* when signed over this response, and the call answers or throws a PasskeyError
\* (attestation.ts:206-337, 104-108).
THEOREM StatementsJudged == ResponsesSpec => []StatementsAreJudged
  <1>1. AnswerInv => StatementsAreJudged
    BY DEF AnswerInv, StatementsAreJudged
  <1> QED BY <1>1, JudgedSafely, PTL

----------------------------------------------------------------------------
(* Numbers of keys                                                         *)

Digit == 0..KeyBase - 1

\* The value of digits is the last of a row of values that follows the definition:
\* such a row exists for every length.
LEMMA ValueIs ==
  ASSUME NEW d \in Seq(Digit)
  PROVE  \E v : /\ K!Value(d) = v[Len(d)] /\ v[0] = 0
                /\ \A i \in 1..Len(d) : v[i] = KeyBase * v[i - 1] + d[i]
                /\ \A i \in 0..Len(d) : v[i] \in Int
  <1> DEFINE Row(v, n) == /\ v \in [0..n -> Int] /\ v[0] = 0
                          /\ \A i \in 1..n : v[i] = KeyBase * v[i - 1] + d[i]
             Lengths == {n \in Nat : n <= Len(d) => \E v : Row(v, n)}
  <1>1. 0 \in Lengths
    <2>1. Row([i \in 0..0 |-> 0], 0)
      OBVIOUS
    <2> QED BY <2>1
  <1>2. ASSUME NEW n \in Nat, n \in Lengths, n + 1 <= Len(d)
        PROVE  n + 1 \in Lengths
    <2>1. PICK v : Row(v, n)
      BY <1>2
    <2> DEFINE w == [i \in 0..n + 1 |-> IF i = n + 1 THEN KeyBase * v[n] + d[n + 1] ELSE v[i]]
    <2>2. KeyBase * v[n] + d[n + 1] \in Int
      <3>1. v[n] \in Int /\ d[n + 1] \in Int /\ KeyBase \in Int
        BY <1>2, <2>1, ResponsesAssumption DEF Digit
      <3> QED BY <3>1
    <2>3. w \in [0..n + 1 -> Int] /\ w[0] = 0 /\ w[n + 1] = KeyBase * w[n] + d[n + 1]
      BY <2>1, <2>2
    <2>4. ASSUME NEW i \in 1..n PROVE w[i] = KeyBase * w[i - 1] + d[i]
      <3>1. w[i] = v[i] /\ w[i - 1] = v[i - 1]
        OBVIOUS
      <3> QED BY <2>1, <3>1
    <2>5. Row(w, n + 1)
      <3> HIDE DEF w
      <3>1. ASSUME NEW i \in 1..n + 1 PROVE w[i] = KeyBase * w[i - 1] + d[i]
        <4>1. CASE i = n + 1
          BY <2>3, <4>1
        <4>2. CASE i \in 1..n
          BY <2>4, <4>2
        <4> QED BY <4>1, <4>2
      <3> QED BY <2>3, <3>1
    <2> HIDE DEF Row, w
    <2> QED BY <2>5
  <1>3. Nat \subseteq Lengths
    <2> HIDE DEF Row
    <2>1. \A n \in Nat : n \in Lengths => n + 1 \in Lengths
      BY <1>2
    <2> HIDE DEF Lengths
    <2> QED BY <1>1, <2>1, Induction
  <1>4. PICK v : Row(v, Len(d))
    <2> HIDE DEF Row
    <2> QED BY <1>3
  <1>5. v = [i \in 0..Len(d) |-> IF i = 0 THEN 0 ELSE KeyBase * v[i - 1] + d[i]]
    BY <1>4
  <1> DEFINE chosen == CHOOSE u : u = [i \in 0..Len(d) |-> IF i = 0 THEN 0 ELSE KeyBase * u[i - 1] + d[i]]
  <1>6. chosen = [i \in 0..Len(d) |-> IF i = 0 THEN 0 ELSE KeyBase * chosen[i - 1] + d[i]]
    BY <1>5
  <1>7. K!Value(d) = chosen[Len(d)]
    BY DEF K!Value
  <1> HIDE DEF chosen
  <1>8. chosen[0] = 0 /\ \A i \in 1..Len(d) : chosen[i] = KeyBase * chosen[i - 1] + d[i]
    BY <1>6
  <1> DEFINE Whole == {n \in Nat : n <= Len(d) => chosen[n] \in Int}
  <1>9. Nat \subseteq Whole
    <2>1. 0 \in Whole
      BY <1>8
    <2>2. ASSUME NEW n \in Nat, n \in Whole, n + 1 <= Len(d) PROVE chosen[n + 1] \in Int
      <3>1. chosen[n] \in Int /\ d[n + 1] \in Int /\ KeyBase \in Int
        BY <2>2, ResponsesAssumption DEF Digit
      <3>2. chosen[n + 1] = KeyBase * chosen[n] + d[n + 1]
        BY <1>8, <2>2
      <3> QED BY <3>1, <3>2
    <2>3. \A n \in Nat : n \in Whole => n + 1 \in Whole
      BY <2>2
    <2> HIDE DEF Whole
    <2> QED BY <2>1, <2>3, Induction
  <1>10. \A i \in 0..Len(d) : chosen[i] \in Int
    BY <1>9
  <1> QED BY <1>7, <1>8, <1>10

\* Zeros in front add nothing.
LEMMA ZerosInFront ==
  ASSUME NEW a \in Seq(Digit), NEW b \in Seq(Digit), NEW k \in Nat,
         Len(a) = k + Len(b), \A i \in 1..k : a[i] = 0, \A i \in 1..Len(b) : a[k + i] = b[i]
  PROVE  K!Value(a) = K!Value(b)
  <1>1. PICK v : /\ K!Value(a) = v[Len(a)] /\ v[0] = 0
                 /\ \A i \in 1..Len(a) : v[i] = KeyBase * v[i - 1] + a[i]
    BY ValueIs
  <1>2. PICK w : /\ K!Value(b) = w[Len(b)] /\ w[0] = 0
                 /\ \A i \in 1..Len(b) : w[i] = KeyBase * w[i - 1] + b[i]
    BY ValueIs
  <1> DEFINE Zeros == {i \in Nat : i <= k => v[i] = 0}
             Equal == {i \in Nat : i <= Len(b) => v[k + i] = w[i]}
  <1>3. Nat \subseteq Zeros
    <2>1. 0 \in Zeros
      BY <1>1
    <2>2. ASSUME NEW i \in Nat, i \in Zeros, i + 1 <= k PROVE v[i + 1] = 0
      <3>1. v[i] = 0 /\ a[i + 1] = 0 /\ i + 1 \in 1..Len(a) /\ (i + 1) - 1 = i
        BY <2>2
      <3>2. v[i + 1] = KeyBase * 0 + 0
        BY <1>1, <3>1
      <3> QED BY <3>2, ResponsesAssumption
    <2>3. \A i \in Nat : i \in Zeros => i + 1 \in Zeros
      BY <2>2
    <2> HIDE DEF Zeros
    <2> QED BY <2>1, <2>3, Induction
  <1>4. Nat \subseteq Equal
    <2>1. 0 \in Equal
      BY <1>2, <1>3
    <2>2. ASSUME NEW i \in Nat, i \in Equal, i + 1 <= Len(b) PROVE v[k + (i + 1)] = w[i + 1]
      <3>1. v[k + i] = w[i] /\ a[k + (i + 1)] = b[i + 1]
        BY <2>2
      <3>2. k + (i + 1) \in 1..Len(a) /\ (k + (i + 1)) - 1 = k + i /\ i + 1 \in 1..Len(b) /\ (i + 1) - 1 = i
        BY <2>2
      <3>3. v[k + (i + 1)] = KeyBase * v[k + i] + a[k + (i + 1)]
        BY <1>1, <3>2
      <3>4. w[i + 1] = KeyBase * w[i] + b[i + 1]
        BY <1>2, <3>2
      <3> QED BY <3>1, <3>3, <3>4
    <2>3. \A i \in Nat : i \in Equal => i + 1 \in Equal
      BY <2>2
    <2> HIDE DEF Equal
    <2> QED BY <2>1, <2>3, Induction
  <1>5. v[k + Len(b)] = w[Len(b)]
    BY <1>4
  <1> QED BY <1>1, <1>2, <1>5

\* A coordinate that is padded to its width has the same number.
LEMMA PaddingKeeps ==
  ASSUME NEW value \in Seq(Digit), NEW size \in Nat, Len(value) \in 1..size
  PROVE  /\ K!Value(K!PadCoordinate(value, size)) = K!Value(value)
         /\ Len(K!PadCoordinate(value, size)) = size
  <1> DEFINE padded == K!PadCoordinate(value, size)
             k == size - Len(value)
  <1>1. padded = [i \in 1..size |-> IF i <= k THEN 0 ELSE value[i - size + Len(value)]]
    BY DEF K!PadCoordinate
  <1>2. k \in Nat /\ 0 \in Digit
    BY ResponsesAssumption DEF Digit
  <1>3. padded \in Seq(Digit) /\ Len(padded) = size
    <2>1. ASSUME NEW i \in 1..size PROVE padded[i] \in Digit
      BY <1>1, <1>2
    <2> QED BY <1>1, <2>1
  <1>4. /\ Len(padded) = k + Len(value) /\ \A i \in 1..k : padded[i] = 0
        /\ \A i \in 1..Len(value) : padded[k + i] = value[i]
    BY <1>1, <1>2, <1>3
  <1> HIDE DEF padded, k
  <1>5. K!Value(padded) = K!Value(value)
    BY <1>2, <1>3, <1>4, ZerosInFront
  <1> QED BY <1>3, <1>5 DEF padded

\* And so has a modulus without the zeros in front.
LEMMA StrippingKeeps ==
  ASSUME NEW value \in Seq(Digit), value # <<>>
  PROVE  /\ K!Value(K!StripLeadingZeros(value)) = K!Value(value)
         /\ Len(K!StripLeadingZeros(value)) > 1 => K!StripLeadingZeros(value)[1] # 0
  <1> DEFINE n == Len(value)
             Found(i) == (i = n \/ value[i] # 0) /\ \A j \in 1..i - 1 : value[j] = 0
             Candidate == {i \in 1..n : i = n \/ value[i] # 0}
             start == CHOOSE i \in 1..n : Found(i)
             stripped == K!StripLeadingZeros(value)
  <1>1. \E i \in 1..n : Found(i)
    <2>1. Candidate \in SUBSET Nat /\ Candidate # {}
      OBVIOUS
    <2>2. PICK i \in Candidate : \A j \in Candidate : i <= j
      <3> HIDE DEF Candidate
      <3> QED BY <2>1, LeastMember
    <2> QED BY <2>2
  <1>2. start \in 1..n /\ Found(start)
    BY <1>1
  <1>3. stripped = SubSeq(value, start, n)
    BY DEF K!StripLeadingZeros
  <1> HIDE DEF start
  <1>4. /\ stripped \in Seq(Digit) /\ Len(stripped) = n - start + 1
        /\ \A i \in 1..Len(stripped) : stripped[i] = value[start - 1 + i]
    BY <1>2, <1>3
  <1>5. /\ start - 1 \in Nat /\ Len(value) = (start - 1) + Len(stripped)
        /\ \A i \in 1..start - 1 : value[i] = 0
    BY <1>2, <1>4
  <1>6. \A i \in 1..Len(stripped) : value[(start - 1) + i] = stripped[i]
    BY <1>4
  <1>7. Len(stripped) > 1 => stripped[1] # 0
    BY <1>2, <1>4
  <1> HIDE DEF stripped
  <1>8. K!Value(value) = K!Value(stripped)
    BY <1>4, <1>5, <1>6, ZerosInFront
  <1> QED BY <1>7, <1>8 DEF stripped

\* What is read of a key has the numbers it was sent with.
LEMMA ReadingKeeps ==
  ASSUME NEW key, key.n \in Seq(Digit), key.x \in Seq(Digit), key.y \in Seq(Digit),
         K!ReadKey(key).code = "ok"
  PROVE  LET isRSA == key.kty = K!RSA
             from == IF isRSA THEN key.n ELSE key.x
             second == IF isRSA THEN key.x ELSE IF key.kty = K!EC2 THEN key.y ELSE <<>>
             read == K!ReadKey(key)
         IN  /\ K!Value(read.x) = K!Value(from) /\ K!Value(read.y) = K!Value(second)
             /\ isRSA => Len(read.x) >= ModulusBytes /\ read.x[1] # 0
             /\ ~isRSA => Len(read.x) = CoordinateSize[K!ALGORITHMS[key.alg].curve]
  <1> DEFINE spec == K!ALGORITHMS[key.alg]
  <1>1. /\ key.alg \in {"ES256", "ES384", "EdDSA", "RS256", "PS256"}
        /\ spec.keyType = key.kty
        /\ K!ReadKey(key) = CASE key.kty = K!EC2 -> K!ReadECKey(key, spec)
                              [] key.kty = K!OKP -> K!ReadOKPKey(key)
                              [] key.kty = K!RSA -> K!ReadRSAKey(key)
    <2>1. K!Known(key.alg)
      BY DEF K!ReadKey, K!Refused
    <2>2. key.alg \in {"ES256", "ES384", "EdDSA", "RS256", "PS256"}
      BY <2>1 DEF K!Known, K!ALGORITHMS
    <2>3. spec.keyType \in {K!EC2, K!OKP, K!RSA}
      BY <2>2 DEF K!ALGORITHMS
    <2> HIDE DEF spec
    <2>4. K!ReadKey(key) = IF spec.keyType # key.kty THEN K!Refused("parse_error")
                           ELSE CASE key.kty = K!EC2 -> K!ReadECKey(key, spec)
                                  [] key.kty = K!OKP -> K!ReadOKPKey(key)
                                  [] key.kty = K!RSA -> K!ReadRSAKey(key)
      <3>1. ~(key.kty = K!Missing \/ key.alg = "missing")
        BY DEF K!ReadKey, K!Refused
      <3> QED BY <2>1, <3>1 DEF K!ReadKey, spec
    <2>5. spec.keyType = key.kty
      BY <2>4 DEF K!Refused
    <2> QED BY <2>2, <2>3, <2>4, <2>5 DEF K!EC2, K!OKP, K!RSA
  <1> HIDE DEF spec
  <1>2. CASE key.kty = K!EC2
    <2>1. spec.curve \in {K!P256, K!P384}
      BY <1>1, <1>2 DEF spec, K!ALGORITHMS, K!EC2, K!OKP, K!RSA
    <2> DEFINE size == CoordinateSize[spec.curve]
    <2>2. size \in Nat
      BY <2>1, ResponsesAssumption DEF K!P256, K!P384
    <2>3. /\ Len(key.x) \in 1..size /\ Len(key.y) \in 1..size
          /\ K!ReadKey(key) = [code |-> "ok", x |-> K!PadCoordinate(key.x, size), y |-> K!PadCoordinate(key.y, size)]
      <3>1. K!ReadKey(key) = K!ReadECKey(key, spec)
        BY <1>1, <1>2 DEF K!EC2, K!OKP, K!RSA
      <3>2. K!Refused("parse_error").code # "ok"
        BY DEF K!Refused
      <3> QED BY <3>1, <3>2 DEF K!ReadECKey
    <2> HIDE DEF size
    <2>4. /\ K!Value(K!PadCoordinate(key.x, size)) = K!Value(key.x)
          /\ K!Value(K!PadCoordinate(key.y, size)) = K!Value(key.y)
          /\ Len(K!PadCoordinate(key.x, size)) = size
      BY <2>2, <2>3, PaddingKeeps
    <2>5. key.kty # K!RSA
      BY <1>2 DEF K!EC2, K!RSA
    <2> QED BY <1>2, <2>3, <2>4, <2>5 DEF size, spec
  <1>3. CASE key.kty = K!OKP
    <2>1. /\ Len(key.x) = CoordinateSize[K!Ed25519]
          /\ K!ReadKey(key) = [code |-> "ok", x |-> key.x, y |-> <<>>]
      <3>1. K!ReadKey(key) = K!ReadOKPKey(key)
        BY <1>1, <1>3 DEF K!EC2, K!OKP, K!RSA
      <3>2. K!Refused("parse_error").code # "ok" /\ K!Refused("unsupported_algorithm").code # "ok"
        BY DEF K!Refused
      <3> QED BY <3>1, <3>2 DEF K!ReadOKPKey
    <2>2. spec.curve = K!Ed25519
      BY <1>1, <1>3 DEF spec, K!ALGORITHMS, K!EC2, K!OKP, K!RSA
    <2>3. key.kty # K!RSA /\ key.kty # K!EC2
      BY <1>3 DEF K!EC2, K!OKP, K!RSA
    <2> QED BY <2>1, <2>2, <2>3 DEF spec
  <1>4. CASE key.kty = K!RSA
    <2> DEFINE n == K!StripLeadingZeros(key.n)
               e == K!StripLeadingZeros(key.x)
    <2>1. /\ key.n # <<>> /\ key.x # <<>> /\ ~(Len(n) < ModulusBytes)
          /\ K!ReadKey(key) = [code |-> "ok", x |-> n, y |-> e]
      <3>1. K!ReadKey(key) = K!ReadRSAKey(key)
        BY <1>1, <1>4 DEF K!EC2, K!OKP, K!RSA
      <3> QED BY <3>1 DEF K!ReadRSAKey, K!Refused
    <2>2. K!Value(n) = K!Value(key.n) /\ K!Value(e) = K!Value(key.x) /\ (Len(n) > 1 => n[1] # 0)
      BY <2>1, StrippingKeeps
    <2>3. Len(n) >= ModulusBytes /\ Len(n) > 1
      <3>1. Len(n) \in Nat
        BY <2>1, StrippingKeeps
      <3> QED BY <2>1, <3>1, ResponsesAssumption
    <2> HIDE DEF n, e
    <2> QED BY <1>4, <2>1, <2>2, <2>3
  <1>5. key.kty \in {K!EC2, K!OKP, K!RSA}
    BY <1>1 DEF spec, K!ALGORITHMS
  <1> QED BY <1>2, <1>3, <1>4, <1>5

----------------------------------------------------------------------------
(* Calls that import keys and verify with them                             *)

Imported == {"importing", "parsed", "verifying"}
Probing == {"probing 1", "probing 2"}
NameKnown(c) == K!Family(c) = "Ed25519" => ed25519Name \in Offered

\* A key in hand was read; with an Ed25519 key in hand the name is known.
KeyInv ==
  IF matter # "keys" THEN at = [c \in KeyCallers |-> "begin"]
  ELSE /\ call \in [KeyCallers -> KeyCalls]
       /\ at \in [KeyCallers -> {"begin", "done"} \cup Probing \cup Imported]
       /\ ed25519Name \in {"undefined", "null"} \cup Offered
       /\ \A c \in KeyCallers :
            /\ at[c] \in Imported => ~K!IsQuestion(c) /\ NameKnown(c)
            /\ at[c] \in Probing \cup Imported /\ ~K!IsQuestion(c) => K!ReadAs(c).code = "ok"

\* A step of one call.
LEMMA CallMoves ==
  ASSUME KeyInv, matter = "keys", matter' = matter, call' = call,
         NEW c \in KeyCallers, NEW next \in {"begin", "done"} \cup Probing \cup Imported,
         at' = [at EXCEPT ![c] = next],
         \/ ed25519Name' = ed25519Name
         \/ ed25519Name = "undefined" /\ ed25519Name' = "null"
         \/ ed25519Name' \in Offered,
         next \in Imported => ~K!IsQuestion(c) /\ (K!Family(c) = "Ed25519" => ed25519Name' \in Offered),
         next \in Probing \cup Imported /\ ~K!IsQuestion(c) => K!ReadAs(c).code = "ok"
  PROVE  KeyInv'
  <1>1. /\ call \in [KeyCallers -> KeyCalls]
        /\ at \in [KeyCallers -> {"begin", "done"} \cup Probing \cup Imported]
        /\ ed25519Name \in {"undefined", "null"} \cup Offered
    BY DEF KeyInv
  <1>2. /\ call' \in [KeyCallers -> KeyCalls]
        /\ at' \in [KeyCallers -> {"begin", "done"} \cup Probing \cup Imported]
        /\ ed25519Name' \in {"undefined", "null"} \cup Offered
    BY <1>1
  <1>3. \A d \in KeyCallers : /\ K!IsQuestion(d)' = K!IsQuestion(d)
                              /\ K!Family(d)' = K!Family(d) /\ K!ReadAs(d)' = K!ReadAs(d)
    BY DEF K!IsQuestion, K!Family, K!AlgOf, K!ReadAs
  <1>4. "undefined" \notin Offered
    BY ResponsesAssumption
  <1>5. ASSUME NEW d \in KeyCallers
        PROVE  /\ at'[d] \in Imported => ~K!IsQuestion(d)' /\ NameKnown(d)'
               /\ at'[d] \in Probing \cup Imported /\ ~K!IsQuestion(d)' => K!ReadAs(d)'.code = "ok"
    <2>1. CASE d = c
      BY <1>1, <1>3, <2>1 DEF NameKnown
    <2>2. CASE d # c
      <3>1. at'[d] = at[d]
        BY <1>1, <2>2
      <3>2. /\ at[d] \in Imported => ~K!IsQuestion(d) /\ NameKnown(d)
            /\ at[d] \in Probing \cup Imported /\ ~K!IsQuestion(d) => K!ReadAs(d).code = "ok"
        BY DEF KeyInv
      <3>3. ed25519Name \in Offered => ed25519Name' \in Offered
        BY <1>4
      <3> QED BY <1>3, <3>1, <3>2, <3>3 DEF NameKnown
    <2> QED BY <2>1, <2>2
  <1> QED BY <1>2, <1>5 DEF KeyInv

\* The first await on the way to the name: the call ends, waits, or goes on knowing it.
LEMMA ResolveIs ==
  ASSUME NEW c \in KeyCallers, NEW goal, KeyInv, matter = "keys",
         K!Resolve(c, K!Go(c, goal), "probing 1")
  PROVE  \/ at' = [at EXCEPT ![c] = "done"] /\ ed25519Name' = ed25519Name
         \/ at' = [at EXCEPT ![c] = "probing 1"] /\ ed25519Name = "undefined" /\ ed25519Name' = "null"
         \/ at' = [at EXCEPT ![c] = goal] /\ ed25519Name' = ed25519Name /\ ed25519Name \in Offered
  BY DEF KeyInv, K!Resolve, K!Go, K!NoEd25519, K!End

\* Every step of every call keeps what is known of keys in hand.
LEMMA KeysStep ==
  ASSUME KeyInv, matter = "keys", matter' = matter, K!Next
  PROVE  KeyInv'
  <1>1. CASE K!Over
    BY <1>1 DEF K!Over, K!vars, KeyInv, NameKnown, K!IsQuestion, K!Family, K!AlgOf, K!ReadAs
  <1>2. ASSUME NEW c \in KeyCallers, K!Ask(c) PROVE KeyInv'
    <2>1. call' = call /\ K!IsQuestion(c)
      BY <1>2 DEF K!Ask
    <2>2. CASE at' = [at EXCEPT ![c] = "done"] /\ ed25519Name' = ed25519Name
      BY <2>1, <2>2, CallMoves DEF Probing, Imported
    <2>3. CASE at' = [at EXCEPT ![c] = "probing 1"] /\ ed25519Name = "undefined" /\ ed25519Name' = "null"
      BY <2>1, <2>3, CallMoves DEF Probing, Imported
    <2> QED BY <1>2, <2>2, <2>3 DEF K!Ask, K!Resolve, K!End, K!Go, K!NoEd25519
  <1>3. ASSUME NEW c \in KeyCallers, K!Parse(c) PROVE KeyInv'
    <2>1. call' = call /\ ~K!IsQuestion(c)
      BY <1>3 DEF K!Parse
    <2>2. CASE K!ReadKey(call[c].key).code # "ok"
      <3>1. at' = [at EXCEPT ![c] = "done"] /\ ed25519Name' = ed25519Name
        BY <1>3, <2>2 DEF K!Parse, K!End
      <3> QED BY <2>1, <3>1, CallMoves DEF Probing, Imported
    <2>3. CASE K!ReadKey(call[c].key).code = "ok"
      <3>1. K!ReadAs(c).code = "ok"
        BY <2>3 DEF K!ReadAs
      <3>2. \/ at' = [at EXCEPT ![c] = "done"] /\ ed25519Name' = ed25519Name
            \/ at' = [at EXCEPT ![c] = "probing 1"] /\ ed25519Name = "undefined" /\ ed25519Name' = "null"
            \/ /\ at' = [at EXCEPT ![c] = "importing"] /\ ed25519Name' = ed25519Name
               /\ K!Family(c) = "Ed25519" => ed25519Name \in Offered
        <4>1. CASE K!Family(c) = "Ed25519"
          <5>1. K!Resolve(c, K!Go(c, "importing"), "probing 1")
            BY <1>3, <2>3, <4>1 DEF K!Parse
          <5> QED BY <5>1, ResolveIs
        <4>2. CASE K!Family(c) # "Ed25519"
          BY <1>3, <2>3, <4>2 DEF K!Parse, K!Go
        <4> QED BY <4>1, <4>2
      <3> QED BY <2>1, <3>1, <3>2, CallMoves DEF Probing, Imported
    <2> QED BY <2>2, <2>3
  <1>4. ASSUME NEW c \in KeyCallers, NEW i \in {1, 2}, K!Probed(c, i) PROVE KeyInv'
    <2>1. call' = call /\ at[c] \in Probing
      BY <1>4 DEF K!Probed, Probing
    <2>2. ~K!IsQuestion(c) => K!ReadAs(c).code = "ok"
      BY <2>1 DEF KeyInv
    <2>3. CASE K!Candidates[i] \in Offered
      <3>1. /\ ed25519Name' \in Offered
            /\ \/ at' = [at EXCEPT ![c] = "done"]
               \/ at' = [at EXCEPT ![c] = "importing"] /\ ~K!IsQuestion(c)
        BY <1>4, <2>3 DEF K!Probed, K!End, K!Go
      <3> QED BY <2>1, <2>2, <3>1, CallMoves DEF Probing, Imported
    <2>4. CASE K!Candidates[i] \notin Offered
      <3>1. /\ ed25519Name' = ed25519Name
            /\ at' = [at EXCEPT ![c] = "probing 2"] \/ at' = [at EXCEPT ![c] = "done"]
        BY <1>4, <2>4 DEF K!Probed, K!NoEd25519, K!End, K!Go
      <3> QED BY <2>1, <2>2, <3>1, CallMoves DEF Probing, Imported
    <2> QED BY <2>3, <2>4
  <1>5. ASSUME NEW c \in KeyCallers, K!Import(c) PROVE KeyInv'
    <2>1. /\ call' = call /\ ed25519Name' = ed25519Name /\ at[c] \in Imported
          /\ at' = [at EXCEPT ![c] = "parsed"] \/ at' = [at EXCEPT ![c] = "done"]
      BY <1>5 DEF K!Import, K!Go, K!End, Imported
    <2>2. ~K!IsQuestion(c) /\ NameKnown(c) /\ K!ReadAs(c).code = "ok"
      BY <2>1 DEF KeyInv
    <2> QED BY <2>1, <2>2, CallMoves DEF Probing, Imported, NameKnown
  <1>6. ASSUME NEW c \in KeyCallers, K!Verify(c) PROVE KeyInv'
    <2>1. call' = call /\ at[c] \in Imported
      BY <1>6 DEF K!Verify, Imported
    <2>2. ~K!IsQuestion(c) /\ NameKnown(c) /\ K!ReadAs(c).code = "ok"
      BY <2>1 DEF KeyInv
    <2>3. /\ ed25519Name' = ed25519Name
          /\ at' = [at EXCEPT ![c] = "verifying"] \/ at' = [at EXCEPT ![c] = "done"]
      <3>1. CASE K!Family(c) = "Ed25519"
        <4>1. K!Resolve(c, K!Go(c, "verifying"), "probing 1")
          BY <1>6, <3>1 DEF K!Verify
        <4>2. ed25519Name # "undefined"
          BY <2>2, <3>1, ResponsesAssumption DEF NameKnown
        <4> QED BY <4>1, <4>2, ResolveIs
      <3>2. CASE K!Family(c) # "Ed25519"
        BY <1>6, <3>2 DEF K!Verify, K!Go, K!End
      <3> QED BY <3>1, <3>2
    <2> QED BY <2>1, <2>2, <2>3, CallMoves DEF Probing, Imported, NameKnown
  <1>7. ASSUME NEW c \in KeyCallers, K!Verified(c) PROVE KeyInv'
    <2>1. call' = call /\ ed25519Name' = ed25519Name /\ at' = [at EXCEPT ![c] = "done"]
      BY <1>7 DEF K!Verified, K!End
    <2> QED BY <2>1, CallMoves DEF Probing, Imported
  <1> QED BY <1>1, <1>2, <1>3, <1>4, <1>5, <1>6, <1>7 DEF K!Next

\* At every moment.
LEMMA KeysInHand == ResponsesSpec => []KeyInv
  <1>1. ResponsesInit => KeyInv
    BY DEF ResponsesInit, K!Init, KeyInv, Imported, Probing
  <1>2. KeyInv /\ [ResponsesNext]_everything => KeyInv'
    <2> SUFFICES ASSUME KeyInv, [ResponsesNext]_everything PROVE KeyInv'
      OBVIOUS
    <2>1. CASE matter = "keys" /\ K!Next /\ matter' = matter
      BY <2>1, KeysStep
    <2>2. CASE UNCHANGED <<matter, keys>>
      BY <2>2 DEF keys, KeyInv, NameKnown, K!IsQuestion, K!Family, K!AlgOf, K!ReadAs
    <2> QED BY <2>1, <2>2 DEF ResponsesNext, everything
  <1> QED BY <1>1, <1>2, PTL DEF ResponsesSpec, everything

\* Of any number of calls side by side, on a platform that takes either name of
\* Ed25519 or none: a key is imported with the numbers it was sent with, and an
\* imported key is verified with under the name it was imported by
\* (cose.ts:166-195, 309, 370).
THEOREM KeysServed == ResponsesSpec => []KeysServe
  <1>1. KeyInv => KeysServe
    <2> SUFFICES ASSUME KeyInv PROVE KeysServe
      OBVIOUS
    <2>1. CASE matter # "keys"
      <3>1. \A c \in KeyCallers : at[c] = "begin"
        BY <2>1 DEF KeyInv
      <3> QED BY <3>1 DEF KeysServe, K!KeepsTheNumbers, K!Passed, K!ImportedIsVerified
    <2>2. CASE matter = "keys"
      <3>1. K!ImportedIsVerified
        BY <2>2 DEF KeyInv, Imported, NameKnown, K!ImportedIsVerified
      <3>2. ASSUME NEW c \in KeyCallers, K!Passed(c)
            PROVE  /\ call[c].key.n \in Seq(Digit) /\ call[c].key.x \in Seq(Digit) /\ call[c].key.y \in Seq(Digit)
                   /\ K!ReadKey(call[c].key).code = "ok"
        <4>1. call[c] \in KeyCalls /\ "key" \in DOMAIN call[c] /\ K!ReadAs(c).code = "ok"
          BY <2>2, <3>2 DEF KeyInv, K!Passed, K!IsQuestion, Imported
        <4> QED BY <4>1, ResponsesAssumption DEF K!ReadAs, Digit
      <3>3. K!KeepsTheNumbers
        BY <3>2, ReadingKeeps DEF K!KeepsTheNumbers, K!ReadAs
      <3> QED BY <3>1, <3>3 DEF KeysServe
    <2> QED BY <2>1, <2>2
  <1> QED BY <1>1, KeysInHand, PTL

----------------------------------------------------------------------------
(* The trace of a ceremony.  The two verifiers are laid out step by step;  *)
(* from the layout only what Layout says is used.                          *)

\* The name and the code of what has none (the SMT translation cannot tell "" from another string).
Blank == ""
LEMMA BlankIs == Blank \notin {"none", "accepted", "challenge_found"}
  BY Zenon DEF Blank

Is(entry, kind, id, code) == entry.kind = kind /\ entry.id = id /\ entry.code = code

LEMMA EntriesAre ==
  \A id, code :
    /\ Is(V!Assert_(id, code), "assert", id, code)
    /\ Is(V!Record(id), "record", id, Blank)
    /\ Is(V!Change(id, code), "change", id, code)
    /\ Is(V!Throws(code), "throws", Blank, code)
    /\ Is(V!Take, "take", Blank, Blank)
  BY DEF Is, Blank, V!Assert_, V!Record, V!Change, V!Throws, V!Take

\* How many events the steps before each one put down.
Before == IF ceremony = "authentication"
  THEN <<0, 0, 1, 1, 1, 1, 2, 3, 4, 5, 6, 7, 7, 8, 9, 9, 10, 10, 10, 11, 12, 13, 13, 13, 13, 14, 14, 15, 15>>
  ELSE <<0, 0, 1, 1, 1, 1, 2, 3, 4, 5, 6, 7, 7, 7, 8, 8, 9, 10, 11, 12, 13, 13, 14, 14, 15, 15, 16, 17, 18, 18, 18>>

\* Which step each check of the registry is.
Place == IF ceremony = "authentication"
  THEN <<2, 6, 7, 8, 9, 10, 11, 13, 14, 16, 19, 20, 21, 25, 27>>
  ELSE <<2, 6, 7, 8, 9, 10, 11, 14, 17, 18, 19, 16, 27, 20, 22, 24, 26, 28>>

IsCheck(i) == V!Steps[i].kind \in {"assert", "record"}
Checked(id) == \E j \in 1..28 : j < Len(V!Steps) /\ IsCheck(j) /\ V!Steps[j].id = id
\* The checks registered above the one that step i is, but for one, are behind it;
\* and its code is the registered one.
Orderly(i) ==
  \A n \in 1..Len(V!Registry) : V!Registry[n].id = V!Steps[i].id /\ V!Steps[i].id \notin V!Early =>
    \A m \in 1..n - 1 : V!Registry[m].id \notin V!Late =>
      \E j \in 1..i - 1 : IsCheck(j) /\ V!Steps[j].id = V!Registry[m].id
Coded(i) ==
  \A n \in 1..Len(V!Registry) : V!Registry[n].id = V!Steps[i].id /\ V!Steps[i].id \notin V!OtherCode =>
    V!Registry[n].code = V!Steps[i].code
InRegistry(id) == \E j \in 1..Len(V!Registry) : V!Registry[j].id = id

\* What the proofs use of a step.
Placed(i) ==
  /\ V!Steps[i].kind \in {"assert", "record", "take", "change", "throws"}
  /\ V!Steps[i].code \notin {"none", "accepted"}
  /\ V!Steps[i].kind \in {"record", "take"} => V!Steps[i].code = Blank
  /\ V!Steps[i].kind = "change" => i > 28 \/ i = Len(V!Steps)
  /\ V!Steps[i].kind = "take" <=> i = 5
  /\ i > 28 => ~IsCheck(i)
  /\ V!Steps[i].id = "challenge_found" => i = 6
  /\ Before[i + 1] = Before[i] + (IF IsCheck(i) THEN 1 ELSE 0)

Layout ==
  /\ Len(V!Steps) \in {28, 30} /\ Before \in Seq(Nat) /\ Len(Before) = Len(V!Steps) + 1 /\ Before[1] = 0
  /\ \A i \in 1..Len(V!Steps) : Placed(i)
  /\ V!Steps[6].kind = "assert" /\ V!Steps[6].id = "challenge_found"
  /\ \A i \in 1..Len(V!Steps) : IsCheck(i) => InRegistry(V!Steps[i].id) /\ Orderly(i)
  /\ \A i \in 1..Len(V!Steps) : V!Steps[i].kind = "assert" => Coded(i)
  /\ \A i \in 1..Len(V!Registry) : Checked(V!Registry[i].id)
  /\ \A i \in 1..Len(Before) : i > 28 \/ i = Len(V!Steps) => Before[i] = Len(V!Registry)

\* The steps of verifyRegistration, in their order.
Ceremonies == {"sign-up", "registration", "authentication"}
AccountRow(entry) ==
  IF ceremony = "sign-up" THEN Is(entry, "change", "createUser", "credential_exists")
  ELSE Is(entry, "throws", Blank, "unknown_user")
RegistrationRows ==
  /\ Len(V!Steps) = 30
  /\ Is(V!Steps[1], "throws", Blank, "malformed_response")
  /\ Is(V!Steps[2], "record", "response_well_formed", Blank)
  /\ Is(V!Steps[3], "throws", Blank, "malformed_response")
  /\ Is(V!Steps[4], "throws", Blank, "parse_error")
  /\ Is(V!Steps[5], "take", Blank, Blank)
  /\ Is(V!Steps[6], "assert", "challenge_found", "challenge_not_found")
  /\ Is(V!Steps[7], "assert", "challenge_kind", "type_mismatch")
  /\ Is(V!Steps[8], "assert", "challenge_matches", "challenge_mismatch")
  /\ Is(V!Steps[9], "assert", "client_data_type", "type_mismatch")
  /\ Is(V!Steps[10], "assert", "origin_allowed", "origin_mismatch")
  /\ Is(V!Steps[11], "assert", "not_cross_origin", "origin_mismatch")
  /\ Is(V!Steps[12], "throws", Blank, "malformed_response")
  /\ Is(V!Steps[13], "throws", Blank, "parse_error")
  /\ Is(V!Steps[14], "assert", "attestation_object_shape", "parse_error")
  /\ Is(V!Steps[15], "throws", Blank, "parse_error")
  /\ Is(V!Steps[16], "record", "backup_flags_consistent", Blank)
  /\ Is(V!Steps[17], "assert", "rp_id_hash", "rpid_mismatch")
  /\ Is(V!Steps[18], "assert", "user_present", "user_not_present")
  /\ Is(V!Steps[19], "assert", "user_verified", "user_not_verified")
  /\ Is(V!Steps[20], "assert", "attested_data_present", "parse_error")
  /\ Is(V!Steps[21], "throws", Blank, "malformed_response")
  /\ Is(V!Steps[22], "assert", "raw_id_matches", "malformed_response")
  /\ Is(V!Steps[23], "throws", Blank, "parse_error")
  /\ Is(V!Steps[24], "assert", "algorithm_offered", "unsupported_algorithm")
  /\ Is(V!Steps[25], "throws", Blank, "attestation_failed")
  /\ Is(V!Steps[26], "record", "attestation_statement", Blank)
  /\ Is(V!Steps[27], "assert", "backup_eligible_required", "attestation_failed")
  /\ Is(V!Steps[28], "assert", "credential_unique", "credential_exists")
  /\ AccountRow(V!Steps[29])
  /\ Is(V!Steps[30], "change", "createCredential", "credential_exists")

LEMMA RegistrationSteps == ASSUME ceremony \in {"sign-up", "registration"} PROVE RegistrationRows
  <1>1. PICK s1, s2, s3, s4 :
        /\ V!ShapeSteps = <<s1, s2, s3, s4>>
        /\ Is(s1, "throws", Blank, "malformed_response")
        /\ Is(s2, "record", "response_well_formed", Blank)
        /\ Is(s3, "throws", Blank, "malformed_response")
        /\ Is(s4, "throws", Blank, "parse_error")
    BY EntriesAre DEF V!ShapeSteps
  <1>2. PICK s5, s6, s7, s8 :
        /\ V!ChallengeSteps = <<s5, s6, s7, s8>>
        /\ Is(s5, "take", Blank, Blank)
        /\ Is(s6, "assert", "challenge_found", "challenge_not_found")
        /\ Is(s7, "assert", "challenge_kind", "type_mismatch")
        /\ Is(s8, "assert", "challenge_matches", "challenge_mismatch")
    BY EntriesAre DEF V!ChallengeSteps
  <1>3. PICK s9, s10, s11 :
        /\ V!ClientDataSteps = <<s9, s10, s11>>
        /\ Is(s9, "assert", "client_data_type", "type_mismatch")
        /\ Is(s10, "assert", "origin_allowed", "origin_mismatch")
        /\ Is(s11, "assert", "not_cross_origin", "origin_mismatch")
    BY EntriesAre DEF V!ClientDataSteps
  <1>4. PICK s12, s13, s14, s15, s16 :
        /\ V!AttestationObjectSteps = <<s12, s13, s14, s15, s16>>
        /\ Is(s12, "throws", Blank, "malformed_response")
        /\ Is(s13, "throws", Blank, "parse_error")
        /\ Is(s14, "assert", "attestation_object_shape", "parse_error")
        /\ Is(s15, "throws", Blank, "parse_error")
        /\ Is(s16, "record", "backup_flags_consistent", Blank)
    BY EntriesAre DEF V!AttestationObjectSteps
  <1>5. PICK s17, s18, s19 :
        /\ V!PresenceSteps = <<s17, s18, s19>>
        /\ Is(s17, "assert", "rp_id_hash", "rpid_mismatch")
        /\ Is(s18, "assert", "user_present", "user_not_present")
        /\ Is(s19, "assert", "user_verified", "user_not_verified")
    BY EntriesAre DEF V!PresenceSteps
  <1>6. PICK s20, s21, s22 :
        /\ V!AttestedSteps = <<s20, s21, s22>>
        /\ Is(s20, "assert", "attested_data_present", "parse_error")
        /\ Is(s21, "throws", Blank, "malformed_response")
        /\ Is(s22, "assert", "raw_id_matches", "malformed_response")
    BY EntriesAre DEF V!AttestedSteps
  <1>7. PICK s23, s24 :
        /\ V!KeySteps = <<s23, s24>>
        /\ Is(s23, "throws", Blank, "parse_error")
        /\ Is(s24, "assert", "algorithm_offered", "unsupported_algorithm")
    BY EntriesAre DEF V!KeySteps
  <1>8. PICK s25, s26, s27 :
        /\ V!StatementSteps = <<s25, s26, s27>>
        /\ Is(s25, "throws", Blank, "attestation_failed")
        /\ Is(s26, "record", "attestation_statement", Blank)
        /\ Is(s27, "assert", "backup_eligible_required", "attestation_failed")
    BY EntriesAre DEF V!StatementSteps
  <1>9. PICK s28, s29, s30 :
        /\ V!AccountSteps = <<s28, s29, s30>>
        /\ Is(s28, "assert", "credential_unique", "credential_exists")
        /\ AccountRow(s29)
        /\ Is(s30, "change", "createCredential", "credential_exists")
    <2> DEFINE second == IF ceremony = "sign-up" THEN V!Change("createUser", "credential_exists")
                         ELSE V!Throws("unknown_user")
    <2>1. AccountRow(second)
      BY EntriesAre DEF AccountRow
    <2>2. V!AccountSteps = <<V!Assert_("credential_unique", "credential_exists"), second,
                             V!Change("createCredential", "credential_exists")>>
      BY DEF V!AccountSteps
    <2> HIDE DEF second
    <2> QED BY <2>1, <2>2, EntriesAre
  <1>10. V!Steps = V!ShapeSteps \o V!ChallengeSteps \o V!ClientDataSteps
                   \o (V!AttestationObjectSteps \o V!PresenceSteps \o V!AttestedSteps \o V!KeySteps
                       \o V!StatementSteps \o V!AccountSteps)
    BY DEF V!Steps
  <1>11. /\ V!ShapeSteps = <<s1, s2, s3, s4>>
        /\ V!ChallengeSteps = <<s5, s6, s7, s8>>
        /\ V!ClientDataSteps = <<s9, s10, s11>>
        /\ V!AttestationObjectSteps = <<s12, s13, s14, s15, s16>>
        /\ V!PresenceSteps = <<s17, s18, s19>>
        /\ V!AttestedSteps = <<s20, s21, s22>>
        /\ V!KeySteps = <<s23, s24>>
        /\ V!StatementSteps = <<s25, s26, s27>>
        /\ V!AccountSteps = <<s28, s29, s30>>
    BY <1>1, <1>2, <1>3, <1>4, <1>5, <1>6, <1>7, <1>8, <1>9
  <1>12. /\ Len(V!Steps) = 30
        /\ V!Steps[1] = s1 /\ V!Steps[2] = s2 /\ V!Steps[3] = s3
        /\ V!Steps[4] = s4 /\ V!Steps[5] = s5 /\ V!Steps[6] = s6
        /\ V!Steps[7] = s7 /\ V!Steps[8] = s8 /\ V!Steps[9] = s9
        /\ V!Steps[10] = s10 /\ V!Steps[11] = s11 /\ V!Steps[12] = s12
        /\ V!Steps[13] = s13 /\ V!Steps[14] = s14 /\ V!Steps[15] = s15
        /\ V!Steps[16] = s16 /\ V!Steps[17] = s17 /\ V!Steps[18] = s18
        /\ V!Steps[19] = s19 /\ V!Steps[20] = s20 /\ V!Steps[21] = s21
        /\ V!Steps[22] = s22 /\ V!Steps[23] = s23 /\ V!Steps[24] = s24
        /\ V!Steps[25] = s25 /\ V!Steps[26] = s26 /\ V!Steps[27] = s27
        /\ V!Steps[28] = s28 /\ V!Steps[29] = s29 /\ V!Steps[30] = s30
    BY <1>10, <1>11
  <1> QED BY <1>1, <1>2, <1>3, <1>4, <1>5, <1>6, <1>7, <1>8, <1>9, <1>12 DEF RegistrationRows

LEMMA RegistrationLayout == ASSUME ceremony \in {"sign-up", "registration"} PROVE Layout
  <1>1. RegistrationRows
    BY RegistrationSteps
  <1> DEFINE n == Len(V!Steps)
  <1>2. n = 30
    BY <1>1 DEF RegistrationRows
  <1>3. Before =
          <<0, 0, 1, 1, 1, 1, 2, 3, 4, 5, 6, 7, 7, 7, 8, 8, 9, 10, 11, 12, 13, 13, 14, 14, 15, 15, 16, 17, 18, 18, 18>>
    BY DEF Before
  <1>4. /\ Before[1] = 0 /\ Before[2] = 0 /\ Before[3] = 1 /\ Before[4] = 1 /\ Before[5] = 1 /\ Before[6] = 1
        /\ Before[7] = 2 /\ Before[8] = 3 /\ Before[9] = 4 /\ Before[10] = 5 /\ Before[11] = 6 /\ Before[12] = 7
        /\ Before[13] = 7 /\ Before[14] = 7 /\ Before[15] = 8 /\ Before[16] = 8 /\ Before[17] = 9 /\ Before[18] = 10
        /\ Before[19] = 11 /\ Before[20] = 12 /\ Before[21] = 13
        /\ Before[22] = 13 /\ Before[23] = 14 /\ Before[24] = 14
        /\ Before[25] = 15 /\ Before[26] = 15 /\ Before[27] = 16
        /\ Before[28] = 17 /\ Before[29] = 18 /\ Before[30] = 18
        /\ Before[31] = 18
    BY <1>3
  <1>5. /\ Placed(1) /\ Placed(2) /\ Placed(3) /\ Placed(4) /\ Placed(5) /\ Placed(6)
        /\ Placed(7) /\ Placed(8) /\ Placed(9) /\ Placed(10) /\ Placed(11) /\ Placed(12)
        /\ Placed(13) /\ Placed(14) /\ Placed(15) /\ Placed(16) /\ Placed(17) /\ Placed(18)
        /\ Placed(19) /\ Placed(20) /\ Placed(21) /\ Placed(22) /\ Placed(23) /\ Placed(24)
        /\ Placed(25) /\ Placed(26) /\ Placed(27) /\ Placed(28) /\ Placed(29) /\ Placed(30)
    BY <1>1, <1>2, <1>4, BlankIs DEF RegistrationRows, AccountRow, Is, Placed, IsCheck
  <1>6. \A i \in 1..n : Placed(i)
    BY <1>2, <1>5
  <1>7. /\ Before \in Seq(Nat) /\ Len(Before) = n + 1 /\ Before[1] = 0
        /\ V!Steps[6].kind = "assert" /\ V!Steps[6].id = "challenge_found"
    BY <1>1, <1>2, <1>3 DEF RegistrationRows, Is
  <1>8. /\ Len(V!Registry) = 18
        /\ V!Registry[1].id = "response_well_formed"
        /\ V!Registry[2].id = "challenge_found"
        /\ V!Registry[3].id = "challenge_kind"
        /\ V!Registry[4].id = "challenge_matches"
        /\ V!Registry[5].id = "client_data_type"
        /\ V!Registry[6].id = "origin_allowed"
        /\ V!Registry[7].id = "not_cross_origin"
        /\ V!Registry[8].id = "attestation_object_shape"
        /\ V!Registry[9].id = "rp_id_hash"
        /\ V!Registry[10].id = "user_present"
        /\ V!Registry[11].id = "user_verified"
        /\ V!Registry[12].id = "backup_flags_consistent"
        /\ V!Registry[13].id = "backup_eligible_required"
        /\ V!Registry[14].id = "attested_data_present"
        /\ V!Registry[15].id = "raw_id_matches"
        /\ V!Registry[16].id = "algorithm_offered"
        /\ V!Registry[17].id = "attestation_statement"
        /\ V!Registry[18].id = "credential_unique"
    BY DEF V!Registry, V!REGISTRATION, V!AUTHENTICATION, V!Registered
  <1>9. \A i \in 1..Len(V!Registry) : Checked(V!Registry[i].id)
    <2>1. /\ Checked("response_well_formed") /\ Checked("challenge_found") /\ Checked("challenge_kind")
        /\ Checked("challenge_matches") /\ Checked("client_data_type") /\ Checked("origin_allowed")
        /\ Checked("not_cross_origin") /\ Checked("attestation_object_shape") /\ Checked("rp_id_hash")
        /\ Checked("user_present") /\ Checked("user_verified") /\ Checked("backup_flags_consistent")
        /\ Checked("backup_eligible_required") /\ Checked("attested_data_present") /\ Checked("raw_id_matches")
        /\ Checked("algorithm_offered") /\ Checked("attestation_statement") /\ Checked("credential_unique")
      BY <1>1, <1>2 DEF RegistrationRows, Is, Checked, IsCheck
    <2> QED BY <1>8, <2>1
  <1>10. \A i \in 1..n : IsCheck(i) => InRegistry(V!Steps[i].id)
    <2>1. /\ InRegistry("response_well_formed") /\ InRegistry("challenge_found") /\ InRegistry("challenge_kind")
        /\ InRegistry("challenge_matches") /\ InRegistry("client_data_type") /\ InRegistry("origin_allowed")
        /\ InRegistry("not_cross_origin") /\ InRegistry("attestation_object_shape") /\ InRegistry("rp_id_hash")
        /\ InRegistry("user_present") /\ InRegistry("user_verified") /\ InRegistry("backup_flags_consistent")
        /\ InRegistry("backup_eligible_required") /\ InRegistry("attested_data_present")
        /\ InRegistry("raw_id_matches")
        /\ InRegistry("algorithm_offered") /\ InRegistry("attestation_statement") /\ InRegistry("credential_unique")
      BY <1>8 DEF InRegistry
    <2>2. /\ (IsCheck(1) => InRegistry(V!Steps[1].id)) /\ (IsCheck(2) => InRegistry(V!Steps[2].id))
        /\ (IsCheck(3) => InRegistry(V!Steps[3].id)) /\ (IsCheck(4) => InRegistry(V!Steps[4].id))
        /\ (IsCheck(5) => InRegistry(V!Steps[5].id)) /\ (IsCheck(6) => InRegistry(V!Steps[6].id))
        /\ (IsCheck(7) => InRegistry(V!Steps[7].id)) /\ (IsCheck(8) => InRegistry(V!Steps[8].id))
        /\ (IsCheck(9) => InRegistry(V!Steps[9].id)) /\ (IsCheck(10) => InRegistry(V!Steps[10].id))
        /\ (IsCheck(11) => InRegistry(V!Steps[11].id)) /\ (IsCheck(12) => InRegistry(V!Steps[12].id))
        /\ (IsCheck(13) => InRegistry(V!Steps[13].id)) /\ (IsCheck(14) => InRegistry(V!Steps[14].id))
        /\ (IsCheck(15) => InRegistry(V!Steps[15].id)) /\ (IsCheck(16) => InRegistry(V!Steps[16].id))
        /\ (IsCheck(17) => InRegistry(V!Steps[17].id)) /\ (IsCheck(18) => InRegistry(V!Steps[18].id))
        /\ (IsCheck(19) => InRegistry(V!Steps[19].id)) /\ (IsCheck(20) => InRegistry(V!Steps[20].id))
        /\ (IsCheck(21) => InRegistry(V!Steps[21].id)) /\ (IsCheck(22) => InRegistry(V!Steps[22].id))
        /\ (IsCheck(23) => InRegistry(V!Steps[23].id)) /\ (IsCheck(24) => InRegistry(V!Steps[24].id))
        /\ (IsCheck(25) => InRegistry(V!Steps[25].id)) /\ (IsCheck(26) => InRegistry(V!Steps[26].id))
        /\ (IsCheck(27) => InRegistry(V!Steps[27].id)) /\ (IsCheck(28) => InRegistry(V!Steps[28].id))
        /\ (IsCheck(29) => InRegistry(V!Steps[29].id)) /\ (IsCheck(30) => InRegistry(V!Steps[30].id))
      BY <2>1, <1>1 DEF RegistrationRows, AccountRow, Is, IsCheck
    <2> QED BY <1>2, <2>2
  <1>11. \A i \in 1..Len(Before) : i > 28 \/ i = Len(V!Steps) => Before[i] = Len(V!Registry)
    BY <1>2, <1>3, <1>8
  <1>12. /\ V!Registry[1].code = "malformed_response"
        /\ V!Registry[2].code = "challenge_not_found"
        /\ V!Registry[3].code = "type_mismatch"
        /\ V!Registry[4].code = "challenge_mismatch"
        /\ V!Registry[5].code = "type_mismatch"
        /\ V!Registry[6].code = "origin_mismatch"
        /\ V!Registry[7].code = "origin_mismatch"
        /\ V!Registry[8].code = "parse_error"
        /\ V!Registry[9].code = "rpid_mismatch"
        /\ V!Registry[10].code = "user_not_present"
        /\ V!Registry[11].code = "user_not_verified"
        /\ V!Registry[12].code = "parse_error"
        /\ V!Registry[13].code = "attestation_failed"
        /\ V!Registry[14].code = "parse_error"
        /\ V!Registry[15].code = "parse_error"
        /\ V!Registry[16].code = "unsupported_algorithm"
        /\ V!Registry[17].code = "attestation_failed"
        /\ V!Registry[18].code = "credential_exists"
    BY DEF V!Registry, V!REGISTRATION, V!AUTHENTICATION, V!Registered
  <1>13. Len(Place) = 18
        /\ Place[1] = 2 /\ Place[2] = 6 /\ Place[3] = 7 /\ Place[4] = 8 /\ Place[5] = 9 /\ Place[6] = 10
        /\ Place[7] = 11 /\ Place[8] = 14 /\ Place[9] = 17 /\ Place[10] = 18 /\ Place[11] = 19 /\ Place[12] = 16
        /\ Place[13] = 27 /\ Place[14] = 20 /\ Place[15] = 22 /\ Place[16] = 24 /\ Place[17] = 26 /\ Place[18] = 28
    BY DEF Place
  <1>14. \A k \in 1..18 : IsCheck(Place[k]) /\ V!Steps[Place[k]].id = V!Registry[k].id
    <2>1. /\ IsCheck(Place[1]) /\ IsCheck(Place[2]) /\ IsCheck(Place[3]) /\ IsCheck(Place[4])
        /\ IsCheck(Place[5]) /\ IsCheck(Place[6]) /\ IsCheck(Place[7]) /\ IsCheck(Place[8])
        /\ IsCheck(Place[9]) /\ IsCheck(Place[10]) /\ IsCheck(Place[11]) /\ IsCheck(Place[12])
        /\ IsCheck(Place[13]) /\ IsCheck(Place[14]) /\ IsCheck(Place[15]) /\ IsCheck(Place[16])
        /\ IsCheck(Place[17]) /\ IsCheck(Place[18])
        /\ V!Steps[Place[1]].id = V!Registry[1].id /\ V!Steps[Place[2]].id = V!Registry[2].id
        /\ V!Steps[Place[3]].id = V!Registry[3].id /\ V!Steps[Place[4]].id = V!Registry[4].id
        /\ V!Steps[Place[5]].id = V!Registry[5].id /\ V!Steps[Place[6]].id = V!Registry[6].id
        /\ V!Steps[Place[7]].id = V!Registry[7].id /\ V!Steps[Place[8]].id = V!Registry[8].id
        /\ V!Steps[Place[9]].id = V!Registry[9].id /\ V!Steps[Place[10]].id = V!Registry[10].id
        /\ V!Steps[Place[11]].id = V!Registry[11].id /\ V!Steps[Place[12]].id = V!Registry[12].id
        /\ V!Steps[Place[13]].id = V!Registry[13].id /\ V!Steps[Place[14]].id = V!Registry[14].id
        /\ V!Steps[Place[15]].id = V!Registry[15].id /\ V!Steps[Place[16]].id = V!Registry[16].id
        /\ V!Steps[Place[17]].id = V!Registry[17].id /\ V!Steps[Place[18]].id = V!Registry[18].id
      BY <1>1, <1>8, <1>13 DEF RegistrationRows, Is, IsCheck
    <2> QED BY <2>1
  <1>15. \A i \in 1..n : IsCheck(i) => \A k \in 1..18 : V!Registry[k].id = V!Steps[i].id => Place[k] = i
    <2> DEFINE Sole(i) == \A k \in 1..18 : V!Registry[k].id = V!Steps[i].id => Place[k] = i
    <2>1. /\ Sole(2) /\ Sole(6) /\ Sole(7) /\ Sole(8) /\ Sole(9) /\ Sole(10) /\ Sole(11) /\ Sole(14)
        /\ Sole(16) /\ Sole(17) /\ Sole(18) /\ Sole(19) /\ Sole(20) /\ Sole(22) /\ Sole(24) /\ Sole(26)
        /\ Sole(27) /\ Sole(28)
      BY <1>1, <1>8, <1>13 DEF RegistrationRows, Is
    <2>2. /\ ~IsCheck(1) /\ ~IsCheck(3) /\ ~IsCheck(4) /\ ~IsCheck(5) /\ ~IsCheck(12) /\ ~IsCheck(13)
        /\ ~IsCheck(15) /\ ~IsCheck(21) /\ ~IsCheck(23) /\ ~IsCheck(25) /\ ~IsCheck(29) /\ ~IsCheck(30)
      BY <1>1 DEF RegistrationRows, AccountRow, Is, IsCheck
    <2> HIDE DEF Sole
    <2>3. \A i \in 1..n : IsCheck(i) => Sole(i)
      BY <1>2, <2>1, <2>2
    <2> QED BY <2>3 DEF Sole
  <1>16. \A k, m \in 1..18 : m < k /\ k # 12 /\ m # 13 => Place[m] < Place[k]
    BY <1>13
  <1>17. \A k \in 1..18 : Place[k] \in Nat /\ Place[k] >= 1
    BY <1>13
  <1>18. ASSUME NEW i \in 1..n, IsCheck(i) PROVE Orderly(i)
    <2> SUFFICES ASSUME NEW k \in 1..Len(V!Registry), V!Registry[k].id = V!Steps[i].id,
                        V!Steps[i].id \notin V!Early,
                        NEW m \in 1..k - 1, V!Registry[m].id \notin V!Late
                 PROVE  \E j \in 1..i - 1 : IsCheck(j) /\ V!Steps[j].id = V!Registry[m].id
      BY DEF Orderly
    <2>1. V!Registry[k].id # "backup_flags_consistent" /\ V!Registry[m].id # "backup_eligible_required"
      BY DEF V!Early, V!Late
    <2>2. k # 12 /\ m # 13
      BY <1>8, <2>1
    <2>3. k \in 1..18 /\ m \in 1..18 /\ m < k /\ k # 12 /\ m # 13
      BY <1>8, <2>2
    <2>4. Place[k] = i /\ Place[m] < Place[k]
      BY <1>15, <1>16, <1>18, <2>3
    <2>5. Place[m] \in Nat /\ Place[m] >= 1
      BY <1>17, <2>3
    <2>8. Place[m] < i
      BY <2>4, Zenon
    <2>9. i \in Int
      OBVIOUS
    <2>6. Place[m] \in 1..i - 1
      BY <2>5, <2>8, <2>9, SMT
    <2>7. IsCheck(Place[m]) /\ V!Steps[Place[m]].id = V!Registry[m].id
      BY <1>14, <2>3
    <2> QED BY <2>6, <2>7, Zenon
  <1>19. ASSUME NEW i \in 1..n, V!Steps[i].kind = "assert" PROVE Coded(i)
    <2> SUFFICES ASSUME NEW k \in 1..Len(V!Registry), V!Registry[k].id = V!Steps[i].id,
                        V!Steps[i].id \notin V!OtherCode
                 PROVE  V!Registry[k].code = V!Steps[i].code
      BY DEF Coded
    <2>1. k \in 1..18 /\ Place[k] = i
      BY <1>8, <1>15, <1>19 DEF IsCheck
    <2>2. ASSUME NEW h \in 1..18, V!Steps[Place[h]].kind = "assert", V!Registry[h].id \notin V!OtherCode
          PROVE  V!Registry[h].code = V!Steps[Place[h]].code
      BY <1>1, <1>8, <1>12, <1>13, <2>2 DEF RegistrationRows, Is, V!OtherCode
    <2> QED BY <2>1, <2>2, <1>19
  <1> QED BY <1>2, <1>6, <1>7, <1>9, <1>10, <1>11, <1>18, <1>19 DEF Layout

\* The steps of verifyAuthentication, in their order.
AuthenticationRows ==
  /\ Len(V!Steps) = 28
  /\ Is(V!Steps[1], "throws", Blank, "malformed_response")
  /\ Is(V!Steps[2], "record", "response_well_formed", Blank)
  /\ Is(V!Steps[3], "throws", Blank, "malformed_response")
  /\ Is(V!Steps[4], "throws", Blank, "parse_error")
  /\ Is(V!Steps[5], "take", Blank, Blank)
  /\ Is(V!Steps[6], "assert", "challenge_found", "challenge_not_found")
  /\ Is(V!Steps[7], "assert", "challenge_kind", "type_mismatch")
  /\ Is(V!Steps[8], "assert", "challenge_matches", "challenge_mismatch")
  /\ Is(V!Steps[9], "assert", "client_data_type", "type_mismatch")
  /\ Is(V!Steps[10], "assert", "origin_allowed", "origin_mismatch")
  /\ Is(V!Steps[11], "assert", "not_cross_origin", "origin_mismatch")
  /\ Is(V!Steps[12], "throws", Blank, "malformed_response")
  /\ Is(V!Steps[13], "assert", "credential_known", "unknown_credential")
  /\ Is(V!Steps[14], "assert", "credential_belongs_to_account", "unknown_credential")
  /\ Is(V!Steps[15], "throws", Blank, "malformed_response")
  /\ Is(V!Steps[16], "assert", "user_handle_matches", "unknown_credential")
  /\ Is(V!Steps[17], "throws", Blank, "malformed_response")
  /\ Is(V!Steps[18], "throws", Blank, "parse_error")
  /\ Is(V!Steps[19], "assert", "rp_id_hash", "rpid_mismatch")
  /\ Is(V!Steps[20], "assert", "user_present", "user_not_present")
  /\ Is(V!Steps[21], "assert", "user_verified", "user_not_verified")
  /\ Is(V!Steps[22], "throws", Blank, "malformed_response")
  /\ Is(V!Steps[23], "throws", Blank, "parse_error")
  /\ Is(V!Steps[24], "throws", Blank, "bad_signature")
  /\ Is(V!Steps[25], "assert", "signature_verifies", "bad_signature")
  /\ Is(V!Steps[26], "throws", Blank, "unknown_user")
  /\ Is(V!Steps[27], "assert", "counter_not_regressed", "counter_regression")
  /\ Is(V!Steps[28], "change", "updateCredential", "unknown_credential")

LEMMA AuthenticationSteps == ASSUME ceremony = "authentication" PROVE AuthenticationRows
  <1>1. PICK s1, s2, s3, s4 :
        /\ V!ShapeSteps = <<s1, s2, s3, s4>>
        /\ Is(s1, "throws", Blank, "malformed_response")
        /\ Is(s2, "record", "response_well_formed", Blank)
        /\ Is(s3, "throws", Blank, "malformed_response")
        /\ Is(s4, "throws", Blank, "parse_error")
    BY EntriesAre DEF V!ShapeSteps
  <1>2. PICK s5, s6, s7, s8 :
        /\ V!ChallengeSteps = <<s5, s6, s7, s8>>
        /\ Is(s5, "take", Blank, Blank)
        /\ Is(s6, "assert", "challenge_found", "challenge_not_found")
        /\ Is(s7, "assert", "challenge_kind", "type_mismatch")
        /\ Is(s8, "assert", "challenge_matches", "challenge_mismatch")
    BY EntriesAre DEF V!ChallengeSteps
  <1>3. PICK s9, s10, s11 :
        /\ V!ClientDataSteps = <<s9, s10, s11>>
        /\ Is(s9, "assert", "client_data_type", "type_mismatch")
        /\ Is(s10, "assert", "origin_allowed", "origin_mismatch")
        /\ Is(s11, "assert", "not_cross_origin", "origin_mismatch")
    BY EntriesAre DEF V!ClientDataSteps
  <1>4. PICK s12, s13, s14, s15, s16, s17, s18 :
        /\ V!CredentialSteps = <<s12, s13, s14, s15, s16, s17, s18>>
        /\ Is(s12, "throws", Blank, "malformed_response")
        /\ Is(s13, "assert", "credential_known", "unknown_credential")
        /\ Is(s14, "assert", "credential_belongs_to_account", "unknown_credential")
        /\ Is(s15, "throws", Blank, "malformed_response")
        /\ Is(s16, "assert", "user_handle_matches", "unknown_credential")
        /\ Is(s17, "throws", Blank, "malformed_response")
        /\ Is(s18, "throws", Blank, "parse_error")
    BY EntriesAre DEF V!CredentialSteps
  <1>5. PICK s19, s20, s21 :
        /\ V!PresenceSteps = <<s19, s20, s21>>
        /\ Is(s19, "assert", "rp_id_hash", "rpid_mismatch")
        /\ Is(s20, "assert", "user_present", "user_not_present")
        /\ Is(s21, "assert", "user_verified", "user_not_verified")
    BY EntriesAre DEF V!PresenceSteps
  <1>6. PICK s22, s23, s24, s25, s26, s27, s28 :
        /\ V!SignatureSteps = <<s22, s23, s24, s25, s26, s27, s28>>
        /\ Is(s22, "throws", Blank, "malformed_response")
        /\ Is(s23, "throws", Blank, "parse_error")
        /\ Is(s24, "throws", Blank, "bad_signature")
        /\ Is(s25, "assert", "signature_verifies", "bad_signature")
        /\ Is(s26, "throws", Blank, "unknown_user")
        /\ Is(s27, "assert", "counter_not_regressed", "counter_regression")
        /\ Is(s28, "change", "updateCredential", "unknown_credential")
    BY EntriesAre DEF V!SignatureSteps
  <1>7. V!Steps = V!ShapeSteps \o V!ChallengeSteps \o V!ClientDataSteps
                   \o (V!CredentialSteps \o V!PresenceSteps \o V!SignatureSteps)
    BY DEF V!Steps
  <1>8. /\ V!ShapeSteps = <<s1, s2, s3, s4>>
        /\ V!ChallengeSteps = <<s5, s6, s7, s8>>
        /\ V!ClientDataSteps = <<s9, s10, s11>>
        /\ V!CredentialSteps = <<s12, s13, s14, s15, s16, s17, s18>>
        /\ V!PresenceSteps = <<s19, s20, s21>>
        /\ V!SignatureSteps = <<s22, s23, s24, s25, s26, s27, s28>>
    BY <1>1, <1>2, <1>3, <1>4, <1>5, <1>6
  <1>9. /\ Len(V!Steps) = 28
        /\ V!Steps[1] = s1 /\ V!Steps[2] = s2 /\ V!Steps[3] = s3
        /\ V!Steps[4] = s4 /\ V!Steps[5] = s5 /\ V!Steps[6] = s6
        /\ V!Steps[7] = s7 /\ V!Steps[8] = s8 /\ V!Steps[9] = s9
        /\ V!Steps[10] = s10 /\ V!Steps[11] = s11 /\ V!Steps[12] = s12
        /\ V!Steps[13] = s13 /\ V!Steps[14] = s14 /\ V!Steps[15] = s15
        /\ V!Steps[16] = s16 /\ V!Steps[17] = s17 /\ V!Steps[18] = s18
        /\ V!Steps[19] = s19 /\ V!Steps[20] = s20 /\ V!Steps[21] = s21
        /\ V!Steps[22] = s22 /\ V!Steps[23] = s23 /\ V!Steps[24] = s24
        /\ V!Steps[25] = s25 /\ V!Steps[26] = s26 /\ V!Steps[27] = s27 /\ V!Steps[28] = s28
    BY <1>7, <1>8
  <1> QED BY <1>1, <1>2, <1>3, <1>4, <1>5, <1>6, <1>9 DEF AuthenticationRows

LEMMA AuthenticationLayout == ASSUME ceremony = "authentication" PROVE Layout
  <1>1. AuthenticationRows
    BY AuthenticationSteps
  <1> DEFINE n == Len(V!Steps)
  <1>2. n = 28
    BY <1>1 DEF AuthenticationRows
  <1>3. Before =
          <<0, 0, 1, 1, 1, 1, 2, 3, 4, 5, 6, 7, 7, 8, 9, 9, 10, 10, 10, 11, 12, 13, 13, 13, 13, 14, 14, 15, 15>>
    BY DEF Before
  <1>4. /\ Before[1] = 0 /\ Before[2] = 0 /\ Before[3] = 1 /\ Before[4] = 1 /\ Before[5] = 1 /\ Before[6] = 1
        /\ Before[7] = 2 /\ Before[8] = 3 /\ Before[9] = 4 /\ Before[10] = 5 /\ Before[11] = 6 /\ Before[12] = 7
        /\ Before[13] = 7 /\ Before[14] = 8 /\ Before[15] = 9 /\ Before[16] = 9 /\ Before[17] = 10 /\ Before[18] = 10
        /\ Before[19] = 10 /\ Before[20] = 11 /\ Before[21] = 12
        /\ Before[22] = 13 /\ Before[23] = 13 /\ Before[24] = 13
        /\ Before[25] = 13 /\ Before[26] = 14 /\ Before[27] = 14 /\ Before[28] = 15 /\ Before[29] = 15
    BY <1>3
  <1>5. /\ Placed(1) /\ Placed(2) /\ Placed(3) /\ Placed(4) /\ Placed(5) /\ Placed(6)
        /\ Placed(7) /\ Placed(8) /\ Placed(9) /\ Placed(10) /\ Placed(11) /\ Placed(12)
        /\ Placed(13) /\ Placed(14) /\ Placed(15) /\ Placed(16) /\ Placed(17) /\ Placed(18)
        /\ Placed(19) /\ Placed(20) /\ Placed(21) /\ Placed(22) /\ Placed(23) /\ Placed(24)
        /\ Placed(25) /\ Placed(26) /\ Placed(27) /\ Placed(28)
    BY <1>1, <1>2, <1>4, BlankIs DEF AuthenticationRows, Is, Placed, IsCheck
  <1>6. \A i \in 1..n : Placed(i)
    BY <1>2, <1>5
  <1>7. /\ Before \in Seq(Nat) /\ Len(Before) = n + 1 /\ Before[1] = 0
        /\ V!Steps[6].kind = "assert" /\ V!Steps[6].id = "challenge_found"
    BY <1>1, <1>2, <1>3 DEF AuthenticationRows, Is
  <1>8. /\ Len(V!Registry) = 15
        /\ V!Registry[1].id = "response_well_formed"
        /\ V!Registry[2].id = "challenge_found"
        /\ V!Registry[3].id = "challenge_kind"
        /\ V!Registry[4].id = "challenge_matches"
        /\ V!Registry[5].id = "client_data_type"
        /\ V!Registry[6].id = "origin_allowed"
        /\ V!Registry[7].id = "not_cross_origin"
        /\ V!Registry[8].id = "credential_known"
        /\ V!Registry[9].id = "credential_belongs_to_account"
        /\ V!Registry[10].id = "user_handle_matches"
        /\ V!Registry[11].id = "rp_id_hash"
        /\ V!Registry[12].id = "user_present"
        /\ V!Registry[13].id = "user_verified"
        /\ V!Registry[14].id = "signature_verifies"
        /\ V!Registry[15].id = "counter_not_regressed"
    BY DEF V!Registry, V!REGISTRATION, V!AUTHENTICATION, V!Registered
  <1>9. \A i \in 1..Len(V!Registry) : Checked(V!Registry[i].id)
    <2>1. /\ Checked("response_well_formed") /\ Checked("challenge_found") /\ Checked("challenge_kind")
        /\ Checked("challenge_matches") /\ Checked("client_data_type") /\ Checked("origin_allowed")
        /\ Checked("not_cross_origin") /\ Checked("credential_known") /\ Checked("credential_belongs_to_account")
        /\ Checked("user_handle_matches") /\ Checked("rp_id_hash") /\ Checked("user_present")
        /\ Checked("user_verified") /\ Checked("signature_verifies") /\ Checked("counter_not_regressed")
      BY <1>1, <1>2 DEF AuthenticationRows, Is, Checked, IsCheck
    <2> QED BY <1>8, <2>1
  <1>10. \A i \in 1..n : IsCheck(i) => InRegistry(V!Steps[i].id)
    <2>1. /\ InRegistry("response_well_formed") /\ InRegistry("challenge_found") /\ InRegistry("challenge_kind")
        /\ InRegistry("challenge_matches") /\ InRegistry("client_data_type") /\ InRegistry("origin_allowed")
        /\ InRegistry("not_cross_origin") /\ InRegistry("credential_known")
        /\ InRegistry("credential_belongs_to_account")
        /\ InRegistry("user_handle_matches") /\ InRegistry("rp_id_hash") /\ InRegistry("user_present")
        /\ InRegistry("user_verified") /\ InRegistry("signature_verifies") /\ InRegistry("counter_not_regressed")
      BY <1>8 DEF InRegistry
    <2>2. /\ (IsCheck(1) => InRegistry(V!Steps[1].id)) /\ (IsCheck(2) => InRegistry(V!Steps[2].id))
        /\ (IsCheck(3) => InRegistry(V!Steps[3].id)) /\ (IsCheck(4) => InRegistry(V!Steps[4].id))
        /\ (IsCheck(5) => InRegistry(V!Steps[5].id)) /\ (IsCheck(6) => InRegistry(V!Steps[6].id))
        /\ (IsCheck(7) => InRegistry(V!Steps[7].id)) /\ (IsCheck(8) => InRegistry(V!Steps[8].id))
        /\ (IsCheck(9) => InRegistry(V!Steps[9].id)) /\ (IsCheck(10) => InRegistry(V!Steps[10].id))
        /\ (IsCheck(11) => InRegistry(V!Steps[11].id)) /\ (IsCheck(12) => InRegistry(V!Steps[12].id))
        /\ (IsCheck(13) => InRegistry(V!Steps[13].id)) /\ (IsCheck(14) => InRegistry(V!Steps[14].id))
        /\ (IsCheck(15) => InRegistry(V!Steps[15].id)) /\ (IsCheck(16) => InRegistry(V!Steps[16].id))
        /\ (IsCheck(17) => InRegistry(V!Steps[17].id)) /\ (IsCheck(18) => InRegistry(V!Steps[18].id))
        /\ (IsCheck(19) => InRegistry(V!Steps[19].id)) /\ (IsCheck(20) => InRegistry(V!Steps[20].id))
        /\ (IsCheck(21) => InRegistry(V!Steps[21].id)) /\ (IsCheck(22) => InRegistry(V!Steps[22].id))
        /\ (IsCheck(23) => InRegistry(V!Steps[23].id)) /\ (IsCheck(24) => InRegistry(V!Steps[24].id))
        /\ (IsCheck(25) => InRegistry(V!Steps[25].id)) /\ (IsCheck(26) => InRegistry(V!Steps[26].id))
        /\ (IsCheck(27) => InRegistry(V!Steps[27].id)) /\ (IsCheck(28) => InRegistry(V!Steps[28].id))
      BY <2>1, <1>1 DEF AuthenticationRows, Is, IsCheck
    <2> QED BY <1>2, <2>2
  <1>11. \A i \in 1..Len(Before) : i > 28 \/ i = Len(V!Steps) => Before[i] = Len(V!Registry)
    BY <1>2, <1>3, <1>8
  <1>12. /\ V!Registry[1].code = "malformed_response"
        /\ V!Registry[2].code = "challenge_not_found"
        /\ V!Registry[3].code = "type_mismatch"
        /\ V!Registry[4].code = "challenge_mismatch"
        /\ V!Registry[5].code = "type_mismatch"
        /\ V!Registry[6].code = "origin_mismatch"
        /\ V!Registry[7].code = "origin_mismatch"
        /\ V!Registry[8].code = "unknown_credential"
        /\ V!Registry[9].code = "unknown_credential"
        /\ V!Registry[10].code = "unknown_credential"
        /\ V!Registry[11].code = "rpid_mismatch"
        /\ V!Registry[12].code = "user_not_present"
        /\ V!Registry[13].code = "user_not_verified"
        /\ V!Registry[14].code = "bad_signature"
        /\ V!Registry[15].code = "counter_regression"
    BY DEF V!Registry, V!REGISTRATION, V!AUTHENTICATION, V!Registered
  <1>13. Len(Place) = 15
        /\ Place[1] = 2 /\ Place[2] = 6 /\ Place[3] = 7 /\ Place[4] = 8 /\ Place[5] = 9 /\ Place[6] = 10
        /\ Place[7] = 11 /\ Place[8] = 13 /\ Place[9] = 14 /\ Place[10] = 16 /\ Place[11] = 19 /\ Place[12] = 20
        /\ Place[13] = 21 /\ Place[14] = 25 /\ Place[15] = 27
    BY DEF Place
  <1>14. \A k \in 1..15 : IsCheck(Place[k]) /\ V!Steps[Place[k]].id = V!Registry[k].id
    <2>1. /\ IsCheck(Place[1]) /\ IsCheck(Place[2]) /\ IsCheck(Place[3]) /\ IsCheck(Place[4])
        /\ IsCheck(Place[5]) /\ IsCheck(Place[6]) /\ IsCheck(Place[7]) /\ IsCheck(Place[8])
        /\ IsCheck(Place[9]) /\ IsCheck(Place[10]) /\ IsCheck(Place[11]) /\ IsCheck(Place[12])
        /\ IsCheck(Place[13]) /\ IsCheck(Place[14]) /\ IsCheck(Place[15])
        /\ V!Steps[Place[1]].id = V!Registry[1].id /\ V!Steps[Place[2]].id = V!Registry[2].id
        /\ V!Steps[Place[3]].id = V!Registry[3].id /\ V!Steps[Place[4]].id = V!Registry[4].id
        /\ V!Steps[Place[5]].id = V!Registry[5].id /\ V!Steps[Place[6]].id = V!Registry[6].id
        /\ V!Steps[Place[7]].id = V!Registry[7].id /\ V!Steps[Place[8]].id = V!Registry[8].id
        /\ V!Steps[Place[9]].id = V!Registry[9].id /\ V!Steps[Place[10]].id = V!Registry[10].id
        /\ V!Steps[Place[11]].id = V!Registry[11].id /\ V!Steps[Place[12]].id = V!Registry[12].id
        /\ V!Steps[Place[13]].id = V!Registry[13].id /\ V!Steps[Place[14]].id = V!Registry[14].id
        /\ V!Steps[Place[15]].id = V!Registry[15].id
      BY <1>1, <1>8, <1>13 DEF AuthenticationRows, Is, IsCheck
    <2> QED BY <2>1
  <1>15. \A i \in 1..n : IsCheck(i) => \A k \in 1..15 : V!Registry[k].id = V!Steps[i].id => Place[k] = i
    <2> DEFINE Sole(i) == \A k \in 1..15 : V!Registry[k].id = V!Steps[i].id => Place[k] = i
    <2>1. /\ Sole(2) /\ Sole(6) /\ Sole(7) /\ Sole(8) /\ Sole(9) /\ Sole(10) /\ Sole(11) /\ Sole(13)
        /\ Sole(14) /\ Sole(16) /\ Sole(19) /\ Sole(20) /\ Sole(21) /\ Sole(25) /\ Sole(27)
      BY <1>1, <1>8, <1>13 DEF AuthenticationRows, Is
    <2>2. /\ ~IsCheck(1) /\ ~IsCheck(3) /\ ~IsCheck(4) /\ ~IsCheck(5) /\ ~IsCheck(12) /\ ~IsCheck(15)
        /\ ~IsCheck(17) /\ ~IsCheck(18) /\ ~IsCheck(22) /\ ~IsCheck(23) /\ ~IsCheck(24) /\ ~IsCheck(26)
        /\ ~IsCheck(28)
      BY <1>1 DEF AuthenticationRows, Is, IsCheck
    <2> HIDE DEF Sole
    <2>3. \A i \in 1..n : IsCheck(i) => Sole(i)
      BY <1>2, <2>1, <2>2
    <2> QED BY <2>3 DEF Sole
  <1>16. \A k, m \in 1..15 : m < k => Place[m] < Place[k]
    BY <1>13
  <1>17. \A k \in 1..15 : Place[k] \in Nat /\ Place[k] >= 1
    BY <1>13
  <1>18. ASSUME NEW i \in 1..n, IsCheck(i) PROVE Orderly(i)
    <2> SUFFICES ASSUME NEW k \in 1..Len(V!Registry), V!Registry[k].id = V!Steps[i].id,
                        V!Steps[i].id \notin V!Early,
                        NEW m \in 1..k - 1, V!Registry[m].id \notin V!Late
                 PROVE  \E j \in 1..i - 1 : IsCheck(j) /\ V!Steps[j].id = V!Registry[m].id
      BY DEF Orderly
    <2>1. k \in 1..15 /\ m \in 1..15 /\ m < k
      BY <1>8
    <2>2. Place[k] = i /\ Place[m] < Place[k]
      BY <1>15, <1>16, <1>18, <2>1
    <2>3. Place[m] \in Nat /\ Place[m] >= 1
      BY <1>17, <2>1
    <2>4. Place[m] < i
      BY <2>2, Zenon
    <2>7. i \in Int
      OBVIOUS
    <2>5. Place[m] \in 1..i - 1
      BY <2>3, <2>4, <2>7, SMT
    <2>6. IsCheck(Place[m]) /\ V!Steps[Place[m]].id = V!Registry[m].id
      BY <1>14, <2>1
    <2> QED BY <2>5, <2>6, Zenon
  <1>19. ASSUME NEW i \in 1..n, V!Steps[i].kind = "assert" PROVE Coded(i)
    <2> SUFFICES ASSUME NEW k \in 1..Len(V!Registry), V!Registry[k].id = V!Steps[i].id,
                        V!Steps[i].id \notin V!OtherCode
                 PROVE  V!Registry[k].code = V!Steps[i].code
      BY DEF Coded
    <2>1. k \in 1..15 /\ Place[k] = i
      BY <1>8, <1>15, <1>19 DEF IsCheck
    <2>2. ASSUME NEW h \in 1..15, V!Steps[Place[h]].kind = "assert", V!Registry[h].id \notin V!OtherCode
          PROVE  V!Registry[h].code = V!Steps[Place[h]].code
      BY <1>1, <1>8, <1>12, <1>13, <2>2 DEF AuthenticationRows, Is, V!OtherCode
    <2> QED BY <2>1, <2>2, <1>19
  <1> QED BY <1>2, <1>6, <1>7, <1>9, <1>10, <1>11, <1>18, <1>19 DEF Layout

LEMMA StepsAre ==
  ASSUME ceremony \in Ceremonies
  PROVE  Layout
  BY RegistrationLayout, AuthenticationLayout DEF Ceremonies

----------------------------------------------------------------------------
(* Where a ceremony stands: the events are those of the checks behind, and *)
(* one more if a check has failed.                                         *)

StepCount == Len(V!Steps)
Refused == outcome \notin {"none", "accepted"}
CheckFailed == Refused /\ V!Steps[step].kind = "assert"

WhereItStands ==
  /\ ceremony \in Ceremonies
  /\ step \in 1..StepCount + 1
  /\ flaws \subseteq {i \in 1..StepCount : V!Steps[i].code # Blank}
  /\ \A i \in flaws : i >= step
  /\ outcome = "accepted" => step = StepCount + 1
  /\ Refused => step \in flaws /\ outcome = V!Steps[step].code

\* The first of them are those of the checks behind the step.
Behind(list, i) ==
  /\ \A k \in 1..Before[i] : list[k].ok /\ \E j \in 1..i - 1 : IsCheck(j) /\ list[k].id = V!Steps[j].id
  /\ \A j \in 1..i - 1 : IsCheck(j) => \E k \in 1..Before[i] : list[k].id = V!Steps[j].id

EventsBehind ==
  /\ Listed(events) /\ Len(events) = IF CheckFailed THEN Before[step] + 1 ELSE Before[step]
  /\ Behind(events, step)

EventOfFailure ==
  CheckFailed => LET last == events[Before[step] + 1]
                 IN  ~last.ok /\ last.code = outcome /\ last.id = V!Steps[step].id

\* As FollowsTheRegistry says of the order.
InOrder(list) ==
  \A i \in 1..Len(list), n \in 1..Len(V!Registry) :
    V!Registry[n].id = list[i].id /\ list[i].id \notin V!Early =>
      \A m \in 1..n - 1 : V!Registry[m].id \notin V!Late =>
        \E k \in 1..i - 1 : list[k].id = V!Registry[m].id /\ list[k].ok

DoneSoFar ==
  /\ challenge \in {"live", "expired", "none"}
  /\ step > 5 => challenge = "none"
  /\ step <= 5 /\ challenge # "live" => 6 \in flaws
  /\ done # {} => step > 28

TraceInv ==
  IF matter = "trace"
  THEN WhereItStands /\ EventsBehind /\ EventOfFailure /\ InOrder(events) /\ DoneSoFar
  ELSE events = <<>> /\ done = {} /\ outcome = "none"

----------------------------------------------------------------------------
LEMMA TraceInit == ResponsesInit => TraceInv
  <1> SUFFICES ASSUME ResponsesInit PROVE TraceInv
    OBVIOUS
  <1>1. CASE matter # "trace"
    BY <1>1 DEF ResponsesInit, TraceInv
  <1>2. CASE matter = "trace"
    <2>1. /\ ceremony \in Ceremonies /\ step = 1 /\ events = <<>> /\ done = {} /\ outcome = "none"
          /\ challenge \in (IF V!NotFound THEN {"expired", "none"} ELSE {"live"})
      BY <1>2 DEF ResponsesInit, V!Init, Ceremonies
    <2>2. Layout
      BY <2>1, StepsAre
    <2>3. flaws \subseteq {i \in 1..StepCount : V!Steps[i].code # Blank}
      BY <1>2 DEF ResponsesInit, V!Init, StepCount, Blank
    <2>4. StepCount \in Nat /\ Before[1] = 0
      BY <2>2 DEF Layout, StepCount
    <2>5. WhereItStands
      BY <2>1, <2>3, <2>4 DEF WhereItStands, Refused
    <2>6. EventsBehind /\ EventOfFailure
      BY <2>1, <2>4 DEF EventsBehind, Behind, Listed, EventOfFailure, CheckFailed, Refused
    <2>7. InOrder(events)
      BY <2>1 DEF InOrder
    <2>8. V!NotFound => 6 \in flaws
      BY <2>2, <2>3 DEF V!NotFound, Layout, Placed, StepCount
    <2>9. DoneSoFar
      BY <2>1, <2>8 DEF DoneSoFar
    <2> QED BY <1>2, <2>5, <2>6, <2>7, <2>9 DEF TraceInv
  <1> QED BY <1>1, <1>2

\* Another check after those behind it keeps the order.
LEMMA OrderGrows ==
  ASSUME Layout, Listed(events), InOrder(events), step \in 1..StepCount, IsCheck(step),
         Len(events) = Before[step], Before[step] \in Nat, Behind(events, step),
         NEW e, e.id = V!Steps[step].id, NEW longer, longer = Append(events, e)
  PROVE  InOrder(longer)
  <1>1. /\ Len(longer) = Before[step] + 1 /\ longer[Before[step] + 1] = e
        /\ \A k \in 1..Before[step] : longer[k] = events[k]
    BY AppendListed
  <1> SUFFICES ASSUME NEW i \in 1..Len(longer), NEW n \in 1..Len(V!Registry),
                      V!Registry[n].id = longer[i].id, longer[i].id \notin V!Early,
                      NEW m \in 1..n - 1, V!Registry[m].id \notin V!Late
               PROVE  \E k \in 1..i - 1 : longer[k].id = V!Registry[m].id /\ longer[k].ok
    BY DEF InOrder
  <1>2. CASE i \in 1..Before[step]
    <2>1. longer[i] = events[i] /\ i \in 1..Len(events)
      BY <1>1, <1>2
    <2>2. PICK k \in 1..i - 1 : events[k].id = V!Registry[m].id /\ events[k].ok
      BY <2>1, Zenon DEF InOrder
    <2>3. longer[k] = events[k]
      BY <1>1, <1>2, <2>2
    <2> QED BY <2>2, <2>3
  <1>3. CASE i = Before[step] + 1
    <2>1. V!Registry[n].id = V!Steps[step].id
      BY <1>1, <1>3
    <2>2. Orderly(step)
      BY DEF Layout, StepCount
    <2>3. V!Steps[step].id \notin V!Early
      BY <2>1
    <2>4. PICK j \in 1..step - 1 : IsCheck(j) /\ V!Steps[j].id = V!Registry[m].id
      BY <2>1, <2>2, <2>3, Zenon DEF Orderly
    <2>5. PICK k \in 1..Before[step] : events[k].id = V!Steps[j].id
      BY <2>4, Zenon DEF Behind
    <2>6. events[k].ok /\ longer[k] = events[k]
      BY <1>1, <2>5, Zenon DEF Behind
    <2>7. k \in 1..i - 1
      BY <1>3, <2>5
    <2> QED BY <2>4, <2>5, <2>6, <2>7
  <1> QED BY <1>1, <1>2, <1>3

LEMMA TraceStep ==
  ASSUME matter = "trace", matter' = matter, TraceInv, V!Next
  PROVE  TraceInv'
  <1> DEFINE n == StepCount
  <1>1. WhereItStands /\ EventsBehind /\ EventOfFailure /\ InOrder(events) /\ DoneSoFar
    BY DEF TraceInv
  <1>2. Layout
    BY <1>1, StepsAre DEF WhereItStands
  <1>3. ceremony' = ceremony /\ flaws' = flaws /\ outcome = "none"
    BY DEF V!Next, V!Assert, V!RecordPassed, V!TakeChallenge, V!Call, V!ChangeStore, V!Accept, V!Running
  <1>4. V!Steps' = V!Steps /\ Before' = Before /\ StepCount' = StepCount
    <2>1. V!AccountSteps' = V!AccountSteps
      BY <1>3 DEF V!AccountSteps
    <2>2. V!Steps' = V!Steps
      BY <1>3, <2>1 DEF V!Steps
    <2> QED BY <1>3, <2>2 DEF Before, StepCount
  <1>5. /\ n \in {28, 30} /\ step \in 1..n + 1 /\ Len(events) = Before[step]
        /\ \A i \in flaws : i \in 1..n /\ i >= step
    <2>1. ~CheckFailed
      BY <1>3 DEF CheckFailed, Refused
    <2> QED BY <2>1, <1>1, <1>2 DEF WhereItStands, EventsBehind, Layout, StepCount
  <1>6. \A i \in 1..n : Placed(i)
    BY <1>2 DEF Layout, StepCount
  <1>21. Behind(events, step)' <=> Behind(events', step')
    BY <1>4 DEF Behind, IsCheck
  <1>22. ASSUME Listed(events'), Behind(events', step'),
                Len(events') = IF CheckFailed' THEN Before[step'] + 1 ELSE Before[step']
         PROVE  EventsBehind'
    BY <1>4, <1>21, <1>22 DEF EventsBehind
  <1>23. InOrder(events)' <=> InOrder(events')
    <2>1. V!Registry' = V!Registry
      BY <1>3 DEF V!Registry
    <2> QED BY <2>1 DEF InOrder, V!Early, V!Late
  <1> HIDE DEF n
  <1>7. CASE V!Accept
    <2>1. /\ step' = step /\ events' = events /\ done' = done /\ outcome' = "accepted" /\ step = n + 1
          /\ challenge' = challenge
      BY <1>7, <1>5 DEF V!Accept, n, StepCount
    <2>2. WhereItStands'
      BY <2>1, <1>1, <1>3, <1>4 DEF WhereItStands, Refused, n
    <2>3. EventsBehind'
      <3>1. ~CheckFailed'
        BY <2>1 DEF CheckFailed, Refused
      <3>2. Listed(events') /\ Len(events') = Before[step] /\ Behind(events', step)
        BY <2>1, <1>1, <1>5 DEF EventsBehind
      <3> QED BY <3>1, <3>2, <2>1, <1>22
    <2>4. EventOfFailure'
      BY <2>1 DEF EventOfFailure, CheckFailed, Refused
    <2>5. DoneSoFar'
      BY <2>1, <1>1, <1>3 DEF DoneSoFar
    <2>6. InOrder(events)'
      BY <2>1, <1>1, <1>23
    <2> QED BY <2>2, <2>3, <2>4, <2>5, <2>6 DEF TraceInv
  <1>8. ASSUME step \in flaws, step' = step, outcome' = V!Steps[step].code, done' = done, challenge' = challenge,
               IF V!Steps[step].kind = "assert" THEN V!Emit(FALSE, V!Steps[step].code) ELSE events' = events
        PROVE  TraceInv'
    <2>1. step \in 1..n /\ Placed(step) /\ outcome' \notin {"none", "accepted"}
      BY <1>5, <1>6, <1>8 DEF Placed
    <2>2. WhereItStands'
      BY <2>1, <1>1, <1>3, <1>4, <1>8 DEF WhereItStands, Refused, n
    <2>3. CheckFailed' <=> V!Steps[step].kind = "assert"
      BY <2>1, <1>4, <1>8 DEF CheckFailed, Refused
    <2>4. ASSUME V!Steps[step].kind = "assert" PROVE EventsBehind' /\ EventOfFailure' /\ InOrder(events)'
      <3>1. PICK e : events' = Append(events, e) /\ ~e.ok /\ e.code = outcome' /\ e.id = V!Steps[step].id
        BY <1>8, <2>4 DEF V!Emit, V!Step
      <3>2. /\ Listed(events') /\ Len(events') = Before[step] + 1
            /\ \A k \in 1..Before[step] : events'[k] = events[k]
            /\ events'[Before[step] + 1] = e
        BY <3>1, <1>1, <1>5, AppendListed DEF EventsBehind
      <3>3. EventsBehind'
        <4>1. CheckFailed'
          BY <2>3, <2>4
        <4>2. Behind(events', step)
          BY <3>2, <1>1 DEF EventsBehind, Behind
        <4> QED BY <3>2, <4>1, <4>2, <1>8, <1>22
      <3>4. EventOfFailure'
        BY <3>1, <3>2, <1>4, <1>8 DEF EventOfFailure
      <3>5. InOrder(events')
        <4>1. Before[step] \in Nat /\ step \in 1..StepCount /\ IsCheck(step)
          BY <1>2, <1>5, <2>1, <2>4 DEF Layout, n, StepCount, IsCheck
        <4>2. Listed(events) /\ Len(events) = Before[step] /\ Behind(events, step)
          BY <1>1, <1>5 DEF EventsBehind
        <4> QED BY <3>1, <4>1, <4>2, <1>1, <1>2, OrderGrows
      <3> QED BY <3>3, <3>4, <3>5, <1>23
    <2>5. ASSUME V!Steps[step].kind # "assert" PROVE EventsBehind' /\ EventOfFailure' /\ InOrder(events)'
      <3>1. ~CheckFailed' /\ events' = events
        BY <2>3, <2>5, <1>8
      <3>2. EventsBehind'
        <4>1. Listed(events') /\ Len(events') = Before[step] /\ Behind(events', step)
          BY <3>1, <1>1, <1>5 DEF EventsBehind
        <4> QED BY <3>1, <4>1, <1>8, <1>22
      <3>3. InOrder(events)'
        BY <3>1, <1>1, <1>23
      <3> QED BY <3>1, <3>2, <3>3 DEF EventOfFailure
    <2>6. DoneSoFar'
      BY <1>1, <1>3, <1>8 DEF DoneSoFar
    <2> QED BY <2>2, <2>4, <2>5, <2>6 DEF TraceInv
  <1>9. ASSUME step \in 1..n, step \notin flaws, step' = step + 1, outcome' = outcome,
               IF IsCheck(step) THEN V!Emit(TRUE, Blank) ELSE events' = events,
               challenge' = IF V!Steps[step].kind = "take" THEN "none" ELSE challenge,
               V!Steps[step].kind # "change" => done' = done
        PROVE  TraceInv'
    <2>1. Placed(step) /\ Before[step] \in Nat /\ ~CheckFailed' /\ ~Refused'
      BY <1>2, <1>3, <1>5, <1>6, <1>9 DEF Layout, CheckFailed, Refused, n, StepCount
    <2>2. WhereItStands'
      BY <2>1, <1>1, <1>3, <1>4, <1>5, <1>9 DEF WhereItStands, Refused, n
    <2>3. EventsBehind'
      <3>1. CASE IsCheck(step)
        <4>1. PICK e : events' = Append(events, e) /\ e.ok /\ e.id = V!Steps[step].id
          BY <1>9, <3>1 DEF V!Emit, V!Step
        <4>2. Before[step + 1] = Before[step] + 1
          BY <2>1, <3>1 DEF Placed
        <4>3. /\ Listed(events') /\ Len(events') = Before[step] + 1
              /\ \A k \in 1..Before[step] : events'[k] = events[k]
              /\ events'[Before[step] + 1] = e
          BY <4>1, <1>1, <1>5, AppendListed DEF EventsBehind
        <4>4. Behind(events', step + 1)
          <5>1. step \in Nat /\ Behind(events, step)
            BY <1>1, <1>5 DEF EventsBehind
          <5>2. ASSUME NEW k \in 1..Before[step] + 1
                PROVE  events'[k].ok /\ \E j \in 1..step : IsCheck(j) /\ events'[k].id = V!Steps[j].id
            <6>1. CASE k \in 1..Before[step]
              <7>1. events[k].ok /\ \E j \in 1..step - 1 : IsCheck(j) /\ events[k].id = V!Steps[j].id
                BY <5>1, <6>1, Zenon DEF Behind
              <7>2. events'[k] = events[k]
                BY <4>3, <6>1
              <7>3. \A j \in 1..step - 1 : j \in 1..step
                BY <5>1
              <7> QED BY <7>1, <7>2, <7>3, Zenon
            <6>2. CASE k = Before[step] + 1
              <7>1. events'[k] = e /\ step \in 1..step
                BY <4>3, <5>1, <6>2, <1>5
              <7> QED BY <4>1, <7>1, <3>1, Zenon
            <6> QED BY <6>1, <6>2, <2>1
          <5>3. ASSUME NEW j \in 1..step, IsCheck(j)
                PROVE  \E k \in 1..Before[step] + 1 : events'[k].id = V!Steps[j].id
            <6>1. CASE j = step
              <7>1. Before[step] + 1 \in 1..Before[step] + 1
                BY <2>1
              <7> QED BY <4>1, <4>3, <6>1, <7>1
            <6>2. CASE j # step
              <7>1. j \in 1..step - 1
                BY <5>1, <6>2
              <7>2. PICK k \in 1..Before[step] : events[k].id = V!Steps[j].id
                BY <5>1, <5>3, <7>1, Zenon DEF Behind
              <7>3. k \in 1..Before[step] + 1
                BY <2>1
              <7>4. events'[k] = events[k]
                BY <4>3
              <7> QED BY <7>2, <7>3, <7>4, Zenon
            <6> QED BY <6>1, <6>2
          <5> QED BY <4>2, <5>1, <5>2, <5>3 DEF Behind
        <4>5. Len(events') = Before[step + 1]
          BY <4>2, <4>3
        <4> QED BY <4>3, <4>4, <4>5, <2>1, <1>9, <1>22
      <3>2. CASE ~IsCheck(step)
        <4>1. Before[step + 1] = Before[step] /\ events' = events
          BY <2>1, <3>2, <1>9 DEF Placed
        <4>2. Behind(events', step + 1)
          <5>1. step \in Nat /\ Behind(events, step) /\ step + 1 - 1 = step
            BY <1>1, <1>5 DEF EventsBehind
          <5>2. \A j \in 1..step : IsCheck(j) => j \in 1..step - 1
            BY <3>2, <5>1
          <5> QED BY <4>1, <5>1, <5>2 DEF Behind
        <4>3. Listed(events') /\ Len(events') = Before[step + 1]
          BY <4>1, <1>1, <1>5 DEF EventsBehind
        <4> QED BY <4>2, <4>3, <2>1, <1>9, <1>22
      <3> QED BY <3>1, <3>2
    <2>4. EventOfFailure'
      BY <2>1 DEF EventOfFailure
    <2>5. DoneSoFar'
      <3>1. step \in Nat /\ (V!Steps[step].kind = "take" <=> step = 5)
        BY <2>1, <1>5 DEF Placed
      <3>2. done' # {} => step + 1 > 28
        <4>1. CASE V!Steps[step].kind = "change"
          <5>1. step > 28 \/ step = n
            BY <4>1, <2>1 DEF Placed, n, StepCount
          <5> QED BY <5>1, <3>1, <1>5
        <4>2. CASE V!Steps[step].kind # "change"
          BY <4>2, <3>1, <1>1, <1>9 DEF DoneSoFar
        <4> QED BY <4>1, <4>2
      <3>3. step + 1 > 5 => challenge' = "none"
        <4>1. CASE step = 5
          BY <3>1, <4>1, <1>9
        <4>2. CASE step > 5
          BY <3>1, <4>2, <1>1, <1>9 DEF DoneSoFar
        <4> QED BY <3>1, <4>1, <4>2
      <3>4. step + 1 <= 5 => challenge' = challenge
        BY <3>1, <1>9
      <3>5. challenge' \in {"live", "expired", "none"}
        BY <1>1, <1>9 DEF DoneSoFar
      <3> QED BY <3>1, <3>2, <3>3, <3>4, <3>5, <1>1, <1>3, <1>9 DEF DoneSoFar
    <2>6. InOrder(events')
      <3>1. CASE IsCheck(step)
        <4>1. PICK e : events' = Append(events, e) /\ e.id = V!Steps[step].id
          BY <1>9, <3>1 DEF V!Emit, V!Step
        <4>2. Listed(events) /\ Len(events) = Before[step] /\ Behind(events, step) /\ step \in 1..StepCount
          BY <1>1, <1>5, <1>9 DEF EventsBehind, n
        <4> QED BY <2>1, <3>1, <4>1, <4>2, <1>1, <1>2, OrderGrows
      <3>2. CASE ~IsCheck(step)
        BY <3>2, <1>1, <1>9
      <3> QED BY <3>1, <3>2
    <2>7. InOrder(events)'
      BY <2>6, <1>23
    <2> QED BY <2>2, <2>3, <2>4, <2>5, <2>7 DEF TraceInv
  <1>10. CASE V!Assert
    <2>1. V!Running("assert") /\ done' = done /\ challenge' = challenge
      BY <1>10, Zenon DEF V!Assert
    <2>2. step \in 1..n /\ V!Steps[step].kind = "assert"
      BY <2>1, <1>5 DEF V!Running, V!Step, n, StepCount
    <2>3. CASE step \in flaws
      <3>1. V!Emit(FALSE, V!Step.code) /\ V!Throw(V!Step.code)
        BY <1>10, <2>3, Zenon DEF V!Assert
      <3> QED BY <1>8, <2>1, <2>2, <2>3, <3>1 DEF V!Throw, V!Step
    <2>4. CASE step \notin flaws
      <3>1. V!Emit(TRUE, Blank) /\ V!Proceed
        BY <1>10, <2>4, Zenon DEF V!Assert, Blank
      <3> QED BY <1>9, <2>1, <2>2, <2>4, <3>1 DEF V!Proceed, IsCheck
    <2> QED BY <2>3, <2>4
  <1>11. CASE V!RecordPassed
    <2>1. V!Running("record") /\ done' = done /\ challenge' = challenge /\ V!Proceed /\ V!Emit(TRUE, Blank)
      BY <1>11, Zenon DEF V!RecordPassed, Blank
    <2>2. step \in 1..n /\ V!Steps[step].kind = "record"
      BY <2>1, <1>5 DEF V!Running, V!Step, n, StepCount
    <2>3. step \notin flaws
      BY <1>1, <1>6, <2>2 DEF WhereItStands, Placed, n
    <2> QED BY <1>9, <2>1, <2>2, <2>3 DEF V!Proceed, IsCheck
  <1>12. CASE V!Call
    <2>1. /\ step \in 1..n /\ V!Steps[step].kind = "throws"
          /\ done' = done /\ challenge' = challenge /\ events' = events
      BY <1>12, <1>5 DEF V!Call, V!Running, V!Step, n, StepCount
    <2>2. CASE step \in flaws
      BY <1>8, <1>12, <2>1, <2>2 DEF V!Call, V!Throw, V!Step
    <2>3. CASE step \notin flaws
      BY <1>9, <1>12, <2>1, <2>3 DEF V!Call, V!Proceed, IsCheck
    <2> QED BY <2>2, <2>3
  <1>13. CASE V!TakeChallenge
    <2>1. /\ step \in 1..n /\ V!Steps[step].kind = "take" /\ V!Proceed
          /\ done' = done /\ challenge' = "none" /\ events' = events
      BY <1>13, <1>5 DEF V!TakeChallenge, V!Running, V!Step, n, StepCount
    <2>2. step \notin flaws
      BY <1>1, <1>6, <2>1 DEF WhereItStands, Placed, n
    <2> QED BY <1>9, <2>1, <2>2 DEF V!Proceed, IsCheck
  <1>14. CASE V!ChangeStore
    <2>1. /\ step \in 1..n /\ V!Steps[step].kind = "change"
          /\ challenge' = challenge /\ events' = events
      BY <1>14, <1>5 DEF V!ChangeStore, V!Running, V!Step, n, StepCount
    <2>2. CASE step \in flaws
      BY <1>8, <1>14, <2>1, <2>2 DEF V!ChangeStore, V!Throw, V!Step
    <2>3. CASE step \notin flaws
      BY <1>9, <1>14, <2>1, <2>3 DEF V!ChangeStore, V!Proceed, IsCheck
    <2> QED BY <2>2, <2>3
  <1> QED BY <1>7, <1>10, <1>11, <1>12, <1>13, <1>14 DEF V!Next

\* At every moment.
LEMMA TraceStands == ResponsesSpec => []TraceInv
  <1>1. ResponsesInit => TraceInv
    BY TraceInit
  <1>2. TraceInv /\ [ResponsesNext]_everything => TraceInv'
    <2> SUFFICES ASSUME TraceInv, [ResponsesNext]_everything PROVE TraceInv'
      OBVIOUS
    <2>1. CASE matter = "trace" /\ V!Next /\ matter' = matter
      BY <2>1, TraceStep
    <2>2. CASE UNCHANGED <<matter, trace>>
      <3>1. UNCHANGED <<ceremony, flaws, challenge, step, events, done, outcome>> /\ matter' = matter
        BY <2>2 DEF trace
      <3>2. V!Steps' = V!Steps /\ Before' = Before /\ V!Registry' = V!Registry
        <4>1. V!AccountSteps' = V!AccountSteps
          BY <3>1 DEF V!AccountSteps
        <4> QED BY <3>1, <4>1 DEF V!Steps, Before, V!Registry
      <3>3. WhereItStands' = WhereItStands /\ DoneSoFar' = DoneSoFar /\ CheckFailed' = CheckFailed
        BY <3>1, <3>2 DEF WhereItStands, DoneSoFar, CheckFailed, Refused, StepCount
      <3>4. EventsBehind' = EventsBehind /\ EventOfFailure' = EventOfFailure
        BY <3>1, <3>2, <3>3 DEF EventsBehind, EventOfFailure, Behind, IsCheck
      <3>5. InOrder(events)' = InOrder(events)
        BY <3>1, <3>2 DEF InOrder, V!Early, V!Late
      <3> QED BY <3>1, <3>3, <3>4, <3>5 DEF TraceInv
    <2> QED BY <2>1, <2>2 DEF ResponsesNext, everything
  <1> QED BY <1>1, <1>2, PTL DEF ResponsesSpec, everything

\* What the table asks for has been passed once the step is behind the last check.
LEMMA PassedAtTheEnd ==
  ASSUME matter = "trace", TraceInv, step > 28
  PROVE  V!AllPassed
  <1>1. WhereItStands /\ EventsBehind
    BY DEF TraceInv
  <1>2. Layout
    BY <1>1, StepsAre DEF WhereItStands
  <1>3. step \in 1..StepCount + 1 /\ StepCount \in {28, 30} /\ Before[step] = Len(V!Registry) /\ Len(V!Registry) \in Nat
    <2>1. step \in 1..StepCount + 1 /\ StepCount \in {28, 30} /\ step \in 1..Len(Before)
      BY <1>1, <1>2 DEF WhereItStands, Layout, StepCount
    <2> QED BY <1>2, <2>1 DEF Layout
  <1>4. ~CheckFailed
    <2>1. CASE step \in 1..StepCount
      BY <2>1, <1>2 DEF Layout, Placed, StepCount, CheckFailed, IsCheck
    <2>2. CASE step = StepCount + 1
      BY <2>2, <1>1, <1>3 DEF WhereItStands, CheckFailed
    <2> QED BY <2>1, <2>2, <1>3
  <1>5. Len(events) = Len(V!Registry) /\ Behind(events, step)
    BY <1>1, <1>3, <1>4 DEF EventsBehind
  <1>6. \A k \in 1..Len(events) : events[k].ok /\ events[k].id \in {V!Registry[i].id : i \in 1..Len(V!Registry)}
    <2> TAKE k \in 1..Len(events)
    <2>1. PICK j \in 1..step - 1 : IsCheck(j) /\ events[k].id = V!Steps[j].id /\ events[k].ok
      BY <1>3, <1>5 DEF Behind
    <2>3. j \in 1..Len(V!Steps)
      BY <1>3, <2>1 DEF StepCount
    <2>2. InRegistry(V!Steps[j].id)
      BY <1>2, <2>1, <2>3, Zenon DEF Layout
    <2> QED BY <2>1, <2>2 DEF InRegistry
  <1>7. \A i \in 1..Len(V!Registry) : V!Registry[i].id \in V!Ids
    <2> TAKE i \in 1..Len(V!Registry)
    <2>1. PICK j \in 1..28 : IsCheck(j) /\ V!Steps[j].id = V!Registry[i].id
      BY <1>2 DEF Layout, Checked
    <2>2. j \in 1..step - 1
      BY <1>3
    <2>3. \E k \in 1..Len(events) : events[k].id = V!Steps[j].id
      <3>1. \E k \in 1..Before[step] : events[k].id = V!Steps[j].id
        BY <1>5, <2>1, <2>2, Zenon DEF Behind
      <3>2. Before[step] = Len(events)
        BY <1>3, <1>5, Zenon
      <3> QED BY <3>1, <3>2, Zenon
    <2> QED BY <2>1, <2>3 DEF V!Ids
  <1>8. V!Ids = {V!Registry[i].id : i \in 1..Len(V!Registry)}
    BY <1>6, <1>7 DEF V!Ids
  <1> QED BY <1>5, <1>6, <1>8 DEF V!AllPassed

\* Of every response, whatever set of flaws it has: what is accepted has passed
\* every check of the registry, each once, and has no flaw; accounts and passkeys
\* change after the last check only; checks are reached in the order and refuse
\* with the codes of the registry, but for the three it names; no challenge is left
\* once the trace says anything of it, and one that could be taken is gone only if
\* the trace says it was found; and a failed check ends the trace with the code
\* that was thrown (trace.ts:1-16, checks.ts:26, 31, registration.ts:198-200, 387,
\* store.ts:242-249).
THEOREM TraceTrue == ResponsesSpec => []TraceTellsTheTruth
  <1>1. TraceInv => TraceTellsTheTruth
    <2> SUFFICES ASSUME TraceInv PROVE TraceTellsTheTruth
      OBVIOUS
    <2>1. CASE matter # "trace"
      BY <2>1 DEF TraceInv, TraceTellsTheTruth, V!AcceptedPassedEveryCheck, V!ChangesComeLast,
                  V!SpentIfFound, V!TraceStopsAtFailure, V!FollowsTheRegistry, V!Ended
    <2>2. CASE matter = "trace"
      <3>1. WhereItStands /\ EventsBehind /\ EventOfFailure /\ InOrder(events) /\ DoneSoFar
        BY <2>2 DEF TraceInv
      <3>2. Layout
        BY <3>1, StepsAre DEF WhereItStands
      <3>3. /\ StepCount \in {28, 30} /\ step \in 1..StepCount + 1 /\ Before[step] \in Nat
            /\ Len(events) = IF CheckFailed THEN Before[step] + 1 ELSE Before[step]
        BY <3>1, <3>2 DEF WhereItStands, EventsBehind, Layout, StepCount
      <3>4. \A k \in 1..Len(events) : k \notin 1..Before[step] => CheckFailed /\ k = Len(events) /\ ~events[k].ok
        BY <3>1, <3>3 DEF EventOfFailure
      <3>5. V!AcceptedPassedEveryCheck
        <4> SUFFICES ASSUME outcome = "accepted" PROVE V!AllPassed /\ flaws = {}
          BY DEF V!AcceptedPassedEveryCheck
        <4>1. step = StepCount + 1
          BY <3>1 DEF WhereItStands
        <4>2. flaws = {}
          BY <3>1, <3>3, <4>1 DEF WhereItStands
        <4> QED BY <2>2, <3>3, <4>1, <4>2, PassedAtTheEnd
      <3>6. V!ChangesComeLast
        BY <2>2, <3>1, PassedAtTheEnd DEF DoneSoFar, V!ChangesComeLast
      <3>7. V!SpentIfFound
        <4> SUFFICES ASSUME outcome # "none"
                     PROVE  /\ "challenge_found" \in V!Ids => challenge = "none"
                            /\ challenge = "none" /\ ~V!NotFound =>
                                 \E k \in 1..Len(events) : events[k].id = "challenge_found" /\ events[k].ok
          BY DEF V!SpentIfFound, V!Ended
        <4>1. V!Steps[6].id = "challenge_found" /\ IsCheck(6) /\ 6 \in 1..StepCount
          BY <3>2, <3>3 DEF Layout, IsCheck
        <4>2. ASSUME NEW k \in 1..Len(events), events[k].id = "challenge_found" PROVE challenge = "none"
          <5>1. CASE k \in 1..Before[step]
            <6>1. PICK j \in 1..step - 1 : events[k].id = V!Steps[j].id
              BY <3>1, <5>1 DEF EventsBehind, Behind
            <6>2. j = 6
              BY <3>2, <3>3, <4>2, <6>1 DEF Layout, Placed, StepCount
            <6> QED BY <3>1, <3>3, <6>2 DEF DoneSoFar
          <5>2. CASE k \notin 1..Before[step]
            <6>1. CheckFailed /\ k = Before[step] + 1
              BY <3>3, <3>4, <5>2
            <6>2. V!Steps[step].id = "challenge_found"
              BY <3>1, <4>2, <6>1 DEF EventOfFailure
            <6>3. step \in 1..StepCount
              BY <3>1, <6>1 DEF WhereItStands, CheckFailed
            <6>4. step = 6
              BY <3>2, <6>2, <6>3 DEF Layout, Placed, StepCount
            <6> QED BY <3>1, <6>4 DEF DoneSoFar
          <5> QED BY <5>1, <5>2
        <4>3. ASSUME challenge = "none", ~V!NotFound
              PROVE  \E k \in 1..Len(events) : events[k].id = "challenge_found" /\ events[k].ok
          <5>1. 6 \notin flaws
            BY <4>1, <4>3 DEF V!NotFound
          <5>2. step > 5
            BY <3>1, <3>3, <4>3, <5>1 DEF DoneSoFar
          <5>3. step # 6
            BY <3>1, <3>3, <5>1 DEF WhereItStands, Refused
          <5>4. 6 \in 1..step - 1
            BY <3>3, <5>2, <5>3
          <5>5. PICK k \in 1..Before[step] : events[k].id = V!Steps[6].id
            BY <3>1, <4>1, <5>4 DEF EventsBehind, Behind
          <5>6. events[k].ok
            BY <3>1, <5>5, Zenon DEF EventsBehind, Behind
          <5>7. k \in 1..Len(events)
            BY <3>3, <5>5
          <5> QED BY <4>1, <5>5, <5>6, <5>7
        <4> QED BY <4>2, <4>3 DEF V!Ids
      <3>8. V!TraceStopsAtFailure
        <4>1. ASSUME NEW k \in 1..Len(events), ~events[k].ok
              PROVE  k = Len(events) /\ events[k].code = outcome
          <5>1. k \notin 1..Before[step]
            BY <3>1, <4>1 DEF EventsBehind, Behind
          <5> QED BY <3>1, <3>3, <3>4, <5>1 DEF EventOfFailure
        <4>2. ASSUME outcome # "none", outcome # "accepted", V!Steps[step].kind = "assert"
              PROVE  events # <<>> /\ ~events[Len(events)].ok
          <5>1. CheckFailed
            BY <4>2 DEF CheckFailed, Refused
          <5> QED BY <3>1, <3>3, <5>1 DEF EventOfFailure
        <4> QED BY <4>1, <4>2 DEF V!TraceStopsAtFailure, V!Ended, V!Step
      <3>9. V!FollowsTheRegistry
        <4> SUFFICES ASSUME NEW i \in 1..Len(events), NEW k \in 1..Len(V!Registry),
                            V!Registry[k].id = events[i].id
                     PROVE  /\ events[i].id \notin V!Early =>
                                 \A m \in 1..k - 1 : V!Registry[m].id \notin V!Late =>
                                    \E j \in 1..i - 1 : events[j].id = V!Registry[m].id /\ events[j].ok
                            /\ ~events[i].ok /\ events[i].id \notin V!OtherCode =>
                                 events[i].code = V!Registry[k].code
          BY DEF V!FollowsTheRegistry
        <4>1. ASSUME ~events[i].ok, events[i].id \notin V!OtherCode PROVE events[i].code = V!Registry[k].code
          <5>1. i \notin 1..Before[step]
            BY <3>1, <4>1 DEF EventsBehind, Behind
          <5>2. CheckFailed /\ i = Before[step] + 1
            BY <3>3, <3>4, <5>1
          <5>3. events[i].code = outcome /\ events[i].id = V!Steps[step].id
            BY <3>1, <5>2 DEF EventOfFailure
          <5>4. step \in 1..StepCount /\ outcome = V!Steps[step].code /\ V!Steps[step].kind = "assert"
            BY <3>1, <5>2 DEF WhereItStands, CheckFailed
          <5>5. Coded(step)
            BY <3>2, <5>4 DEF Layout, StepCount
          <5> QED BY <4>1, <5>3, <5>4, <5>5 DEF Coded
        <4> QED BY <3>1, <4>1 DEF InOrder
      <3> QED BY <3>5, <3>6, <3>7, <3>8, <3>9 DEF TraceTellsTheTruth
    <2> QED BY <2>1, <2>2
  <1> QED BY <1>1, TraceStands, PTL
=============================================================================
