---------------------------- MODULE OriginConfig ----------------------------
(***************************************************************************)
(* Which sites a server serves: resolveConfig (server/config.ts) accepts   *)
(* or refuses a configuration, related-origin.ts derives the file that     *)
(* browsers fetch, originAllowed (client-data.ts) judges a ceremony.  A    *)
(* configuration is built, and pages of the configured sites then try a    *)
(* ceremony in a browser.                                                  *)
(*                                                                         *)
(* A host is the sequence of its labels.  An entry of `origin` is a record *)
(* of what new URL finds in it and of how it is spelled; a browser always  *)
(* reports the canonical spelling.                                         *)
(***************************************************************************)
EXTENDS Naturals, Sequences, SequencesExt, FiniteSets

CONSTANTS
    Hosts,           \* hosts that may be configured
    Spellings,       \* how the entries may be spelled
    Most,            \* at most so many entries
    Declared,        \* sets of labels that may be declared
    Table,           \* MULTI_PART_SUFFIXES
    TrueSuffixes,    \* the multi-part suffixes there are
    MaxLabels        \* MAX_RELATED_ORIGIN_LABELS

ASSUME OriginAssumption ==
    /\ Table \subseteq TrueSuffixes
    /\ \A h \in Hosts : h \in Seq({h[i] : i \in DOMAIN h}) /\ h # <<>>
    /\ Spellings \subseteq {"canonical", "slash", "defaultPort", "capitals", "path", "insecure", "pattern"}
    /\ \A labels \in Declared : IsFiniteSet(labels)
    /\ MaxLabels \in Nat \ {0}

VARIABLES config, resolved, attempt
vars == <<config, resolved, attempt>>

None == <<>>
Entries == [host : Hosts, spelling : Spellings]

\* relatedOrigins is off, or on with labels declared, or on without.
Configs ==
    {c \in [origin : SeqOf(Entries, Most), rpID : UNION {Suffixes(h) : h \in Hosts},
            related : BOOLEAN, labels : SeqOf(Declared, 1)] : c.labels # <<>> => c.related}

----------------------------------------------------------------------------
(* The registrable label of a host.                                        *)

LastTwo(h) == SubSeq(h, Len(h) - 1, Len(h))
Label(h, back) == <<h[Len(h) - back]>>

\* As a browser does, by the list of all suffixes.
TrueLabel(h) ==
    IF Len(h) < 2 THEN h
    ELSE IF Len(h) >= 3 /\ LastTwo(h) \in TrueSuffixes THEN Label(h, 2) ELSE Label(h, 1)

\* Variant: the table is not looked at.
OptimisticWithoutTable(h) == IF Len(h) < 2 THEN h ELSE Label(h, 1)

Optimistic(h) ==
    IF Len(h) < 2 THEN h
    ELSE IF LastTwo(h) \notin Table THEN Label(h, 1)
    ELSE IF Len(h) >= 3 THEN Label(h, 2) ELSE LastTwo(h)

TrueLabels(hosts) == {TrueLabel(h) : h \in hosts}

----------------------------------------------------------------------------
(* resolveConfig and buildRelatedOrigins.                                  *)

IsString(e) == e.spelling # "pattern"
Strings(c) == {c.origin[i] : i \in {j \in 1..Len(c.origin) : IsString(c.origin[j])}}
StringHosts(c) == {e.host : e \in Strings(c)}
IsRegistrableSuffix(host, rpID) == rpID # None /\ IsSuffix(rpID, host)
RpID(c) == IF c.rpID # None THEN c.rpID
           ELSE IF Strings(c) # {} THEN c.origin[SelectInSeq(c.origin, IsString)].host ELSE None

\* Variant: with related origins nothing is asked of the entries' hosts.
RpIDFitsSometimes(c) == c.related \/ \A h \in StringHosts(c) : IsRegistrableSuffix(h, RpID(c))

RpIDFits(c) ==
    IF c.related
      THEN \E h \in StringHosts(c) : IsRegistrableSuffix(h, RpID(c))
      ELSE \A h \in StringHosts(c) : IsRegistrableSuffix(h, RpID(c))

\* Labels that were declared are counted instead of those that were worked out.
Effective(c) == IF c.labels # <<>> THEN c.labels[1] ELSE {Optimistic(h) : h \in StringHosts(c)}

CanPublish(c) ==
    /\ \A i \in 1..Len(c.origin) : IsString(c.origin[i])
    /\ Cardinality(Effective(c)) <= MaxLabels

Accepted(c) ==
    /\ c.origin # <<>>
    /\ \A i \in 1..Len(c.origin) : c.origin[i].spelling \notin {"path", "insecure"}
    /\ RpID(c) # None
    /\ RpIDFits(c)
    /\ c.related => CanPublish(c)

\* The file: every entry once, those of the relying party's own host first.  The
\* others are sorted by their spelling; here they come in any order.
Published(c) ==
    IF ~c.related THEN {<<>>}
    ELSE {file \in SetToSeqs(Strings(c)) :
            \A i, j \in 1..Len(file) : i < j /\ file[j].host = RpID(c) => file[i].host = RpID(c)}

Resolved(c, file) == [rpID |-> RpID(c), origins |-> c.origin, file |-> file]

\* originAllowed for a string: equal, letter by letter, to what the browser says.
OriginAllowed(r, host) ==
    \E i \in 1..Len(r.origins) :
        r.origins[i].host = host /\ r.origins[i].spelling \in {"canonical", "pattern"}

----------------------------------------------------------------------------
\* The browser's half: a page may use an rpID its host ends with, or one whose
\* file lists the page, reading no more labels than the cap.  The file is served
\* where some configured site is under the rpID.
ReadByBrowser(file) ==
    {i \in 1..Len(file) :
        Cardinality(TrueLabels({file[j].host : j \in 1..i})) <= MaxLabels
        \/ \E j \in 1..i - 1 : TrueLabel(file[j].host) = TrueLabel(file[i].host)
                               /\ Cardinality(TrueLabels({file[k].host : k \in 1..j})) <= MaxLabels}

BrowserAllows(r, host) ==
    \/ IsRegistrableSuffix(host, r.rpID)
    \/ /\ \E i \in 1..Len(r.origins) : IsRegistrableSuffix(r.origins[i].host, r.rpID)
       /\ \E i \in ReadByBrowser(r.file) : r.file[i].host = host

Init ==
    /\ config \in Configs
    /\ resolved = <<>>
    /\ attempt = <<>>

Construct ==
    /\ resolved = <<>> /\ Accepted(config)
    /\ \E file \in Published(config) : resolved' = <<Resolved(config, file)>>
    /\ UNCHANGED <<config, attempt>>

Visit(host) ==
    /\ resolved # <<>>
    /\ attempt' = <<[host |-> host, asked |-> BrowserAllows(resolved[1], host),
                     allowed |-> OriginAllowed(resolved[1], host)]>>
    /\ UNCHANGED <<config, resolved>>

Next == Construct \/ \E h \in Hosts : Visit(h)
Spec == Init /\ [][Next]_vars

----------------------------------------------------------------------------
\* A plain string names the host, written as a browser writes it.
Configured(h) == \E e \in Strings(config) : e.host = h /\ e.spelling = "canonical"

\* With related origins on: the labels were declared in full, or every suffix of two
\* labels is in the table.
Listed(h) == Len(h) >= 2 /\ LastTwo(h) \in TrueSuffixes => LastTwo(h) \in Table
LabelsKnown(c) ==
    \/ ~c.related
    \/ c.labels # <<>> /\ TrueLabels(StringHosts(c)) \subseteq c.labels[1]
    \/ c.labels = <<>> /\ \A h \in StringHosts(c) : Listed(h)

\* A server that could be constructed, and whose labels are known, completes the
\* ceremonies of every site that a plain string names, whatever else it is
\* configured with: what is impossible was refused at construction
\* (related-origin.ts:9-14, 212-215, config.ts:398-400).
EveryConfiguredOriginWorks ==
    \A i \in 1..Len(attempt) :
        Configured(attempt[i].host) /\ LabelsKnown(config) => attempt[i].asked /\ attempt[i].allowed
=============================================================================
