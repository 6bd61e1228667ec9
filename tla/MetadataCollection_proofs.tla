------------------------- MODULE MetadataCollection_proofs -------------------------
(***************************************************************************)
(* The verdicts that rest on a provider's answers, the report of a         *)
(* collection and the comparison of what metadata providers say, for any   *)
(* catalogue, policy and list of providers.                                *)
(***************************************************************************)
EXTENDS MetadataCollection, Selection_proofs, TLAPS

\* verify_release asks of every verdict whether some record supports it, and an
\* added record leaves the others where they were.
LEMMA MoreRecords ==
  ASSUME NEW r, NEW s,
         s.conflicted = r.conflicted, s.evidence = r.evidence,
         r.catalogue \subseteq s.catalogue
  PROVE  VerifyRelease(s) \in Successors(VerifyRelease(r))
<1>1. CASE r.conflicted
  BY <1>1 DEF VerifyRelease, Successors
<1>2. CASE ~r.conflicted /\ \E i \in r.catalogue : IsBad(i)
  BY <1>2 DEF VerifyRelease, Successors
<1>3. CASE /\ ~r.conflicted /\ ~(\E i \in r.catalogue : IsBad(i))
           /\ \E i \in r.catalogue : IsGood(i)
  BY <1>3 DEF VerifyRelease, Successors
<1>4. CASE /\ ~r.conflicted /\ ~(\E i \in r.catalogue : IsBad(i))
           /\ ~(\E i \in r.catalogue : IsGood(i))
           /\ \E i \in r.catalogue : IsContentMatch(i)
  BY <1>4 DEF VerifyRelease, Successors
<1>5. CASE /\ ~r.conflicted /\ ~(\E i \in r.catalogue : IsBad(i))
           /\ ~(\E i \in r.catalogue : IsGood(i))
           /\ ~(\E i \in r.catalogue : IsContentMatch(i))
  BY <1>5 DEF VerifyRelease, Successors
<1> QED
  BY <1>1, <1>2, <1>3, <1>4, <1>5

\* The records of an answer by the hash "kind" do not depend on what else was sent.
KindRecords(list, kind) == Records(list, kind, {kind})

MatchKinds == HashKinds \cup {"FileNameAndSize"}

\* The last release says what the files that its answer listed say.
ReleaseInv ==
  release # None =>
    /\ method \in MatchKinds
    /\ release.conflicted = FALSE
    /\ release.evidence = IF method \in HashKinds THEN "content" ELSE "name"
    /\ release.catalogue = KindRecords(listed, method)

LEMMA ReleaseOfLookup ==
  ASSUME Lookup, answer' = "release"
  PROVE  /\ method' \in MatchKinds
         /\ release'.conflicted = FALSE
         /\ release'.evidence = IF method' \in HashKinds THEN "content" ELSE "name"
         /\ release'.catalogue = KindRecords(listed', method')
<1>1. PICK exchange \in Exchanges, hashes \in SentHashes, list \in SUBSET files :
        \E kind \in MatchTypes(hashes) :
          /\ answer' = Outcome(exchange, list, kind, hashes)
          /\ method' = kind /\ listed' = list
          /\ \E platform \in Platforms, name \in Releases :
               release' = [platform |-> platform, name |-> name,
                           evidence |-> IF kind \in HashKinds THEN "content" ELSE "name",
                           conflicted |-> FALSE, catalogue |-> Records(list, kind, hashes)]
  BY DEF Lookup
<1>2. PICK kind \in MatchTypes(hashes) :
        /\ answer' = Outcome(exchange, list, kind, hashes)
        /\ method' = kind /\ listed' = list
        /\ release'.evidence = IF kind \in HashKinds THEN "content" ELSE "name"
        /\ release'.conflicted = FALSE
        /\ release'.catalogue = Records(list, kind, hashes)
  BY <1>1
<1>3. hashes \subseteq HashKinds
  BY PlaymatchAssumption
<1>4. exchange \in Transports \X Defects /\ (exchange[1] = "ok" \/ exchange[2] = "nothing")
  BY DEF Exchanges
<1>5. kind # "NoMatch"
  <2>1. CASE exchange[1] # "ok"
    BY <2>1, <1>2, <1>4 DEF Outcome, Transports, Defects
  <2>2. CASE exchange[1] = "ok" /\ kind = "NoMatch"
    BY <2>2, <1>2, <1>4 DEF Outcome, Transports, Defects
  <2> QED
    BY <2>1, <2>2
<1>6. kind \in MatchKinds /\ (kind \in HashKinds => kind \in hashes)
  BY <1>3, <1>5 DEF MatchTypes, MatchKinds, HashKinds, StrongKinds
<1>7. Records(list, kind, hashes) = KindRecords(list, kind)
  BY <1>6 DEF KindRecords, Records, KeepsFile
<1> QED
  BY <1>2, <1>6, <1>7

\* Every step of the composition is a lookup, an import, or leaves both alone.
LEMMA LookupSteps ==
  ASSUME [Next]_vars
  PROVE  /\ UNCHANGED publisher
         /\ \/ Lookup /\ answer' = "release"
            \/ UNCHANGED <<release, method, listed>>
<1>1. CASE LookupNext
  BY <1>1 DEF LookupNext, Lookup, Import
<1>2. CASE Enrich \/ Unmatched \/ Matched \/ Failed \/ Report \/ UNCHANGED vars
  BY <1>2 DEF Enrich, Unmatched, Matched, Failed, Report, vars, lookupVars
<1> QED
  BY <1>1, <1>2 DEF Next

LEMMA ReleaseInvariance == Spec => []ReleaseInv
<1>1. Init => ReleaseInv
  BY DEF Init, LookupInit, ReleaseInv
<1>2. ReleaseInv /\ [Next]_vars => ReleaseInv'
  <2> SUFFICES ASSUME ReleaseInv, [Next]_vars PROVE ReleaseInv'
    OBVIOUS
  <2>1. CASE Lookup /\ answer' = "release"
    <3>1. UNCHANGED <<files, publisher>>
      BY <2>1 DEF Lookup
    <3>2. KindRecords(listed, method)' = KindRecords(listed', method')
      BY <3>1 DEF KindRecords, Records, KeepsFile, HasHash
    <3> QED
      BY <2>1, <3>2, ReleaseOfLookup DEF ReleaseInv
  <2>2. CASE UNCHANGED <<release, method, listed, publisher>>
    <3>1. KindRecords(listed, method)' = KindRecords(listed, method)
      BY <2>2 DEF KindRecords, Records, KeepsFile, HasHash
    <3> QED
      BY <2>2, <3>1 DEF ReleaseInv
  <2> QED
    BY <2>1, <2>2, LookupSteps
<1> QED
  BY <1>1, <1>2, PTL DEF Spec

\* For every catalogue and policy: a verdict for or against a dump rests on a file
\* with the content, or for a bad one the hash, that was looked up.
THEOREM VerdictsRestOnTheFile == Spec => []VerdictRestsOnThisFile
<1>1. ReleaseInv => VerdictRestsOnThisFile
  <2> SUFFICES ASSUME ReleaseInv, release # None PROVE
         /\ VerifyRelease(release) = "known_good" =>
              \E file \in listed : file.content = Target /\ file.status \in Accepted \cup {None}
         /\ VerifyRelease(release) = "known_bad" =>
              \E file \in listed : HasHash(file, method) /\ file.status \in BadStatuses
    BY DEF VerdictRestsOnThisFile
  <2>1. \A item \in release.catalogue : \E file \in listed :
          /\ item.method = MatchMethod(method) /\ item.status = file.status
          /\ method \in HashKinds => HasHash(file, method)
    <3> SUFFICES ASSUME NEW item \in KindRecords(listed, method)
                 PROVE  \E file \in listed :
                          /\ item.method = MatchMethod(method) /\ item.status = file.status
                          /\ method \in HashKinds => HasHash(file, method)
      BY DEF ReleaseInv
    <3> QED
      BY DEF KindRecords, Records, KeepsFile
  <2>2. ASSUME VerifyRelease(release) = "known_good"
        PROVE  \E file \in listed : file.content = Target /\ file.status \in Accepted \cup {None}
    <3>1. PICK item \in release.catalogue : IsGood(item)
      BY <2>2 DEF VerifyRelease
    <3>2. item.method = "strong" /\ item.status \in Accepted \cup {None}
      BY <3>1 DEF IsGood, AcceptsCatalogueEvidence
    <3>3. PICK file \in listed :
            /\ item.method = MatchMethod(method) /\ item.status = file.status
            /\ method \in HashKinds => HasHash(file, method)
      BY <2>1
    <3>4. method \in StrongKinds
      BY <3>2, <3>3 DEF MatchMethod
    <3>5. file.content = Target
      BY <3>3, <3>4 DEF HasHash, HashKinds, StrongKinds
    <3> QED
      BY <3>2, <3>3, <3>5
  <2>3. ASSUME VerifyRelease(release) = "known_bad"
        PROVE  \E file \in listed : HasHash(file, method) /\ file.status \in BadStatuses
    <3>1. PICK item \in release.catalogue : IsBad(item)
      BY <2>3 DEF VerifyRelease
    <3>2. item.method \in {"strong", "crc"} /\ item.status \in BadStatuses
      BY <3>1 DEF IsBad, IsContentMatch
    <3>3. PICK file \in listed :
            /\ item.method = MatchMethod(method) /\ item.status = file.status
            /\ method \in HashKinds => HasHash(file, method)
      BY <2>1
    <3>4. method \in HashKinds
      BY <3>2, <3>3 DEF MatchMethod, HashKinds
    <3> QED
      BY <3>2, <3>3, <3>4
  <2> QED
    BY <2>2, <2>3
<1> QED
  BY <1>1, ReleaseInvariance, PTL

\* What the provider calls a match of the content verifies nothing by itself: all that is
\* above "probable" rests on a listed file with the hash of the match.
THEOREM AuthorityVerifiesNothing == Spec => []AuthorityIsNoVerdict
<1>1. ReleaseInv => AuthorityIsNoVerdict
  <2> SUFFICES ASSUME ReleaseInv, release # None, release.evidence = "content"
               PROVE  VerifyRelease(release) = "probable"
                        <=> \A file \in listed : ~HasHash(file, method)
    BY DEF AuthorityIsNoVerdict
  <2>1. method \in HashKinds /\ release.conflicted = FALSE
    BY DEF ReleaseInv
  <2>2. \A item \in release.catalogue : IsContentMatch(item)
    <3> SUFFICES ASSUME NEW item \in KindRecords(listed, method) PROVE IsContentMatch(item)
      BY DEF ReleaseInv
    <3>1. item.method = MatchMethod(method)
      BY DEF KindRecords, Records
    <3> QED
      BY <2>1, <3>1 DEF IsContentMatch, MatchMethod, HashKinds
  <2>3. VerifyRelease(release) = "probable" <=> release.catalogue = {}
    BY <2>1, <2>2 DEF VerifyRelease
  <2>4. KindRecords(listed, method) = {} <=> \A file \in listed : ~HasHash(file, method)
    BY <2>1 DEF KindRecords, Records, KeepsFile
  <2> QED
    BY <2>3, <2>4 DEF ReleaseInv
<1> QED
  BY <1>1, ReleaseInvariance, PTL

\* However the catalogue grows, the verdict of the next lookup by the same method is
\* a successor of the last one, if what was listed is listed again.
THEOREM NeverRedeemedHolds == Spec => NeverRedeemed
<1>1. ReleaseInv /\ [Next]_vars
        => [release # None /\ release' # None /\ method' = method /\ listed \subseteq listed'
             => VerifyRelease(release') \in Successors(VerifyRelease(release))]_lookupVars
  <2> SUFFICES ASSUME ReleaseInv, [Next]_vars, release # None, method' = method,
                      listed \subseteq listed'
               PROVE  VerifyRelease(release') \in Successors(VerifyRelease(release))
    OBVIOUS
  <2>1. CASE Lookup /\ answer' = "release"
    <3>1. release'.catalogue = KindRecords(listed', method)
      BY <2>1, ReleaseOfLookup
    <3>3. release.catalogue \subseteq release'.catalogue
      BY <3>1 DEF ReleaseInv, KindRecords, Records, KeepsFile
    <3>2. /\ release'.conflicted = release.conflicted
          /\ release'.evidence = release.evidence
      BY <2>1, ReleaseOfLookup DEF ReleaseInv
    <3> QED
      BY <3>2, <3>3, MoreRecords
  <2>2. CASE UNCHANGED <<release, method, listed>>
    BY <2>2, MoreRecords
  <2> QED
    BY <2>1, <2>2, LookupSteps
<1> QED
  BY <1>1, ReleaseInvariance, PTL DEF Spec, NeverRedeemed

\* No failure of the exchange, and nothing but a database without the content, makes
\* an answer a missing match.
THEOREM MissingMatchSaid == Spec => MissingMatchIsAnAnswer
<1>1. [Next]_vars
        => [answer' = "none" /\ answer # "none"
              => \A kind \in sent', file \in files : ~HasHash(file, kind)]_lookupVars
  <2> SUFFICES ASSUME Next, answer' = "none", answer # "none"
               PROVE  \A kind \in sent', file \in files : ~HasHash(file, kind)
    BY DEF vars
  <2>1. Lookup
    BY DEF Next, LookupNext, Import, Enrich, Unmatched, Matched, Failed, Report, lookupVars
  <2>2. PICK exchange \in Exchanges, hashes \in SentHashes, list \in SUBSET files :
          \E kind \in MatchTypes(hashes) :
            sent' = hashes /\ answer' = Outcome(exchange, list, kind, hashes)
    BY <2>1 DEF Lookup
  <2>3. PICK kind \in MatchTypes(hashes) :
          sent' = hashes /\ answer' = Outcome(exchange, list, kind, hashes)
    BY <2>2
  <2>4. exchange \in Transports \X Defects /\ (exchange[1] = "ok" \/ exchange[2] = "nothing")
    BY DEF Exchanges
  <2>5. kind = "NoMatch"
    BY <2>3, <2>4 DEF Outcome, Transports, Defects
  <2>6. hashes \subseteq HashKinds
    BY PlaymatchAssumption
  <2> QED
    BY <2>3, <2>5, <2>6 DEF MatchTypes, HashKinds, StrongKinds
<1> QED
  BY <1>1, PTL DEF Spec, MissingMatchIsAnAnswer

-----------------------------------------------------------------------------
\* The lists of collect.
ListInv ==
  /\ results \in Seq([provider : ProviderNames, metadata : Metadata])
  /\ attempted \in Seq(ProviderNames)
  /\ Len(attempted) <= Len(ProviderOrder)

LEMMA ListInvariance == Spec => []ListInv
<1> USE MetadataAssumption
<1>1. Init => ListInv
  BY DEF Init, ListInv
<1>2. ListInv /\ [Next]_vars => ListInv'
  <2> SUFFICES ASSUME ListInv, [Next]_vars PROVE ListInv'
    OBVIOUS
  <2>1. Asking => Asked \in ProviderNames
    BY DEF Asking, Asked, ProviderNames, ListInv
  <2>2. CASE Unmatched
    BY <2>1, <2>2 DEF Unmatched, ListInv, Asking
  <2>3. CASE Matched
    BY <2>1, <2>3 DEF Matched, ListInv, Asking
  <2>4. CASE Failed
    BY <2>4 DEF Failed, ListInv
  <2>5. CASE UNCHANGED <<attempted, results>>
    BY <2>5 DEF ListInv
  <2> QED
    BY <2>2, <2>3, <2>4, <2>5 DEF Next, Enrich, Report, metadataVars, vars
<1> QED
  BY <1>1, <1>2, PTL DEF Spec

\* What _reconcile_values says of a field when the providers' values grow.
LEMMA MoreValues ==
  ASSUME NEW f, LocalKeys(f)' = LocalKeys(f), ProviderKeys(f) \subseteq ProviderKeys(f)'
  PROVE  FieldStatus(f)' \in LaterStatuses(FieldStatus(f))
<1> DEFINE mine == LocalKeys(f)
           theirs == ProviderKeys(f)
<1>1. CASE mine = {} /\ theirs = {}
  BY <1>1 DEF FieldStatus, LaterStatuses
<1>2. CASE mine # {} /\ theirs = {}
  BY <1>2 DEF FieldStatus, LaterStatuses
<1>3. CASE mine = {} /\ theirs # {}
  BY <1>3 DEF FieldStatus, LaterStatuses
<1>4. CASE mine # {} /\ mine = theirs
  BY <1>4 DEF FieldStatus, LaterStatuses
<1>5. CASE mine # {} /\ theirs # {} /\ mine # theirs /\ mine \cap theirs # {}
  BY <1>5 DEF FieldStatus, LaterStatuses
<1>6. CASE mine # {} /\ theirs # {} /\ mine \cap theirs = {}
  BY <1>6 DEF FieldStatus, LaterStatuses
<1> QED
  BY <1>1, <1>2, <1>3, <1>4, <1>5, <1>6

\* For any number of providers, in any order: evidence about a field accumulates.
THEOREM EvidenceOnlyAccumulates == Spec => EvidenceAccumulates
<1>1. ListInv /\ [Next]_vars
        => [phase = "collecting" /\ phase' \in {"collecting", "done"}
             => \A field \in Fields : FieldStatus(field)' \in LaterStatuses(FieldStatus(field))]_vars
  <2> SUFFICES ASSUME ListInv, Next, phase = "collecting", phase' \in {"collecting", "done"},
                      NEW field \in Fields
               PROVE  FieldStatus(field)' \in LaterStatuses(FieldStatus(field))
    OBVIOUS
  <2>1. LocalKeys(field)' = LocalKeys(field)
    BY DEF Next, Enrich, Unmatched, Matched, Failed, Report, metadataVars, LocalKeys, Keys
  <2>2. ProviderKeys(field) \subseteq ProviderKeys(field)'
    <3>1. CASE UNCHANGED results
      BY <3>1 DEF ProviderKeys, Keys
    <3>2. CASE Matched
      <4>1. PICK metadata \in Observations :
              results' = Append(results, [provider |-> Asked, metadata |-> metadata])
        BY <3>2 DEF Matched
      <4>2. \A i \in 1..Len(results) : i \in 1..Len(results') /\ results'[i] = results[i]
        BY <4>1 DEF ListInv
      <4>3. UNION {results[i].metadata[field] : i \in 1..Len(results)}
              \subseteq UNION {results'[i].metadata[field] : i \in 1..Len(results')}
        BY <4>2
      <4> QED
        BY <4>3 DEF ProviderKeys, Keys
    <3> QED
      BY <3>1, <3>2 DEF Next, Enrich, Unmatched, Failed, Report, metadataVars
  <2> QED
    BY <2>1, <2>2, MoreValues
<1> QED
  BY <1>1, ListInvariance, PTL DEF Spec, EvidenceAccumulates

-----------------------------------------------------------------------------
\* The types of a lookup, and the report of a collection.
LEMMA AnswersAreAnswers ==
  ASSUME NEW exchange \in Exchanges, NEW list, NEW kind, NEW hashes
  PROVE  Outcome(exchange, list, kind, hashes) \in Answers
<1>1. exchange[1] \in Transports /\ exchange[2] \in Defects
      /\ exchange = <<exchange[1], exchange[2]>>
      /\ (exchange[1] = "ok" \/ exchange[2] = "nothing")
  BY DEF Exchanges
<1>2. CASE exchange[1] # "ok"
  BY <1>1, <1>2 DEF Outcome, Transports, Defects, Answers
<1>3. CASE exchange[1] = "ok" /\ kind = "NoMatch"
  BY <1>1, <1>3 DEF Outcome, Transports, Defects, Answers
<1>4. CASE exchange[1] = "ok" /\ kind # "NoMatch"
  <2>1. exchange = <<"ok", exchange[2]>>
    BY <1>1, <1>4
  <2>2. CASE exchange[2] = "nothing"
    <3>1. exchange = <<"ok", "nothing">>
      BY <2>1, <2>2
    <3> QED
      BY <1>4, <2>2, <3>1 DEF Outcome, Answers
  <2>3. CASE exchange[2] # "nothing"
    BY <1>1, <1>4, <2>3 DEF Outcome, Transports, Defects, Answers
  <2> QED
    BY <2>2, <2>3
<1> QED
  BY <1>2, <1>3, <1>4

\* What the provider lists makes records of catalogue evidence.
LEMMA RecordsAreEvidence ==
  ASSUME LookupTypeOK, NEW list \in SUBSET files, NEW kind, NEW hashes
  PROVE  Records(list, kind, hashes) \subseteq CatalogueEvidence
<1> SUFFICES ASSUME NEW file \in list, NEW item,
                    item = [method |-> MatchMethod(kind), authority |-> publisher.authority,
                            status |-> file.status, current |-> file.current,
                            named |-> publisher.named]
             PROVE  item \in CatalogueEvidence
  BY DEF Records
<1>1. file \in FileRecord
  BY PlaymatchAssumption DEF LookupTypeOK
<1>2. file.status \in Statuses \cup {None} /\ file.current \in BOOLEAN
  BY <1>1 DEF FileRecord
<1>3. publisher.authority \in Authorities \cup {None} /\ publisher.named \in BOOLEAN
  BY DEF LookupTypeOK, Publishers
<1>4. MatchMethod(kind) \in {"strong", "crc", "other"}
  BY DEF MatchMethod
<1> QED
  BY <1>2, <1>3, <1>4 DEF CatalogueEvidence

LEMMA LookupTyped ==
  ASSUME LookupTypeOK, [Next]_vars PROVE LookupTypeOK'
<1>1. CASE UNCHANGED lookupVars
  BY <1>1 DEF LookupTypeOK, lookupVars
<1>2. CASE Import
  BY <1>2 DEF Import, LookupTypeOK
<1>3. CASE Lookup
  <2>1. PICK exchange \in Exchanges, hashes \in SentHashes, list \in SUBSET files :
        \E kind \in MatchTypes(hashes) :
          /\ sent' = hashes
          /\ answer' = Outcome(exchange, list, kind, hashes)
          /\ IF answer' # "release"
               THEN UNCHANGED <<method, listed, release>>
               ELSE /\ method' = kind /\ listed' = list
                    /\ \E platform \in Platforms, name \in Releases :
                         release' = [platform |-> platform, name |-> name,
                                     evidence |-> IF kind \in HashKinds THEN "content" ELSE "name",
                                     conflicted |-> FALSE, catalogue |-> Records(list, kind, hashes)]
          /\ UNCHANGED <<files, publisher>>
    BY <1>3 DEF Lookup
  <2>2. sent' \in SentHashes /\ answer' \in Answers /\ UNCHANGED <<files, publisher>>
    BY <2>1, AnswersAreAnswers
  <2>3. CASE answer' # "release"
    BY <2>1, <2>2, <2>3 DEF LookupTypeOK
  <2>4. CASE answer' = "release"
    <3>1. method' \in MatchKinds /\ listed' \subseteq files
      BY <1>3, <2>1, <2>4, ReleaseOfLookup
    <3>2. release' \in CanonicalRelease
      <4>1. PICK kind \in MatchTypes(hashes), platform \in Platforms, name \in Releases :
              release' = [platform |-> platform, name |-> name,
                          evidence |-> IF kind \in HashKinds THEN "content" ELSE "name",
                          conflicted |-> FALSE, catalogue |-> Records(list, kind, hashes)]
        BY <2>1, <2>4
      <4> DEFINE catalogue == Records(list, kind, hashes)
      <4>2. catalogue \in SUBSET CatalogueEvidence
        BY RecordsAreEvidence
      <4> HIDE DEF catalogue
      <4> QED
        BY <4>1, <4>2 DEF CanonicalRelease, catalogue
    <3> QED
      BY <2>2, <3>1, <3>2 DEF LookupTypeOK, MatchKinds
  <2> QED
    BY <2>3, <2>4
<1> QED
  BY <1>1, <1>2, <1>3
  DEF Next, LookupNext, Enrich, Unmatched, Matched, Failed, Report, vars

LEMMA AcceptedInit == Init => LookupTypeOK
BY DEF Init, LookupInit, LookupTypeOK, Answers

-----------------------------------------------------------------------------
\* What collect knows of its lists: the providers that were asked are the first ones, and
\* those of them that did not match nothing are those with a result, in their order.
CollectInv ==
  /\ ListInv
  /\ unmatched \in Seq(ProviderNames)
  /\ phase \in Phases \ {"value_error"} /\ local \in Observations \cup {None}
  /\ \A i \in 1..Len(attempted) : attempted[i] = ProviderOrder[i]
  /\ Distinct(unmatched)
  /\ Elements(unmatched) \subseteq Elements(attempted)
  /\ ResultNames = Selected(attempted, Elements(attempted) \ Elements(unmatched))

\* The elements of a list with one more, and when they remain distinct.
LEMMA OneMoreElement ==
  ASSUME NEW X, NEW s \in Seq(X), NEW x \in X
  PROVE  /\ Elements(Append(s, x)) = Elements(s) \cup {x}
         /\ Distinct(s) /\ x \notin Elements(s) => Distinct(Append(s, x))
<1> DEFINE t == Append(s, x)
<1>1. /\ Len(s) \in Nat /\ Len(t) = Len(s) + 1 /\ t[Len(s) + 1] = x
      /\ \A i \in 1..Len(s) : t[i] = s[i]
  OBVIOUS
<1> HIDE DEF t
<1>2. \A i \in 1..Len(t) : i \in 1..Len(s) \/ i = Len(s) + 1
  BY <1>1
<1>3. \A i \in 1..Len(s) : i \in 1..Len(t)
  BY <1>1
<1>4. Len(s) + 1 \in 1..Len(t)
  BY <1>1
<1>5. Elements(t) = Elements(s) \cup {x}
  BY <1>1, <1>2, <1>3, <1>4 DEF Elements
<1>6. Distinct(s) /\ x \notin Elements(s) => Distinct(t)
  BY <1>1, <1>2 DEF Distinct, Elements
<1> QED
  BY <1>5, <1>6 DEF t

\* The provider that is asked was not asked before.
LEMMA AskedIsNew ==
  ASSUME CollectInv, Asking
  PROVE  /\ Asked \in ProviderNames /\ Asked \notin Elements(attempted)
         /\ Distinct(attempted)
         /\ attempted' = Append(attempted, Asked) =>
              /\ \A i \in 1..Len(attempted') : attempted'[i] = ProviderOrder[i]
<1>1. /\ attempted \in Seq(ProviderNames) /\ Len(attempted) \in Nat
      /\ Len(attempted) < Len(ProviderOrder) /\ Len(ProviderOrder) \in Nat
      /\ \A i \in 1..Len(attempted) : attempted[i] = ProviderOrder[i]
      /\ \A i, j \in 1..Len(ProviderOrder) : ProviderOrder[i] = ProviderOrder[j] => i = j
  BY MetadataAssumption DEF CollectInv, ListInv, Asking
<1>2. Len(attempted) + 1 \in 1..Len(ProviderOrder) /\ Asked \in ProviderNames
  BY <1>1 DEF Asked, ProviderNames
<1>3. \A i \in 1..Len(attempted) : i \in 1..Len(ProviderOrder) /\ i # Len(attempted) + 1
  BY <1>1
<1>4. Asked \notin Elements(attempted)
  BY <1>1, <1>2, <1>3 DEF Asked, Elements
<1>5. Distinct(attempted)
  BY <1>1, <1>3 DEF Distinct
<1>6. ASSUME attempted' = Append(attempted, Asked), NEW i \in 1..Len(attempted')
      PROVE  attempted'[i] = ProviderOrder[i]
  <2>1. Len(attempted') = Len(attempted) + 1
    BY <1>1, <1>2, <1>6
  <2>2. i \in 1..Len(attempted) \/ i = Len(attempted) + 1
    BY <1>1, <2>1
  <2> QED
    BY <1>1, <1>2, <1>6, <2>2 DEF Asked
<1> QED
  BY <1>2, <1>4, <1>5, <1>6

LEMMA CollectUnmatched ==
  ASSUME CollectInv, ListInv', Unmatched PROVE CollectInv'
<1> DEFINE a == Asked
           before == Elements(attempted) \ Elements(unmatched)
           after == (Elements(attempted) \cup {a}) \ (Elements(unmatched) \cup {a})
<1>1. /\ Asking /\ attempted' = Append(attempted, a) /\ unmatched' = Append(unmatched, a)
      /\ UNCHANGED <<phase, local, results>>
  BY DEF Unmatched
<1>2. /\ attempted \in Seq(ProviderNames) /\ unmatched \in Seq(ProviderNames)
      /\ Elements(unmatched) \subseteq Elements(attempted) /\ Distinct(unmatched)
      /\ ResultNames = Selected(attempted, before)
  BY DEF CollectInv, ListInv
<1>3. a \in ProviderNames /\ a \notin Elements(attempted)
  BY <1>1, AskedIsNew
<1> HIDE DEF a
<1>4. /\ (Elements(attempted))' = Elements(attempted) \cup {a}
      /\ (Elements(unmatched))' = Elements(unmatched) \cup {a}
      /\ (Distinct(unmatched))'
  <2>1. /\ Elements(Append(attempted, a)) = Elements(attempted) \cup {a}
        /\ Elements(Append(unmatched, a)) = Elements(unmatched) \cup {a}
        /\ Distinct(Append(unmatched, a))
    BY <1>2, <1>3, OneMoreElement
  <2> QED
    BY <1>1, <2>1 DEF Elements, Distinct
<1>5. (ResultNames)' = Selected(attempted', after)
  <2>1. ResultNames' = ResultNames
    BY <1>1 DEF ResultNames
  <2>2. Selected(attempted', after) = Selected(attempted, after)
    BY <1>1, <1>2, <1>3, SelectedOfAppend
  <2>3. \A i \in 1..Len(attempted) : attempted[i] \in before <=> attempted[i] \in after
    BY <1>3 DEF Elements
  <2> HIDE DEF before, after
  <2>4. Selected(attempted, after) = Selected(attempted, before)
    BY <1>2, <2>3, SelectedBySame
  <2> QED
    BY <1>2, <2>1, <2>2, <2>4
<1>6. \A i \in 1..Len(attempted') : attempted'[i] = ProviderOrder[i]
  BY <1>1, AskedIsNew DEF a
<1>7. unmatched' \in Seq(ProviderNames)
  BY <1>1, <1>2, <1>3
<1>8. (ResultNames)' = (Selected(attempted, Elements(attempted) \ Elements(unmatched)))'
  BY <1>4, <1>5
<1>9. (Elements(unmatched) \subseteq Elements(attempted))'
  BY <1>2, <1>4
<1>10. phase' \in Phases \ {"value_error"} /\ local' \in Observations \cup {None}
  BY <1>1 DEF CollectInv
<1> QED
  BY <1>4, <1>6, <1>7, <1>8, <1>9, <1>10 DEF CollectInv

LEMMA CollectMatched ==
  ASSUME CollectInv, ListInv', Matched PROVE CollectInv'
<1> DEFINE a == Asked
           before == Elements(attempted) \ Elements(unmatched)
           after == (Elements(attempted) \cup {a}) \ Elements(unmatched)
<1>1. /\ Asking /\ attempted' = Append(attempted, a)
      /\ UNCHANGED <<phase, local, unmatched>>
  BY DEF Matched
<1>2. PICK metadata \in Observations :
        results' = Append(results, [provider |-> a, metadata |-> metadata])
  BY DEF Matched
<1>3. /\ attempted \in Seq(ProviderNames) /\ unmatched \in Seq(ProviderNames)
      /\ Elements(unmatched) \subseteq Elements(attempted) /\ Distinct(unmatched)
      /\ ResultNames = Selected(attempted, before)
      /\ results \in Seq([provider : ProviderNames, metadata : Metadata])
  BY DEF CollectInv, ListInv
<1>4. a \in ProviderNames /\ a \notin Elements(attempted)
  BY <1>1, AskedIsNew
<1> HIDE DEF a
<1>5. /\ (Elements(attempted))' = Elements(attempted) \cup {a}
      /\ (Elements(unmatched))' = Elements(unmatched)
      /\ (Distinct(unmatched))'
  <2>1. Elements(Append(attempted, a)) = Elements(attempted) \cup {a}
    BY <1>3, <1>4, OneMoreElement
  <2> QED
    BY <1>1, <1>3, <2>1 DEF Elements, Distinct
<1>6. (ResultNames)' = Append(ResultNames, a)
  <2> DEFINE r == [provider |-> a, metadata |-> metadata]
  <2>1. /\ Len(results') = Len(results) + 1 /\ Len(results) \in Nat
        /\ results'[Len(results) + 1] = r
        /\ \A i \in 1..Len(results) : results'[i] = results[i]
    BY <1>2, <1>3
  <2>2. r.provider = a
    OBVIOUS
  <2>3. ResultNames' = [i \in 1..Len(results') |-> results'[i].provider]
    BY DEF ResultNames
  <2>4. ResultNames = [i \in 1..Len(results) |-> results[i].provider]
    BY DEF ResultNames
  <2>5. ResultNames \in Seq(ProviderNames)
    <3>1. \A i \in 1..Len(results) : results[i] \in [provider : ProviderNames, metadata : Metadata]
      <4> DEFINE R == [provider : ProviderNames, metadata : Metadata]
      <4>1. results \in Seq(R)
        BY <1>3
      <4> HIDE DEF R
      <4>2. \A i \in 1..Len(results) : results[i] \in R
        BY <4>1
      <4> QED
        BY <4>2 DEF R
    <3>2. \A i \in 1..Len(results) : results[i].provider \in ProviderNames
      BY <3>1
    <3> QED
      BY <2>1, <2>4, <3>2
  <2> DEFINE longer == Append(ResultNames, a)
  <2>6. /\ longer \in Seq(ProviderNames) /\ Len(longer) = Len(results) + 1
        /\ longer[Len(results) + 1] = a
        /\ \A i \in 1..Len(results) : longer[i] = results[i].provider
    BY <1>4, <2>1, <2>4, <2>5
  <2> HIDE DEF longer, r
  <2>7. \A i \in 1..Len(results) + 1 : i \in 1..Len(results) \/ i = Len(results) + 1
    BY <2>1
  <2>8. \A i \in 1..Len(results) + 1 : longer[i] = results'[i].provider
    BY <2>1, <2>2, <2>6, <2>7
  <2>9. longer = [i \in 1..Len(results) + 1 |-> longer[i]]
    BY <2>1, <2>6
  <2>10. longer = ResultNames'
    BY <2>1, <2>3, <2>8, <2>9
  <2> QED
    BY <2>10 DEF longer
<1>7. (ResultNames)' = Selected(attempted', after)
  <2>1. a \in after
    BY <1>3, <1>4
  <2>2. Selected(attempted', after) = Append(Selected(attempted, after), a)
    BY <1>1, <1>3, <1>4, <2>1, SelectedOfAppend
  <2>3. \A i \in 1..Len(attempted) : attempted[i] \in before <=> attempted[i] \in after
    BY <1>4 DEF Elements
  <2> HIDE DEF before, after
  <2>4. Selected(attempted, after) = Selected(attempted, before)
    BY <1>3, <2>3, SelectedBySame
  <2> QED
    BY <1>3, <1>6, <2>2, <2>4
<1>8. \A i \in 1..Len(attempted') : attempted'[i] = ProviderOrder[i]
  BY <1>1, AskedIsNew DEF a
<1>9. (ResultNames)' = (Selected(attempted, Elements(attempted) \ Elements(unmatched)))'
  BY <1>5, <1>7
<1>10. (Elements(unmatched) \subseteq Elements(attempted))' /\ unmatched' \in Seq(ProviderNames)
  BY <1>1, <1>3, <1>5
<1>11. phase' \in Phases \ {"value_error"} /\ local' \in Observations \cup {None}
  BY <1>1 DEF CollectInv
<1> QED
  BY <1>5, <1>8, <1>9, <1>10, <1>11 DEF CollectInv

\* The report that collect builds of its lists is one that it accepts.
LEMMA ReportAccepted == CollectInv => ReportIsValid
<1> SUFFICES ASSUME CollectInv PROVE ReportIsValid
  OBVIOUS
<1> DEFINE matching == Elements(attempted) \ Elements(unmatched)
<1>1. /\ attempted \in Seq(ProviderNames) /\ Len(attempted) <= Len(ProviderOrder)
      /\ Len(attempted) \in Nat /\ Len(ProviderOrder) \in Nat
      /\ \A i \in 1..Len(attempted) : attempted[i] = ProviderOrder[i]
      /\ ResultNames = Selected(attempted, matching)
  BY MetadataAssumption DEF CollectInv, ListInv
<1>2. \A i, j \in 1..Len(attempted) : attempted[i] = attempted[j] => i = j
  <2>1. \A i \in 1..Len(attempted) : i \in 1..Len(ProviderOrder)
    BY <1>1
  <2> QED
    BY <1>1, <2>1, MetadataAssumption
<1> HIDE DEF matching
<1>3. /\ \A x : (\E k \in 1..Len(ResultNames) : ResultNames[k] = x)
                  <=> x \in matching /\ \E i \in 1..Len(attempted) : attempted[i] = x
      /\ \A i, j \in 1..Len(ResultNames) : ResultNames[i] = ResultNames[j] => i = j
  <2> DEFINE names == Selected(attempted, matching)
  <2>1. /\ \A x : (\E k \in 1..Len(names) : names[k] = x)
                    <=> x \in matching /\ \E i \in 1..Len(attempted) : attempted[i] = x
        /\ \A i, j \in 1..Len(names) : names[i] = names[j] => i = j
    BY <1>1, <1>2, SelectedElements
  <2> HIDE DEF names
  <2>2. ResultNames = names
    BY <1>1 DEF names
  <2> QED
    BY <2>1, <2>2
<1>4. Elements(ResultNames) \subseteq Elements(attempted)
  <2> SUFFICES ASSUME NEW k \in 1..Len(ResultNames) PROVE ResultNames[k] \in Elements(attempted)
    BY DEF Elements
  <2>1. ResultNames[k] \in matching
    BY <1>3
  <2> QED
    BY <2>1 DEF matching
<1>5. Distinct(attempted) /\ Distinct(ResultNames)
  BY <1>2, <1>3 DEF Distinct
<1> QED
  BY <1>1, <1>4, <1>5 DEF CollectInv, ReportIsValid, matching

LEMMA CollectInit == Init => CollectInv
<1> SUFFICES ASSUME Init PROVE CollectInv
  OBVIOUS
<1>1. attempted = <<>> /\ unmatched = <<>> /\ results = <<>> /\ phase = "idle" /\ local = None
  BY DEF Init
<1>2. Selected(<<>>, Elements(attempted) \ Elements(unmatched)) = <<>>
  BY SelectedOfNothing
<1>3. ResultNames = <<>>
  BY <1>1 DEF ResultNames
<1>4. Elements(attempted) = {} /\ Elements(unmatched) = {} /\ Distinct(unmatched)
  BY <1>1 DEF Elements, Distinct
<1>5. ListInv
  BY MetadataAssumption, <1>1 DEF ListInv
<1> QED
  BY <1>1, <1>2, <1>3, <1>4, <1>5 DEF CollectInv, Phases

LEMMA CollectFailed ==
  ASSUME CollectInv, ListInv', Failed PROVE CollectInv'
<1>1. attempted' = <<>> /\ unmatched' = <<>> /\ results' = <<>>
      /\ phase' \in {"contract", "raised"} /\ local' = local
  BY DEF Failed
<1>2. (Selected(attempted, Elements(attempted) \ Elements(unmatched)))' = <<>>
  <2>1. \A S : Selected(<<>>, S) = <<>>
    BY SelectedOfNothing
  <2> QED
    BY <1>1, <2>1 DEF Selected, SelectedUpTo
<1>3. ResultNames' = <<>>
  BY <1>1 DEF ResultNames
<1>4. (Elements(attempted))' = {} /\ (Elements(unmatched))' = {} /\ (Distinct(unmatched))'
  BY <1>1 DEF Elements, Distinct
<1> QED
  BY <1>1, <1>2, <1>3, <1>4 DEF CollectInv, Phases

LEMMA CollectOthers ==
  ASSUME CollectInv, ListInv', UNCHANGED <<attempted, unmatched, results>>,
         phase' \in Phases \ {"value_error"}, local' \in Observations \cup {None}
  PROVE  CollectInv'
<1>1. /\ (Elements(attempted))' = Elements(attempted) /\ (Elements(unmatched))' = Elements(unmatched)
      /\ (Distinct(unmatched))' = Distinct(unmatched) /\ ResultNames' = ResultNames
  BY DEF Elements, Distinct, ResultNames
<1>2. (Selected(attempted, Elements(attempted) \ Elements(unmatched)))'
        = Selected(attempted, Elements(attempted) \ Elements(unmatched))
  BY <1>1
<1> QED
  BY <1>1, <1>2 DEF CollectInv

LEMMA CollectStep ==
  ASSUME CollectInv, ListInv', [Next]_vars PROVE CollectInv'
<1>1. CASE UNCHANGED metadataVars
  BY <1>1, CollectOthers DEF CollectInv, metadataVars
<1>2. CASE Enrich
  BY <1>2, CollectOthers DEF Enrich, Phases
<1>3. CASE Report
  BY <1>3, CollectOthers, ReportAccepted DEF Report, Phases, CollectInv
<1> QED
  BY <1>1, <1>2, <1>3, CollectUnmatched, CollectMatched, CollectFailed DEF Next, vars

\* What is known of a lookup and of a collection holds of every one.
THEOREM CollectInvariance == Spec => [](LookupTypeOK /\ CollectInv)
<1>1. Init => LookupTypeOK /\ CollectInv
  BY AcceptedInit, CollectInit
<1>2. LookupTypeOK /\ CollectInv /\ ListInv' /\ [Next]_vars => LookupTypeOK' /\ CollectInv'
  BY LookupTyped, CollectStep
<1> QED
  BY <1>1, <1>2, ListInvariance, PTL DEF Spec

\* The state stays well typed, whatever the providers answer, and collect never refuses
\* the report that it has built itself.
THEOREM MetadataTypesCorrect == Spec => []MetadataTypeOK
<1>1. ASSUME LookupTypeOK, CollectInv PROVE MetadataTypeOK
  <2>1. Elements(attempted) \subseteq ProviderNames /\ Elements(unmatched) \subseteq ProviderNames
    BY <1>1 DEF CollectInv, ListInv, Elements
  <2> QED
    BY <1>1, <2>1 DEF MetadataTypeOK, CollectInv, ListInv
<1> QED
  BY <1>1, CollectInvariance, PTL
====================================================================================
