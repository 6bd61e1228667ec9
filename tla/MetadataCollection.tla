---------------------------- MODULE MetadataCollection ----------------------------
(***************************************************************************)
(* What follows a lookup: collect_identification_metadata asks the         *)
(* registered metadata providers about the release, one after another      *)
(* (MetadataProviderCollection.collect), and reconcile_metadata compares   *)
(* what they say with what was read from the file itself.                  *)
(***************************************************************************)
EXTENDS Playmatch, Selection

CONSTANTS
  ProviderOrder, \* the registered providers, in order (normalised names)
  Fields,        \* COMPARABLE_METADATA_FIELDS
  Texts,         \* values as they are written
  NormalForm,    \* _normalize_text: [Texts -> normal forms]; "" for a blank value
  Observations   \* what a file or a provider may say: members of Metadata

ProviderNames == {ProviderOrder[i] : i \in 1..Len(ProviderOrder)}
Metadata == [Fields -> SUBSET Texts]

ASSUME MetadataAssumption ==
  /\ ProviderOrder \in Seq(ProviderNames)
  /\ \A i, j \in 1..Len(ProviderOrder) : ProviderOrder[i] = ProviderOrder[j] => i = j
  /\ DOMAIN NormalForm = Texts /\ Observations \subseteq Metadata

VARIABLES
  phase,      \* "idle", "collecting", or how the enrichment ended
  local,      \* what the identification read from the file, or None
  attempted, unmatched, results  \* the lists of collect

metadataVars == <<phase, local, attempted, unmatched, results>>
vars == <<lookupVars, metadataVars>>

Phases == {"idle", "collecting", "done", "without_release", "contract", "raised", "value_error"}

Init ==
  /\ LookupInit
  /\ phase = "idle" /\ local = None
  /\ attempted = <<>> /\ unmatched = <<>> /\ results = <<>>

-----------------------------------------------------------------------------
\* Without a canonical release no provider is asked.
Enrich ==
  /\ phase = "idle" /\ answer # "unasked"
  /\ phase' = IF answer = "release" THEN "collecting" ELSE "without_release"
  /\ local' \in Observations \cup {None}
  /\ UNCHANGED <<lookupVars, attempted, unmatched, results>>

Asked == ProviderOrder[Len(attempted) + 1]
Asking == phase = "collecting" /\ Len(attempted) < Len(ProviderOrder)

\* Wrong on purpose: a provider that finds nothing is not noted.
UnmatchedUnnoted ==
  /\ Asking
  /\ attempted' = Append(attempted, Asked)
  /\ UNCHANGED <<lookupVars, phase, local, unmatched, results>>

Unmatched ==
  /\ Asking
  /\ attempted' = Append(attempted, Asked) /\ unmatched' = Append(unmatched, Asked)
  /\ UNCHANGED <<lookupVars, phase, local, results>>

Matched ==
  /\ Asking
  /\ attempted' = Append(attempted, Asked)
  /\ \E metadata \in Observations :
       results' = Append(results, [provider |-> Asked, metadata |-> metadata])
  /\ UNCHANGED <<lookupVars, phase, local, unmatched>>

\* A result in the name of another provider, or any exception of the provider,
\* ends the collection and gives up what was collected.
Failed ==
  /\ Asking
  /\ phase' \in {"contract", "raised"}
  /\ attempted' = <<>> /\ unmatched' = <<>> /\ results' = <<>>
  /\ UNCHANGED <<lookupVars, local>>

\* MetadataCollectionReport.__post_init__.
Elements(s) == {s[i] : i \in 1..Len(s)}
Distinct(s) == \A i, j \in 1..Len(s) : s[i] = s[j] => i = j
ResultNames == [i \in 1..Len(results) |-> results[i].provider]
ReportIsValid ==
  /\ Distinct(attempted) /\ Distinct(unmatched) /\ Distinct(ResultNames)
  /\ Elements(unmatched) \subseteq Elements(attempted)
  /\ Elements(ResultNames) \subseteq Elements(attempted)
  /\ ResultNames = Selected(attempted, Elements(attempted) \ Elements(unmatched))

Report ==
  /\ phase = "collecting" /\ Len(attempted) = Len(ProviderOrder)
  /\ phase' = IF ReportIsValid THEN "done" ELSE "value_error"
  /\ UNCHANGED <<lookupVars, local, attempted, unmatched, results>>

\* The caller is one thread: no lookup runs beside the collection.  The database
\* may grow meanwhile, but nobody reads it before the next lookup.
Next ==
  \/ phase = "idle" /\ LookupNext /\ UNCHANGED metadataVars
  \/ Enrich \/ Unmatched \/ Matched \/ Failed \/ Report

Spec == Init /\ [][Next]_vars

-----------------------------------------------------------------------------
\* Identifiers are compared as they are, all other fields by their normal forms,
\* without those that are blank.
Keys(field, values) ==
  IF field = "identifiers" THEN values ELSE {NormalForm[v] : v \in values} \ {""}

LocalKeys(field) == IF local = None THEN {} ELSE Keys(field, local[field])

\* Wrong on purpose: the last provider that answered is believed.
LastProviderKeys(field) ==
  IF results = <<>> THEN {} ELSE Keys(field, results[Len(results)].metadata[field])

\* The values of all providers, whatever their order.
ProviderKeys(field) ==
  Keys(field, UNION {results[i].metadata[field] : i \in 1..Len(results)})

FieldStatus(field) ==
  LET mine == LocalKeys(field)
      theirs == ProviderKeys(field)
  IN CASE mine = {} /\ theirs = {} -> "unresolved"
       [] mine # {} /\ theirs = {} -> "local_only"
       [] mine = {} /\ theirs # {} -> "provider_only"
       [] mine # {} /\ mine = theirs -> "agreement"
       [] mine # theirs /\ mine \cap theirs # {} -> "partial_agreement"
       [] OTHER -> "divergent"

-----------------------------------------------------------------------------
\* The types, and that the report which collect builds is one it accepts itself.
MetadataTypeOK ==
  /\ LookupTypeOK
  /\ phase \in Phases \ {"value_error"} /\ local \in Observations \cup {None}
  /\ Len(attempted) <= Len(ProviderOrder)
  /\ Elements(attempted) \cup Elements(unmatched) \subseteq ProviderNames

\* One more provider can only add to what is known of a field: what one provider
\* contradicts no other makes whole again, an agreement once found is never lost
\* altogether, and a comparison never goes back to less than it was.  In
\* particular no provider outranks an earlier one.
LaterStatuses(status) ==
  CASE status = "unresolved" -> {"unresolved", "provider_only"}
    [] status = "provider_only" -> {"provider_only"}
    [] status = "local_only" -> {"local_only", "agreement", "partial_agreement", "divergent"}
    [] status = "agreement" -> {"agreement", "partial_agreement"}
    [] status = "partial_agreement" -> {"partial_agreement", "agreement"}
    [] OTHER -> {"divergent", "partial_agreement"}

EvidenceAccumulates ==
  [][phase = "collecting" /\ phase' \in {"collecting", "done"}
       => \A field \in Fields : FieldStatus(field)' \in LaterStatuses(FieldStatus(field))]_vars
===================================================================================
