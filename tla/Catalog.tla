------------------------------ MODULE Catalog ------------------------------
(***************************************************************************)
(* Which models a backend serves and which models GET /v1/models lists.    *)
(* The list and the selection of candidates read the same columns in two   *)
(* places of the code.                                                     *)
(*                                                                         *)
(* Names are trimmed and not empty, as the store returns them.  A pattern  *)
(* is a name with "*" or "?"; what it matches is the library's (path.Match *)
(* or, for "*", everything).                                               *)
(***************************************************************************)
EXTENDS Naturals

CONSTANTS
  Offers,       \* backends
  Models,       \* names without a wildcard
  NoModel,
  Patterns,     \* names with one
  PathMatches   \* pairs of a pattern and a model it matches

ASSUME CatalogAssumption ==
  /\ NoModel \notin Models /\ Patterns \cap Models = {}
  /\ PathMatches \subseteq Patterns \X Models

VARIABLE offers

catalogVars == <<offers>>

\* A mapping gives a client's model the upstream's name.
Offer == [normal : BOOLEAN, models : SUBSET (Models \cup Patterns),
          mapping : [Models -> Models \cup {NoModel}]]
NoOffer == [normal |-> FALSE, models |-> {},
            mapping |-> [m \in Models |-> NoModel]]

CatalogTypeOK == offers \in [Offers -> Offer]

CatalogInit == offers = [b \in Offers |-> NoOffer]

\* CreateBackend, UpdateBackend, DeleteBackend.
EditOffer(b) == \E offer \in Offer : offers' = [offers EXCEPT ![b] = offer]

\* A mark or a recovery.
ChangeStatus(b) == offers' = [offers EXCEPT ![b].normal = ~@]

CatalogNext == \E b \in Offers : EditOffer(b) \/ ChangeStatus(b)

-----------------------------------------------------------------------------

MatchPattern(pattern, model) ==
  pattern = model \/ <<pattern, model>> \in PathMatches

SupportsModel(offer, model) ==
  \E pattern \in offer.models : MatchPattern(pattern, model)

\* Mutated form: mapped names are left to the list of models.
SupportsListedModel(offer, model) == SupportsModel(offer, model)

SupportsBackendModel(offer, model) ==
  SupportsModel(offer, model) \/ offer.mapping[model] # NoModel

\* SelectBackend's filter.
CandidatesFor(model) ==
  {b \in Offers : offers[b].normal /\ SupportsBackendModel(offers[b], model)}

Upstreams(offer) == {offer.mapping[m] : m \in Models} \ {NoModel}

\* handlePublicModels: a name that is mapped to is listed only as a client's.
PublicModels(offer) ==
  {m \in Models : offer.mapping[m] # NoModel}
  \cup ((offer.models \cap Models) \ Upstreams(offer))

-----------------------------------------------------------------------------

\* The list and the selection agree: a model that a backend brings into the
\* list has that backend for a candidate, and a model that it serves and does
\* not bring in is one it has a client's name for, or serves by a pattern.
ListedIsServed ==
  \A b \in Offers, m \in Models : offers[b].normal =>
    /\ m \in PublicModels(offers[b]) => b \in CandidatesFor(m)
    /\ b \in CandidatesFor(m) /\ m \notin PublicModels(offers[b]) =>
         \/ m \in Upstreams(offers[b])
         \/ \E pattern \in offers[b].models \ Models : MatchPattern(pattern, m)
=============================================================================
