---------------------------- MODULE LeadSelection ----------------------------
(***************************************************************************)
(* From the words of one search request to its leads: validation by        *)
(* FastAPI, by parse_zyla_query (app/zyla.py) and by the schemas, the       *)
(* matching of SyntheticLeadProvider (app/providers.py), the scoring of     *)
(* app/services.py and the selection in _persist_lead_search.  Money,       *)
(* suppressions and stored rows are in CreditTransactions and LeadStore.    *)
(***************************************************************************)
EXTENDS Integers, Sequences, FiniteSets, SequencesExt

CONSTANTS
  Null,          \* None, and what is not given
  Missing,       \* a key a licensed record does not have
  Unusable,      \* a value of a type that cannot be compared, hashed or iterated
  Strip,         \* str.strip, for the items of a query string
  Lower,         \* str.lower, for titles and technologies
  Long,          \* the items of more than 100 characters
  ZylaMaxLimit,  \* ZYLA_MAX_LIMIT
  Requests,      \* the requests explored
  Catalogs       \* the answers of a licensed provider explored

\* settings.validate: a positive ZYLA_MAX_LIMIT of at most 100.
ASSUME ZylaMaxLimitAssumption == ZylaMaxLimit \in 1..100
ASSUME NullAssumption == Null \notin Int

\* A provider answers with a list.
ASSUME CatalogsAssumption ==
  \A records \in Catalogs : Len(records) \in Nat /\ DOMAIN records = 1..Len(records)

VARIABLES
  stage,    \* received, parsed, found, selected, done
  request,  \* the request as it was sent
  payload,  \* the LeadSearchRequest made of it
  mode,     \* PROVIDER_MODE
  found,    \* the provider's records
  chosen,   \* indexes of found, in the order of the answer
  status,   \* the HTTP status of the answer, 0 before there is one
  faulted   \* history: a part outside this module failed

vars == <<stage, request, payload, mode, found, chosen, status, faulted>>

Lists == {"countries", "industries", "job_titles", "technologies"}

\* The most values of a list, in the adapter and in the schema alike.
Maximum(list) == IF list \in {"countries", "industries"} THEN 20 ELSE 50

InOrder(min, max) == min # Null /\ max # Null => min <= max
Within(value, low, high) == value # Null => value \in low..high
NonNegative(value) == value # Null => value >= 0

(***************************************************************************)
(* The query string                                                        *)
(***************************************************************************)
CsvValues(items) ==
  SelectSeq([k \in DOMAIN items |-> Strip[items[k]]], LAMBDA item : item # "")

CsvAccepts(list, items) ==
  /\ Len(CsvValues(items)) <= Maximum(list)
  /\ Long \cap Range(CsvValues(items)) = {}

GetLimit(r) == IF r.limit = Null THEN 10 ELSE r.limit

\* What FastAPI checks of the scalar parameters before the handler runs.
QueryAccepts(r) ==
  /\ NonNegative(r.employee_min) /\ NonNegative(r.employee_max)
  /\ Within(r.lead_score_min, 0, 100)
  /\ GetLimit(r) \in 1..100

\* Mutant: the two bounds of the range are not compared.
ParseAcceptsAnyRange(r) ==
  /\ GetLimit(r) \in 1..ZylaMaxLimit
  /\ \A list \in Lists : CsvAccepts(list, r[list])

ParseAccepts(r) ==
  /\ InOrder(r.employee_min, r.employee_max)
  /\ NonNegative(r.employee_min) /\ NonNegative(r.employee_max)
  /\ Within(r.lead_score_min, 0, 100)
  /\ GetLimit(r) \in 1..ZylaMaxLimit
  /\ \A list \in Lists : CsvAccepts(list, r[list])

QueryToPayload(r) ==
  [countries |-> CsvValues(r.countries), industries |-> CsvValues(r.industries),
   job_titles |-> CsvValues(r.job_titles), technologies |-> CsvValues(r.technologies),
   employee_min |-> r.employee_min, employee_max |-> r.employee_max,
   lead_score_min |-> r.lead_score_min, limit |-> GetLimit(r),
   sort |-> [field |-> "lead_score", direction |-> "desc"]]

(***************************************************************************)
(* The request body                                                        *)
(***************************************************************************)
BodyToPayload(r) ==
  [countries |-> r.countries, industries |-> r.industries,
   job_titles |-> r.job_titles, technologies |-> r.technologies,
   employee_min |-> r.employee_min, employee_max |-> r.employee_max,
   lead_score_min |-> r.lead_score_min,
   limit |-> IF r.limit = Null THEN 50 ELSE r.limit, sort |-> r.sort]

SchemaAccepts(p) ==
  /\ \A list \in Lists : Len(p[list]) <= Maximum(list)
  /\ NonNegative(p.employee_min) /\ NonNegative(p.employee_max)
  /\ InOrder(p.employee_min, p.employee_max)
  /\ Within(p.lead_score_min, 0, 100)
  /\ p.limit \in 1..100

ZylaPostAccepts(p) == SchemaAccepts(p) /\ p.limit <= ZylaMaxLimit

(***************************************************************************)
(* The synthetic provider                                                  *)
(***************************************************************************)
\* What scoring and answer tell apart.  texts: the subjects of a suppression are
\* texts or missing; storable: the columns of company and contact and the
\* fields of the answer take its values; dated: observed_at is an ISO date.
SyntheticRecords ==
  LET Fixture(industry, country, employees, technologies, title) ==
        [industry |-> industry, country |-> country, employees |-> employees,
         technologies |-> technologies, title |-> title,
         intent |-> FALSE, texts |-> TRUE, storable |-> TRUE, dated |-> TRUE]
  IN << Fixture("financial_services", "SA", 850, {"Microsoft", "AWS"}, "CFO"),
        Fixture("insurance", "SA", 3200, {"AWS"}, "CTO"),
        Fixture("software", "AE", 180, {"AWS", "Python"}, "CEO") >>

\* The marks for gaps are no values: the fixture has none.
ASSUME FixtureAssumption ==
  \A k \in DOMAIN SyntheticRecords :
    LET c == SyntheticRecords[k]
    IN /\ {c.industry, c.country} \cap {Missing, Unusable} = {}
       /\ c.technologies \notin {Null, Missing, Unusable}
       /\ c.employees \notin {Null, Unusable} /\ c.title \notin {Null, Missing}

Wanted(list, p) == Range(p[list])
WantedLower(list, p) == {Lower[item] : item \in Wanted(list, p)}
RangeGiven(p) == p.employee_min # Null \/ p.employee_max # Null
InRange(count, p) ==
  /\ p.employee_min # Null => count >= p.employee_min
  /\ p.employee_max # Null => count <= p.employee_max

Asked(list, p) == p[list] # <<>>

\* Mutant: countries are matched without regard to case.
MatchesAnyCase(c, p) ==
  /\ Asked("countries", p) => Lower[c.country] \in WantedLower("countries", p)
  /\ Asked("industries", p) => c.industry \in Wanted("industries", p)
  /\ InRange(c.employees, p)

Matches(c, p) ==
  /\ Asked("countries", p) => c.country \in Wanted("countries", p)
  /\ Asked("industries", p) => c.industry \in Wanted("industries", p)
  /\ InRange(c.employees, p)
  /\ Asked("job_titles", p) => Lower[c.title] \in WantedLower("job_titles", p)
  /\ Asked("technologies", p) =>
       \E item \in c.technologies : Lower[item] \in WantedLower("technologies", p)

(***************************************************************************)
(* Scores                                                                  *)
(***************************************************************************)
\* Full marks for what was asked and is there, some for what was not asked.
Points(asked, there, full, unasked) ==
  IF ~asked THEN unasked ELSE IF there THEN full ELSE 0

\* str(None).lower() is a title like others.
Title(c) ==
  IF c.title = Missing THEN "" ELSE IF c.title = Null THEN "none" ELSE Lower[c.title]
Technologies(c) == IF c.technologies = Missing THEN {} ELSE c.technologies

\* Mutant: ten points for each technology instead of ten for any.
BreakdownPerTechnology(c, p) ==
  [industry |-> Points(Asked("industries", p), c.industry \in Wanted("industries", p), 20, 10),
   country |-> Points(Asked("countries", p), c.country \in Wanted("countries", p), 10, 5),
   job_title |-> Points(Asked("job_titles", p), Title(c) \in WantedLower("job_titles", p), 20, 10),
   technology |-> 10 * Cardinality({item \in Technologies(c) :
                                      Lower[item] \in WantedLower("technologies", p)}),
   company_size |-> Points(RangeGiven(p), c.employees # Null /\ InRange(c.employees, p), 15, 8),
   intent |-> IF c.intent THEN 15 ELSE 0]

Breakdown(c, p) ==
  [industry |-> Points(Asked("industries", p), c.industry \in Wanted("industries", p), 20, 10),
   country |-> Points(Asked("countries", p), c.country \in Wanted("countries", p), 10, 5),
   job_title |-> Points(Asked("job_titles", p), Title(c) \in WantedLower("job_titles", p), 20, 10),
   technology |-> Points(Asked("technologies", p),
                         \E item \in Technologies(c) : Lower[item] \in WantedLower("technologies", p),
                         10, 5),
   company_size |-> Points(RangeGiven(p), c.employees # Null /\ InRange(c.employees, p), 15, 8),
   intent |-> IF c.intent THEN 15 ELSE 0]

LeadScore(c, p) ==
  LET b == Breakdown(c, p)
      sum == b.industry + b.country + b.job_title + b.technology + b.company_size + b.intent
  IN IF sum > 100 THEN 100 ELSE sum

\* Mutant: a record without a contact cannot be scored.
ScoringRaisesWithoutContact(c, p) == c.title = Missing

\* KeyError, TypeError and AttributeError in is_suppressed and
\* score_provider_lead.
ScoringRaises(c, p) ==
  \/ ~c.texts
  \/ Asked("industries", p) /\ c.industry \in {Missing, Unusable}
  \/ Asked("countries", p) /\ c.country \in {Missing, Unusable}
  \/ c.technologies \in {Null, Unusable}
  \/ RangeGiven(p) /\ c.employees = Unusable

(***************************************************************************)
(* One request                                                             *)
(***************************************************************************)
\* build_provider refuses to start in any other mode.
Modes == {"synthetic", "http"}

Init ==
  /\ request \in Requests
  /\ mode \in Modes
  /\ stage = "received" /\ payload = Null /\ found = <<>> /\ chosen = <<>> /\ status = 0
  /\ faulted = FALSE

Finish(code) == stage' = "done" /\ status' = code

Refuse(code) ==
  Finish(code) /\ UNCHANGED <<request, payload, mode, found, chosen, faulted>>

Accept(p) ==
  /\ payload' = p /\ stage' = "parsed"
  /\ UNCHANGED <<request, mode, found, chosen, status, faulted>>

\* GET /api/v1/zyla/leads/search.  A query that passes parse_zyla_query and
\* not the schema raises in query_to_payload, where no handler expects it.
ParseQuery ==
  /\ stage = "received" /\ request.form = "get"
  /\ IF ~(QueryAccepts(request) /\ ParseAccepts(request)) THEN Refuse(422)
     ELSE IF SchemaAccepts(QueryToPayload(request)) THEN Accept(QueryToPayload(request))
     ELSE Refuse(500)

\* POST /api/v1/zyla/leads/search and POST /api/v1/leads/search.
BodyAccepts(r) ==
  IF r.form = "zyla" THEN ZylaPostAccepts(BodyToPayload(r)) ELSE SchemaAccepts(BodyToPayload(r))

ValidateBody ==
  /\ stage = "received" /\ request.form # "get"
  /\ \/ BodyAccepts(request) /\ Accept(BodyToPayload(request))
     \/ ~BodyAccepts(request) /\ Refuse(422)

Found(records) ==
  /\ found' = records /\ stage' = "found"
  /\ UNCHANGED <<request, payload, mode, chosen, status, faulted>>

Matched == {k \in DOMAIN SyntheticRecords : Matches(SyntheticRecords[k], payload)}

\* The records that match, in their order.
SyntheticSearch ==
  /\ stage = "parsed" /\ mode = "synthetic"
  /\ \E order \in [1..Cardinality(Matched) -> Matched] :
       /\ \A m, n \in DOMAIN order : m < n => order[m] < order[n]
       /\ Found([n \in DOMAIN order |-> SyntheticRecords[order[n]]])

\* The licensed provider decides itself what the filters mean.
LicensedSearch ==
  stage = "parsed" /\ mode = "http" /\ \E records \in Catalogs : Found(records)

\* ProviderRequestError: no answer, no JSON, or a record of the wrong shape.
ProviderFails ==
  stage = "parsed" /\ mode = "http" /\ Refuse(502)

Score(k) == LeadScore(found[k], payload)

Qualified ==
  {k \in DOMAIN found : payload.lead_score_min # Null => Score(k) >= payload.lead_score_min}

\* Mutant: descending order as the reverse of ascending order.
ComesBeforeReversed(j, k) ==
  \/ payload.sort.direction = "desc" /\ Score(j) > Score(k)
  \/ payload.sort.direction = "asc" /\ Score(j) < Score(k)
  \/ Score(j) = Score(k) /\ (IF payload.sort.direction = "desc" THEN j > k ELSE j < k)

\* list.sort keeps the provider's order among equal scores, reversed or not;
\* a sort by another field is accepted and leaves the provider's order.
ComesBefore(j, k) ==
  \/ payload.sort.field = "lead_score" /\ payload.sort.direction = "desc" /\ Score(j) > Score(k)
  \/ payload.sort.field = "lead_score" /\ payload.sort.direction = "asc" /\ Score(j) < Score(k)
  \/ (payload.sort.field # "lead_score" \/ Score(j) = Score(k)) /\ j < k

\* The qualified records in the order of ComesBefore, up to the limit.
SelectLeads ==
  /\ stage = "found"
  /\ \A k \in DOMAIN found : ~ScoringRaises(found[k], payload)
  /\ \E sorted \in [1..Cardinality(Qualified) -> Qualified] :
       /\ \A m, n \in DOMAIN sorted : m < n => ComesBefore(sorted[m], sorted[n])
       /\ chosen' = [n \in {m \in DOMAIN sorted : m <= payload.limit} |-> sorted[n]]
  /\ stage' = "selected"
  /\ UNCHANGED <<request, payload, mode, found, status, faulted>>

ScoringFails ==
  /\ stage = "found"
  /\ \E k \in DOMAIN found : ScoringRaises(found[k], payload)
  /\ Refuse(500)

\* A record of the answer is stored and answered from its own values, unless
\* an earlier search stored its company and contact, and its date is parsed:
\* a flush, a response model or datetime.fromisoformat may raise.
AnswerRaises(c, stored) == ~c.dated \/ (~stored /\ ~c.storable)

\* The middleware replaces an X-Request-Id of more than 128 characters; the
\* column of usage_records takes 100.
RequestIdLength(r) == IF r.id_length \in 1..128 THEN r.id_length ELSE 36
UsageRecorded(r) == RequestIdLength(r) <= 100

BuildAnswer ==
  /\ stage = "selected"
  /\ \E stored \in SUBSET Range(chosen) :
       Finish(IF /\ \A k \in Range(chosen) : ~AnswerRaises(found[k], k \in stored)
                 /\ UsageRecorded(request)
              THEN 200 ELSE 500)
  /\ UNCHANGED <<request, payload, mode, found, chosen, faulted>>

\* An unhandled error elsewhere: Redis or the database fails, before the
\* transaction or in it, or the marketplace tenant has no row to use.
OtherPartFails ==
  /\ stage # "done" /\ Finish(500) /\ faulted' = TRUE
  /\ UNCHANGED <<request, payload, mode, found, chosen>>

Done == stage = "done" /\ UNCHANGED vars

Next ==
  \/ ParseQuery \/ ValidateBody
  \/ SyntheticSearch \/ LicensedSearch \/ ProviderFails
  \/ SelectLeads \/ ScoringFails \/ BuildAnswer
  \/ OtherPartFails
  \/ Done

Spec == Init /\ [][Next]_vars

(***************************************************************************)
(* Properties                                                              *)
(***************************************************************************)
Scored == stage \in {"selected", "done"} /\ chosen # <<>>

\* No score passes 90, whatever the filters and the record: a request for
\* lead_score_min above 90 is legal and never finds anything.
TypeOK ==
  /\ stage \in {"received", "parsed", "found", "selected", "done"}
  /\ status \in {0, 200, 422, 500, 502}
  /\ (status # 0) = (stage = "done")
  /\ stage \in {"parsed", "found", "selected"} => SchemaAccepts(payload)
  /\ Range(chosen) \subseteq DOMAIN found
  /\ Scored => \A k \in Range(chosen) : Score(k) \in 0..90

\* parse_zyla_query lets nothing pass that LeadSearchRequest refuses, where
\* query_to_payload would raise outside any handler, and nothing that the
\* POST variant of the endpoint would refuse.
QueriesValid ==
  request.form = "get" /\ QueryAccepts(request) /\ ParseAccepts(request) =>
    ZylaPostAccepts(QueryToPayload(request))

\* SyntheticLeadProvider.search and score_provider_lead read the filters the
\* same way: a record the provider matched has full marks for every filter.
FullMarks(c, p) ==
  LET b == Breakdown(c, p)
  IN /\ Asked("industries", p) => b.industry = 20
     /\ Asked("countries", p) => b.country = 10
     /\ Asked("job_titles", p) => b.job_title = 20
     /\ Asked("technologies", p) => b.technology = 10
     /\ RangeGiven(p) => b.company_size = 15

FiltersScored ==
  mode = "synthetic" => \A k \in DOMAIN found : FullMarks(found[k], payload)

\* The answer holds the best of the qualified records and as many as there
\* are up to the limit: sorted, ties in the provider's order, and nothing
\* better or equally good and earlier left out.  A sort by another field
\* than lead_score is answered in the provider's order.
Better(j, k) ==
  payload.sort.field = "lead_score" /\
    IF payload.sort.direction = "desc" THEN Score(j) > Score(k) ELSE Score(j) < Score(k)

BestLeads ==
  stage = "selected" =>
    /\ Len(chosen) <= payload.limit
    /\ Range(chosen) \subseteq Qualified
    /\ Len(chosen) < payload.limit => Range(chosen) = Qualified
    /\ \A m, n \in DOMAIN chosen : m < n =>
         /\ ~Better(chosen[n], chosen[m])
         /\ ~Better(chosen[m], chosen[n]) => chosen[m] < chosen[n]
    /\ \A k \in Qualified \ Range(chosen), m \in DOMAIN chosen :
         ~Better(k, chosen[m]) /\ (Better(chosen[m], k) \/ chosen[m] < k)

\* Faults of other parts apart, a search fails with 500 over its request id,
\* which the middleware lets through and usage_records does not take, or over
\* a licensed record: one among all those found that lacks what the
\* suppression check and the scoring read, or has it in another type, or one
\* among those chosen that the tables or the answer do not take, or whose
\* date is none.  One such record takes the whole answer with it; a record
\* that was found and not chosen does so only in the first way.
Scorable(c) ==
  /\ c.texts /\ {c.industry, c.country} \cap {Missing, Unusable} = {}
  /\ c.technologies \notin {Null, Unusable} /\ c.employees # Unusable
Answerable(c) == c.dated /\ c.storable

FailuresExplained ==
  status = 500 /\ ~faulted =>
    \/ ~UsageRecorded(request)
    \/ mode = "http" /\ \E k \in DOMAIN found : ~Scorable(found[k])
    \/ mode = "http" /\ \E k \in Range(chosen) : ~Answerable(found[k])
=============================================================================
