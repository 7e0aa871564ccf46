------------------------ MODULE LeadSelectionProofs ------------------------
(***************************************************************************)
(* What holds of validation, matching and scoring for every request and    *)
(* every record, and an invariant of a request's stages: an accepted       *)
(* payload satisfies the schema, and what the synthetic provider found are *)
(* matching records of the fixture, which can be scored and answered.  The *)
(* list that is cut at the limit is in a strict order of the qualified     *)
(* records, so it names each of them, and the best ones first.             *)
(***************************************************************************)
EXTENDS LeadSelection, FiniteSetTheorems, SequenceTheorems, TLAPS

\* Each layer of validation lets through no more than the next one accepts.
LEMMA QueryAccepted ==
  ASSUME NEW r, QueryAccepts(r), ParseAccepts(r)
  PROVE  ZylaPostAccepts(QueryToPayload(r))
<1> DEFINE p == QueryToPayload(r)
<1>1. p.limit \in 1..100 /\ p.limit <= ZylaMaxLimit
  BY ZylaMaxLimitAssumption DEF ParseAccepts, QueryToPayload
<1>2. \A list \in Lists : Len(p[list]) <= Maximum(list)
  <2>1. \A list \in Lists : p[list] = CsvValues(r[list])
    BY DEF QueryToPayload, Lists
  <2> QED BY <2>1 DEF ParseAccepts, CsvAccepts
<1>3. /\ NonNegative(p.employee_min) /\ NonNegative(p.employee_max)
      /\ InOrder(p.employee_min, p.employee_max)
      /\ Within(p.lead_score_min, 0, 100)
  BY DEF ParseAccepts, QueryToPayload
<1> QED BY <1>1, <1>2, <1>3 DEF ZylaPostAccepts, SchemaAccepts

\* parse_zyla_query lets nothing pass that LeadSearchRequest, or the POST
\* variant of the endpoint, refuses (zyla.py, parse_zyla_query).
THEOREM QueriesSound == Spec => []QueriesValid
<1>1. QueriesValid
  BY QueryAccepted DEF QueriesValid
<1> QED BY <1>1, PTL

\* A record that the synthetic provider matched has full marks for every
\* filter that was given, in upper or lower case (providers.py,
\* SyntheticLeadProvider.search; services.py, score_provider_lead).
THEOREM MatchesScored ==
  ASSUME NEW c, NEW p,
         c.title \notin {Null, Missing}, c.employees # Null, c.technologies # Missing,
         Matches(c, p)
  PROVE  FullMarks(c, p)
<1>1. Title(c) = Lower[c.title] /\ Technologies(c) = c.technologies
  BY DEF Title, Technologies
<1> QED BY <1>1 DEF Matches, FullMarks, Breakdown, Points

\* No record scores above 90, so no answer meets a lead_score_min of 91 to
\* 100; without an intent signal, as in the fixture, none scores above 75.
THEOREM ScoreBounded ==
  ASSUME NEW c, NEW p
  PROVE  /\ LeadScore(c, p) \in 0..90
         /\ ~c.intent => LeadScore(c, p) \in 0..75
<1> DEFINE b == Breakdown(c, p)
<1>1. /\ b.industry \in {20, 10, 0} /\ b.country \in {10, 5, 0}
      /\ b.job_title \in {20, 10, 0} /\ b.technology \in {10, 5, 0}
      /\ b.company_size \in {15, 8, 0} /\ b.intent \in {15, 0}
  BY DEF Breakdown, Points
<1>2. ~c.intent => b.intent = 0
  BY DEF Breakdown
<1> HIDE DEF b
<1>3. LeadScore(c, p) =
        LET sum == b.industry + b.country + b.job_title + b.technology + b.company_size + b.intent
        IN IF sum > 100 THEN 100 ELSE sum
  BY DEF LeadScore, b
<1> QED BY <1>1, <1>2, <1>3
----------------------------------------------------------------------------
(* Sequences of records *)

\* The fixture can be scored and answered, and lacks nothing.
LEMMA FixtureComplete ==
  ASSUME NEW k \in DOMAIN SyntheticRecords
  PROVE  LET c == SyntheticRecords[k]
         IN /\ Scorable(c) /\ Answerable(c) /\ c.title \notin {Null, Missing}
            /\ c.employees # Null /\ c.technologies # Missing
<1> DEFINE Fixture(industry, country, employees, technologies, title) ==
             [industry |-> industry, country |-> country, employees |-> employees,
              technologies |-> technologies, title |-> title,
              intent |-> FALSE, texts |-> TRUE, storable |-> TRUE, dated |-> TRUE]
             first == Fixture("financial_services", "SA", 850, {"Microsoft", "AWS"}, "CFO")
             second == Fixture("insurance", "SA", 3200, {"AWS"}, "CTO")
             third == Fixture("software", "AE", 180, {"AWS", "Python"}, "CEO")
<1>1. SyntheticRecords = <<first, second, third>>
  BY DEF SyntheticRecords
<1> DEFINE Sound(c) == c.texts /\ c.storable /\ c.dated
<1>2. Sound(first) /\ Sound(second) /\ Sound(third)
  OBVIOUS
<1> HIDE DEF first, second, third
<1>3. k \in {1, 2, 3}
  BY <1>1
<1>4. SyntheticRecords[k] \in {first, second, third}
  BY <1>1, <1>3
<1>5. Sound(SyntheticRecords[k])
  BY <1>2, <1>4
<1> QED BY <1>5, FixtureAssumption DEF Scorable, Answerable

\* A list in a strict order names as many members as it is long.
LEMMA OrderedListsAll ==
  ASSUME NEW S, IsFiniteSet(S), NEW list \in [1..Cardinality(S) -> S],
         \A m, n \in DOMAIN list : m < n => list[m] # list[n]
  PROVE  \A x \in S : \E m \in DOMAIN list : list[m] = x
<1>1. Cardinality(S) \in Nat
  BY FS_CardinalityType
<1>2. IsFiniteSet(1..Cardinality(S)) /\ Cardinality(1..Cardinality(S)) = Cardinality(S)
  BY <1>1, FS_Interval
<1>3. \A m, n \in 1..Cardinality(S) : list[m] = list[n] => m = n
  <2>1. \A m, n \in 1..Cardinality(S) : m = n \/ m < n \/ n < m
    BY <1>1
  <2> QED BY <2>1
<1>4. list \in Injection(1..Cardinality(S), S)
  BY <1>3 DEF Injection, IsInjective
<1>5. list \in Surjection(1..Cardinality(S), S)
  BY <1>2, <1>4, FS_Injection
<1> QED BY <1>5 DEF Surjection
----------------------------------------------------------------------------
(* The invariant of a request *)

Staged ==
  /\ stage \in {"received", "parsed", "found", "selected", "done"}
  /\ status \in {0, 200, 422, 500, 502}
  /\ status # 0 <=> stage = "done"
  /\ mode \in Modes
  /\ stage \in {"parsed", "found", "selected"} => SchemaAccepts(payload)
  /\ stage \in {"received", "parsed"} => found = <<>>
  /\ stage \in {"received", "parsed", "found"} => chosen = <<>>
  /\ \E n \in Nat : DOMAIN found = 1..n
  /\ Range(chosen) \subseteq DOMAIN found

\* In synthetic mode the records are those of the fixture that match.
FromFixture ==
  mode = "synthetic" =>
    \A k \in DOMAIN found :
      Matches(found[k], payload) /\ \E f \in DOMAIN SyntheticRecords : found[k] = SyntheticRecords[f]

IInv == Staged /\ FromFixture /\ BestLeads /\ FailuresExplained

\* What a record of the fixture has.
LEMMA NoGaps ==
  ASSUME FromFixture, mode = "synthetic", NEW k \in DOMAIN found
  PROVE  /\ Scorable(found[k]) /\ Answerable(found[k])
         /\ found[k].title \notin {Null, Missing} /\ found[k].employees # Null
         /\ found[k].technologies # Missing /\ Matches(found[k], payload)
  BY FixtureComplete DEF FromFixture

\* A request that was received has found and chosen nothing.
LEMMA InitInv == Init => IInv
<1> SUFFICES ASSUME Init PROVE IInv
  OBVIOUS
<1>1. /\ stage = "received" /\ mode \in Modes /\ found = <<>> /\ chosen = <<>> /\ status = 0
      /\ DOMAIN found = 1..0 /\ DOMAIN found = {} /\ Range(chosen) = {}
  BY DEF Init, Range
<1>2. Staged
  BY <1>1 DEF Staged
<1> QED BY <1>1, <1>2 DEF IInv, FromFixture, BestLeads, FailuresExplained

\* A request is refused before anything is found, or the provider fails.
LEMMA RefuseStep ==
  ASSUME IInv, NEW code \in {422, 500, 502}, Refuse(code),
         code = 500 => mode = "http" /\ \E k \in DOMAIN found : ~Scorable(found[k])
  PROVE  IInv'
<1>1. /\ stage' = "done" /\ status' = code
      /\ UNCHANGED <<request, payload, mode, found, chosen, faulted>>
  BY DEF Refuse, Finish
<1>2. Staged'
  BY <1>1 DEF IInv, Staged
<1>3. FromFixture'
  BY <1>1 DEF IInv, FromFixture
<1>4. BestLeads' /\ FailuresExplained'
  BY <1>1 DEF BestLeads, FailuresExplained
<1> QED BY <1>2, <1>3, <1>4 DEF IInv

\* The request is parsed and validated, or refused.
LEMMA AcceptStep ==
  ASSUME IInv, ParseQuery \/ ValidateBody
  PROVE  IInv'
<1>1. stage = "received" /\ status = 0 /\ found = <<>> /\ chosen = <<>>
  BY DEF IInv, Staged, ParseQuery, ValidateBody
<1>2. ASSUME NEW p, SchemaAccepts(p), Accept(p)
      PROVE  IInv'
  <2>1. payload' = p /\ stage' = "parsed" /\ UNCHANGED <<mode, found, chosen, status>>
    BY <1>2 DEF Accept
  <2>2. Staged'
    BY <1>1, <1>2, <2>1 DEF IInv, Staged
  <2>3. FromFixture'
    BY <1>1, <2>1 DEF FromFixture
  <2>4. BestLeads' /\ FailuresExplained'
    BY <1>1, <2>1 DEF BestLeads, FailuresExplained
  <2> QED BY <2>2, <2>3, <2>4 DEF IInv
<1>3. CASE ParseQuery
  <2>1. CASE ~(QueryAccepts(request) /\ ParseAccepts(request))
    BY <1>3, <2>1, RefuseStep DEF ParseQuery
  <2>2. CASE QueryAccepts(request) /\ ParseAccepts(request)
    <3>1. SchemaAccepts(QueryToPayload(request))
      BY <2>2, QueryAccepted DEF ZylaPostAccepts
    <3> QED BY <1>2, <1>3, <2>2, <3>1 DEF ParseQuery
  <2> QED BY <2>1, <2>2
<1>4. CASE ValidateBody
  <2>1. CASE BodyAccepts(request) /\ Accept(BodyToPayload(request))
    BY <1>2, <2>1 DEF BodyAccepts, ZylaPostAccepts
  <2>2. CASE Refuse(422)
    BY <2>2, RefuseStep
  <2> QED BY <1>4, <2>1, <2>2 DEF ValidateBody
<1> QED BY <1>3, <1>4

\* The provider answers.
LEMMA FoundStep ==
  ASSUME IInv, SyntheticSearch \/ LicensedSearch
  PROVE  IInv'
<1>1. stage = "parsed" /\ status = 0 /\ chosen = <<>>
  BY DEF IInv, Staged, SyntheticSearch, LicensedSearch
<1>2. ASSUME NEW records, Found(records), NEW n \in Nat, DOMAIN records = 1..n,
             mode = "synthetic" => \A k \in DOMAIN records :
               /\ Matches(records[k], payload)
               /\ \E f \in DOMAIN SyntheticRecords : records[k] = SyntheticRecords[f]
      PROVE  IInv'
  <2>1. found' = records /\ stage' = "found" /\ UNCHANGED <<payload, mode, chosen, status>>
    BY <1>2 DEF Found
  <2>2. Range(chosen) = {}
    BY <1>1 DEF Range
  <2>3. Staged'
    <3>1. Range(chosen)' = {}
      BY <2>1, <2>2
    <3> QED BY <1>1, <1>2, <2>1, <3>1 DEF IInv, Staged
  <2>4. FromFixture'
    BY <1>2, <2>1 DEF FromFixture
  <2>5. BestLeads' /\ FailuresExplained'
    BY <1>1, <2>1 DEF BestLeads, FailuresExplained
  <2> QED BY <2>3, <2>4, <2>5 DEF IInv
<1>3. CASE SyntheticSearch
  <2>1. PICK order \in [1..Cardinality(Matched) -> Matched] :
          Found([n \in DOMAIN order |-> SyntheticRecords[order[n]]])
    BY <1>3 DEF SyntheticSearch
  <2> DEFINE records == [n \in DOMAIN order |-> SyntheticRecords[order[n]]]
  <2>2. IsFiniteSet(Matched)
    <3>1. IsFiniteSet(DOMAIN SyntheticRecords)
      <4>1. DOMAIN SyntheticRecords = 1..3
        BY DEF SyntheticRecords
      <4>2. PICK n \in Int : n = 3
        OBVIOUS
      <4>3. IsFiniteSet(1..n)
        BY FS_Interval
      <4> QED BY <4>1, <4>2, <4>3
    <3>2. Matched \in SUBSET DOMAIN SyntheticRecords
      BY DEF Matched
    <3> QED BY <3>1, <3>2, FS_Subset
  <2>3. Cardinality(Matched) \in Nat
    BY <2>2, FS_CardinalityType
  <2>4. DOMAIN records = 1..Cardinality(Matched)
    OBVIOUS
  <2>5. ASSUME NEW k \in DOMAIN records
        PROVE  /\ Matches(records[k], payload)
               /\ \E f \in DOMAIN SyntheticRecords : records[k] = SyntheticRecords[f]
    <3>1. order[k] \in DOMAIN SyntheticRecords /\ Matches(SyntheticRecords[order[k]], payload)
      BY <2>4 DEF Matched
    <3>2. records[k] = SyntheticRecords[order[k]]
      OBVIOUS
    <3> QED BY <3>1, <3>2
  <2> HIDE DEF records
  <2>6. Found(records)
    BY <2>1 DEF records
  <2> QED BY <1>2, <2>3, <2>4, <2>5, <2>6
<1>4. CASE LicensedSearch
  <2>1. PICK records \in Catalogs : mode = "http" /\ Found(records)
    BY <1>4 DEF LicensedSearch
  <2> QED BY <1>2, <2>1, CatalogsAssumption
<1> QED BY <1>3, <1>4

\* Sorting the qualified records and cutting the list at the limit leaves the
\* best of them.
LEMMA SelectStep ==
  ASSUME IInv, SelectLeads
  PROVE  IInv'
<1>0. Staged /\ FromFixture
  BY DEF IInv
<1>1. /\ stage = "found" /\ stage' = "selected"
      /\ UNCHANGED <<request, payload, mode, found, status>>
  BY DEF SelectLeads
<1>2. SchemaAccepts(payload) /\ payload.limit \in 1..100
  BY <1>0, <1>1 DEF Staged, SchemaAccepts
<1>3. PICK n \in Nat : DOMAIN found = 1..n
  BY <1>0 DEF Staged
<1>4. Qualified \subseteq DOMAIN found /\ \A k \in Qualified : k \in Nat /\ Score(k) \in Int
  <2>1. \A k : Score(k) \in 0..90
    BY ScoreBounded DEF Score
  <2> QED BY <1>3, <2>1 DEF Qualified
<1>5. IsFiniteSet(Qualified)
  <2>1. IsFiniteSet(DOMAIN found)
    BY <1>3, FS_Interval
  <2> QED BY <1>4, <2>1, FS_Subset
<1> DEFINE N == Cardinality(Qualified)
<1>6. PICK sorted \in [1..N -> Qualified] :
        /\ \A m, k \in DOMAIN sorted : m < k => ComesBefore(sorted[m], sorted[k])
        /\ chosen' = [k \in {m \in DOMAIN sorted : m <= payload.limit} |-> sorted[k]]
  BY DEF SelectLeads
<1>7. N \in Nat
  BY <1>5, FS_CardinalityType
<1> HIDE DEF N
<1> DEFINE L == IF payload.limit < N THEN payload.limit ELSE N
<1>8. L \in Nat /\ L <= payload.limit /\ L <= N /\ (L < payload.limit => L = N)
      /\ {m \in 1..N : m <= payload.limit} = 1..L
  <2>1. payload.limit \in Nat
    <3>1. \A i \in 1..100 : i \in Nat
      OBVIOUS
    <3> QED BY <1>2, <3>1
  <2>2. L \in Nat /\ L <= payload.limit /\ L <= N /\ (L < payload.limit => L = N)
    BY <1>7, <2>1
  <2>3. L = payload.limit \/ L = N
    OBVIOUS
  <2> HIDE DEF L
  <2>4. \A m \in 1..N : m <= payload.limit <=> m <= L
    BY <1>7, <2>1, <2>2, <2>3
  <2>5. {m \in 1..N : m <= payload.limit} = 1..L
    BY <1>7, <2>2, <2>4
  <2> QED BY <2>2, <2>5
<1> HIDE DEF L
<1>9. chosen' = [k \in 1..L |-> sorted[k]] /\ DOMAIN sorted = 1..N
  BY <1>6, <1>8
<1>10. DOMAIN chosen' = 1..L /\ \A k \in 1..L : chosen'[k] = sorted[k] /\ k \in 1..N
  BY <1>7, <1>8, <1>9
<1>11. Len(chosen') = L
  <2>1. chosen' \in Seq(Qualified)
    BY <1>6, <1>8, <1>9, <1>10
  <2>2. Len(chosen') \in Nat /\ DOMAIN chosen' = 1..Len(chosen')
    BY <2>1, LenProperties
  <2> QED BY <1>8, <1>10, <2>2
\* What a place in the sorted list says of the scores.
<1>12. ASSUME NEW j \in Qualified, NEW k \in Qualified, ComesBefore(j, k)
       PROVE  /\ ~Better(k, j) /\ (Better(j, k) \/ j < k) /\ j # k
  <2>1. j \in Nat /\ k \in Nat /\ Score(j) \in Int /\ Score(k) \in Int
    BY <1>4
  <2> QED BY <1>12, <2>1 DEF ComesBefore, Better
<1>13. \A m, k \in DOMAIN sorted : m < k => sorted[m] # sorted[k]
  BY <1>6, <1>12
<1>14. \A x \in Qualified : \E m \in 1..N : sorted[m] = x
  BY <1>5, <1>6, <1>9, <1>13, OrderedListsAll DEF N
<1>15. Range(chosen') = {sorted[k] : k \in 1..L} /\ Range(chosen') \subseteq Qualified
  BY <1>6, <1>10 DEF Range
<1>16. Qualified' = Qualified /\ \A j, k : Better(j, k)' <=> Better(j, k)
  BY <1>1 DEF Qualified, Better, Score
<1>17. BestLeads'
  <2>1. L < payload.limit => Range(chosen') = Qualified
    BY <1>8, <1>14, <1>15
  <2>2. ASSUME NEW m \in 1..L, NEW k \in 1..L, m < k
        PROVE  /\ ~Better(sorted[k], sorted[m])
               /\ ~Better(sorted[m], sorted[k]) => sorted[m] < sorted[k]
    <3>1. m \in 1..N /\ k \in 1..N /\ sorted[m] \in Qualified /\ sorted[k] \in Qualified
      BY <1>6, <1>10
    <3> QED BY <1>6, <1>9, <1>12, <2>2, <3>1
  <2>3. ASSUME NEW x \in Qualified \ Range(chosen'), NEW m \in 1..L
        PROVE  ~Better(x, sorted[m]) /\ (Better(sorted[m], x) \/ sorted[m] < x)
    <3>1. PICK k \in 1..N : sorted[k] = x
      BY <1>14
    <3>2. m < k
      <4>1. k \notin 1..L
        BY <1>15, <2>3, <3>1
      <4> QED BY <1>7, <1>8, <4>1
    <3>3. m \in 1..N /\ sorted[m] \in Qualified
      BY <1>6, <1>10
    <3> QED BY <1>6, <1>9, <1>12, <3>1, <3>2, <3>3
  <2> QED BY <1>1, <1>8, <1>10, <1>11, <1>15, <1>16, <2>1, <2>2, <2>3 DEF BestLeads
<1>18. Staged'
  BY <1>0, <1>1, <1>4, <1>15 DEF Staged, Range
<1>19. FromFixture'
  BY <1>0, <1>1 DEF FromFixture
<1>20. FailuresExplained'
  BY <1>0, <1>1 DEF Staged, FailuresExplained
<1> QED BY <1>17, <1>18, <1>19, <1>20 DEF IInv

\* A record that cannot be scored, or is chosen and cannot be answered, fails
\* the search, and so does a request id that is too long.
LEMMA AnswerStep ==
  ASSUME IInv, ScoringFails \/ BuildAnswer
  PROVE  IInv'
<1>0. Staged /\ FromFixture
  BY DEF IInv
<1>1. CASE ScoringFails
  <2>1. PICK k \in DOMAIN found : ScoringRaises(found[k], payload)
    BY <1>1 DEF ScoringFails
  <2>2. ~Scorable(found[k])
    BY <2>1 DEF ScoringRaises, Scorable
  <2>3. mode = "http"
    BY <1>0, <2>2, NoGaps DEF Staged, Modes
  <2> QED BY <1>1, <2>2, <2>3, RefuseStep DEF ScoringFails
<1>2. CASE BuildAnswer
  <2>1. /\ stage = "selected" /\ stage' = "done"
        /\ UNCHANGED <<request, payload, mode, found, chosen, faulted>>
        /\ \/ status' = 200
           \/ status' = 500 /\ ~UsageRecorded(request)
           \/ status' = 500 /\ \E k \in Range(chosen) : ~Answerable(found[k])
    BY <1>2 DEF BuildAnswer, Finish, AnswerRaises, Answerable
  <2>2. Staged'
    BY <1>0, <2>1 DEF Staged
  <2>3. FromFixture' /\ BestLeads'
    BY <1>0, <2>1 DEF FromFixture, BestLeads
  <2>4. FailuresExplained'
    <3>1. ASSUME NEW k \in Range(chosen), ~Answerable(found[k]) PROVE mode = "http"
      BY <1>0, <3>1, NoGaps DEF Staged, Modes
    <3> QED BY <2>1, <3>1 DEF FailuresExplained
  <2> QED BY <2>2, <2>3, <2>4 DEF IInv
<1> QED BY <1>1, <1>2

\* A fault of another part ends the request wherever it is.
LEMMA FaultStep ==
  ASSUME IInv, OtherPartFails
  PROVE  IInv'
<1>1. /\ stage' = "done" /\ status' = 500 /\ faulted' = TRUE
      /\ UNCHANGED <<request, payload, mode, found, chosen>>
  BY DEF OtherPartFails, Finish
<1>2. Staged' /\ FromFixture'
  BY <1>1 DEF IInv, Staged, FromFixture
<1>3. BestLeads' /\ FailuresExplained'
  BY <1>1 DEF BestLeads, FailuresExplained
<1> QED BY <1>2, <1>3 DEF IInv

\* Every step keeps the invariant.
LEMMA InvStep == IInv /\ [Next]_vars => IInv'
<1> SUFFICES ASSUME IInv, [Next]_vars PROVE IInv'
  OBVIOUS
<1>1. CASE UNCHANGED vars
  <2>1. Staged' /\ FromFixture' /\ FailuresExplained'
    BY <1>1 DEF IInv, vars, Staged, FromFixture, FailuresExplained
  <2>2. BestLeads'
    BY <1>1 DEF IInv, vars, BestLeads, Qualified, Better, Score
  <2> QED BY <2>1, <2>2 DEF IInv
<1>2. CASE ProviderFails
  BY <1>2, RefuseStep DEF ProviderFails
<1> QED BY <1>1, <1>2, AcceptStep, FoundStep, SelectStep, AnswerStep, FaultStep
   DEF Next, Done
----------------------------------------------------------------------------
(* The theorems *)

\* Every reachable state of a request satisfies it.
THEOREM Invariance == Spec => []IInv
  BY InitInv, InvStep, PTL DEF Spec

\* The answer names records of the provider, and no score passes 90.
THEOREM TypeCorrect == Spec => []TypeOK
<1>1. IInv => TypeOK
  <2> SUFFICES ASSUME IInv PROVE TypeOK
    OBVIOUS
  <2>1. \A k : Score(k) \in 0..90
    BY ScoreBounded DEF Score
  <2> QED BY <2>1 DEF IInv, Staged, TypeOK
<1> QED BY <1>1, Invariance, PTL

\* Every record of the synthetic provider has full marks for every filter
\* that was given.
THEOREM FiltersAgree == Spec => []FiltersScored
<1>1. IInv => FiltersScored
  BY NoGaps, MatchesScored DEF IInv, FiltersScored
<1> QED BY <1>1, Invariance, PTL

\* The answer is the best of the qualified records, in order, up to the limit
\* (_persist_lead_search).
THEOREM BestSelected == Spec => []BestLeads
<1>1. IInv => BestLeads
  BY DEF IInv
<1> QED BY <1>1, Invariance, PTL

\* Faults of other parts apart, what fails a search with 500 is a request id
\* of 101 to 128 characters or a licensed record: one found that cannot be
\* scored, whether or not it would have been chosen, or one chosen that
\* cannot be stored, answered or dated (main.py, request_context; services.py,
\* score_provider_lead; search_service.py, _persist_lead_search).
THEOREM FailuresHaveCauses == Spec => []FailuresExplained
<1>1. IInv => FailuresExplained
  BY DEF IInv
<1> QED BY <1>1, Invariance, PTL
=============================================================================
