--------------------------- MODULE MCLeadSelection ---------------------------
(***************************************************************************)
(* Requests that vary the scalars without filters, the filters, or the     *)
(* request id, and answers of a licensed provider with gaps and ties, with *)
(* a country too long for its column and a number of employees in words.   *)
(***************************************************************************)
EXTENDS LeadSelection

Words == {"", " ", "SA", " SA", "sa", "AE", "financial_services", "software", "CFO", "cfo", "CEO",
          "CTO", "AWS", "aws", "Python", "python", "Microsoft", "None", "none", "too long"}
MCStrip == [w \in Words |-> IF w = " SA" THEN "SA" ELSE IF w = " " THEN "" ELSE w]
MCLower == [w \in Words |->
  IF w \in {"SA", " SA"} THEN "sa" ELSE IF w = "AE" THEN "ae" ELSE IF w = "CFO" THEN "cfo"
  ELSE IF w = "CEO" THEN "ceo" ELSE IF w = "CTO" THEN "cto" ELSE IF w = "AWS" THEN "aws"
  ELSE IF w = "Python" THEN "python" ELSE IF w = "Microsoft" THEN "microsoft"
  ELSE IF w = "None" THEN "none" ELSE w]

Forms == {"get", "zyla", "api"}
ByScore(direction) == [field |-> "lead_score", direction |-> direction]
Plain ==
  [form |-> "api", countries |-> <<>>, industries |-> <<>>, job_titles |-> <<>>,
   technologies |-> <<>>, employee_min |-> Null, employee_max |-> Null,
   lead_score_min |-> Null, limit |-> Null, sort |-> ByScore("desc"), id_length |-> 0]

Scalars ==
  {[Plain EXCEPT !.form = f, !.employee_min = min, !.employee_max = max, !.lead_score_min = score] :
     f \in Forms, min \in {Null, -1, 0, 500}, max \in {Null, -1, 0, 850}, score \in {Null, -1, 45, 101}}
Limits ==
  {[Plain EXCEPT !.form = f, !.limit = n, !.sort = s] :
     f \in Forms, n \in {Null, 0, 1, 2, 10, 25, 26, 100, 101},
     s \in {ByScore("desc"), ByScore("asc"), [field |-> "company_name", direction |-> "asc"]}}
Filters ==
  {[Plain EXCEPT !.form = f, !.countries = c, !.industries = i, !.job_titles = t,
                 !.technologies = x, !.employee_max = max, !.limit = n] :
     f \in {"get", "api"}, c \in {<<>>, <<"sa">>, <<" SA", "AE">>, <<"SA", "too long">>},
     i \in {<<>>, <<"financial_services", "software">>}, t \in {<<>>, <<"cfo">>, <<"None">>, <<" ">>},
     x \in {<<>>, <<"aws", "python">>}, max \in {Null, 850}, n \in {2, 25}}
Lengths ==
  {[Plain EXCEPT !.form = f, !.limit = 2, !.countries = [k \in 1..n |-> w], !.job_titles = [k \in 1..m |-> w]] :
     f \in Forms, n \in {20, 21}, m \in {50, 51}, w \in {"SA", " "}}
Ids == {[Plain EXCEPT !.form = f, !.id_length = n] : f \in Forms, n \in {1, 100, 101, 128, 129}}
MCRequests == Scalars \cup Limits \cup Filters \cup Lengths \cup Ids

Full == [industry |-> "software", country |-> "SA", employees |-> 850, technologies |-> {"AWS", "Python"},
         title |-> "CFO", intent |-> TRUE, texts |-> TRUE, storable |-> TRUE, dated |-> TRUE]
Other == [Full EXCEPT !.country = "AE", !.title = Missing, !.technologies = Missing]
Small == [Full EXCEPT !.employees = Null, !.title = Null, !.intent = FALSE]
Foreign == [Other EXCEPT !.storable = FALSE]
Vague == [Full EXCEPT !.employees = Unusable, !.storable = FALSE]
MCCatalogs ==
  { <<>>, <<Other, Full, Small, Full>>, <<Small, Other, [Full EXCEPT !.dated = FALSE]>>,
    <<[Full EXCEPT !.industry = Missing]>>, <<[Full EXCEPT !.country = Missing], Full>>,
    <<[Full EXCEPT !.technologies = Null]>>, <<[Full EXCEPT !.texts = FALSE]>>,
    <<Small, Full, Foreign>>, <<Vague, Small>> }

MCLong == {"too long"}
=============================================================================
