----------------------------- MODULE JobQuality -----------------------------
(***************************************************************************)
(* circuitforge_core/job_quality: score_job() adds up the weights of the   *)
(* twelve signals that fire and counts the signals that had evidence,      *)
(* which it tells from the wording of their details. Here a listing is     *)
(* scored again and again while a scraper fills in what was missing.       *)
(* Weights and scores are in hundredths.                                   *)
(***************************************************************************)
EXTENDS Integers

CONSTANTS Ages, Weekdays, Reposts, Requirements, Lengths, Applicants, Rates, \* values tried
          None

VARIABLES listing, enrichment

vars == <<listing, enrichment>>

Maybe(S) == S \cup {None}
Posted == [days : Ages, weekday : Weekdays]
Listing ==
  [posted : Maybe(Posted), reposts : Reposts, salary : BOOLEAN, lawState : BOOLEAN,
   alwaysOpen : BOOLEAN, agency : BOOLEAN, requirements : Requirements,
   length : Lengths, ghostingAts : BOOLEAN, applicants : Maybe(Applicants),
   weekend : BOOLEAN]
Enrichment == [layoffs : BOOLEAN, noResponse : Maybe(Rates)]

ConstantsOK ==
  /\ None \notin Posted \cup Enrichment
  /\ \A S \in {Ages, Weekdays, Reposts, Requirements, Lengths, Applicants, Rates} :
       S \subseteq Nat /\ None \notin S

Init == listing \in Listing /\ enrichment \in Maybe(Enrichment)

-----------------------------------------------------------------------------
(* The signals. Their details are written with _ for what is no letter.    *)
Fires(weight, fires, detail) == [weight |-> weight, fires |-> fires, detail |-> detail]
Silent(weight, detail) == Fires(weight, FALSE, detail)

ListingAge ==
  IF listing.posted = None THEN Silent(25, "No_posted_at_date_available")
  ELSE Fires(25, listing.posted.days > 30, "Listing_is_n_days_old")

RepostDetected == Fires(25, listing.reposts >= 3, "Repost_count_n")

\* Mutant: a missing salary counts only where a law asks for it.
SalaryByLaw ==
  Fires(20, ~listing.salary /\ listing.lawState,
        IF listing.salary THEN "Salary_information_present" ELSE "No_salary_information_provided")

NoSalaryTransparency ==
  Fires(20, ~listing.salary,
        CASE listing.salary -> "Salary_information_present"
          [] ~listing.salary /\ listing.lawState -> "No_salary_disclosed_despite_law"
          [] OTHER -> "No_salary_information_provided")

AlwaysOpenPattern ==
  Fires(20, listing.alwaysOpen,
        IF listing.alwaysOpen THEN "Listing_marked_as_always_open" ELSE "Not_always_open")

StaffingAgency ==
  Fires(15, listing.agency,
        IF listing.agency THEN "Listed_by_an_agency" ELSE "Direct_employer_listing")

RequirementOverload == Fires(12, listing.requirements > 12, "n_requirements_listed")

LayoffNews ==
  IF enrichment = None THEN Silent(12, "No_enrichment_data_available")
  ELSE Fires(12, enrichment.layoffs,
             IF enrichment.layoffs THEN "Recent_layoff_news_detected" ELSE "No_layoff_news_found")

JdVagueness == Fires(10, listing.length < 400, "Description_is_n_characters")

AtsBlackhole ==
  Fires(10, listing.ghostingAts,
        IF listing.ghostingAts THEN "ATS_matches" ELSE "No_high_ghosting_ATS_detected")

HighApplicantCount ==
  IF listing.applicants = None THEN Silent(8, "Applicant_count_not_available")
  ELSE Fires(8, listing.applicants > 200, "n_applicants")

WeekendPosted ==
  IF listing.posted = None /\ ~listing.weekend THEN Silent(4, "No_posted_at_date_available")
  ELSE Fires(4, listing.weekend \/ listing.posted.weekday >= 5, "Posted_on_a_day")

PoorResponseHistory ==
  CASE enrichment = None -> Silent(8, "No_enrichment_data_available")
    [] enrichment # None /\ enrichment.noResponse = None ->
         Silent(8, "No_response_rate_data_available")
    [] OTHER -> Fires(8, enrichment.noResponse > 60, "No_response_rate_n")

Signals ==
  [listing_age |-> ListingAge, repost_detected |-> RepostDetected,
   no_salary_transparency |-> NoSalaryTransparency, always_open_pattern |-> AlwaysOpenPattern,
   staffing_agency |-> StaffingAgency, requirement_overload |-> RequirementOverload,
   layoff_news |-> LayoffNews, jd_vagueness |-> JdVagueness, ats_blackhole |-> AtsBlackhole,
   high_applicant_count |-> HighApplicantCount, weekend_posted |-> WeekendPosted,
   poor_response_history |-> PoorResponseHistory]

-----------------------------------------------------------------------------
\* Mutant: the phrases are those of the enrichment alone.
SkippedEnrichment == {"No_enrichment_data_available", "No_response_rate_data_available"}

\* The details that contain one of skip_phrases, in whatever case.
Skipped ==
  {"Applicant_count_not_available", "No_enrichment_data_available",
   "No_posted_at_date_available", "No_response_rate_data_available",
   "No_salary_information_provided"}

HasData(result) == result.detail \notin Skipped

(* score_job(): evaluable_count as the set of the signals counted, and the *)
(* trust score.                                                            *)
Evaluable == {s \in DOMAIN Signals : Signals[s].fires \/ HasData(Signals[s])}
Penalty(s) == IF Signals[s].fires THEN Signals[s].weight ELSE 0
RawPenalty ==
  Penalty("listing_age") + Penalty("repost_detected") + Penalty("no_salary_transparency")
  + Penalty("always_open_pattern") + Penalty("staffing_agency") + Penalty("requirement_overload")
  + Penalty("layoff_news") + Penalty("jd_vagueness") + Penalty("ats_blackhole")
  + Penalty("high_applicant_count") + Penalty("weekend_posted") + Penalty("poor_response_history")
TrustScore == IF RawPenalty > 100 THEN 0 ELSE 100 - RawPenalty

(* The scraper finds the date, the salary, the applicant count, or the     *)
(* enrichment.                                                             *)
FindPosted ==
  /\ listing.posted = None
  /\ \E p \in Posted : listing' = [listing EXCEPT !.posted = p]
  /\ UNCHANGED enrichment

FindSalary ==
  /\ ~listing.salary
  /\ listing' = [listing EXCEPT !.salary = TRUE]
  /\ UNCHANGED enrichment

FindApplicants ==
  /\ listing.applicants = None
  /\ \E n \in Applicants : listing' = [listing EXCEPT !.applicants = n]
  /\ UNCHANGED enrichment

FindEnrichment ==
  /\ enrichment = None
  /\ enrichment' \in Enrichment
  /\ UNCHANGED listing

FindResponseRate ==
  /\ enrichment # None /\ enrichment.noResponse = None
  /\ \E n \in Rates : enrichment' = [enrichment EXCEPT !.noResponse = n]
  /\ UNCHANGED listing

Next == FindPosted \/ FindSalary \/ FindApplicants \/ FindEnrichment \/ FindResponseRate
Spec == Init /\ [][Next]_vars

-----------------------------------------------------------------------------
(* The signals that have what they read, whatever their details say.       *)
WithEvidence ==
  DOMAIN Signals \ UNION {
    IF listing.posted = None THEN {"listing_age"} ELSE {},
    IF listing.posted = None /\ ~listing.weekend THEN {"weekend_posted"} ELSE {},
    IF listing.applicants = None THEN {"high_applicant_count"} ELSE {},
    IF enrichment = None THEN {"layoff_news", "poor_response_history"} ELSE {},
    IF enrichment # None /\ enrichment.noResponse = None
      THEN {"poor_response_history"} ELSE {}}

(* A missing salary is penalised: its signal fires, and counts. *)
FollowsEvidence ==
  LET fed == WithEvidence' \ WithEvidence
  IN  /\ Evaluable \cap fed = {}
      /\ Evaluable' = Evaluable \cup fed
      /\ IF listing'.salary = listing.salary THEN TrustScore' <= TrustScore
         ELSE TrustScore <= TrustScore' /\ TrustScore' <= TrustScore + 20

(* scorer.py:26-28, unevaluable signals "reduce confidence without adding  *)
(* penalty": what is found makes exactly the signals that read it count    *)
(* towards the confidence, and never raises the trust score, save a salary *)
(* found, which counted when it was missing and takes its penalty back.    *)
ScoreFollowsEvidence == [][Next => FollowsEvidence]_vars

(* scorer.py:34-35, "Signals that skip due to missing data always set      *)
(* triggered=False", one of them by "No salary information" (:58): nothing *)
(* missing costs a listing anything.                                       *)
MissingCostsNothing == [][Next => TrustScore' <= TrustScore]_vars
=============================================================================
