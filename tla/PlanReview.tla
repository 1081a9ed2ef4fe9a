---------------------------- MODULE PlanReview ----------------------------
(***************************************************************************)
(* What a reviewer is shown of a saved Terraform plan before it is         *)
(* applied, what the drift report says, and which plans an initial         *)
(* construction admits (packages/deployment-authority/src:                 *)
(* saved-plan-semantic-review.js, terraform-drift.js,                      *)
(* foundation-bootstrap-impact.js, bootstrap-initialization.js).           *)
(*                                                                         *)
(* A plan lists changes of resource instances; the summaries merge the     *)
(* instances of a resource under its address without the instance key.     *)
(* An address is <<resource, key>>; before and after are functions on the  *)
(* attributes a resource has; the flags of a change are either of the      *)
(* whole value (all) or of some attributes (of).  Terraform (external)     *)
(* makes the plans.                                                        *)
(***************************************************************************)
EXTENDS Naturals, SequencesExt

CONSTANTS Attrs,            \* attributes of resources
          MaxAttributes,    \* MAX_REPORTED_RESOURCE_ATTRIBUTES
          MaxReviewed,      \* MAX_SAVED_PLAN_REVIEW_ADDRESSES
          MaxReported,      \* MAX_REDACTED_TERRAFORM_ADDRESSES
          MaxOutputs,       \* MAX_REPORTED_OUTPUT_NAMES
          MaxNodes,         \* MAX_CHANGE_VALUE_NODES
          Plans             \* the plans Terraform may make

\* What an instance gives the constants.
PlanReviewConstants ==
  \A n \in {MaxAttributes, MaxReviewed, MaxReported, MaxOutputs, MaxNodes} : n \in Nat

VARIABLES plan,     \* the plan under review
          pc,       \* the next check of the review
          review,   \* the review so far
          report,   \* the drift report
          built     \* the plan as an initial construction: by phase

vars == <<plan, pc, review, report, built>>

Classes == {"create", "update", "replace", "delete", "read-only"}

NoSummary == [counts |-> [c \in Classes |-> 0], addresses |-> <<>>, omitted |-> 0, ok |-> TRUE]

NoReview == [resources |-> NoSummary, attributes |-> <<>>, drift |-> NoSummary, outputs |-> {}, impact |-> {}]

Init ==
  /\ plan \in Plans
  /\ pc = "disposition"
  /\ review = NoReview
  /\ report = "none"
  /\ built = "none"

----------------------------------------------------------------------------
(* Summaries of resource changes.                                          *)

\* An address as it is shown: the instance key is left out.
redactTerraformResourceAddress(a) == <<a[1], IF a[2] = "none" THEN "none" ELSE "*">>

ActionClass == (<<"create">> :> "create") @@ (<<"update">> :> "update") @@ (<<"delete">> :> "delete")
               @@ (<<"delete", "create">> :> "replace") @@ (<<"create", "delete">> :> "replace")
               @@ (<<"read">> :> "read-only") @@ (<<"no-op">> :> "none")

\* The class of a change; other sequences are refused.
classifyTerraformActionSequence(actions) ==
  IF actions \in DOMAIN ActionClass THEN ActionClass[actions] ELSE "refused"

\* Where an address sorts.
Rank(a) == CHOOSE i \in 1 .. 10 : <<<<"data", "*">>, <<"data", "none">>, <<"foundation", "*">>, <<"foundation", "none">>,
                                    <<"guardrail", "*">>, <<"guardrail", "none">>, <<"other", "*">>, <<"other", "none">>,
                                    <<"state", "*">>, <<"state", "none">>>>[i] = a

\* Faulty variant: the class last seen at an address replaces the earlier ones.
AddChangeLast(sum, c) ==
  LET class == classifyTerraformActionSequence(c.actions)
      a == redactTerraformResourceAddress(c.address)
  IN  CASE class = "refused" -> [sum EXCEPT !.ok = FALSE]
        [] class = "none" -> sum
        [] OTHER -> [sum EXCEPT !.counts[class] = @ + 1, !.addresses = (a :> {class}) @@ @]

AddChange(sum, c) ==
  LET class == classifyTerraformActionSequence(c.actions)
      a == redactTerraformResourceAddress(c.address)
      seen == IF a \in DOMAIN sum.addresses THEN sum.addresses[a] ELSE {}
  IN  CASE class = "refused" -> [sum EXCEPT !.ok = FALSE]
        [] class = "none" -> sum
        [] OTHER -> [sum EXCEPT !.counts[class] = @ + 1, !.addresses = (a :> seen \cup {class}) @@ @]

\* Counts per class, and the classes at each address, the first addresses only.
summarizeTerraformPlan(changes, limit) ==
  LET sum == FoldLeft(AddChange, NoSummary, changes)
      shown == {a \in DOMAIN sum.addresses :
                  Cardinality({b \in DOMAIN sum.addresses : Rank(b) < Rank(a)}) < limit}
  IN  [sum EXCEPT !.addresses = [a \in shown |-> sum.addresses[a]],
                  !.omitted = Cardinality(DOMAIN sum.addresses) - Cardinality(shown)]

SumOf(counts) == FoldFunction(LAMBDA x, y : x + y, 0, counts)

\* The same summary as the drift check reads it back: counts and addresses must agree.
validateTerraformDriftSummary(s) ==
  LET total == SumOf(s.counts)
      listed == Cardinality(DOMAIN s.addresses)
  IN  /\ s.ok
      /\ listed <= MaxReported
      /\ \A a \in DOMAIN s.addresses : s.addresses[a] # {} /\ \A c \in s.addresses[a] : s.counts[c] # 0
      /\ listed + s.omitted <= total
      /\ total > 0 => listed + s.omitted # 0
      /\ total = 0 => listed = 0 /\ s.omitted = 0

----------------------------------------------------------------------------
(* The attributes of a change.                                             *)

\* The attributes with a flag; a flag must be of an attribute the resource has, unless
\* the value is not known yet.
parseTopLevelFlaggedAttributes(flags, known, unmaterialized) ==
  IF flags.all THEN [ok |-> known # {}, of |-> known]
  ELSE [ok |-> unmaterialized \/ flags.of \subseteq known, of |-> flags.of]

summarizeResourceChangeAttributes(c) ==
  LET before == DOMAIN c.before
      after == DOMAIN c.after
      known == before \cup after
      sensBefore == parseTopLevelFlaggedAttributes(c.sensBefore, before, FALSE)
      unknown == parseTopLevelFlaggedAttributes(c.unknown, after, TRUE)
      sensAfter == parseTopLevelFlaggedAttributes(c.sensAfter, after \cup unknown.of, FALSE)
  IN  [ok |-> /\ Cardinality(known) <= MaxAttributes
              /\ sensBefore.ok /\ unknown.ok /\ sensAfter.ok
              /\ c.paths \subseteq known
              /\ c.paths # {} => classifyTerraformActionSequence(c.actions) = "replace",
       changed |-> {x \in known : ~(x \in before /\ x \in after /\ c.before[x] = c.after[x])},
       sensitive |-> sensBefore.of \cup sensAfter.of,
       unknown |-> unknown.of,
       replacement |-> c.paths]

\* What looking at a change takes from the budget: every value and every flag.
consumeChangeValueBudget(c) ==
  LET valueCost(f) == IF DOMAIN f = {} THEN 1 ELSE Cardinality(DOMAIN f)
  IN  valueCost(c.before) + valueCost(c.after)
        + Cardinality(c.sensBefore.of) + Cardinality(c.sensAfter.of) + Cardinality(c.unknown.of)

NoAttributes == [changed |-> {}, sensitive |-> {}, unknown |-> {}, replacement |-> {}]

\* The attributes of all instances of a resource are merged under its address.
AddAttributes(acc, c) ==
  LET a == redactTerraformResourceAddress(c.address)
      s == summarizeResourceChangeAttributes(c)
      old == IF a \in DOMAIN acc.of THEN acc.of[a] ELSE NoAttributes
      new == [k \in DOMAIN NoAttributes |-> old[k] \cup s[k]]
      nodes == acc.nodes + consumeChangeValueBudget(c)
  IN  IF classifyTerraformActionSequence(c.actions) = "none" THEN acc
      ELSE [ok |-> /\ acc.ok /\ s.ok /\ nodes <= MaxNodes
                   /\ \A k \in DOMAIN new : Cardinality(new[k]) <= MaxAttributes,
            nodes |-> nodes,
            of |-> (a :> new) @@ acc.of]

summarizeChangedAddresses(changes) == FoldLeft(AddAttributes, [ok |-> TRUE, nodes |-> 0, of |-> <<>>], changes)

----------------------------------------------------------------------------
(* The review, check by check.                                             *)

Proceed(ok, from, to) == pc = from /\ pc' = IF ok THEN to ELSE "refused"

\* The plan is of the reviewed Terraform, complete and without errors.
admitPlanDisposition ==
  /\ Proceed(plan.reviewed /\ plan.complete /\ ~plan.errored, "disposition", "unsupported")
  /\ UNCHANGED <<plan, review, report, built>>

\* Deferred changes, action invocations, moves and imports are not reviewed.
rejectUnsupportedPlanActions ==
  /\ Proceed(~plan.deferred /\ \A s \in {plan.changes, plan.drift} : \A i \in DOMAIN s : ~s[i].moved,
             "unsupported", "resources")
  /\ UNCHANGED <<plan, review, report, built>>

SummarizeResources ==
  LET s == summarizeTerraformPlan(plan.changes, MaxReviewed)
  IN  /\ Proceed(s.ok /\ s.omitted = 0, "resources", "attributes")
      /\ review' = [review EXCEPT !.resources = s]
      /\ UNCHANGED <<plan, report, built>>

\* Every address that is shown must have been seen again, with its attributes.
SummarizeAttributes ==
  LET s == summarizeChangedAddresses(plan.changes)
      shown == DOMAIN review.resources.addresses
  IN  /\ pc = "attributes"
      /\ pc' = CASE ~s.ok -> "refused" [] s.ok /\ ~(shown \subseteq DOMAIN s.of) -> "mismatch" [] OTHER -> "drift"
      /\ review' = [review EXCEPT !.attributes = IF pc' = "drift" THEN [a \in shown |-> s.of[a]] ELSE <<>>]
      /\ UNCHANGED <<plan, report, built>>

SummarizeDrift ==
  LET s == summarizeTerraformPlan(plan.drift, MaxReviewed)
  IN  /\ Proceed(s.ok /\ s.omitted = 0, "drift", "outputs")
      /\ review' = [review EXCEPT !.drift = s]
      /\ UNCHANGED <<plan, report, built>>

summarizeOutputChanges ==
  LET class(o) == classifyTerraformActionSequence(o.actions)
      names == {o.name : o \in {p \in plan.outputs : class(p) # "none"}}
  IN  /\ Proceed(/\ \A o \in plan.outputs : class(o) # "refused"
                 /\ Cardinality(names) <= MaxOutputs, "outputs", "semantic")
      /\ review' = [review EXCEPT !.outputs = names]
      /\ UNCHANGED <<plan, report, built>>

\* Terraform's own word on whether there is something to apply must be borne out.
assertSemanticPlanDisposition ==
  /\ Proceed(plan.applyable = (SumOf(review.resources.counts) # 0 \/ review.outputs # {}), "semantic", "checks")
  /\ UNCHANGED <<plan, review, report, built>>

summarizeChecks ==
  /\ Proceed(plan.checks \subseteq {"pass", "unknown"}, "checks", "impact")
  /\ UNCHANGED <<plan, review, report, built>>

FoundationNames == {"foundation", "state"}
FoundationOutputs == {"foundation_output"}
FoundationExact == {<<"guardrail", "requestShape">>}

\* Does the Foundation lane depend on the resource?
isFoundationBootstrapResourceAddress(a) == a \in FoundationExact \/ a[1] \in FoundationNames

\* The impact of a Bootstrap plan on Foundation, from the addresses as they are shown.
classifyFoundationBootstrapImpact ==
  /\ Proceed(TRUE, "impact", "admitted")
  /\ review' = [review EXCEPT !.impact =
       IF plan.root # "bootstrap" THEN {}
       ELSE {a \in DOMAIN review.attributes : isFoundationBootstrapResourceAddress(a)}
            \cup {<<o, "output">> : o \in review.outputs \cap FoundationOutputs}]
  /\ UNCHANGED <<plan, report, built>>

----------------------------------------------------------------------------
(* The drift report and the initial construction.                          *)

\* The report, which leaves addresses beyond its limit out, is written and read back.
ReportDrift ==
  LET s == summarizeTerraformPlan(plan.changes, MaxReported)
  IN  /\ report = "none"
      /\ report' = CASE ~s.ok -> "failed" [] s.ok /\ validateTerraformDriftSummary(s) -> "admitted" [] OTHER -> "refused"
      /\ UNCHANGED <<plan, pc, review, built>>

BackendResources == {<<"state", "none">>}

\* The first plan only creates the state backend; the second creates the rest and
\* may touch the backend, but nothing is deleted or replaced.
assertConstructionResourceChange(c, phase) ==
  /\ c.actions \in {<<"create">>, <<"read">>, <<"no-op">>, <<"update">>}
  /\ IF c.address[1] = "data" THEN c.actions \in {<<"read">>, <<"no-op">>}
     ELSE IF phase = "backend" THEN c.address \in BackendResources /\ c.actions = <<"create">>
     ELSE c.address \in BackendResources \/ c.actions = <<"create">>

admitBootstrapConstructionPlan(phase) ==
  LET ok == /\ plan.complete /\ ~plan.errored
            /\ \A i \in DOMAIN plan.changes : assertConstructionResourceChange(plan.changes[i], phase)
  IN  /\ built = "none"
      /\ built' = IF ok /\ summarizeTerraformPlan(plan.changes, MaxReviewed).ok THEN phase ELSE "refused"
      /\ UNCHANGED <<plan, pc, review, report>>

Next ==
  \/ admitPlanDisposition \/ rejectUnsupportedPlanActions \/ SummarizeResources \/ SummarizeAttributes
  \/ SummarizeDrift \/ summarizeOutputChanges \/ assertSemanticPlanDisposition \/ summarizeChecks
  \/ classifyFoundationBootstrapImpact
  \/ ReportDrift
  \/ \E phase \in {"backend", "control-plane"} : admitBootstrapConstructionPlan(phase)

Spec == Init /\ [][Next]_vars

----------------------------------------------------------------------------
(* Properties.                                                             *)

Effective == {i \in DOMAIN plan.changes : plan.changes[i].actions # <<"no-op">>}

Does(c, action) == action \in Range(c.actions)

Admitted == pc = "admitted"

\* The two passes over the changes never disagree on which addresses change, so the
\* internal error of the review cannot happen.
TypeOK ==
  /\ pc \in {"disposition", "unsupported", "resources", "attributes", "drift", "outputs", "semantic", "checks",
             "impact", "admitted", "refused"}
  /\ DOMAIN review.resources.counts = Classes

\* Nothing that a reviewed plan does is hidden: every change, merged with those of other
\* instances, is under its address with what it does and the attributes it changes.
NothingHidden ==
  Admitted =>
    /\ \A i \in Effective :
         LET c == plan.changes[i]
             a == redactTerraformResourceAddress(c.address)
             classes == review.resources.addresses[a]
             shown == review.attributes[a]
         IN  /\ a \in DOMAIN review.attributes
             /\ Does(c, "delete") => classes \cap {"delete", "replace"} # {}
             /\ Does(c, "create") => classes \cap {"create", "replace"} # {}
             /\ Does(c, "update") => "update" \in classes
             /\ \A x \in Attrs :
                  x \in c.unknown.of \/ ((x \in DOMAIN c.before) # (x \in DOMAIN c.after))
                    \/ (x \in DOMAIN c.before \cap DOMAIN c.after /\ c.before[x] # c.after[x])
                    => x \in shown.changed \cup shown.unknown
    /\ \A o \in plan.outputs : o.actions # <<"no-op">> => o.name \in review.outputs
    /\ \A i \in DOMAIN plan.drift : plan.drift[i].actions # <<"no-op">> =>
         redactTerraformResourceAddress(plan.drift[i].address) \in DOMAIN review.drift.addresses

\* A value that is sensitive before or after a change is marked under its address, also
\* when the new value is not known yet; the display relies on it to hide values.
SensitiveIsMarked ==
  Admitted =>
    \A i \in Effective :
      LET c == plan.changes[i]
      IN  c.sensBefore.of \cup c.sensAfter.of \subseteq
            review.attributes[redactTerraformResourceAddress(c.address)].sensitive

\* The impact that a review of a Bootstrap plan names: every change of a resource that
\* Foundation depends on by its name, whatever the instance, and of an output it reads,
\* and nothing that Foundation does not depend on, by its name or by its exact address.
ImpactIsTrue ==
  Admitted /\ plan.root = "bootstrap" =>
    LET changed == {plan.changes[i].address : i \in Effective}
        outputs == {o.name : o \in {p \in plan.outputs : p.actions # <<"no-op">>}} \cap FoundationOutputs
        named == {a[1] : a \in review.impact}
    IN  /\ {a[1] : a \in {b \in changed : b[1] \in FoundationNames}} \cup outputs \subseteq named
        /\ named \subseteq {a[1] : a \in {b \in changed : isFoundationBootstrapResourceAddress(b)}} \cup outputs

\* A Bootstrap plan that changes an instance listed with its exact address, the shared
\* request-shape policy, names it in the impact on Foundation, as
\* foundation-bootstrap-impact.test.ts:61 says.
ExactImpactIsNamed ==
  Admitted /\ plan.root = "bootstrap" =>
    \A i \in Effective : plan.changes[i].address \in FoundationExact =>
      \E a \in review.impact : a[1] = plan.changes[i].address[1]

\* A drift report that was written from a plan is admitted when it is read back.
DriftSummaryAdmitted == report # "refused"

\* No plan of an initial construction deletes or replaces, whatever the summary's own
\* classification says, and the first one only makes the state backend.
ConstructionNeverDestroys ==
  LET s == summarizeTerraformPlan(plan.changes, MaxReviewed)
  IN  built \in {"backend", "control-plane"} =>
        /\ s.counts["delete"] = 0 /\ s.counts["replace"] = 0
        /\ built = "backend" => \A a \in DOMAIN s.addresses : a \in BackendResources \/ s.addresses[a] = {"read-only"}

============================================================================
