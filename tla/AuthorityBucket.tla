--------------------------- MODULE AuthorityBucket ---------------------------
(***************************************************************************)
(* The audit of an authority bucket's policy, packages/deployment-         *)
(* authority/src/authority-bucket-policy.js.  The audit reads the          *)
(* statements of a bucket policy and claims that those it accepts protect  *)
(* the bucket "without per-role IAM simulation"; here an accepted policy   *)
(* is evaluated against every request.                                     *)
(*                                                                         *)
(* A policy starts as one of the forms the repository's Terraform writes   *)
(* and is edited: statements are removed, and arbitrary ones added.        *)
(* Object keys are grouped into the resources the specification names.     *)
(* The pointer resource, deployment/<target>/<root>/..., contains the      *)
(* immutable objects too.  A publisher is named for some families only:    *)
(* the plan packages and the checkpoint have one, the approvals, which are *)
(* immutable as well, have none.                                           *)
(***************************************************************************)
EXTENDS Integers, FiniteSets

CONSTANTS
  MaxEdits    \* bound: edits made to a policy that the Terraform writes

VARIABLES
  policy,     \* the statements, a set
  versioning, \* the bucket's versioning status
  edits

vars == <<policy, versioning, edits>>

(* Resources, the objects each one matches, and the principals that may write them. *)
Resources == {"immutable", "packages", "pointer", "checkpoint", "retired"}
Objects == {"packageObject", "approvalObject", "pointerObject", "retiredObject", "otherObject"}
Principals == {"planRole", "smokeRole", "otherRole"}
ObjectsOf(r) ==
  CASE r = "immutable" -> {"packageObject", "approvalObject"}
    [] r = "packages" -> {"packageObject"}
    [] r = "pointer" -> {"pointerObject", "packageObject", "approvalObject"}
    [] r = "checkpoint" -> {"pointerObject"}
    [] r = "retired" -> {"retiredObject"}

(* One entry of the closed audit inventory. *)
specification ==
  [ immutable |-> {"immutable"}, pointer |-> {"pointer"}, retired |-> {"retired"},
    deletionProtected |-> {"pointer", "retired"},
    publishers |-> [r \in {"packages", "checkpoint"} |-> IF r = "packages" THEN "planRole" ELSE "smokeRole"] ]

(* Statements: who, what, which resources (or all but them), and under which condition. *)
Put == "s3:PutObject"
Deletes == {"s3:DeleteObject", "s3:DeleteObjectVersion"}
NoCondition == [test |-> "none", value |-> ""]
CreateOnly == [test |-> "if-none-match is not", value |-> "*"]
Conditional == [test |-> "if-none-match is not * and if-match is absent", value |-> ""]
Ambiguous == [test |-> "if-none-match and if-match are present", value |-> ""]
PrincipalIsNot(p) == [test |-> "aws:PrincipalArn is not", value |-> p]
HeaderConditions == {CreateOnly, Conditional, Ambiguous}
PrincipalConditions == {PrincipalIsNot(p) : p \in Principals}

Statement(effect, who, actions, resources, negated, condition) ==
  [effect |-> effect, principal |-> who, actions |-> actions, resources |-> resources, negated |-> negated,
   condition |-> condition]
Deny(actions, resources, condition) == Statement("Deny", "*", actions, resources, FALSE, condition)

Named == {[resources |-> {r}, negated |-> FALSE] : r \in Resources}
           \cup [resources : {{"immutable", "pointer"}}, negated : BOOLEAN]
           \cup {[resources |-> {"pointer"}, negated |-> TRUE], [resources |-> {"pointer", "retired"}, negated |-> FALSE]}
(* A statement that allows is taken without a condition: it allows the most. *)
Statements ==
  {Statement(form[1], form[2], actions, named.resources, named.negated, form[3]) :
     form \in ({"Deny"} \X {"*", "otherRole"} \X ({NoCondition} \cup HeaderConditions \cup PrincipalConditions))
                \cup {<<"Allow", "*", NoCondition>>},
     actions \in {{Put}, Deletes, {"s3:DeleteObject"}}, named \in Named}

(* What the repository's Terraform writes: with the retired namespace denied, or with all     *)
(* but the current namespaces denied.                                                         *)
Protecting ==
  {Deny(Deletes, {"pointer", "retired"}, NoCondition), Deny({Put}, {"immutable"}, CreateOnly),
   Deny({Put}, {"pointer"}, Conditional), Deny({Put}, {"pointer"}, Ambiguous),
   Deny({Put}, {"packages"}, PrincipalIsNot("planRole")), Deny({Put}, {"checkpoint"}, PrincipalIsNot("smokeRole"))}

RetiredForm == Protecting \cup {Deny({Put}, {"retired"}, NoCondition)}
ClosedForm == Protecting \cup {Statement("Deny", "*", {Put}, {"immutable", "pointer"}, TRUE, NoCondition)}

-----------------------------------------------------------------------------
(* The audit. *)

hasConditionalWriteHeader(st) == st.condition \in HeaderConditions
hasPrincipalArnCondition(st) == st.condition \in PrincipalConditions
unconditional(st) == st.condition = NoCondition
(* A statement with NotResource has no Resource to overlap. *)
overlapsResources(st, expected) == ~st.negated /\ st.resources \cap expected # {}
Covered(sts) == UNION {st.resources : st \in sts}

(* Lists are compared with their length, so a resource named by two statements does not match. *)
coverExactly(sts, expected) ==
  /\ \A st \in sts : ~st.negated
  /\ Covered(sts) = expected
  /\ \A s1, s2 \in sts : s1 # s2 => s1.resources \cap s2.resources = {}

requireDeletionDeny ==
  LET proofs == {st \in policy : /\ st.effect = "Deny"
                                 /\ overlapsResources(st, specification.deletionProtected)
                                 /\ st.principal = "*"
                                 /\ unconditional(st)
                                 /\ st.actions = Deletes
                                 /\ st.resources \subseteq specification.deletionProtected}
  IN Covered(proofs) = specification.deletionProtected

conditionalPutDenies(resources) ==
  {st \in policy : st.effect = "Deny" /\ st.actions = {Put} /\ hasConditionalWriteHeader(st)
                   /\ overlapsResources(st, resources)}

requireImmutableCreateOnlyDeny ==
  LET candidates == conditionalPutDenies(specification.immutable)
      matching == {st \in candidates : st.condition = CreateOnly}
  IN /\ \A st \in candidates : st.principal = "*"
     /\ matching # {}
     /\ coverExactly(matching, specification.immutable)

(* Two conditions at once not asked about. *)
requirePointerDeniesOne ==
  LET candidates == conditionalPutDenies(specification.pointer)
      conditional == {st \in candidates : st.condition = Conditional}
  IN /\ \A st \in candidates : st.principal = "*"
     /\ conditional # {}
     /\ coverExactly(conditional, specification.pointer)

requirePointerDenies ==
  LET candidates == conditionalPutDenies(specification.pointer)
      conditional == {st \in candidates : st.condition = Conditional}
      ambiguous == {st \in candidates : st.condition = Ambiguous}
  IN /\ \A st \in candidates : st.principal = "*"
     /\ conditional # {}
     /\ coverExactly(conditional, specification.pointer)
     /\ ambiguous # {}
     /\ coverExactly(ambiguous, specification.pointer)

requirePublisherRestrictions ==
  \A r \in DOMAIN specification.publishers :
    LET matches == {st \in policy : st.effect = "Deny" /\ st.actions = {Put} /\ ~st.negated
                                    /\ st.resources = {r} /\ hasPrincipalArnCondition(st)}
    IN /\ Cardinality(matches) = 1
       /\ \A st \in matches : st.principal = "*" /\ st.condition = PrincipalIsNot(specification.publishers[r])

closedNamespace == {st \in policy : st.effect = "Deny" /\ st.actions = {Put} /\ st.negated}
isClosing(st) ==
  /\ unconditional(st)
  /\ st.principal = "*"
  /\ st.resources = specification.immutable \cup specification.pointer

requireRetiredWriteDeny ==
  IF Cardinality(closedNamespace) = 1
    THEN \A st \in closedNamespace : isClosing(st)
    ELSE LET candidates == {st \in policy : /\ st.effect = "Deny"
                                            /\ st.actions = {Put}
                                            /\ overlapsResources(st, specification.retired)
                                            /\ unconditional(st)}
         IN /\ \A st \in candidates : st.principal = "*" /\ st.resources \subseteq specification.retired
            /\ coverExactly(candidates, specification.retired)

auditAuthorityBucketPolicyObservation ==
  /\ versioning = "Enabled"
  /\ requireDeletionDeny
  /\ requireImmutableCreateOnlyDeny
  /\ requirePointerDenies
  /\ requirePublisherRestrictions
  /\ requireRetiredWriteDeny

-----------------------------------------------------------------------------
(* How S3 evaluates a policy: a request is refused when some Deny statement matches it. *)

Headers == {"none", "if-none-match", "if-match", "both"}
holds(condition, request) ==
  CASE condition = NoCondition -> TRUE
    [] condition = CreateOnly -> request.header \notin {"if-none-match", "both"}
    [] condition = Conditional -> request.header = "none"
    [] condition = Ambiguous -> request.header = "both"
    [] condition \in PrincipalConditions -> request.principal # condition.value

denied(request) ==
  \E st \in policy :
    LET named == \E r \in st.resources : request.object \in ObjectsOf(r) IN
    /\ st.effect = "Deny"
    /\ st.principal = "*" \/ st.principal = request.principal
    /\ request.action \in st.actions
    /\ IF st.negated THEN ~named ELSE named
    /\ holds(st.condition, request)

Write(object, principal, header) == [action |-> Put, object |-> object, principal |-> principal, header |-> header]

-----------------------------------------------------------------------------
Init ==
  /\ policy \in {RetiredForm, ClosedForm}
  /\ versioning = "Enabled"
  /\ edits = 0

Remove == \E st \in policy : policy' = policy \ {st} /\ UNCHANGED versioning
Add == \E st \in Statements \ policy : policy' = policy \cup {st} /\ UNCHANGED versioning
Suspend == versioning = "Enabled" /\ versioning' = "Suspended" /\ UNCHANGED policy

Next ==
  /\ edits < MaxEdits
  /\ edits' = edits + 1
  /\ Remove \/ Add \/ Suspend

Spec == Init /\ [][Next]_vars

-----------------------------------------------------------------------------
(* Properties. *)

accepted == auditAuthorityBucketPolicyObservation

TypeOK ==
  /\ policy \subseteq (Statements \cup RetiredForm \cup ClosedForm)
  /\ versioning \in {"Enabled", "Suspended"}
  /\ edits \in 0 .. MaxEdits
  /\ edits = 0 => accepted

(* In an accepted bucket an immutable record is written once: nobody can put one without     *)
(* If-None-Match, whatever statements the policy has besides (requireImmutableCreateOnlyDeny). *)
ImmutableWrittenOnce ==
  accepted => \A o \in ObjectsOf("immutable"), p \in Principals, h \in Headers \ {"if-none-match", "both"} :
                denied(Write(o, p, h))

(* In an accepted bucket a current record is only replaced by compare-and-swap: a put with   *)
(* no condition, or with two that S3 may treat as either, is refused (requirePointerDenies). *)
PointersAreSwapped ==
  accepted => \A o \in ObjectsOf("pointer"), p \in Principals, h \in {"none", "both"} :
                denied(Write(o, p, h))

(* In an accepted bucket no version of an authority record, current or retired, can be      *)
(* deleted, and deleted versions cannot make history look different (requireDeletionDeny).   *)
HistoryIsKept ==
  accepted => /\ versioning = "Enabled"
              /\ \A o \in Objects \ {"otherObject"}, p \in Principals, a \in Deletes :
                   denied([action |-> a, object |-> o, principal |-> p, header |-> "none"])

(* In an accepted bucket a record of a family with a named publisher has that one writer     *)
(* (requirePublisherRestrictions) and the retired namespaces have none                       *)
(* (requireRetiredWriteDeny).                                                                *)
OneWriter ==
  accepted => /\ \A p \in Principals \ {"planRole"}, h \in Headers : denied(Write("packageObject", p, h))
              /\ \A p \in Principals \ {"smokeRole"}, h \in Headers : denied(Write("pointerObject", p, h))
              /\ \A p \in Principals, h \in Headers : denied(Write("retiredObject", p, h))

(* What the Terraform writes does not lock its own publishers out: the plan role creates     *)
(* packages, the smoke role creates and swaps the checkpoint, and an approval is created by  *)
(* whichever role its own policy allows to.                                                  *)
PublishersCanWrite ==
  edits = 0 => /\ ~denied(Write("packageObject", "planRole", "if-none-match"))
               /\ \A p \in Principals : ~denied(Write("approvalObject", p, "if-none-match"))
               /\ \A h \in {"if-none-match", "if-match"} : ~denied(Write("pointerObject", "smokeRole", h))
=============================================================================
