---------------------------- MODULE Entitlements ----------------------------
(***************************************************************************)
(* The entitlement catalogue of the simulated bank, the baseline access a  *)
(* profile implies, and the segregation-of-duties rules (domain/           *)
(* entitlements.ts, sod.ts, org.ts).  A template is its key; of what the   *)
(* catalogue says of a template only the duties are kept (system, label,   *)
(* type, risk and scope shape the payload of an event, never a decision    *)
(* of the pool).  Divisions go by their short codes.                       *)
(***************************************************************************)
EXTENDS Integers, Sequences, TLC

Divisions == {"IB", "CB", "PB", "AM", "TDI", "OPS", "RSK", "CMP", "HR", "FIN"}
Locations == {"FFT", "LDN", "NYC", "SIN", "HKG", "BLR", "PNQ", "JAX"}
Types     == {"FTE", "Contractor", "Intern", "External", "Service"}
Statuses  == {"active", "onboarding", "suspended", "on_leave",
              "terminated", "disabled", "dormant"}

\* Career grades from the least to the most senior.
GradeOrder == <<"Intern", "Contractor", "Analyst", "Associate", "AVP", "VP", "Director", "MD">>
Grades     == {GradeOrder[i] : i \in 1..8}
Seniority(grade) == (CHOOSE i \in 1..8 : GradeOrder[i] = grade) - 1
AtLeast(grade, floor) == Seniority(grade) >= Seniority(floor)

\* The families that staff a division, and the one its machine accounts run under.
Families(division) ==
  CASE division = "IB"  -> {"Trading", "Sales", "Research", "Quant"}
    [] division = "CB"  -> {"Relationship Management", "Payments Operations",
                            "Credit Analysis", "Settlements"}
    [] division = "PB"  -> {"Wealth Advisory", "Relationship Management", "Credit Analysis"}
    [] division = "AM"  -> {"Portfolio Management", "Research", "Quant", "Sales"}
    [] division = "TDI" -> {"Software Engineering", "Site Reliability",
                            "Data Engineering", "Cybersecurity"}
    [] division = "OPS" -> {"Operations Processing", "Payments Operations", "Settlements"}
    [] division = "RSK" -> {"Risk Management", "Quant"}
    [] division = "CMP" -> {"Compliance & AFC", "Audit"}
    [] division = "HR"  -> {"Human Resources"}
    [] division = "FIN" -> {"Finance & Controlling", "Audit", "Legal"}

MachineFamily ==
  [division \in Divisions |->
     CASE division \in {"IB", "TDI"}        -> "Site Reliability"
       [] division = "CB"                   -> "Payments Operations"
       [] division \in {"PB", "HR"}         -> "Software Engineering"
       [] division \in {"AM", "RSK", "FIN"} -> "Data Engineering"
       [] division = "OPS"                  -> "Operations Processing"
       [] division = "CMP"                  -> "Cybersecurity"]

AllFamilies == UNION {Families(d) : d \in Divisions}

\* The families and grades an identity of a type can be drawn with.
FamiliesOf(type, division) ==
  IF type = "Service" THEN {MachineFamily[division]} ELSE Families(division)
GradesOf(type) ==
  CASE type = "Intern"     -> {"Intern"}
    [] type = "Contractor" -> {"Contractor"}
    [] type = "Service"    -> {"Analyst"}
    [] OTHER               -> {g \in Grades : AtLeast(g, "Analyst")}

-----------------------------------------------------------------------------
(* The duties of the templates; a template not listed carries none.        *)

DeskDuties ==
     "MUREX-TRADER"    :> {"trade.execute"}
  @@ "MUREX-APPROVER"  :> {"trade.confirm"}
  @@ "SETTLEMENTS"     :> {"trade.settle"}
  @@ "SAP-PAY-POST"    :> {"payment.initiate"}
  @@ "SAP-PAY-RELEASE" :> {"payment.release", "payment.approve"}
  @@ "SWIFT-OPERATOR"  :> {"payment.initiate"}
  @@ "WIRE-APPROVER"   :> {"payment.approve"}

ControlDuties ==
     "SAP-GL-POST"  :> {"gl.post"}
  @@ "SAP-GL-RECON" :> {"gl.reconcile"}
  @@ "SAP-VENDOR"   :> {"vendor.maintain"}
  @@ "IGA-APPROVER" :> {"access.approve"}
  @@ "ACTIMIZE"     :> {"aml.review"}
  @@ "AUDIT-REVIEW" :> {"audit.review"}

PrivilegedDuties ==
     "CYBERARK-UNIX"   :> {"privileged.unix"}
  @@ "CYBERARK-WIN"    :> {"privileged.windows"}
  @@ "CYBERARK-DBA"    :> {"privileged.dba"}
  @@ "AD-PRIV-ADMIN"   :> {"user.admin"}
  @@ "FIREFIGHTER-SAP" :> {"payment.release"}

DutyTable == DeskDuties @@ ControlDuties @@ PrivilegedDuties
Duties(key) == IF key \in DOMAIN DutyTable THEN DutyTable[key] ELSE {}

-----------------------------------------------------------------------------
(* The baseline of a profile, in the order the planners push it.           *)

When(condition, keys) == IF condition THEN keys ELSE <<>>

LocationGroup(location) == "AD-LOC-" \o location
DivisionGroup(division) == "AD-DIV-" \o division

BirthrightTemplates(p) ==
  <<"AD-ALL-STAFF", "MAILBOX", "SSO", LocationGroup(p.location), DivisionGroup(p.division)>>
    \o When(p.type # "Intern", <<"VPN">>)

DivisionBaselineTemplates(p) ==
  CASE p.division = "IB"  -> <<"BLOOMBERG", "MUREX-VIEW">>
                               \o When(/\ p.family \in {"Trading", "Sales"}
                                       /\ AtLeast(p.grade, "Associate"), <<"MUREX-TRADER">>)
    [] p.division = "AM"  -> <<"ALADDIN", "BLOOMBERG">>
    [] p.division = "CB"  -> <<"BLOOMBERG">>
                               \o When(p.family \in {"Payments Operations", "Settlements"},
                                       <<"SAP-PAY-POST">>)
                               \o When(p.family = "Payments Operations", <<"SWIFT-OPERATOR">>)
                               \o When(p.family = "Settlements", <<"SETTLEMENTS">>)
    [] p.division = "PB"  -> <<"AVALOQ">>
    [] p.division = "OPS" -> When(p.family = "Payments Operations",
                                  <<"SAP-PAY-POST", "SWIFT-OPERATOR">>)
                               \o When(p.family = "Settlements", <<"SETTLEMENTS">>)
                               \o When(p.family = "Operations Processing", <<"SAP-GL-RECON">>)
    [] p.division = "TDI" -> <<"GITHUB", "CICD", "AWS-DEV">>
                               \o When(p.family = "Cybersecurity", <<"SIEM">>)
                               \o When(/\ p.family \in {"Site Reliability", "Cybersecurity"}
                                       /\ AtLeast(p.grade, "AVP"),
                                       <<"CYBERARK-UNIX", "CYBERARK-WIN">>)
    [] p.division = "RSK" -> <<"RISK-ENGINE", "MUREX-VIEW">>
    [] p.division = "CMP" -> <<"ACTIMIZE", "AUDIT-REVIEW">>
    [] p.division = "FIN" -> <<"SAP-GL-POST">> \o When(p.family = "Audit", <<"AUDIT-REVIEW">>)
    [] p.division = "HR"  -> <<"SAP-HCM">>

\* Who may confirm, approve or release what others execute or initiate.
ApprovalOf(p) ==
  CASE p.division = "IB"  -> When(p.family \notin {"Trading", "Sales"}, <<"MUREX-APPROVER">>)
    [] p.division = "AM"  -> <<"MUREX-APPROVER">>
    [] p.division = "CB"  -> When(p.family \in {"Relationship Management", "Credit Analysis"},
                                  <<"WIRE-APPROVER">>)
    [] p.division = "FIN" -> <<"SAP-PAY-RELEASE">>
    [] OTHER              -> <<>>

GradePrivilegeTemplates(p) ==
  When(AtLeast(p.grade, "VP"), <<"IGA-APPROVER">> \o ApprovalOf(p))
    \o When(/\ AtLeast(p.grade, "Director")
            /\ p.division = "OPS"
            /\ p.family = "Operations Processing", <<"SAP-VENDOR">>)

ServiceTemplates(p) ==
  <<"SSO", DivisionGroup(p.division), "SVC-API-KEY", "SVC-ROLE", "SVC-CERT">>
    \o When(\/ p.family \in {"Payments Operations", "Settlements"}
            \/ p.division = "CB", <<"SWIFT-OPERATOR">>)

\* No planner repeats a key (CatalogueAssumption says so of every profile), so the
\* code's final de-duplication changes nothing.
BaselineTemplatesFor(p) ==
  IF p.type = "Service"
    THEN ServiceTemplates(p)
    ELSE BirthrightTemplates(p) \o DivisionBaselineTemplates(p) \o GradePrivilegeTemplates(p)

-----------------------------------------------------------------------------
(* Segregation of duties.                                                  *)

SodRules ==
  { [a |-> {"payment.initiate"}, b |-> {"payment.approve", "payment.release"}],
    [a |-> {"trade.execute"},    b |-> {"trade.settle"}],
    [a |-> {"trade.execute"},    b |-> {"trade.confirm"}],
    [a |-> {"vendor.maintain"},  b |-> {"payment.approve", "payment.release"}],
    [a |-> {"gl.post"},          b |-> {"gl.reconcile"}],
    [a |-> {"user.admin"},       b |-> {"audit.review"}],
    [a |-> {"access.approve"},   b |-> {"user.admin"}] }

\* The conflicts among the keys of the grants an identity holds: the rule and
\* the two different grants, each pair once whichever side comes first.
SodConflicts(keys) ==
  LET charged == {i \in DOMAIN keys : Duties(keys[i]) # {}}
      Sides(rule, i, j) == /\ Duties(keys[i]) \cap rule.a # {}
                           /\ Duties(keys[j]) \cap rule.b # {}
  IN {c \in SodRules \X charged \X charged :
        c[2] < c[3] /\ (Sides(c[1], c[2], c[3]) \/ Sides(c[1], c[3], c[2]))}

ToxicPairs ==
  { <<"SAP-PAY-POST", "SAP-PAY-RELEASE">>, <<"SAP-PAY-POST", "WIRE-APPROVER">>,
    <<"MUREX-TRADER", "SETTLEMENTS">>,     <<"SAP-VENDOR", "SAP-PAY-RELEASE">>,
    <<"AD-PRIV-ADMIN", "AUDIT-REVIEW">>,   <<"SAP-GL-POST", "SAP-GL-RECON">> }
=============================================================================
