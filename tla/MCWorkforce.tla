------------------------------ MODULE MCWorkforce ------------------------------
(* Instances of the workforce, and what holds of the catalogue everywhere.  *)
EXTENDS Workforce

Person(type, division, location, family, grade) ==
  [type |-> type, division |-> division, location |-> location,
   family |-> family, grade |-> grade]

Chief       == Person("FTE", "CB", "FFT", "Credit Analysis", "Director")
Lead        == Person("FTE", "CB", "FFT", "Credit Analysis", "AVP")
Agency      == Person("Contractor", "IB", "LDN", "Quant", "Contractor")
BatchRunner == Person("Service", "CB", "LDN", "Payments Operations", "Analyst")
Trader      == Person("FTE", "IB", "LDN", "Trading", "Associate")

\* A head the seeding makes MD, and one of the identities the lifecycle treats
\* differently; the seeding decides whether the leaver is an orphan account.
MCSeeds ==
  << {[profile |-> Chief, status |-> "active"]},
     {[profile |-> Lead, status |-> "active"], [profile |-> Lead, status |-> "terminated"],
      [profile |-> BatchRunner, status |-> "active"], [profile |-> Agency, status |-> "active"]} >>
MCProfiles == {Trader, Agency}
MCPairs == {<<"MUREX-TRADER", "SETTLEMENTS">>}

\* Each toxic pair breaks a rule by itself.
ASSUME ToxicPairsConflict == \A pair \in ToxicPairs : SodConflicts(pair) # {}
=============================================================================
