------------------------------ MODULE MCAccess ------------------------------
EXTENDS Access, TLC

Policy(scopes, mode, domains, expires) ==
  [scopes |-> scopes, mode |-> mode, domains |-> domains, patterns |-> {}, rate |-> 0,
   networks |-> {}, expires |-> expires, transports |-> {"header"}]

MCFull == Policy(AdminScopes, "all", {}, Never)
MCBounded == Policy(Writes({"api_keys"}), "all", {}, 1)
MCSelected == Policy(Reads({"api_keys"}), "selected", {"d"}, 1)

MCPolicies == {MCFull, MCSelected}
MCSymmetry == Permutations(Tasks)
=============================================================================
