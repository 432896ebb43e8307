------------------------- MODULE MCEnvoyDeployments -------------------------
EXTENDS EnvoyDeployments

MCSpec(static, dynamic, budget, shutdown, admin, e) ==
  [static |-> static, dynamic |-> dynamic, pdb |-> budget, shutdown |-> shutdown,
   adminPort |-> admin, ports |-> <<>>, cluster |-> None, ds |-> DSName, ec |-> e]

MCSpecs ==
  {MCSpec(1, FALSE, {"min"}, TRUE, None, "e1"),
   MCSpec(None, TRUE, {}, FALSE, None, "e1"),
   MCSpec(None, FALSE, {}, TRUE, 9902, "e1"),
   MCSpec(1, TRUE, {}, FALSE, None, "e1"),
   MCSpec(None, FALSE, {"min", "max"}, FALSE, None, "e1")}

MCAnnotation(ports, mappings, quantity, admin, enabled, hooks) ==
  [node |-> "n1", cluster |-> None, ports |-> ports, hostPorts |-> mappings,
   resources |-> {quantity}, adminPort |-> admin, mgrPort |-> NotANumber,
   enabled |-> enabled, ds |-> None, hooks |-> hooks]

MCAnnotations ==
  {MCAnnotation(None, None, None, None, "true", <<"app">>),
   MCAnnotation(<< <<"http", 8080>> >>, << <<"http", 8081>> >>, "50m", 80, "true", None),
   MCAnnotation(<< <<"http", 80>> >>, None, None, None, "false", None),
   MCAnnotation(None, None, NotANumber, None, "true", <<"app">>),
   MCAnnotation(None, None, None, None, "true", <<"other">>)}
=============================================================================
