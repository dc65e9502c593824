------------------------------ MODULE MCResources ------------------------------
(***************************************************************************)
(* Two hooks, with every combination of URI, clusters, rules and selector; *)
(* the second mutates.                                                     *)
(***************************************************************************)
EXTENDS Resources

MCHook(n, mutates) ==
    [name : {n}, uri : {"/u1", "/u2"}, classic : BOOLEAN, hypershift : BOOLEAN,
     rules : BOOLEAN, mutation : {mutates}, selector : Selector]

MCHooks ==
    {<<g, h>> : g \in MCHook("namespace-validation", FALSE),
                h \in MCHook("service-mutation", TRUE)}

NoFilter ==
    [syncset : BOOLEAN, package : BOOLEAN, show : {FALSE},
     exclude : {{"debug-hook"}, {"namespace-validation"}}, only : {{}}]

\* -only with one of the hooks.
OnlyOne ==
    [syncset : {TRUE}, package : {FALSE}, show : {FALSE},
     exclude : {{"debug-hook"}}, only : {{"namespace-validation"}}]

\* -showhooks with each of the outputs.
ShowHooks ==
    [syncset : BOOLEAN, package : BOOLEAN, show : {TRUE},
     exclude : {{"debug-hook"}}, only : {{}}]

MCOptions == NoFilter \cup ShowHooks

MCObject == {Base} \cup {Configuration(hs[i]) : hs \in MCHooks, i \in 1..2}
=============================================================================
