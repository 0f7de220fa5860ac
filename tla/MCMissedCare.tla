----------------------------- MODULE MCMissedCare -----------------------------
(* The deployments TLC considers: none of the imperfections, all of them, and  *)
(* the largest sets under which a conditional property is still claimed.      *)
EXTENDS MissedCare

FiveDeployments ==
    {{}, {"tick"}, {"consumer", "tick"}, {"tick", "race"}, {"consumer", "tick", "race"}}
===============================================================================
