-------------------------- MODULE MCShowcaseLifecycle --------------------------
(* Instances of ShowcaseLifecycle for TLC. *)
EXTENDS ShowcaseBuild, TLC

AwsSymmetry == Permutations(AwsSites)
SiteSymmetry == Permutations(AwsSites) \cup Permutations(AzureSites)
=============================================================================
