--------------------------- MODULE MCComplianceRadar ---------------------------
(* A small instance of ComplianceRadar: two targets that are probed and one  *)
(* without a probe.                                                          *)
EXTENDS ComplianceRadar

MCRequested == <<"gitlab", "argocd", "tekton">>
================================================================================
