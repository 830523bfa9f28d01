---------------------------- MODULE MCPipelineAgent ----------------------------
(* PipelineAgent on small instances for TLC: builds of two images that share a YAML  *)
(* file, a later build of the first image, and a build that failed in Tekton.        *)
EXTENDS PipelineAgent

MCImages == {"api", "web"}
MCImageOf == [b \in Builds |-> IF b = "web-1" THEN "web" ELSE "api"]
MCTagOf == [b \in Builds |-> IF b = "api-2" THEN "v2" ELSE "v1"]

\* Events of one build, and e3 of a build of the other image.
MCSharedFile == [e \in Events |-> IF e = "e3" THEN "web-1" ELSE "api-1"]

\* Two events of one build, and one of a later build of the same image.
MCSameImage == [e \in Events |-> IF e = "e3" THEN "api-2" ELSE "api-1"]

\* A build that succeeded and one that failed.
MCFailedBuild == [e \in Events |-> IF e = "e2" THEN "api-bad" ELSE "api-1"]
================================================================================
