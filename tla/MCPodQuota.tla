----------------------------- MODULE MCPodQuota -----------------------------
(* PodQuota for TLC: quotas on one scope of Kubernetes. *)
EXTENDS PodQuota, TLC

StandardQuotas == {{NativeRequirement(scope)} : scope \in Natives}

PodSymmetry == Permutations(Pods)
=============================================================================
