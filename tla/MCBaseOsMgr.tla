----------------------------- MODULE MCBaseOsMgr -----------------------------
(* Instances of BaseOsMgr, in its arbitrary environment, for TLC *)
EXTENDS BaseOsMgr

CONSTANTS v1, v2, v3

\* Every image has the version it is configured for
MCImageOf == [v \in Versions |-> v]

\* No update, or an update to a version the device was not installed with
MCConfigs == {NoConfig} \cup [ver : Versions \ {v1}, activate : {TRUE}, retry : RetryCounters]
=============================================================================
