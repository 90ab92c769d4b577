----------------------------- MODULE MCArtifacts ----------------------------
(***************************************************************************)
(* Artifacts for TLC: two executions, two concurrent decisions, and one    *)
(* download, one consumer and one retention worker next to them.           *)
(***************************************************************************)
EXTENDS Artifacts

CONSTANTS e1, e2, u1, u2, d1, c1, g1, v1, v2

TwoExecutors == {e1, e2}
TwoReviewers == {u1, u2}
OneDownload == {d1}
OneConsumer == {c1}
OnePurger == {g1}
TwoContents == {v1, v2}
=============================================================================
