----------------------------- MODULE MCPoolSync -----------------------------
(* PoolSync on contents that lie on either side of the review gate.        *)
EXTENDS PoolSync

MCServices == {"http", "cron"}
MCOneService == {"http"}

\* 13 of 20 is less than 70 per cent; from 13 to 20 is no anomaly.
MCContents ==
  {[format |-> "yaml", accepted |-> 20, rules |-> {"a"}],
   [format |-> "yaml", accepted |-> 13, rules |-> {"b"}]}
=============================================================================
