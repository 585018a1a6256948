-------------------------- MODULE CollectorClaims --------------------------
(* What the documentation says of the collector and the code does not do.  *)
EXTENDS Collector

\* collector.py:139, the docstring of snapshot(): "Any failed or malformed
\* field is UNSUPPORTED and has an entry in both the snapshot's and
\* collector's diagnostic mapping."
EveryGapHasAnEntry ==
    report.op = "snapshot" =>
        \A f \in LiveFields : report.got[f] = 0 => f \in DOMAIN report.why
=============================================================================
