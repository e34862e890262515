--------------------------- MODULE MCVerification ---------------------------
\* Instances of Verification for TLC.
EXTENDS Verification

Good == [builds |-> TRUE, fixed |-> TRUE, suite |-> "pass", tested |-> TRUE,
         outside |-> FALSE, repo |-> "kept"]

\* Good work, and good work with one or two defects.  A suite with missing or
\* skipped tests, or without an inventory, has one verdict: one stands for all.
SomeTrees ==
    {Good, [Good EXCEPT !.builds = FALSE], [Good EXCEPT !.suite = "skipped"],
     [Good EXCEPT !.tested = FALSE, !.outside = TRUE],
     [Good EXCEPT !.fixed = FALSE, !.suite = "fail"]}
    \cup {[Good EXCEPT !.repo = r] : r \in {"moved", "broken"}}

\* Each claim has a verdict of its own, so all of them are as good as any; a
\* report without claims grades like one that cannot be read.
SomeClaims == {Claims}
=============================================================================
