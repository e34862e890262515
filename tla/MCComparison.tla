---------------------------- MODULE MCComparison ----------------------------
\* Instances of Comparison for TLC: every kind, one to five trials, which is all.
EXTENDS Comparison

AllDesigns == [kind : {"claims", "responses"}, trials : 1 .. 5, control : {FALSE}]
              \cup [kind : {"retries"}, trials : 1 .. 5, control : BOOLEAN]

\* The orders of every comparison are counterbalanced.
ASSUME DesignsAreCounterbalanced == \A d \in AllDesigns : OrderReverses(d)
=============================================================================
