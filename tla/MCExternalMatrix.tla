-------------------------- MODULE MCExternalMatrix --------------------------
\* Instances of ExternalMatrix for TLC.
EXTENDS ExternalMatrix

\* Every lifecycle alone, and two that follow one another.
OneOrTwo ==
    {<<l>> : l \in Lifecycles}
    \cup {<<[mode |-> "same", condition |-> "healthy"],
            [mode |-> "same", condition |-> "healthy"]>>}

\* A framework that calls the sink again does so where one lifecycle is alone.
MoreAlone(p) == IF Len(p) = 1 THEN 2 ELSE 1
=============================================================================
