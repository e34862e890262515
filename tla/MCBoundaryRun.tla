--------------------------- MODULE MCBoundaryRun ---------------------------
(* Instances of BoundaryRun for TLC. *)
EXTENDS BoundaryRun, EvaluatorAudit

MCTitles == {"requested", "updated", "canary", "changed"}
MCOpIds == (1 .. MaxModelCalls) \X (0 .. MaxToolCalls) \X {0, 1}

Both == {"enforce", "audit"}

\* Every M11 scenario under both permission policies, and the admissions that
\* keep the run from starting.
MCScenarios ==
    [case : M11Cases, permission_policy : Both, scan_policy : {"enforce"},
     mode : {"offline"}, surface : {"skill"}, context_policy : {"cached"},
     scan : {"clean"}]
    \cup
    [case : {"approved"}, permission_policy : {"enforce"}, scan_policy : Both,
     mode : {"offline"}, surface : {"skill"}, context_policy : {"cached"},
     scan : {"blocked", "error"}]

\* Every M12 delivery and every M13 memory, under all their policies.
MCContexts ==
    [case : M12Cases, permission_policy : Both, scan_policy : Both,
     mode : {"offline"}, surface : {"skill", "task", "tool"},
     context_policy : {"cached"}, scan : {"clean", "blocked"}]
    \cup
    [case : M13Cases, permission_policy : Both, scan_policy : {"enforce"},
     mode : {"offline"}, surface : {"skill"},
     context_policy : {"cached", "refresh"}, scan : {"clean"}]

\* A live model in a manual run, and one that reads and asks what it likes.
MCLiveBoundary ==
    [case : {"manual", "cross-operation", "memory-stale-approval"},
     permission_policy : {"enforce"}, scan_policy : {"enforce"},
     mode : {"live"}, surface : {"skill"}, context_policy : {"cached"},
     scan : {"clean"}]
    \cup
    [case : {"injection"}, permission_policy : {"enforce"},
     scan_policy : {"audit"}, mode : {"live"}, surface : {"task"},
     context_policy : {"cached"}, scan : {"blocked"}]
MCLiveTurns ==
    {Asks(<<Create("requested"), Create("requested")>>),
     Asks(<<Get(SourceId), Create("canary")>>),
     Asks(<<Create("updated"), GetRequest, BadCall>>),
     [Asks(<<Create("canary")>>) EXCEPT !.length = TRUE],
     Says("completed", 2), Says("blank", 0)}
MCConfigs == MCScenarios \cup MCContexts \cup MCLiveBoundary
=============================================================================
