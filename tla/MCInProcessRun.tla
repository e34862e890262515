--------------------------- MODULE MCInProcessRun ---------------------------
\* Instances of InProcessRun for TLC.
EXTENDS InProcessRun

Of(kind, cases, policies, who) ==
    [kind : {kind}, case : cases, policy : policies, who : who]

\* Every cell of the three experiments, with its fixed callers.
FixedConfigs ==
    Of("claims", FaultMode, {"baseline", "read-back"}, {"scripted", "workflow"})
    \cup Of("claims", {"none"}, {"baseline"}, {"false-success", "invalid-report"})
    \cup Of("responses", ResponseCase, {"pass-through", "validated"},
            {"scripted"})
    \cup Of("retries", RetryCase, RetryPolicy, {"scripted", "workflow"})

\* One cell per mechanism, driven by a model.
LiveConfigs ==
    Of("claims", {"dropped-write"}, {"baseline"}, {"live"})
    \cup Of("responses", {"wrong-create-title", "wrong-get-id"},
            {"pass-through", "validated"}, {"live"})
    \cup Of("retries", {"before-write-once", "lost-reply-once"},
            {"retry-unprotected", "retry-idempotent"}, {"live"})

SomeCalls == {Create("invoice"), Create(BlankTitle), Get(1)}
SomeContents == {[status |-> "completed", task |-> 1],
                 [status |-> "unknown", task |-> 0],
                 [status |-> "blank", task |-> 0]}
MCConfigs == FixedConfigs \cup LiveConfigs
=============================================================================
