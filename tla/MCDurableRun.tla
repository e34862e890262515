---------------------------- MODULE MCDurableRun ----------------------------
(* Instances of DurableRun for TLC. *)
EXTENDS DurableRun

MCBackoff == <<1, 1>>

Offline(cases, script) ==
    {c \in [case : cases,
            policy : {"process-single", "bounded-retry", "observe", "terminate"},
            mode : {"offline"}, script : {script}] :
        c.policy \in PoliciesFor(c.case)}

\* Every case and policy with the create/read/report script.
MCOffline == Offline(Cases, "create-read-report-v1")

\* Two identical creations in one response, with the faults that lose a reply.
MCBatch == {c \in Offline({"exit-before-reply"}, "batch-two-v1") :
               c.policy = "bounded-retry"}

\* A live model: any mix of calls, reports, truncated and empty responses.
MCLive == {[case |-> "transient-once", policy |-> "bounded-retry",
            mode |-> "live", script |-> "create-read-report-v1"]}
MCLiveTurns ==
    {Asks(<<Create("wanted")>>),
     Asks(<<Create("other"), Get(1)>>),
     Asks(<<NoCall>>),
     [Asks(<<Create("other")>>) EXCEPT !.length = TRUE],
     [Says("unknown", 0) EXCEPT !.length = TRUE],
     Says("completed", 1), Says("blank", 0)}
MCConfigs == MCOffline \cup MCBatch \cup MCLive
=============================================================================
