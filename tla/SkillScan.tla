------------------------------ MODULE SkillScan -----------------------------
(***************************************************************************)
(* One scan of a skill (scanner.py, semantic_scanner.py): the controller,  *)
(* the scanner's process group, and for the semantic profile the gateway's *)
(* server thread (semantic_gateway.py) with one transport process at a     *)
(* time (semantic_transport.py).  Controller and server thread share the   *)
(* gateway's fields without a lock.  SkillSpector itself is external: it   *)
(* sends requests, may give one up and send it again, and reports.         *)
(***************************************************************************)
EXTENDS Naturals, Sequences

CONSTANTS
    Profiles,      \* profiles considered
    MaxRequests,   \* physical requests of a scan (12 in the code)
    MaxSends,      \* bound: requests the scanner sends
    Killable       \* whether the controller may be killed

ASSUME ScanAssumption ==
    /\ Profiles \subseteq {"static", "semantic"}
    /\ MaxRequests \in Nat \ {0} /\ MaxSends \in Nat
    /\ Killable \in BOOLEAN

VARIABLES
    profile,    \* never changes
    stubborn,   \* never changes: the processes ignore SIGTERM
    late,       \* the scan's deadline has passed (60 or 180 seconds)
    pc,         \* the controller
    failing,    \* an error is on its way to the handler of scan
    scanner,    \* the scanner's process group, with its account of the calls
    report,     \* raw-report.json: {} or one report
    pending,    \* connections not yet accepted by the server
    server,     \* the server thread
    process,    \* Gateway.process: TRUE when it holds a process
    transport,  \* the transport's process group
    gateway,    \* Gateway.requests, .error and .records
    saved       \* scan.json: {} or the result

world == <<profile, stubborn, late>>
control == <<pc, failing, saved>>
remote == <<scanner, report>>
thread == <<pending, server>>
shared == <<process, transport, gateway>>
vars == <<world, control, remote, thread, shared>>

Ended == {"saved", "crashed", "killed"}

Init ==
    /\ profile \in Profiles
    /\ stubborn \in BOOLEAN
    /\ late = FALSE
    /\ pc = "preflight"
    /\ failing = FALSE
    /\ scanner = [state |-> "none", waiting |-> 0, sent |-> 0,
                  attempted |-> 0, succeeded |-> 0]
    /\ report = {}
    /\ pending = << >>
    /\ server = "none"
    /\ process = FALSE
    /\ transport = "none"
    /\ gateway = [requests |-> 0, error |-> FALSE, records |-> << >>]
    /\ saved = {}

\* Mutant: a group that ignores SIGTERM is left alone.
StoppedPolitely(state) == IF stubborn THEN state ELSE "dead"

\* stop: SIGTERM, half a second, SIGKILL to the whole group, wait.
Stopped(state) == "dead"

-----------------------------------------------------------------------------
(* The controller *)

\* Input, scanner identity and, for the semantic profile, the local model.
Preflight ==
    /\ pc = "preflight"
    /\ \/ /\ failing' = TRUE
          /\ pc' = "grade"
          /\ UNCHANGED server
       \/ /\ pc' = "invoke"
          /\ server' = IF profile = "semantic" THEN "idle" ELSE "none"
          /\ UNCHANGED failing
    /\ UNCHANGED <<world, saved, remote, pending, shared>>

InvokeStarts ==
    /\ pc = "invoke"
    /\ scanner' = [scanner EXCEPT !.state = "running"]
    /\ pc' = "reading"
    /\ UNCHANGED <<world, failing, saved, report, thread, shared>>

\* invoke: until the pipes are closed and the worker has exited, the deadline
\* passes or 4 MiB of output are exceeded; then whatever is left is stopped.
InvokeEnds ==
    /\ pc = "reading"
    /\ \/ scanner.state \in {"exited", "dead"} /\ UNCHANGED failing
       \/ failing' = TRUE
    /\ scanner' = [scanner EXCEPT !.state = Stopped(@)]
    /\ pc' = IF profile = "semantic" THEN "check" ELSE "grade"
    /\ UNCHANGED <<world, saved, report, thread, shared>>

\* Mutant: the gateway's error is not looked at.
CheckReportOnly ==
    /\ pc = "check"
    /\ pc' = "exit"
    /\ UNCHANGED <<world, failing, saved, remote, thread, shared>>

Check ==
    /\ pc = "check"
    /\ failing' = (failing \/ gateway.error)
    /\ pc' = "exit"
    /\ UNCHANGED <<world, saved, remote, thread, shared>>

\* __exit__ looks whether there is a process to stop ...
ExitLooks ==
    /\ pc = "exit"
    /\ pc' = IF process THEN "exit-stop" ELSE "shutdown"
    /\ UNCHANGED <<world, failing, saved, remote, thread, shared>>

\* ... and reads the field again: the server thread may have cleared it, and
\* the AttributeError of stop(None) is none that scan handles.
ExitStops ==
    /\ pc = "exit-stop"
    /\ IF process
       THEN /\ pc' = "shutdown"
            /\ transport' = Stopped(transport)
            /\ UNCHANGED server
       ELSE /\ pc' = "crashed"
            /\ server' = "gone"
            /\ UNCHANGED transport
    /\ UNCHANGED <<world, failing, saved, remote, pending, process, gateway>>

\* Mutant: the server thread is told to stop, not waited for.
ShutdownUnawaited ==
    /\ pc = "shutdown"
    /\ pc' = "grade"
    /\ UNCHANGED <<world, failing, saved, remote, thread, shared>>

\* shutdown waits for the request in progress, server_close drops the rest.
Shutdown ==
    /\ pc = "shutdown"
    /\ server = "idle"
    /\ server' = "stopped"
    /\ pending' = << >>
    /\ pc' = "grade"
    /\ UNCHANGED <<world, failing, saved, remote, shared>>

\* normalize and normalize_semantic: is the report that of a complete scan?
Complete(r) ==
    /\ r.complete
    /\ profile = "semantic" =>
          /\ gateway.requests >= 1
          /\ r.attempted >= 1 /\ r.attempted = r.succeeded
          /\ r.attempted <= gateway.requests

\* The result is saved, also that of a scan that failed: the snapshot may have
\* changed, and evidence above its limit is truncated.
Grade ==
    /\ pc = "grade"
    /\ \E spoiled \in BOOLEAN :
          saved' = {[status |->
                        IF failing \/ spoiled \/ ~\E r \in report : Complete(r)
                        THEN "error"
                        ELSE IF \E r \in report : r.safe THEN "admitted"
                        ELSE "blocked",
                     requests |-> gateway.requests]}
    /\ pc' = "saved"
    /\ UNCHANGED <<world, failing, remote, thread, shared>>

Kill ==
    /\ Killable
    /\ pc \notin Ended
    /\ pc' = "killed"
    /\ server' = IF server = "none" THEN "none" ELSE "gone"
    /\ UNCHANGED <<world, failing, saved, remote, pending, shared>>

Deadline ==
    /\ ~late
    /\ late' = TRUE
    /\ UNCHANGED <<profile, stubborn, control, remote, thread, shared>>

-----------------------------------------------------------------------------
(* The scanner's process *)

Send(valid) ==
    /\ scanner.sent < MaxSends
    /\ pending' = Append(pending, [id |-> scanner.sent + 1, valid |-> valid])
    /\ UNCHANGED <<world, control, report, server, shared>>

\* A logical call of an analyzer, one at a time.
Call ==
    /\ scanner.state = "running" /\ profile = "semantic"
    /\ scanner.waiting = 0
    /\ \E valid \in BOOLEAN : Send(valid)
    /\ scanner' = [scanner EXCEPT !.waiting = scanner.sent + 1, !.sent = @ + 1,
                                  !.attempted = @ + 1]

\* The client library gives a request up and sends it again, or gives up.
Retry ==
    /\ scanner.state = "running"
    /\ scanner.waiting # 0
    /\ Send(TRUE)
    /\ scanner' = [scanner EXCEPT !.waiting = scanner.sent + 1, !.sent = @ + 1]

Abandon ==
    /\ scanner.state = "running"
    /\ scanner.waiting # 0
    /\ scanner' = [scanner EXCEPT !.waiting = 0]
    /\ UNCHANGED <<world, control, report, thread, shared>>

\* The worker ends, with or without a report; a report tells what it did.
ScannerExits ==
    /\ scanner.state = "running"
    /\ scanner.waiting = 0
    /\ report' \in {{}} \cup {{[complete |-> complete, safe |-> safe,
                                attempted |-> scanner.attempted,
                                succeeded |-> scanner.succeeded]} :
                              complete \in BOOLEAN, safe \in BOOLEAN}
    /\ scanner' = [scanner EXCEPT !.state = "exited"]
    /\ UNCHANGED <<world, control, thread, shared>>

\* Mutant: only the static profile gets a timer.
ScannerAlarmStatic ==
    /\ scanner.state = "running" /\ profile = "static"
    /\ late
    /\ scanner' = [scanner EXCEPT !.state = "dead"]
    /\ UNCHANGED <<world, control, report, thread, shared>>

\* The worker's own timer, should nobody stop it.
ScannerAlarm ==
    /\ scanner.state = "running"
    /\ late
    /\ scanner' = [scanner EXCEPT !.state = "dead"]
    /\ UNCHANGED <<world, control, report, thread, shared>>

-----------------------------------------------------------------------------
(* The server thread: one request at a time *)

Receive ==
    /\ server = "idle"
    /\ pending # << >>
    /\ server' = "exchange"
    /\ UNCHANGED <<world, control, remote, pending, shared>>

\* A request that has an answer; persist may find the records too large.
Answer(ok) ==
    /\ server' = "idle"
    /\ pending' = Tail(pending)
    /\ scanner' = IF scanner.state = "running"
                       /\ scanner.waiting = Head(pending).id
                  THEN [scanner EXCEPT !.waiting = 0,
                                       !.succeeded = IF ok THEN @ + 1 ELSE @]
                  ELSE scanner
    /\ UNCHANGED <<world, control, report>>

Admissible ==
    /\ ~gateway.error /\ Head(pending).valid
    /\ ~late /\ gateway.requests < MaxRequests

\* Another endpoint, an unsupported request, a limit, an earlier error: the
\* error stays, and nothing is counted.
Refuse ==
    /\ server = "exchange"
    /\ ~Admissible
    /\ gateway' = [gateway EXCEPT !.error = TRUE]
    /\ Answer(FALSE)
    /\ UNCHANGED <<process, transport>>

Truncated == <<"truncated">>

\* Counted and recorded before anything is sent.
Admit ==
    /\ server = "exchange"
    /\ Admissible
    /\ \/ /\ gateway' = [gateway EXCEPT !.requests = @ + 1,
                                        !.records = Append(@, "started")]
          /\ server' = "spawn"
          /\ UNCHANGED <<pending, remote, control, world>>
       \/ /\ gateway' = [requests |-> gateway.requests + 1, error |-> TRUE,
                         records |-> Truncated]
          /\ Answer(FALSE)
    /\ UNCHANGED <<process, transport>>

Spawn ==
    /\ server = "spawn"
    /\ \/ /\ transport' = "running"
          /\ process' = TRUE
          /\ server' = "communicate"
          /\ UNCHANGED <<gateway, pending, remote, control, world>>
       \/ /\ gateway' = [gateway EXCEPT !.error = TRUE]
          /\ Answer(FALSE)
          /\ UNCHANGED <<process, transport>>

\* The model answers usably, or the transport fails.
TransportEnds ==
    /\ transport = "running"
    /\ transport' \in {"answered", "dead"}
    /\ UNCHANGED <<world, control, remote, thread, process, gateway>>

\* communicate returns, or its timeout expires (a transport has a timer of its
\* own, too); then the group is stopped.
Communicated ==
    /\ server = "communicate"
    /\ server' = IF transport = "answered" THEN "completed" ELSE "failed"
    /\ transport' = Stopped(transport)
    /\ UNCHANGED <<world, control, remote, pending, process, gateway>>

Clear ==
    /\ server \in {"completed", "failed"}
    /\ process' = FALSE
    /\ gateway' = [gateway EXCEPT !.records =
                      [@ EXCEPT ![Len(@)] = server]]
    /\ server' = IF server = "completed" THEN "reply" ELSE "reply-error"
    /\ UNCHANGED <<world, control, remote, pending, transport>>

\* The last persist comes before the answer and may set the error as well.
Reply ==
    /\ server \in {"reply", "reply-error"}
    /\ \/ gateway' = [gateway EXCEPT !.error = (@ \/ server = "reply-error")]
       \/ gateway' = [gateway EXCEPT !.error = TRUE, !.records = Truncated]
    /\ Answer(server = "reply")
    /\ UNCHANGED <<process, transport>>

Controller == \/ Preflight \/ InvokeStarts \/ InvokeEnds \/ Check \/ ExitLooks
              \/ ExitStops \/ Shutdown \/ Grade
Server == \/ Receive \/ Refuse \/ Admit \/ Spawn \/ Communicated \/ Clear
          \/ Reply
Worker == Call \/ Retry \/ Abandon \/ ScannerExits

Next == \/ Controller \/ Server \/ Worker \/ TransportEnds \/ ScannerAlarm
        \/ Deadline \/ Kill

Spec == Init /\ [][Next]_vars

\* Time passes, timers fire, threads are scheduled; the scanner may hang.
FairSpec ==
    /\ Spec
    /\ WF_vars(Deadline) /\ WF_vars(Controller) /\ WF_vars(Server)
    /\ WF_vars(ScannerAlarm) /\ WF_vars(TransportEnds)

-----------------------------------------------------------------------------
(* Properties *)

TypeOK ==
    /\ profile \in Profiles
    /\ pc \in {"preflight", "invoke", "reading", "check", "exit", "exit-stop",
               "shutdown", "grade"} \cup Ended
    /\ failing \in BOOLEAN /\ process \in BOOLEAN
    /\ scanner.state \in {"none", "running", "exited", "dead"}
    /\ scanner.attempted <= scanner.sent /\ scanner.waiting <= scanner.sent
    /\ scanner.succeeded <= scanner.attempted
    /\ Len(pending) <= MaxSends
    /\ server \in {"none", "idle", "exchange", "spawn", "communicate",
                   "completed", "failed", "reply", "reply-error", "stopped",
                   "gone"}
    /\ transport \in {"none", "running", "answered", "dead"}
    /\ gateway.requests <= MaxRequests
    /\ Len(gateway.records) <= gateway.requests
    /\ (pc = "saved") <=> (saved # {})

\* An admission is clean: whatever the scanner gave up and sent again, and
\* whatever overflowed after an answer was made, a scan is only admitted when
\* every request of the gateway completed and is on record (PLAN.md: failed or
\* truncated scans never become clean admission).
AdmittedIsClean ==
    \A r \in saved :
        r.status = "admitted" /\ profile = "semantic" =>
            /\ ~gateway.error
            /\ Len(gateway.records) = gateway.requests
            /\ \A i \in DOMAIN gateway.records :
                  gateway.records[i] = "completed"

\* The limit and the first error bind every later request, also those that
\* were waiting to be accepted when the error was made, and those that arrive
\* while the controller is on its way out.
NothingSentAfterError ==
    [][transport # "running" /\ transport' = "running" =>
          ~gateway.error /\ gateway.requests <= MaxRequests]_vars

\* A scan that is saved leaves no process, even one that ignores SIGTERM.
NothingOutlivesTheScan ==
    pc = "saved" => scanner.state # "running" /\ transport # "running"

\* Once the result is saved its evidence is final: the server thread neither
\* counts nor records nor sends anything more.
SavedEvidenceIsFinal ==
    [][pc = "saved" => UNCHANGED <<gateway, transport, server>>]_vars

\* The counters of scanner and gateway fit together, and an admission is clean.
ScanIsSound == TypeOK /\ AdmittedIsClean

\* An error, and the end of the scan, are final: nothing is sent after the one
\* and nothing changes after the other.
EvidenceIsFinal == NothingSentAfterError /\ SavedEvidenceIsFinal

\* Even when the controller is killed and nothing supervises the processes, or
\* the scanner hangs, the scan ends and every process does.
EventuallyQuiet ==
    <>(pc \in Ended /\ scanner.state # "running" /\ transport # "running")

\* "On failure, retain the failure, mark semantic evidence incomplete"
\* (PLAN.md): a scan whose controller lives ends with a saved result.
FailureIsRetained == pc # "crashed"
=============================================================================
