------------------------- MODULE SkillScan_proofs --------------------------
(***************************************************************************)
(* Theorems about SkillScan, for any number of requests the scanner sends  *)
(* and any limit of the gateway.  The inductive invariant relates the      *)
(* queue of connections to the scanner's account of its calls (a call that *)
(* is still owed an answer is the last one in the queue), the gateway's    *)
(* records to what its thread is doing, and both to how far the controller *)
(* has come: an error made after the controller looked for one belongs to  *)
(* a request the scanner's own report already disowns.                     *)
(***************************************************************************)
EXTENDS SkillScan, TLAPS

Working == {"exchange", "spawn", "communicate", "completed", "failed",
            "reply", "reply-error"}
InProgress == {"spawn", "communicate", "completed", "failed"}
Owed == IF scanner.waiting = 0 THEN 0 ELSE 1

ScannerType == [state : {"none", "running", "exited", "dead"}, waiting : Nat,
                sent : Nat, attempted : Nat, succeeded : Nat]
Entries == {"started", "completed", "failed", "truncated"}
Request == [id : Nat, valid : BOOLEAN]
Report == [complete : BOOLEAN, safe : BOOLEAN, attempted : Nat, succeeded : Nat]

TypesInv ==
    /\ profile \in Profiles
    /\ pc \in {"preflight", "invoke", "reading", "check", "exit", "exit-stop",
               "shutdown", "grade"} \cup Ended
    /\ failing \in BOOLEAN /\ process \in BOOLEAN
    /\ scanner \in ScannerType
    /\ report \in SUBSET Report
    /\ pending \in Seq(Request)
    /\ server \in {"none", "idle", "stopped", "gone"} \cup Working
    /\ transport \in {"none", "running", "answered", "dead"}
    /\ gateway \in [requests : Nat, error : BOOLEAN, records : Seq(Entries)]

\* Connections wait in the order they were sent, the newest last; the scanner
\* waits for the newest or for none, and a call it gave up is never made good.
QueueInv ==
    /\ scanner.sent <= MaxSends
    /\ Len(pending) <= scanner.sent
    /\ \A i \in 1 .. Len(pending) :
          pending[i].id = scanner.sent - Len(pending) + i
    /\ scanner.waiting \in {0, scanner.sent}
    /\ scanner.state = "running" /\ scanner.waiting # 0 => Len(pending) > 0
    /\ scanner.attempted <= scanner.sent
    /\ scanner.succeeded + Owed <= scanner.attempted
    /\ scanner.waiting = 0 /\ Len(pending) > 0
          => scanner.succeeded < scanner.attempted
    /\ server \in Working => Len(pending) > 0

\* Where the controller is, what lives: scanner, server thread, transport.
ControlInv ==
    /\ scanner.state = "running" => pc \in {"reading", "killed"}
    /\ pc \in {"preflight", "invoke"} =>
          scanner.state = "none" /\ scanner.waiting = 0
    /\ pc = "preflight" => server = "none"
    /\ profile = "static" => server = "none"
    /\ pc \in {"check", "exit", "exit-stop", "shutdown"} => profile = "semantic"
    /\ server = "gone" => pc \in {"crashed", "killed"}
    /\ pc \in {"crashed", "killed"} => server \in {"none", "gone"}
    /\ pc \in {"grade", "saved"} => server \in {"none", "stopped"}
    /\ transport = "running" => server \in {"communicate", "gone"}
    /\ (pc = "saved") <=> (saved # {})

\* A report is the last thing the scanner does, and accounts for its calls.
ReportInv ==
    \A r \in report :
        /\ scanner.state \in {"exited", "dead"}
        /\ scanner.waiting = 0
        /\ r.attempted = scanner.attempted /\ r.succeeded = scanner.succeeded

\* A gateway without an error has completed everything it counted, but for the
\* request in progress.
RecordsInv ==
    /\ gateway.requests <= MaxRequests
    /\ Len(gateway.records) <= gateway.requests
    /\ server \in InProgress \cup {"reply", "reply-error"} =>
          ~gateway.error /\ Len(gateway.records) > 0
    /\ ~gateway.error =>
          /\ Len(gateway.records) = gateway.requests
          /\ \A i \in 1 .. Len(gateway.records) :
                \/ gateway.records[i] = "completed"
                \/ /\ i = Len(gateway.records)
                   /\ server \in InProgress \cup {"reply-error", "gone"}

\* Once the controller has looked, an error is known to it, unless the report
\* does not count as that of a complete scan anyway.
CheckedInv ==
    /\ pc \in {"exit", "exit-stop", "shutdown", "grade"}
    /\ profile = "semantic"
    /\ ~failing
    /\ \E r \in report : r.attempted = r.succeeded
    => ~gateway.error

ScanInv == /\ TypesInv /\ QueueInv /\ ControlInv /\ ReportInv
           /\ RecordsInv /\ CheckedInv /\ AdmittedIsClean

-----------------------------------------------------------------------------
LEMMA Limits == MaxRequests \in Nat /\ MaxRequests > 0 /\ MaxSends \in Nat
  BY ScanAssumption DEF ScanAssumption

LEMMA TailFacts ==
    ASSUME NEW S, NEW s \in Seq(S), Len(s) > 0
    PROVE  /\ Tail(s) \in Seq(S) /\ Len(Tail(s)) = Len(s) - 1
           /\ \A i \in 1 .. Len(s) - 1 : Tail(s)[i] = s[i + 1]
           /\ Head(s) = s[1] /\ Head(s) \in S
  OBVIOUS

LEMMA AppendFacts ==
    ASSUME NEW S, NEW s \in Seq(S), NEW e \in S
    PROVE  /\ Append(s, e) \in Seq(S) /\ Len(Append(s, e)) = Len(s) + 1
           /\ Append(s, e)[Len(s) + 1] = e
           /\ \A i \in 1 .. Len(s) : Append(s, e)[i] = s[i]
  OBVIOUS

LEMMA ExceptFacts ==
    ASSUME NEW S, NEW s \in Seq(S), NEW e \in S, NEW n \in Nat
    PROVE  [s EXCEPT ![n] = e] \in Seq(S)
  <1>1. s \in [1 .. Len(s) -> S] /\ Len(s) \in Nat
    OBVIOUS
  <1>2. [s EXCEPT ![n] = e] \in [1 .. Len(s) -> S]
    BY <1>1
  <1> QED BY <1>1, <1>2

LEMMA TruncatedIs == Truncated \in Seq(Entries) /\ Len(Truncated) = 1
  <1>1. \A x \in Entries : <<x>> \in Seq(Entries) /\ Len(<<x>>) = 1
    <2> SUFFICES ASSUME NEW x \in Entries
                 PROVE  <<x>> \in Seq(Entries) /\ Len(<<x>>) = 1
        OBVIOUS
    <2>1. Append(<< >>, x) \in Seq(Entries)
      OBVIOUS
    <2>2. Append(<< >>, x) = <<x>>
      OBVIOUS
    <2>3. Len(<<x>>) = 1
      OBVIOUS
    <2> QED BY <2>1, <2>2, <2>3
  <1>2. Truncated = <<"truncated">> /\ "truncated" \in Entries
    BY DEF Truncated, Entries
  <1> QED BY <1>1, <1>2, Zenon

\* The fields of the scanner's account.
LEMMA ScannerParts ==
    ASSUME scanner \in ScannerType
    PROVE  /\ scanner.waiting \in Nat /\ scanner.sent \in Nat
           /\ scanner.attempted \in Nat /\ scanner.succeeded \in Nat
  BY DEF ScannerType

-----------------------------------------------------------------------------
\* An answer takes the oldest connection, and settles the call that waits for
\* it, if it is that call's newest.
LEMMA AnswerFacts ==
    ASSUME TypesInv, QueueInv, server \in Working,
           NEW ok \in BOOLEAN, Answer(ok)
    PROVE  /\ server' = "idle" /\ pending' \in Seq(Request)
           /\ scanner' \in ScannerType /\ QueueInv'
           /\ scanner'.state = scanner.state
           /\ scanner.state # "running" => scanner' = scanner
           /\ UNCHANGED <<world, control, report>>
  <1>0. /\ scanner \in ScannerType /\ pending \in Seq(Request)
        /\ scanner.waiting \in Nat /\ scanner.sent \in Nat
        /\ scanner.attempted \in Nat /\ scanner.succeeded \in Nat
        /\ Len(pending) \in Nat /\ Len(pending) > 0
    BY ScannerParts DEF TypesInv, QueueInv
  <1>1. /\ pending' \in Seq(Request) /\ Len(pending') = Len(pending) - 1
        /\ \A i \in 1 .. Len(pending) - 1 : pending'[i] = pending[i + 1]
        /\ Head(pending) = pending[1]
    BY <1>0, TailFacts DEF Answer
  <1>2. Head(pending).id = scanner.sent - Len(pending) + 1
    BY <1>0, <1>1 DEF QueueInv
  <1>3. server' = "idle" /\ UNCHANGED <<world, control, report>>
    BY DEF Answer
  <1>4. \A i \in 1 .. Len(pending') :
            pending'[i].id = scanner.sent - Len(pending') + i
    <2> SUFFICES ASSUME NEW i \in 1 .. Len(pending')
                 PROVE  pending'[i].id = scanner.sent - Len(pending') + i
        OBVIOUS
    <2>1. i \in 1 .. Len(pending) - 1 /\ i + 1 \in 1 .. Len(pending)
      BY <1>0, <1>1
    <2>2. pending[i + 1].id = scanner.sent - Len(pending) + (i + 1)
      BY <2>1 DEF QueueInv
    <2>3. pending'[i].id = pending[i + 1].id
      <3>1. pending'[i] = pending[i + 1]
        BY <1>1, <2>1
      <3> QED BY <3>1
    <2>4. scanner.sent - Len(pending) + (i + 1)
              = scanner.sent - Len(pending') + i
      <3>1. \A a, l, k \in Nat : a - l + (k + 1) = a - (l - 1) + k
        OBVIOUS
      <3>2. Len(pending') = Len(pending) - 1 /\ i \in Nat
        BY <1>1, <2>1
      <3>3. scanner.sent \in Nat /\ Len(pending) \in Nat
        BY <1>0
      <3>4. scanner.sent - Len(pending) + (i + 1)
                = scanner.sent - (Len(pending) - 1) + i
        BY <3>1, <3>2, <3>3
      <3> QED BY <3>2, <3>4
    <2> QED BY <2>2, <2>3, <2>4
  <1>5. CASE scanner.state = "running" /\ scanner.waiting = Head(pending).id
    <2>1. scanner' = [scanner EXCEPT !.waiting = 0,
                          !.succeeded = IF ok THEN @ + 1 ELSE @]
      BY <1>5 DEF Answer
    <2> DEFINE n == IF ok THEN scanner.succeeded + 1 ELSE scanner.succeeded
    <2>a. n \in Nat
      BY <1>0
    <2>b. scanner' = [scanner EXCEPT !.waiting = 0, !.succeeded = n]
      BY <2>1, Zenon
    <2> HIDE DEF n
    <2>c. scanner' \in ScannerType /\ scanner'.succeeded = n
      BY <1>0, <2>a, <2>b DEF ScannerType
    <2>2. /\ scanner' \in ScannerType /\ scanner'.state = scanner.state
          /\ scanner'.waiting = 0 /\ scanner'.sent = scanner.sent
          /\ scanner'.attempted = scanner.attempted
          /\ scanner'.succeeded
                = IF ok THEN scanner.succeeded + 1 ELSE scanner.succeeded
      BY <1>0, <2>b, <2>c DEF ScannerType, n
    <2>3. scanner.waiting # 0 /\ scanner.waiting = scanner.sent
      BY <1>0, <1>2, <1>5 DEF QueueInv
    <2>4. Len(pending') = 0
      BY <1>0, <1>1, <1>2, <1>5, <2>3
    <2>5. scanner.succeeded + 1 <= scanner.attempted
      BY <2>3 DEF QueueInv, Owed
    <2>6. QueueInv'
      BY <1>0, <1>3, <1>4, <2>2, <2>4, <2>5 DEF QueueInv, Owed, Working
    <2> QED BY <1>1, <1>3, <1>5, <2>2, <2>6
  <1>6. CASE ~(scanner.state = "running" /\ scanner.waiting = Head(pending).id)
    <2>1. scanner' = scanner
      BY <1>6 DEF Answer
    <2>2. scanner.state = "running" /\ scanner.waiting # 0 => Len(pending') > 0
      <3> SUFFICES ASSUME scanner.state = "running", scanner.waiting # 0
                   PROVE  Len(pending') > 0
          OBVIOUS
      <3>1. scanner.waiting = scanner.sent
        BY DEF QueueInv
      <3>2. Len(pending) = 1 => Head(pending).id = scanner.sent
        BY <1>0, <1>2
      <3>3. Len(pending) # 1
        BY <1>6, <3>1, <3>2
      <3> QED BY <1>0, <1>1, <3>3
    <2>3. QueueInv'
      BY <1>0, <1>1, <1>3, <1>4, <2>1, <2>2 DEF QueueInv, Owed, Working
    <2> QED BY <1>0, <1>1, <1>3, <2>1, <2>3
  <1> QED BY <1>5, <1>6

\* A connection joins the end of the queue.
LEMMA SendFacts ==
    ASSUME TypesInv, QueueInv, NEW valid \in BOOLEAN, Send(valid)
    PROVE  /\ pending' \in Seq(Request) /\ Len(pending') = Len(pending) + 1
           /\ \A i \in 1 .. Len(pending') :
                 pending'[i].id = (scanner.sent + 1) - Len(pending') + i
           /\ scanner.sent + 1 <= MaxSends
           /\ UNCHANGED <<world, control, report, server, shared>>
  <1>0. /\ pending \in Seq(Request) /\ scanner.sent \in Nat
        /\ Len(pending) \in Nat
    BY ScannerParts DEF TypesInv
  <1> DEFINE e == [id |-> scanner.sent + 1, valid |-> valid]
  <1>1. e \in Request /\ e.id = scanner.sent + 1
    BY <1>0 DEF Request
  <1>2. pending' = Append(pending, e)
    BY DEF Send
  <1> HIDE DEF e
  <1>3. /\ pending' \in Seq(Request) /\ Len(pending') = Len(pending) + 1
        /\ pending'[Len(pending) + 1] = e
        /\ \A i \in 1 .. Len(pending) : pending'[i] = pending[i]
    BY <1>0, <1>1, <1>2, AppendFacts
  <1>4. ASSUME NEW i \in 1 .. Len(pending')
        PROVE  pending'[i].id = (scanner.sent + 1) - Len(pending') + i
    <2>1. CASE i = Len(pending) + 1
      BY <1>0, <1>1, <1>3, <2>1
    <2>2. CASE i \in 1 .. Len(pending)
      <3>1. pending[i].id = scanner.sent - Len(pending) + i
        BY <2>2 DEF QueueInv
      <3> QED BY <1>0, <1>3, <2>2, <3>1
    <2> QED BY <1>0, <1>3, <2>1, <2>2
  <1>5. scanner.sent + 1 <= MaxSends
    BY <1>0, Limits DEF Send
  <1> QED BY <1>3, <1>4, <1>5 DEF Send

-----------------------------------------------------------------------------
LEMMA InitScan == Init => ScanInv
  <1> SUFFICES ASSUME Init PROVE ScanInv
      OBVIOUS
  <1>1. TypesInv
    <2>1. scanner \in ScannerType
      BY DEF Init, ScannerType
    <2>2. pending \in Seq(Request) /\ report \in SUBSET Report
      BY DEF Init
    <2>3. gateway \in [requests : Nat, error : BOOLEAN, records : Seq(Entries)]
      BY DEF Init
    <2> QED BY <2>1, <2>2, <2>3 DEF Init, TypesInv, Ended
  <1>2. QueueInv
    BY Limits DEF Init, QueueInv, Owed, Working
  <1>3. ControlInv
    BY DEF Init, ControlInv
  <1>4. ReportInv /\ CheckedInv /\ AdmittedIsClean
    BY DEF Init, ReportInv, CheckedInv, AdmittedIsClean
  <1>5. RecordsInv
    BY Limits DEF Init, RecordsInv, InProgress
  <1> QED BY <1>1, <1>2, <1>3, <1>4, <1>5 DEF ScanInv

-----------------------------------------------------------------------------
(* One lemma per part, one case per action.                                *)

\* The steps of the server thread that may give an answer.
LEMMA ServerStep ==
    ASSUME TypesInv, QueueInv, Refuse \/ Admit \/ Spawn \/ Reply
    PROVE  /\ pending' \in Seq(Request) /\ scanner' \in ScannerType
           /\ QueueInv' /\ scanner'.state = scanner.state
           /\ scanner.state # "running" => scanner' = scanner
           /\ UNCHANGED <<world, control, report>>
           /\ server' \in {"idle", "spawn", "communicate"}
           /\ server \in Working
  <1>1. CASE \E ok \in BOOLEAN : server \in Working /\ Answer(ok)
    BY <1>1, AnswerFacts
  <1>2. CASE /\ server \in Working /\ server' \in {"spawn", "communicate"}
             /\ UNCHANGED <<pending, remote, control, world>>
    BY <1>2 DEF TypesInv, QueueInv, Owed, Working, remote
  <1>3. server \in Working
    BY DEF Working, Refuse, Admit, Spawn, Reply
  <1>4. CASE Refuse \/ Reply
    <2>1. \E ok \in BOOLEAN : Answer(ok)
      BY <1>4 DEF Refuse, Reply
    <2> QED BY <1>1, <1>3, <2>1
  <1>5. CASE Admit
    <2>1. \/ Answer(FALSE)
          \/ /\ server' = "spawn"
             /\ UNCHANGED <<pending, remote, control, world>>
      BY <1>5 DEF Admit
    <2> QED BY <1>1, <1>2, <1>3, <2>1
  <1>6. CASE Spawn
    <2>1. \/ Answer(FALSE)
          \/ /\ server' = "communicate"
             /\ UNCHANGED <<pending, remote, control, world>>
      BY <1>6 DEF Spawn
    <2> QED BY <1>1, <1>2, <1>3, <2>1
  <1> QED BY <1>4, <1>5, <1>6

LEMMA TypesStep == ScanInv /\ [Next]_vars => TypesInv'
  <1> SUFFICES ASSUME ScanInv, [Next]_vars PROVE TypesInv'
      OBVIOUS
  <1> USE DEF world, control, remote, thread, shared
  <1>0. TypesInv /\ QueueInv /\ ControlInv /\ ReportInv /\ RecordsInv
        /\ CheckedInv /\ AdmittedIsClean
    BY DEF ScanInv
  <1>1. CASE Preflight
    BY <1>1, <1>0 DEF Preflight, TypesInv, Ended, Working
  <1>2. CASE InvokeStarts
    BY <1>2, <1>0 DEF InvokeStarts, TypesInv, ScannerType, Ended, Working
  <1>3. CASE InvokeEnds
    BY <1>3, <1>0 DEF InvokeEnds, TypesInv, ScannerType, Ended, Working,
        Stopped
  <1>4. CASE Check
    BY <1>4, <1>0 DEF Check, TypesInv, Ended, Working
  <1>5. CASE ExitLooks
    BY <1>5, <1>0 DEF ExitLooks, TypesInv, Ended, Working
  <1>6. CASE ExitStops
    BY <1>6, <1>0 DEF ExitStops, TypesInv, Ended, Working, Stopped
  <1>7. CASE Shutdown
    <2>1. pending' \in Seq(Request)
      BY <1>7 DEF Shutdown
    <2> QED BY <1>0, <1>7, <2>1 DEF Shutdown, TypesInv
  <1>8. CASE Grade
    BY <1>8, <1>0 DEF Grade, TypesInv, Ended, Working
  <1>9. CASE Receive
    BY <1>9, <1>0 DEF Receive, TypesInv, Ended, Working
  <1>10. CASE Refuse
    <2>1. /\ pending' \in Seq(Request) /\ scanner' \in ScannerType
          /\ UNCHANGED <<world, control, report>>
          /\ server' \in {"idle", "spawn", "communicate"}
      BY <1>0, <1>10, ServerStep
    <2>2. gateway' \in [requests : Nat, error : BOOLEAN, records : Seq(Entries)]
          /\ process' = process /\ transport' = transport
      BY <1>0, <1>10 DEF Refuse, TypesInv
    <2> QED BY <1>0, <2>1, <2>2 DEF TypesInv, Working
  <1>11. CASE Admit
    <2>1. /\ pending' \in Seq(Request) /\ scanner' \in ScannerType
          /\ UNCHANGED <<world, control, report>>
          /\ server' \in {"idle", "spawn", "communicate"}
      BY <1>0, <1>11, ServerStep
    <2>2. process' = process /\ transport' = transport
      BY <1>11 DEF Admit
    <2>3. gateway' \in [requests : Nat, error : BOOLEAN, records : Seq(Entries)]
      <3>1. Truncated \in Seq(Entries)
        BY TruncatedIs
      <3>2. gateway.requests \in Nat /\ gateway.records \in Seq(Entries)
            /\ gateway.error \in BOOLEAN
        BY <1>0 DEF TypesInv
      <3>3. Append(gateway.records, "started") \in Seq(Entries)
        <4>1. "started" \in Entries
          BY DEF Entries
        <4> QED BY <3>2, <4>1, AppendFacts, Zenon
      <3>4. \/ gateway' = [gateway EXCEPT !.requests = @ + 1,
                              !.records = Append(@, "started")]
            \/ gateway' = [requests |-> gateway.requests + 1, error |-> TRUE,
                           records |-> Truncated]
        BY <1>11 DEF Admit
      <3>5. gateway.requests + 1 \in Nat
        BY <3>2
      <3>6. CASE gateway' = [gateway EXCEPT !.requests = @ + 1,
                               !.records = Append(@, "started")]
        <4> DEFINE n == gateway.requests + 1
                   l == Append(gateway.records, "started")
        <4>1. gateway' = [gateway EXCEPT !.requests = n, !.records = l]
          BY <3>6, Zenon
        <4>2. n \in Nat /\ l \in Seq(Entries)
          BY <3>3, <3>5
        <4> HIDE DEF n, l
        <4> QED BY <1>0, <4>1, <4>2 DEF TypesInv
      <3>7. CASE gateway' = [requests |-> gateway.requests + 1, error |-> TRUE,
                            records |-> Truncated]
        BY <3>1, <3>5, <3>7
      <3> QED BY <3>4, <3>6, <3>7
    <2> QED BY <1>0, <2>1, <2>2, <2>3 DEF TypesInv, Working
  <1>12. CASE Spawn
    <2>1. /\ pending' \in Seq(Request) /\ scanner' \in ScannerType
          /\ UNCHANGED <<world, control, report>>
          /\ server' \in {"idle", "spawn", "communicate"}
      BY <1>0, <1>12, ServerStep
    <2>2. /\ gateway' \in [requests : Nat, error : BOOLEAN,
                            records : Seq(Entries)]
          /\ process' \in BOOLEAN
          /\ transport' \in {"none", "running", "answered", "dead"}
      BY <1>0, <1>12 DEF Spawn, TypesInv
    <2> QED BY <1>0, <2>1, <2>2 DEF TypesInv, Working
  <1>13. CASE Communicated
    BY <1>13, <1>0 DEF Communicated, TypesInv, Ended, Working, Stopped
  <1>14. CASE Clear
    <2>1. [gateway.records EXCEPT ![Len(gateway.records)] = server]
              \in Seq(Entries)
      <3>1. gateway.records \in Seq(Entries)
        BY <1>0 DEF TypesInv
      <3>2. server \in Entries
        BY <1>14 DEF Clear, Entries
      <3>3. Len(gateway.records) \in Nat
        BY <3>1
      <3> QED BY <3>1, <3>2, <3>3, ExceptFacts
    <2>2. gateway' \in [requests : Nat, error : BOOLEAN, records : Seq(Entries)]
      BY <1>0, <1>14, <2>1 DEF Clear, TypesInv
    <2>3. /\ server' \in {"reply", "reply-error"} /\ process' = FALSE
          /\ UNCHANGED <<world, control, remote, pending, transport>>
      BY <1>14 DEF Clear
    <2> QED BY <1>0, <2>2, <2>3 DEF TypesInv, Working
  <1>15. CASE Reply
    <2>1. /\ pending' \in Seq(Request) /\ scanner' \in ScannerType
          /\ UNCHANGED <<world, control, report>>
          /\ server' \in {"idle", "spawn", "communicate"}
      BY <1>0, <1>15, ServerStep
    <2>2. gateway' \in [requests : Nat, error : BOOLEAN, records : Seq(Entries)]
      <3>1. Truncated \in Seq(Entries)
        BY TruncatedIs
      <3> QED BY <1>0, <1>15, <3>1 DEF Reply, TypesInv
    <2>3. process' = process /\ transport' = transport
      BY <1>15 DEF Reply
    <2> QED BY <1>0, <2>1, <2>2, <2>3 DEF TypesInv, Working
  <1>16. CASE Call
    <2>1. PICK valid \in BOOLEAN : Send(valid)
      BY <1>16 DEF Call
    <2>2. /\ pending' \in Seq(Request)
          /\ UNCHANGED <<world, control, report, server, shared>>
      BY <1>0, <2>1, SendFacts
    <2>3. scanner' \in ScannerType
      <3>1. /\ scanner \in ScannerType /\ scanner.sent + 1 \in Nat
            /\ scanner.attempted \in Nat /\ scanner.attempted + 1 \in Nat
        BY <1>0, ScannerParts DEF TypesInv
      <3>2. scanner' = [scanner EXCEPT !.waiting = scanner.sent + 1,
                            !.sent = scanner.sent + 1,
                            !.attempted = scanner.attempted + 1]
        BY <1>16, Zenon DEF Call
      <3> QED BY <3>1, <3>2 DEF ScannerType
    <2> QED BY <1>0, <2>2, <2>3 DEF TypesInv
  <1>17. CASE Retry
    <2>1. PICK valid \in BOOLEAN : Send(valid)
      BY <1>17 DEF Retry
    <2>2. /\ pending' \in Seq(Request)
          /\ UNCHANGED <<world, control, report, server, shared>>
      BY <1>0, <2>1, SendFacts
    <2>3. scanner' \in ScannerType
      <3>1. /\ scanner \in ScannerType /\ scanner.sent + 1 \in Nat
            /\ scanner.attempted \in Nat /\ scanner.attempted + 1 \in Nat
        BY <1>0, ScannerParts DEF TypesInv
      <3>2. scanner' = [scanner EXCEPT !.waiting = scanner.sent + 1,
                            !.sent = scanner.sent + 1]
        BY <1>17, Zenon DEF Retry
      <3> QED BY <3>1, <3>2 DEF ScannerType
    <2> QED BY <1>0, <2>2, <2>3 DEF TypesInv
  <1>18. CASE Abandon
    BY <1>18, <1>0 DEF Abandon, TypesInv, ScannerType, Ended, Working
  <1>19. CASE ScannerExits
    <2>1. /\ scanner.attempted \in Nat /\ scanner.succeeded \in Nat
          /\ scanner' \in ScannerType
      BY <1>0, <1>19 DEF ScannerExits, TypesInv, ScannerType
    <2>2. report' \in SUBSET Report
      BY <1>19, <2>1 DEF ScannerExits, Report
    <2> QED BY <1>0, <1>19, <2>1, <2>2 DEF ScannerExits, TypesInv
  <1>20. CASE TransportEnds
    BY <1>20, <1>0 DEF TransportEnds, TypesInv, Ended, Working
  <1>21. CASE ScannerAlarm
    BY <1>21, <1>0 DEF ScannerAlarm, TypesInv, ScannerType, Ended, Working
  <1>22. CASE Deadline
    BY <1>22, <1>0 DEF Deadline, TypesInv, Ended, Working
  <1>23. CASE Kill
    BY <1>23, <1>0 DEF Kill, TypesInv, Ended, Working
  <1>24. CASE UNCHANGED vars
    BY <1>24, <1>0 DEF vars, TypesInv, Working
  <1> QED BY <1>1, <1>2, <1>3, <1>4, <1>5, <1>6, <1>7, <1>8,
      <1>9, <1>10, <1>11, <1>12, <1>13, <1>14, <1>15, <1>16,
      <1>17, <1>18, <1>19, <1>20, <1>21, <1>22, <1>23, <1>24
      DEF Next, Controller, Server, Worker

LEMMA QueueStep == ScanInv /\ [Next]_vars => QueueInv'
  <1> SUFFICES ASSUME ScanInv, [Next]_vars PROVE QueueInv'
      OBVIOUS
  <1> USE DEF world, control, remote, thread, shared
  <1>0. TypesInv /\ QueueInv /\ ControlInv /\ ReportInv /\ RecordsInv
        /\ CheckedInv /\ AdmittedIsClean
    BY DEF ScanInv
  <1>00. /\ scanner \in ScannerType
         /\ scanner.waiting \in Nat /\ scanner.sent \in Nat
         /\ scanner.attempted \in Nat /\ scanner.succeeded \in Nat
         /\ Len(pending) \in Nat
    BY <1>0, ScannerParts DEF TypesInv
  <1>1. CASE Preflight
    BY <1>1, <1>0, <1>00 DEF Preflight, QueueInv, Owed, Working
  <1>2. CASE InvokeStarts
    <2>1. scanner.waiting = 0
      BY <1>0, <1>2 DEF ControlInv, InvokeStarts
    <2> QED BY <1>0, <1>00, <1>2, <2>1
        DEF InvokeStarts, QueueInv, Owed, ScannerType
  <1>3. CASE InvokeEnds
    BY <1>3, <1>0, <1>00 DEF InvokeEnds, QueueInv, Owed, Working, ScannerType,
        Stopped
  <1>4. CASE Check
    BY <1>4, <1>0, <1>00 DEF Check, QueueInv, Owed, Working
  <1>5. CASE ExitLooks
    BY <1>5, <1>0, <1>00 DEF ExitLooks, QueueInv, Owed, Working
  <1>6. CASE ExitStops
    BY <1>6, <1>0, <1>00 DEF ExitStops, QueueInv, Owed, Working, Stopped
  <1>7. CASE Shutdown
    <2>1. pending' = << >> /\ server' = "stopped" /\ scanner' = scanner
      BY <1>7 DEF Shutdown
    <2>2. scanner.state # "running"
      BY <1>0, <1>7 DEF ControlInv, Shutdown
    <2> QED BY <1>0, <1>00, <2>1, <2>2 DEF QueueInv, Owed, Working
  <1>8. CASE Grade
    BY <1>8, <1>0, <1>00 DEF Grade, QueueInv, Owed, Working
  <1>9. CASE Receive
    BY <1>9, <1>0, <1>00 DEF Receive, QueueInv, Owed, Working
  <1>10. CASE Refuse
    BY <1>0, <1>10, ServerStep
  <1>11. CASE Admit
    BY <1>0, <1>11, ServerStep
  <1>12. CASE Spawn
    BY <1>0, <1>12, ServerStep
  <1>13. CASE Communicated
    BY <1>13, <1>0, <1>00 DEF Communicated, QueueInv, Owed, Working, Stopped
  <1>14. CASE Clear
    BY <1>14, <1>0, <1>00 DEF Clear, QueueInv, Owed, Working
  <1>15. CASE Reply
    BY <1>0, <1>15, ServerStep
  <1>16. CASE Call
    <2>1. PICK valid \in BOOLEAN : Send(valid)
      BY <1>16 DEF Call
    <2>2. /\ Len(pending') = Len(pending) + 1
          /\ \A i \in 1 .. Len(pending') :
                pending'[i].id = (scanner.sent + 1) - Len(pending') + i
          /\ scanner.sent + 1 <= MaxSends /\ server' = server
      BY <1>0, <2>1, SendFacts
    <2>3. /\ scanner'.state = scanner.state
          /\ scanner'.waiting = scanner.sent + 1
          /\ scanner'.sent = scanner.sent + 1
          /\ scanner'.succeeded = scanner.succeeded
          /\ scanner'.attempted = scanner.attempted + 1
      BY <1>00, <1>16 DEF Call, ScannerType
    <2>4. scanner.waiting = 0
      BY <1>16 DEF Call
    <2>5. scanner'.succeeded + 1 <= scanner'.attempted
          /\ scanner'.attempted <= scanner'.sent
      BY <1>0, <1>00, <2>3, <2>4 DEF QueueInv, Owed
    <2>6. server \in Working => Len(pending) > 0
      BY <1>0 DEF QueueInv
    <2>7. Len(pending) <= scanner.sent
      BY <1>0 DEF QueueInv
    <2> QED BY <1>00, <2>2, <2>3, <2>5, <2>6, <2>7 DEF QueueInv, Owed
  <1>17. CASE Retry
    <2>1. PICK valid \in BOOLEAN : Send(valid)
      BY <1>17 DEF Retry
    <2>2. /\ Len(pending') = Len(pending) + 1
          /\ \A i \in 1 .. Len(pending') :
                pending'[i].id = (scanner.sent + 1) - Len(pending') + i
          /\ scanner.sent + 1 <= MaxSends /\ server' = server
      BY <1>0, <2>1, SendFacts
    <2>3. /\ scanner'.state = scanner.state
          /\ scanner'.waiting = scanner.sent + 1
          /\ scanner'.sent = scanner.sent + 1
          /\ scanner'.succeeded = scanner.succeeded
          /\ scanner'.attempted = scanner.attempted
      BY <1>00, <1>17 DEF Retry, ScannerType
    <2>4. scanner.waiting # 0
      BY <1>17 DEF Retry
    <2>5. scanner'.succeeded + 1 <= scanner'.attempted
          /\ scanner'.attempted <= scanner'.sent
      BY <1>0, <1>00, <2>3, <2>4 DEF QueueInv, Owed
    <2>6. server \in Working => Len(pending) > 0
      BY <1>0 DEF QueueInv
    <2>7. Len(pending) <= scanner.sent
      BY <1>0 DEF QueueInv
    <2> QED BY <1>00, <2>2, <2>3, <2>5, <2>6, <2>7 DEF QueueInv, Owed
  <1>18. CASE Abandon
    BY <1>18, <1>0, <1>00 DEF Abandon, QueueInv, Owed, Working, ScannerType
  <1>19. CASE ScannerExits
    BY <1>19, <1>0, <1>00 DEF ScannerExits, QueueInv, Owed, Working,
        ScannerType
  <1>20. CASE TransportEnds
    BY <1>20, <1>0, <1>00 DEF TransportEnds, QueueInv, Owed, Working
  <1>21. CASE ScannerAlarm
    BY <1>21, <1>0, <1>00 DEF ScannerAlarm, QueueInv, Owed, Working,
        ScannerType
  <1>22. CASE Deadline
    BY <1>22, <1>0, <1>00 DEF Deadline, QueueInv, Owed, Working
  <1>23. CASE Kill
    BY <1>23, <1>0, <1>00 DEF Kill, QueueInv, Owed, Working
  <1>24. CASE UNCHANGED vars
    BY <1>24, <1>0, <1>00 DEF vars, QueueInv, Owed, Working
  <1> QED BY <1>1, <1>2, <1>3, <1>4, <1>5, <1>6, <1>7, <1>8,
      <1>9, <1>10, <1>11, <1>12, <1>13, <1>14, <1>15, <1>16,
      <1>17, <1>18, <1>19, <1>20, <1>21, <1>22, <1>23, <1>24
      DEF Next, Controller, Server, Worker

LEMMA ControlStep == ScanInv /\ [Next]_vars => ControlInv'
  <1> SUFFICES ASSUME ScanInv, [Next]_vars PROVE ControlInv'
      OBVIOUS
  <1> USE DEF world, control, remote, thread, shared
  <1>0. TypesInv /\ QueueInv /\ ControlInv /\ ReportInv /\ RecordsInv
        /\ CheckedInv /\ AdmittedIsClean
    BY DEF ScanInv
  <1>1. CASE Preflight
    BY <1>1, <1>0 DEF Preflight, ControlInv, TypesInv
  <1>2. CASE InvokeStarts
    BY <1>2, <1>0 DEF InvokeStarts, ControlInv, TypesInv, ScannerType
  <1>3. CASE InvokeEnds
    <2>1. profile \in {"static", "semantic"}
      BY <1>0, ScanAssumption DEF TypesInv, ScanAssumption
    <2>2. scanner'.state = "dead" /\ scanner'.waiting = scanner.waiting
      BY <1>0, <1>3 DEF InvokeEnds, TypesInv, ScannerType, Stopped
    <2> QED BY <1>0, <1>3, <2>1, <2>2 DEF InvokeEnds, ControlInv
  <1>4. CASE Check
    BY <1>4, <1>0 DEF Check, ControlInv, TypesInv
  <1>5. CASE ExitLooks
    BY <1>5, <1>0 DEF ExitLooks, ControlInv, TypesInv
  <1>6. CASE ExitStops
    BY <1>6, <1>0 DEF ExitStops, ControlInv, TypesInv, Working, Stopped
  <1>7. CASE Shutdown
    BY <1>7, <1>0 DEF Shutdown, ControlInv, TypesInv
  <1>8. CASE Grade
    BY <1>8, <1>0 DEF Grade, ControlInv, TypesInv
  <1>9. CASE Receive
    BY <1>9, <1>0 DEF Receive, ControlInv, TypesInv, Working
  <1>10. CASE Refuse
    <2>1. /\ scanner'.state = scanner.state /\ UNCHANGED <<world, control>>
          /\ server \in Working
          /\ scanner.state # "running" => scanner' = scanner
      BY <1>0, <1>10, ServerStep
    <2>2. transport' = transport /\ server # "communicate"
      BY <1>10 DEF Refuse
    <2>3. server # "gone" /\ server # "none" /\ server # "stopped"
      BY <2>1 DEF Working
    <2>4. server' # "gone"
      BY <1>0, <1>10, ServerStep
    <2> QED BY <1>0, <2>1, <2>2, <2>3, <2>4 DEF ControlInv
  <1>11. CASE Admit
    <2>1. /\ scanner'.state = scanner.state /\ UNCHANGED <<world, control>>
          /\ server \in Working
          /\ scanner.state # "running" => scanner' = scanner
      BY <1>0, <1>11, ServerStep
    <2>2. transport' = transport /\ server # "communicate"
      BY <1>11 DEF Admit
    <2>3. server # "gone" /\ server # "none" /\ server # "stopped"
      BY <2>1 DEF Working
    <2>4. server' # "gone"
      BY <1>0, <1>11, ServerStep
    <2> QED BY <1>0, <2>1, <2>2, <2>3, <2>4 DEF ControlInv
  <1>12. CASE Spawn
    <2>1. /\ scanner'.state = scanner.state /\ UNCHANGED <<world, control>>
          /\ server' # "gone"
          /\ scanner.state # "running" => scanner' = scanner
      BY <1>0, <1>12, ServerStep
    <2>2. server = "spawn"
      BY <1>12 DEF Spawn
    <2>3. transport' = "running" => server' = "communicate"
      BY <1>0, <2>2, <1>12 DEF Spawn, ControlInv, Answer
    <2> QED BY <1>0, <2>1, <2>2, <2>3 DEF ControlInv
  <1>13. CASE Communicated
    BY <1>13, <1>0 DEF Communicated, ControlInv, TypesInv, Working, Stopped
  <1>14. CASE Clear
    BY <1>14, <1>0 DEF Clear, ControlInv, TypesInv, Working
  <1>15. CASE Reply
    <2>1. /\ scanner'.state = scanner.state /\ UNCHANGED <<world, control>>
          /\ server \in Working
          /\ scanner.state # "running" => scanner' = scanner
      BY <1>0, <1>15, ServerStep
    <2>2. transport' = transport /\ server # "communicate"
      BY <1>15 DEF Reply
    <2>3. server # "gone" /\ server # "none" /\ server # "stopped"
      BY <2>1 DEF Working
    <2>4. server' # "gone"
      BY <1>0, <1>15, ServerStep
    <2> QED BY <1>0, <2>1, <2>2, <2>3, <2>4 DEF ControlInv
  <1>16. CASE Call
    <2>1. UNCHANGED <<world, control, server, shared>>
      BY <1>16 DEF Call, Send
    <2>2. scanner'.state = scanner.state /\ scanner.state = "running"
      BY <1>0, <1>16 DEF Call, TypesInv, ScannerType
    <2> QED BY <1>0, <2>1, <2>2 DEF ControlInv
  <1>17. CASE Retry
    <2>1. UNCHANGED <<world, control, server, shared>>
      BY <1>17 DEF Retry, Send
    <2>2. scanner'.state = scanner.state /\ scanner.state = "running"
      BY <1>0, <1>17 DEF Retry, TypesInv, ScannerType
    <2> QED BY <1>0, <2>1, <2>2 DEF ControlInv
  <1>18. CASE Abandon
    BY <1>18, <1>0 DEF Abandon, ControlInv, TypesInv, ScannerType
  <1>19. CASE ScannerExits
    BY <1>19, <1>0 DEF ScannerExits, ControlInv, TypesInv, ScannerType
  <1>20. CASE TransportEnds
    BY <1>20, <1>0 DEF TransportEnds, ControlInv, TypesInv
  <1>21. CASE ScannerAlarm
    BY <1>21, <1>0 DEF ScannerAlarm, ControlInv, TypesInv, ScannerType
  <1>22. CASE Deadline
    BY <1>22, <1>0 DEF Deadline, ControlInv, TypesInv
  <1>23. CASE Kill
    BY <1>23, <1>0 DEF Kill, ControlInv, TypesInv, Ended
  <1>24. CASE UNCHANGED vars
    BY <1>24, <1>0 DEF vars, ControlInv, TypesInv, Working
  <1> QED BY <1>1, <1>2, <1>3, <1>4, <1>5, <1>6, <1>7, <1>8,
      <1>9, <1>10, <1>11, <1>12, <1>13, <1>14, <1>15, <1>16,
      <1>17, <1>18, <1>19, <1>20, <1>21, <1>22, <1>23, <1>24
      DEF Next, Controller, Server, Worker

LEMMA ReportStep == ScanInv /\ [Next]_vars => ReportInv'
  <1> SUFFICES ASSUME ScanInv, [Next]_vars PROVE ReportInv'
      OBVIOUS
  <1> USE DEF world, control, remote, thread, shared
  <1>0. TypesInv /\ QueueInv /\ ControlInv /\ ReportInv /\ RecordsInv
        /\ CheckedInv /\ AdmittedIsClean
    BY DEF ScanInv
  <1>1. CASE Preflight
    BY <1>1, <1>0 DEF Preflight, ReportInv, ControlInv, TypesInv
  <1>2. CASE InvokeStarts
    BY <1>2, <1>0 DEF InvokeStarts, ReportInv, ControlInv, TypesInv,
        ScannerType
  <1>3. CASE InvokeEnds
    BY <1>3, <1>0 DEF InvokeEnds, ReportInv, ControlInv, TypesInv,
        ScannerType, Stopped
  <1>4. CASE Check
    BY <1>4, <1>0 DEF Check, ReportInv, ControlInv, TypesInv
  <1>5. CASE ExitLooks
    BY <1>5, <1>0 DEF ExitLooks, ReportInv, ControlInv, TypesInv
  <1>6. CASE ExitStops
    BY <1>6, <1>0 DEF ExitStops, ReportInv, ControlInv, TypesInv, Stopped
  <1>7. CASE Shutdown
    BY <1>7, <1>0 DEF Shutdown, ReportInv, ControlInv, TypesInv
  <1>8. CASE Grade
    BY <1>8, <1>0 DEF Grade, ReportInv, ControlInv, TypesInv
  <1>9. CASE Receive
    BY <1>9, <1>0 DEF Receive, ReportInv, ControlInv, TypesInv
  <1>10. CASE Refuse
    <2>1. /\ report' = report /\ scanner'.state = scanner.state
          /\ scanner.state # "running" => scanner' = scanner
      BY <1>0, <1>10, ServerStep
    <2> QED BY <1>0, <2>1 DEF ReportInv
  <1>11. CASE Admit
    <2>1. /\ report' = report /\ scanner'.state = scanner.state
          /\ scanner.state # "running" => scanner' = scanner
      BY <1>0, <1>11, ServerStep
    <2> QED BY <1>0, <2>1 DEF ReportInv
  <1>12. CASE Spawn
    <2>1. /\ report' = report /\ scanner'.state = scanner.state
          /\ scanner.state # "running" => scanner' = scanner
      BY <1>0, <1>12, ServerStep
    <2> QED BY <1>0, <2>1 DEF ReportInv
  <1>13. CASE Communicated
    BY <1>13, <1>0 DEF Communicated, ReportInv, ControlInv, TypesInv, Stopped
  <1>14. CASE Clear
    BY <1>14, <1>0 DEF Clear, ReportInv, ControlInv, TypesInv
  <1>15. CASE Reply
    <2>1. /\ report' = report /\ scanner'.state = scanner.state
          /\ scanner.state # "running" => scanner' = scanner
      BY <1>0, <1>15, ServerStep
    <2> QED BY <1>0, <2>1 DEF ReportInv
  <1>16. CASE Call
    <2>1. scanner.state = "running" /\ report' = report
      BY <1>16 DEF Call, Send
    <2>2. report = {}
      BY <1>0, <2>1 DEF ReportInv
    <2> QED BY <2>1, <2>2 DEF ReportInv
  <1>17. CASE Retry
    <2>1. scanner.state = "running" /\ report' = report
      BY <1>17 DEF Retry, Send
    <2>2. report = {}
      BY <1>0, <2>1 DEF ReportInv
    <2> QED BY <2>1, <2>2 DEF ReportInv
  <1>18. CASE Abandon
    BY <1>18, <1>0 DEF Abandon, ReportInv, ControlInv, TypesInv, ScannerType
  <1>19. CASE ScannerExits
    BY <1>19, <1>0 DEF ScannerExits, ReportInv, ControlInv, TypesInv,
        ScannerType
  <1>20. CASE TransportEnds
    BY <1>20, <1>0 DEF TransportEnds, ReportInv, ControlInv, TypesInv
  <1>21. CASE ScannerAlarm
    BY <1>21, <1>0 DEF ScannerAlarm, ReportInv, ControlInv, TypesInv,
        ScannerType
  <1>22. CASE Deadline
    BY <1>22, <1>0 DEF Deadline, ReportInv, ControlInv, TypesInv
  <1>23. CASE Kill
    BY <1>23, <1>0 DEF Kill, ReportInv, ControlInv, TypesInv
  <1>24. CASE UNCHANGED vars
    BY <1>24, <1>0 DEF vars, ReportInv, ControlInv, TypesInv
  <1> QED BY <1>1, <1>2, <1>3, <1>4, <1>5, <1>6, <1>7, <1>8,
      <1>9, <1>10, <1>11, <1>12, <1>13, <1>14, <1>15, <1>16,
      <1>17, <1>18, <1>19, <1>20, <1>21, <1>22, <1>23, <1>24
      DEF Next, Controller, Server, Worker

LEMMA RecordsStep == ScanInv /\ [Next]_vars => RecordsInv'
  <1> SUFFICES ASSUME ScanInv, [Next]_vars PROVE RecordsInv'
      OBVIOUS
  <1> USE DEF world, control, remote, thread, shared
  <1>0. TypesInv /\ QueueInv /\ ControlInv /\ ReportInv /\ RecordsInv
        /\ CheckedInv /\ AdmittedIsClean
    BY DEF ScanInv
  <1>00. /\ gateway.requests \in Nat /\ gateway.records \in Seq(Entries)
         /\ Len(gateway.records) \in Nat /\ gateway.error \in BOOLEAN
         /\ MaxRequests \in Nat /\ MaxRequests > 0
    BY <1>0, Limits DEF TypesInv
  <1>1. CASE Preflight
    BY <1>1, <1>0 DEF Preflight, RecordsInv, InProgress, ControlInv
  <1>2. CASE InvokeStarts
    BY <1>2, <1>0 DEF InvokeStarts, RecordsInv, InProgress
  <1>3. CASE InvokeEnds
    BY <1>3, <1>0 DEF InvokeEnds, RecordsInv, InProgress
  <1>4. CASE Check
    BY <1>4, <1>0 DEF Check, RecordsInv, InProgress
  <1>5. CASE ExitLooks
    BY <1>5, <1>0 DEF ExitLooks, RecordsInv, InProgress
  <1>6. CASE ExitStops
    BY <1>6, <1>0 DEF ExitStops, RecordsInv, InProgress
  <1>7. CASE Shutdown
    BY <1>7, <1>0 DEF Shutdown, RecordsInv, InProgress
  <1>8. CASE Grade
    BY <1>8, <1>0 DEF Grade, RecordsInv, InProgress
  <1>9. CASE Receive
    BY <1>9, <1>0 DEF Receive, RecordsInv, InProgress
  <1>10. CASE Refuse
    <2>1. /\ gateway'.error /\ gateway'.requests = gateway.requests
          /\ gateway'.records = gateway.records /\ server' = "idle"
      BY <1>0, <1>10 DEF Refuse, Answer, TypesInv
    <2> QED BY <1>0, <2>1 DEF RecordsInv, InProgress
  <1>11. CASE Admit
    <2>0. ~gateway.error /\ gateway.requests < MaxRequests
          /\ server = "exchange"
      BY <1>11 DEF Admit, Admissible
    <2>1. CASE /\ gateway' = [gateway EXCEPT !.requests = @ + 1,
                                  !.records = Append(@, "started")]
               /\ server' = "spawn"
      <3>1. /\ gateway'.requests = gateway.requests + 1
            /\ gateway'.error = gateway.error
            /\ gateway'.records = Append(gateway.records, "started")
        BY <1>0, <2>1 DEF TypesInv
      <3>2. /\ Len(gateway'.records) = Len(gateway.records) + 1
            /\ \A i \in 1 .. Len(gateway.records) :
                  gateway'.records[i] = gateway.records[i]
        BY <1>00, <3>1, AppendFacts
      <3>3. \A i \in 1 .. Len(gateway.records) :
                gateway.records[i] = "completed"
        BY <1>0, <2>0 DEF RecordsInv, InProgress
      <3> QED BY <1>0, <1>00, <2>0, <2>1, <3>1, <3>2, <3>3
          DEF RecordsInv, InProgress
    <2>2. CASE /\ gateway' = [requests |-> gateway.requests + 1, error |-> TRUE,
                              records |-> Truncated]
               /\ server' = "idle"
      <3>1. Len(Truncated) = 1
        BY TruncatedIs
      <3>2. /\ gateway'.requests = gateway.requests + 1 /\ gateway'.error
            /\ gateway'.records = Truncated
        BY <2>2
      <3>3. gateway.requests + 1 <= MaxRequests /\ 1 <= gateway.requests + 1
        BY <1>00, <2>0
      <3> QED BY <2>2, <3>1, <3>2, <3>3 DEF RecordsInv, InProgress
    <2> QED BY <1>11, <2>1, <2>2 DEF Admit, Answer
  <1>12. CASE Spawn
    <2>1. CASE gateway' = gateway /\ server' = "communicate"
      BY <1>0, <1>12, <2>1 DEF Spawn, RecordsInv, InProgress
    <2>2. CASE gateway' = [gateway EXCEPT !.error = TRUE] /\ server' = "idle"
      <3>1. /\ gateway'.error /\ gateway'.requests = gateway.requests
            /\ gateway'.records = gateway.records
        BY <1>0, <2>2 DEF TypesInv
      <3> QED BY <1>0, <2>2, <3>1 DEF RecordsInv, InProgress
    <2> QED BY <1>12, <2>1, <2>2 DEF Spawn, Answer
  <1>13. CASE Communicated
    BY <1>13, <1>0 DEF Communicated, RecordsInv, InProgress
  <1>14. CASE Clear
    <2>1. /\ server \in {"completed", "failed"}
          /\ ~gateway.error /\ Len(gateway.records) > 0
      BY <1>0, <1>14 DEF Clear, RecordsInv, InProgress
    <2>2. /\ gateway'.records
                = [gateway.records EXCEPT ![Len(gateway.records)] = server]
          /\ gateway'.error = gateway.error
          /\ gateway'.requests = gateway.requests
      BY <1>0, <1>14 DEF Clear, TypesInv
    <2>3. /\ Len(gateway'.records) = Len(gateway.records)
          /\ \A i \in 1 .. Len(gateway.records) : gateway'.records[i] =
                IF i = Len(gateway.records) THEN server ELSE gateway.records[i]
      BY <1>00, <2>1, <2>2
    <2>4. server' = IF server = "completed" THEN "reply" ELSE "reply-error"
      BY <1>14 DEF Clear
    <2>5. \A i \in 1 .. Len(gateway.records) :
              i # Len(gateway.records) => gateway.records[i] = "completed"
      BY <1>0, <2>1 DEF RecordsInv
    <2> QED BY <1>0, <1>00, <2>1, <2>2, <2>3, <2>4, <2>5
        DEF RecordsInv, InProgress
  <1>15. CASE Reply
    <2>0. /\ server \in {"reply", "reply-error"} /\ server' = "idle"
          /\ Len(gateway.records) > 0
      BY <1>0, <1>15 DEF Reply, Answer, RecordsInv
    <2>1. CASE gateway' = [gateway EXCEPT
                             !.error = (@ \/ server = "reply-error")]
      <3>1. /\ gateway'.error = (gateway.error \/ server = "reply-error")
            /\ gateway'.requests = gateway.requests
            /\ gateway'.records = gateway.records
        BY <1>0, <2>1 DEF TypesInv
      <3> QED BY <1>0, <2>0, <3>1 DEF RecordsInv, InProgress
    <2>2. CASE gateway' = [gateway EXCEPT !.error = TRUE,
                                         !.records = Truncated]
      <3>1. /\ gateway'.error /\ gateway'.requests = gateway.requests
            /\ gateway'.records = Truncated
        BY <1>0, <2>2 DEF TypesInv
      <3>2. Len(Truncated) = 1
        BY TruncatedIs
      <3>3. gateway.requests >= 1
        BY <1>0, <1>00, <2>0 DEF RecordsInv
      <3> QED BY <1>0, <1>00, <2>0, <3>1, <3>2, <3>3
          DEF RecordsInv, InProgress
    <2> QED BY <1>15, <2>1, <2>2 DEF Reply
  <1>16. CASE Call
    <2>1. UNCHANGED <<server, gateway>>
      BY <1>16 DEF Call, Send
    <2> QED BY <1>0, <2>1 DEF RecordsInv
  <1>17. CASE Retry
    <2>1. UNCHANGED <<server, gateway>>
      BY <1>17 DEF Retry, Send
    <2> QED BY <1>0, <2>1 DEF RecordsInv
  <1>18. CASE Abandon
    BY <1>18, <1>0 DEF Abandon, RecordsInv, InProgress
  <1>19. CASE ScannerExits
    BY <1>19, <1>0 DEF ScannerExits, RecordsInv, InProgress
  <1>20. CASE TransportEnds
    BY <1>20, <1>0 DEF TransportEnds, RecordsInv, InProgress
  <1>21. CASE ScannerAlarm
    BY <1>21, <1>0 DEF ScannerAlarm, RecordsInv, InProgress
  <1>22. CASE Deadline
    BY <1>22, <1>0 DEF Deadline, RecordsInv, InProgress
  <1>23. CASE Kill
    BY <1>23, <1>0 DEF Kill, RecordsInv, InProgress
  <1>24. CASE UNCHANGED vars
    BY <1>24, <1>0 DEF vars, RecordsInv, InProgress
  <1> QED BY <1>1, <1>2, <1>3, <1>4, <1>5, <1>6, <1>7, <1>8,
      <1>9, <1>10, <1>11, <1>12, <1>13, <1>14, <1>15, <1>16,
      <1>17, <1>18, <1>19, <1>20, <1>21, <1>22, <1>23, <1>24
      DEF Next, Controller, Server, Worker

LEMMA CheckedStep == ScanInv /\ [Next]_vars => CheckedInv'
  <1> SUFFICES ASSUME ScanInv, [Next]_vars PROVE CheckedInv'
      OBVIOUS
  <1> USE DEF world, control, remote, thread, shared
  <1>0. TypesInv /\ QueueInv /\ ControlInv /\ ReportInv /\ RecordsInv
        /\ CheckedInv /\ AdmittedIsClean
    BY DEF ScanInv
  <1>00. ASSUME server \in Working, \E r \in report : r.attempted = r.succeeded
         PROVE  FALSE
    BY <1>0, <1>00, ScannerParts DEF QueueInv, ReportInv, TypesInv
  <1>1. CASE Preflight
    BY <1>1, <1>0 DEF Preflight, CheckedInv, ControlInv, TypesInv
  <1>2. CASE InvokeStarts
    BY <1>2, <1>0 DEF InvokeStarts, CheckedInv, ControlInv, TypesInv
  <1>3. CASE InvokeEnds
    BY <1>3, <1>0 DEF InvokeEnds, CheckedInv, ControlInv, TypesInv
  <1>4. CASE Check
    BY <1>4, <1>0 DEF Check, CheckedInv, ControlInv, TypesInv
  <1>5. CASE ExitLooks
    BY <1>5, <1>0 DEF ExitLooks, CheckedInv, ControlInv, TypesInv
  <1>6. CASE ExitStops
    BY <1>6, <1>0 DEF ExitStops, CheckedInv, ControlInv, TypesInv
  <1>7. CASE Shutdown
    BY <1>7, <1>0 DEF Shutdown, CheckedInv, ControlInv, TypesInv
  <1>8. CASE Grade
    BY <1>8, <1>0 DEF Grade, CheckedInv, ControlInv, TypesInv
  <1>9. CASE Receive
    BY <1>9, <1>0 DEF Receive, CheckedInv, ControlInv, TypesInv
  <1>10. CASE Refuse
    <2>1. server \in Working /\ UNCHANGED <<world, control, report>>
      BY <1>0, <1>10, ServerStep
    <2> QED BY <1>00, <2>1 DEF CheckedInv
  <1>11. CASE Admit
    <2>1. server \in Working /\ UNCHANGED <<world, control, report>>
      BY <1>0, <1>11, ServerStep
    <2> QED BY <1>00, <2>1 DEF CheckedInv
  <1>12. CASE Spawn
    <2>1. server \in Working /\ UNCHANGED <<world, control, report>>
      BY <1>0, <1>12, ServerStep
    <2> QED BY <1>00, <2>1 DEF CheckedInv
  <1>13. CASE Communicated
    BY <1>13, <1>0 DEF Communicated, CheckedInv, ControlInv, TypesInv
  <1>14. CASE Clear
    <2>1. server \in Working /\ UNCHANGED <<world, control, report>>
      BY <1>14 DEF Clear, Working
    <2> QED BY <1>00, <2>1 DEF CheckedInv
  <1>15. CASE Reply
    <2>1. server \in Working /\ UNCHANGED <<world, control, report>>
      BY <1>0, <1>15, ServerStep
    <2> QED BY <1>00, <2>1 DEF CheckedInv
  <1>16. CASE Call
    <2>1. UNCHANGED <<world, control, report, gateway>>
      BY <1>16 DEF Call, Send
    <2> QED BY <1>0, <2>1 DEF CheckedInv
  <1>17. CASE Retry
    <2>1. UNCHANGED <<world, control, report, gateway>>
      BY <1>17 DEF Retry, Send
    <2> QED BY <1>0, <2>1 DEF CheckedInv
  <1>18. CASE Abandon
    BY <1>18, <1>0 DEF Abandon, CheckedInv, ControlInv, TypesInv
  <1>19. CASE ScannerExits
    <2>1. scanner.state = "running" /\ pc' = pc
      BY <1>19 DEF ScannerExits
    <2> QED BY <1>0, <2>1 DEF ControlInv, CheckedInv
  <1>20. CASE TransportEnds
    BY <1>20, <1>0 DEF TransportEnds, CheckedInv, ControlInv, TypesInv
  <1>21. CASE ScannerAlarm
    BY <1>21, <1>0 DEF ScannerAlarm, CheckedInv, ControlInv, TypesInv
  <1>22. CASE Deadline
    BY <1>22, <1>0 DEF Deadline, CheckedInv, ControlInv, TypesInv
  <1>23. CASE Kill
    BY <1>23, <1>0 DEF Kill, CheckedInv, ControlInv, TypesInv
  <1>24. CASE UNCHANGED vars
    BY <1>24, <1>0 DEF vars, CheckedInv, ControlInv, TypesInv
  <1> QED BY <1>1, <1>2, <1>3, <1>4, <1>5, <1>6, <1>7, <1>8,
      <1>9, <1>10, <1>11, <1>12, <1>13, <1>14, <1>15, <1>16,
      <1>17, <1>18, <1>19, <1>20, <1>21, <1>22, <1>23, <1>24
      DEF Next, Controller, Server, Worker

LEMMA AdmittedStep == ScanInv /\ [Next]_vars => AdmittedIsClean'
  <1> SUFFICES ASSUME ScanInv, [Next]_vars PROVE AdmittedIsClean'
      OBVIOUS
  <1> USE DEF world, control, remote, thread, shared
  <1>0. TypesInv /\ QueueInv /\ ControlInv /\ ReportInv /\ RecordsInv
        /\ CheckedInv /\ AdmittedIsClean
    BY DEF ScanInv
  <1>00. pc = "saved" => server \notin Working
    BY <1>0 DEF ControlInv, Working
  <1>1. CASE Preflight
    BY <1>1, <1>0 DEF Preflight, AdmittedIsClean
  <1>2. CASE InvokeStarts
    BY <1>2, <1>0 DEF InvokeStarts, AdmittedIsClean
  <1>3. CASE InvokeEnds
    BY <1>3, <1>0 DEF InvokeEnds, AdmittedIsClean
  <1>4. CASE Check
    BY <1>4, <1>0 DEF Check, AdmittedIsClean
  <1>5. CASE ExitLooks
    BY <1>5, <1>0 DEF ExitLooks, AdmittedIsClean
  <1>6. CASE ExitStops
    BY <1>6, <1>0 DEF ExitStops, AdmittedIsClean
  <1>7. CASE Shutdown
    BY <1>7, <1>0 DEF Shutdown, AdmittedIsClean
  <1>8. CASE Grade
    <2>0. /\ gateway' = gateway /\ profile' = profile /\ pc = "grade"
          /\ server \in {"none", "stopped"}
      BY <1>0, <1>8 DEF Grade, ControlInv
    <2> SUFFICES ASSUME NEW r \in saved', r.status = "admitted",
                        profile = "semantic"
                 PROVE  /\ ~gateway.error
                        /\ Len(gateway.records) = gateway.requests
                        /\ \A i \in DOMAIN gateway.records :
                              gateway.records[i] = "completed"
        BY <2>0 DEF AdmittedIsClean
    <2>1. ~failing /\ \E q \in report : Complete(q)
      BY <1>8 DEF Grade
    <2>2. \E q \in report : q.attempted = q.succeeded
      BY <2>1 DEF Complete
    <2>3. ~gateway.error
      BY <1>0, <2>0, <2>1, <2>2 DEF CheckedInv
    <2>4. DOMAIN gateway.records = 1 .. Len(gateway.records)
      BY <1>0 DEF TypesInv
    <2> QED BY <1>0, <2>0, <2>3, <2>4 DEF RecordsInv, InProgress
  <1>9. CASE Receive
    BY <1>9, <1>0 DEF Receive, AdmittedIsClean
  <1>10. CASE Refuse
    <2>1. server \in Working /\ UNCHANGED <<world, control>>
      BY <1>0, <1>10, ServerStep
    <2>2. saved' = {}
      BY <1>0, <1>00, <2>1 DEF ControlInv
    <2> QED BY <2>2 DEF AdmittedIsClean
  <1>11. CASE Admit
    <2>1. server \in Working /\ UNCHANGED <<world, control>>
      BY <1>0, <1>11, ServerStep
    <2>2. saved' = {}
      BY <1>0, <1>00, <2>1 DEF ControlInv
    <2> QED BY <2>2 DEF AdmittedIsClean
  <1>12. CASE Spawn
    <2>1. server \in Working /\ UNCHANGED <<world, control>>
      BY <1>0, <1>12, ServerStep
    <2>2. saved' = {}
      BY <1>0, <1>00, <2>1 DEF ControlInv
    <2> QED BY <2>2 DEF AdmittedIsClean
  <1>13. CASE Communicated
    BY <1>13, <1>0 DEF Communicated, AdmittedIsClean
  <1>14. CASE Clear
    <2>1. server \in Working /\ UNCHANGED <<world, control>>
      BY <1>14 DEF Clear, Working
    <2>2. saved' = {}
      BY <1>0, <1>00, <2>1 DEF ControlInv
    <2> QED BY <2>2 DEF AdmittedIsClean
  <1>15. CASE Reply
    <2>1. server \in Working /\ UNCHANGED <<world, control>>
      BY <1>0, <1>15, ServerStep
    <2>2. saved' = {}
      BY <1>0, <1>00, <2>1 DEF ControlInv
    <2> QED BY <2>2 DEF AdmittedIsClean
  <1>16. CASE Call
    <2>1. UNCHANGED <<world, control, gateway>>
      BY <1>16 DEF Call, Send
    <2> QED BY <1>0, <2>1 DEF AdmittedIsClean
  <1>17. CASE Retry
    <2>1. UNCHANGED <<world, control, gateway>>
      BY <1>17 DEF Retry, Send
    <2> QED BY <1>0, <2>1 DEF AdmittedIsClean
  <1>18. CASE Abandon
    BY <1>18, <1>0 DEF Abandon, AdmittedIsClean
  <1>19. CASE ScannerExits
    BY <1>19, <1>0 DEF ScannerExits, AdmittedIsClean
  <1>20. CASE TransportEnds
    BY <1>20, <1>0 DEF TransportEnds, AdmittedIsClean
  <1>21. CASE ScannerAlarm
    BY <1>21, <1>0 DEF ScannerAlarm, AdmittedIsClean
  <1>22. CASE Deadline
    BY <1>22, <1>0 DEF Deadline, AdmittedIsClean
  <1>23. CASE Kill
    BY <1>23, <1>0 DEF Kill, AdmittedIsClean
  <1>24. CASE UNCHANGED vars
    BY <1>24, <1>0 DEF vars, AdmittedIsClean
  <1> QED BY <1>1, <1>2, <1>3, <1>4, <1>5, <1>6, <1>7, <1>8,
      <1>9, <1>10, <1>11, <1>12, <1>13, <1>14, <1>15, <1>16,
      <1>17, <1>18, <1>19, <1>20, <1>21, <1>22, <1>23, <1>24
      DEF Next, Controller, Server, Worker

LEMMA ScanInvariant == Spec => []ScanInv
  <1>1. ScanInv /\ [Next]_vars => ScanInv'
    BY TypesStep, QueueStep, ControlStep, ReportStep, RecordsStep, CheckedStep,
        AdmittedStep DEF ScanInv
  <1> QED BY <1>1, InitScan, PTL DEF Spec

-----------------------------------------------------------------------------
\* Scanner, gateway and controller keep accounts that fit together, and a scan
\* that was admitted is clean: whatever was retried, abandoned or overtaken by
\* an error, every request the gateway counted completed and is on record.
THEOREM ScansAreSound == Spec => []ScanIsSound
  <1>1. ScanInv => ScanIsSound
    <2> SUFFICES ASSUME ScanInv PROVE TypeOK /\ AdmittedIsClean
        BY DEF ScanIsSound
    <2>0. TypesInv /\ QueueInv /\ ControlInv /\ RecordsInv /\ AdmittedIsClean
      BY DEF ScanInv
    <2>1. /\ scanner.waiting \in Nat /\ scanner.sent \in Nat
          /\ scanner.attempted \in Nat /\ scanner.succeeded \in Nat
          /\ Len(pending) \in Nat /\ MaxSends \in Nat
      BY <2>0, ScannerParts, Limits DEF TypesInv
    <2>2. scanner.waiting <= scanner.sent /\ Len(pending) <= MaxSends
      BY <2>0, <2>1 DEF QueueInv
    <2>3. scanner.succeeded <= scanner.attempted
      BY <2>0, <2>1 DEF QueueInv, Owed
    <2>4. scanner.attempted <= scanner.sent
      BY <2>0 DEF QueueInv
    <2>5. scanner.state \in {"none", "running", "exited", "dead"}
      BY <2>0 DEF TypesInv, ScannerType
    <2>6. (pc = "saved") <=> (saved # {})
      BY <2>0 DEF ControlInv
    <2>7. /\ server \in {"none", "idle", "exchange", "spawn", "communicate",
                         "completed", "failed", "reply", "reply-error",
                         "stopped", "gone"}
          /\ gateway.requests <= MaxRequests
          /\ Len(gateway.records) <= gateway.requests
      BY <2>0 DEF TypesInv, Working, RecordsInv
    <2> QED BY <2>0, <2>2, <2>3, <2>4, <2>5, <2>6, <2>7 DEF TypesInv, TypeOK
  <1> QED BY <1>1, ScanInvariant, PTL

\* When the result is saved neither the scanner nor a transport is running,
\* even when they ignore SIGTERM (invoke, __exit__, stop).
THEOREM NothingIsLeft == Spec => []NothingOutlivesTheScan
  <1>1. ScanInv => NothingOutlivesTheScan
    BY DEF ScanInv, ControlInv, NothingOutlivesTheScan
  <1> QED BY <1>1, ScanInvariant, PTL

LEMMA SendsQuietly ==
    Call \/ Retry => UNCHANGED <<world, control, server, shared>>
  <1>1. CASE Call
    BY <1>1 DEF Call, Send
  <1>2. CASE Retry
    BY <1>2 DEF Retry, Send
  <1> QED BY <1>1, <1>2

\* Nothing is sent to the model after the gateway's first error, or above its
\* limit, and nothing changes once the result is saved.
THEOREM ErrorsAreFinal == Spec => EvidenceIsFinal
  <1>1. ScanInv /\ [Next]_vars =>
            [transport # "running" /\ transport' = "running" =>
                ~gateway.error /\ gateway.requests <= MaxRequests]_vars
    <2> SUFFICES ASSUME ScanInv, [Next]_vars,
                        transport # "running", transport' = "running"
                 PROVE  ~gateway.error /\ gateway.requests <= MaxRequests
        OBVIOUS
    <2>1. Spawn
      <3>1. ~ExitStops
        BY DEF ExitStops, Stopped
      <3>2. ~(TransportEnds \/ Communicated)
        BY DEF TransportEnds, Communicated, Stopped
      <3>3. ~(\/ Preflight \/ InvokeStarts \/ InvokeEnds \/ Check
              \/ ExitLooks \/ Shutdown \/ Grade)
        BY DEF Preflight, InvokeStarts, InvokeEnds, Check, ExitLooks,
            Shutdown, Grade, shared
      <3>4. ~(Receive \/ Refuse \/ Admit \/ Clear \/ Reply)
        BY DEF Receive, Refuse, Admit, Clear, Reply, shared
      <3>5. ~(\/ Abandon \/ ScannerExits \/ ScannerAlarm \/ Deadline \/ Kill)
        BY DEF Abandon, ScannerExits, ScannerAlarm, Deadline, Kill, shared
      <3>6. ~(Call \/ Retry)
        BY SendsQuietly DEF shared
      <3>7. ~UNCHANGED vars
        BY DEF vars, shared
      <3> QED BY <3>1, <3>2, <3>3, <3>4, <3>5, <3>6, <3>7
          DEF Next, Controller, Server, Worker
    <2> QED BY <2>1 DEF Spawn, ScanInv, RecordsInv, InProgress
  <1>2. ScanInv /\ [Next]_vars =>
            [pc = "saved" => UNCHANGED <<gateway, transport, server>>]_vars
    <2> SUFFICES ASSUME ScanInv, [Next]_vars, pc = "saved"
                 PROVE  UNCHANGED <<gateway, transport, server>>
        OBVIOUS
    <2>1. /\ server \in {"none", "stopped"} /\ transport # "running"
      BY DEF ScanInv, ControlInv
    <2>2. ~Controller
      BY DEF Controller, Preflight, InvokeStarts, InvokeEnds, Check, ExitLooks,
          ExitStops, Shutdown, Grade
    <2>3. ~Server
      BY <2>1 DEF Server, Receive, Refuse, Admit, Spawn, Communicated, Clear,
          Reply
    <2>4. ~TransportEnds /\ ~Kill
      BY <2>1 DEF TransportEnds, Kill, Ended
    <2>5. CASE Abandon \/ ScannerExits \/ ScannerAlarm \/ Deadline
      BY <2>5 DEF Abandon, ScannerExits, ScannerAlarm, Deadline, shared,
          thread
    <2>6. CASE Call \/ Retry
      BY <2>6, SendsQuietly DEF shared
    <2>7. CASE UNCHANGED vars
      BY <2>7 DEF vars, shared, thread
    <2> QED BY <2>2, <2>3, <2>4, <2>5, <2>6, <2>7 DEF Next, Worker
  <1> QED BY <1>1, <1>2, ScanInvariant, PTL
      DEF Spec, EvidenceIsFinal, NothingSentAfterError, SavedEvidenceIsFinal

=============================================================================
