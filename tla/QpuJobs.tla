------------------------------- MODULE QpuJobs -------------------------------
(***************************************************************************)
(* A client of a quantum computer in the cloud (IBM or IonQ) or of the     *)
(* mock device: it connects, refreshes its calibration, and then samples a *)
(* circuit in batches until the estimate converges or the shot budget is   *)
(* used up.  Each batch is a job: submit it, poll its status up to a       *)
(* deadline, fetch its result.                                             *)
(*                                                                         *)
(* The service is external and fails in every way the client can tell      *)
(* apart: a request or its answer is lost, the service is busy, it refuses *)
(* or its answer cannot be read.  The counts of a batch are abstracted to  *)
(* how many there are and whether they name one outcome or several.  Time  *)
(* is counted in ticks, and only where a deadline depends on it.           *)
(***************************************************************************)
EXTENDS Integers, Sequences, SequencesExt

CONSTANTS
    Providers,      \* of "ibm", "ionq", "mock"
    Budgets,        \* shot_budget
    MinBatches,     \* ConvergenceCriterion.min_batch_size
    MaxRetries,     \* RetryPolicy.max_retries of the IBM client
    Deadline,       \* poll_timeout_secs, in ticks
    Latency,        \* ticks between the service's reading of a request and its answer
    Naps,           \* the intervals between two polls
    Reports,        \* gate properties of one qubit: sequences of "sx", "x", "id"
    None

ASSUME RetryAssumption == MaxRetries \in Nat
ASSUME ShotsAssumption == Budgets \subseteq Nat /\ MinBatches \subseteq Nat
ASSUME TimeAssumption == Deadline \in Nat /\ Latency \in Nat /\ Naps \subseteq Nat \ {0}

Smaller(a, b) == IF a < b THEN a ELSE b

VARIABLES
    provider,
    budget, minBatch,   \* arguments of submit
    client,             \* where the client is, its locals in submit, and its request
    device,             \* calibration: where it comes from, and the gate that gave the 1-qubit error
    job,                \* the job that is polled
    elapsed,            \* ticks since poll_until_done was called
    paid,               \* history: shots of the jobs whose identifier the client received
    honest              \* history: every batch reported the shots it was asked for

vars == <<provider, budget, minBatch, client, device, job, elapsed, paid, honest>>

Requests == {"token", "crn", "config", "list", "characterization", "properties", "submit",
             "status", "results", "probabilities"}
Replies == {"ok", "busy", "transient", "refused", "broken"}
Statuses == {"queued", "done", "failed"}
ASSUME NoneAssumption == None \notin Requests \cup Replies \cup Statuses \cup {"ok", "error", "timeout"}

NoJob == [status |-> None, shots |-> 0, ended |-> 0]

Init ==
    /\ provider \in Providers
    /\ budget \in Budgets
    /\ minBatch \in MinBatches
    /\ client = [at |-> IF provider = "mock" THEN "ready" ELSE "new", refreshing |-> FALSE,
                 refreshes |-> 1, req |-> None, served |-> FALSE, reply |-> None, body |-> None,
                 attempt |-> 0, age |-> 0, batch |-> 0, remaining |-> 0, total |-> 0,
                 counted |-> 0, outcomes |-> "none", result |-> None]
    /\ device = [cal |-> None, source |-> None, report |-> <<>>]
    /\ job = NoJob
    /\ elapsed = 0
    /\ paid = 0
    /\ honest = TRUE

-----------------------------------------------------------------------------
(***************************************************************************)
(* Requests.                                                               *)
(***************************************************************************)
Asking(c, req) == [c EXCEPT !.at = "asks", !.req = req, !.served = FALSE, !.reply = None,
                            !.body = None, !.attempt = 0, !.age = 0]
Asks(req) == client.at = "asks" /\ client.req = req
Quiet(c, at) == [Asking(c, None) EXCEPT !.at = at]
Ended(c, result) == [Quiet(c, "ended") EXCEPT !.result = result]

\* What the service answers to a request that it reads: the answer's body.
Bodies == CASE client.req \in {"token", "config"} -> {"fine"}
            [] client.req = "crn" -> {"fine", "absent"}
            [] client.req = "list" -> {"absent", "plain", "characterized"}
            [] client.req = "characterization" -> {"fine"}
            [] client.req = "properties" -> Reports
            [] client.req = "submit" -> {"fine"}
            [] client.req = "status" -> {job.status}
            [] client.req = "results" -> 0 .. client.batch + 1
            [] client.req = "probabilities" -> {"fine"}

\* The service reads the request; a submission makes a job each time.
Serve ==
    /\ client.at = "asks" /\ client.reply = None /\ ~client.served
    /\ \E b \in Bodies : client' = [client EXCEPT !.served = TRUE, !.body = b]
    /\ job' = IF client.req = "submit"
              THEN [status |-> "queued", shots |-> client.batch, ended |-> 0] ELSE job
    /\ UNCHANGED <<provider, budget, minBatch, device, elapsed, paid, honest>>

\* The answer, or something else, reaches the client.
Deliver ==
    /\ client.at = "asks" /\ client.reply = None
    /\ \E r \in Replies : /\ r = "ok" => client.served
                          /\ client' = [client EXCEPT !.reply = r]
    /\ UNCHANGED <<provider, budget, minBatch, device, job, elapsed, paid, honest>>

\* request_with_retry of the IBM client: a busy service and a transient transport error are
\* tried again.  The token exchange, the instance discovery and the IonQ client do not retry.
Retries ==
    /\ provider = "ibm" /\ client.req \notin {"token", "crn"}
    /\ client.reply \in {"busy", "transient"}
    /\ client.attempt < MaxRetries
Retry ==
    /\ client.at = "asks" /\ Retries
    /\ client' = [Asking(client, client.req) EXCEPT !.attempt = client.attempt + 1]
    /\ elapsed' = IF client.req = "status" THEN elapsed + 1 ELSE elapsed
    /\ UNCHANGED <<provider, budget, minBatch, device, job, paid, honest>>

\* The request is over, with an answer or with an error.
Answered(req) == Asks(req) /\ client.reply = "ok"
Failed(req) == Asks(req) /\ client.reply \in Replies \ {"ok"} /\ ~Retries

\* While the client waits for a status the clock goes on.
Tick ==
    /\ Asks("status") /\ client.reply = None /\ client.age < Latency
    /\ client' = [client EXCEPT !.age = @ + 1]
    /\ elapsed' = elapsed + 1
    /\ UNCHANGED <<provider, budget, minBatch, device, job, paid, honest>>

\* The device runs the job, or gives it up.  (When the call is over nobody looks any more.)
JobEnds ==
    /\ job.status = "queued" /\ client.at \in {"asks", "asleep"}
    /\ \E s \in {"done", "failed"} : job' = [job EXCEPT !.status = s, !.ended = elapsed]
    /\ UNCHANGED <<provider, budget, minBatch, client, device, elapsed, paid, honest>>

ClientOnly == UNCHANGED <<provider, budget, minBatch, device, job, elapsed, paid, honest>>
Goes(c) == client' = c /\ ClientOnly

-----------------------------------------------------------------------------
(***************************************************************************)
(* Connecting, and the calibration.                                        *)
(***************************************************************************)
Ready(c) == [Quiet(c, "ready") EXCEPT !.refreshing = FALSE]
Synthetic == [cal |-> "synthetic", source |-> None, report |-> <<>>]

\* The 1-qubit gate error that from_ibm_properties keeps: sx before x before id.
Rank == [g \in {None, "id", "x", "sx"} |-> CASE g = None -> 0 [] g = "id" -> 1
                                             [] g = "x" -> 2 [] g = "sx" -> 3]
BestGate(report) ==
    FoldLeft(LAMBDA kept, g : IF g = "sx" \/ Rank[kept] < Rank[g] THEN g ELSE kept, None, report)

\* IbmRestClient::new and IbmQpuBackend::from_device.
ConnectIbm ==
    \/ client.at = "new" /\ provider = "ibm" /\ Goes(Asking(client, "token"))
    \/ Answered("token") /\ Goes(Asking(client, "crn"))
    \/ /\ Answered("crn")
       /\ Goes(IF client.body = "absent" THEN Ended(client, "error") ELSE Asking(client, "config"))
    \/ \E req \in {"token", "crn", "config"} : Failed(req) /\ Goes(Ended(client, "error"))
    \/ /\ Answered("config")
       /\ client' = Ready(client) /\ device' = Synthetic
       /\ UNCHANGED <<provider, budget, minBatch, job, elapsed, paid, honest>>

\* IonQQpuBackend::from_device and refresh_calibration: the list of devices, then the
\* characterization, if there is one.  Only a refresh reports that it cannot be fetched.
ConnectIonq ==
    \/ client.at = "new" /\ provider = "ionq" /\ Goes(Asking(client, "list"))
    \/ /\ Answered("list") /\ client.body = "characterized"
       /\ Goes(Asking(client, "characterization"))
    \/ /\ Answered("list") /\ client.body = "plain"
       /\ client' = Ready(client)
       /\ device' = IF client.refreshing THEN device ELSE Synthetic
       /\ UNCHANGED <<provider, budget, minBatch, job, elapsed, paid, honest>>
    \/ /\ \/ Failed("list")
          \/ Answered("list") /\ client.body = "absent"
       /\ Goes(IF client.refreshing THEN Ready(client) ELSE Ended(client, "error"))
Uncharacterized(d) == IF client.refreshing THEN d ELSE Synthetic
Characterized ==
    /\ Answered("characterization") \/ Failed("characterization")
    /\ client' = Ready(client)
    /\ device' = IF client.reply = "ok" THEN [Synthetic EXCEPT !.cal = "live"]
                 ELSE Uncharacterized(device)
    /\ UNCHANGED <<provider, budget, minBatch, job, elapsed, paid, honest>>

\* refresh_calibration of either client; the caller may ignore its error.
Refresh ==
    /\ client.at = "ready" /\ client.refreshes > 0 /\ provider # "mock"
    /\ Goes([Asking(client, IF provider = "ibm" THEN "properties" ELSE "list")
                EXCEPT !.refreshes = @ - 1, !.refreshing = TRUE])
Refreshed ==
    /\ Answered("properties")
    /\ client' = Ready(client)
    /\ device' = [cal |-> "live", source |-> BestGate(client.body), report |-> client.body]
    /\ UNCHANGED <<provider, budget, minBatch, job, elapsed, paid, honest>>
NotRefreshed == Failed("properties") /\ Goes(Ready(client))

-----------------------------------------------------------------------------
(***************************************************************************)
(* submit: the sampling loop.                                              *)
(***************************************************************************)
\* The circuit is too wide, or cannot be converted; IonQ wants a budget.
Refuse == client.at = "ready" /\ Goes(Ended(client, "error"))
Submit ==
    /\ client.at = "ready"
    /\ Goes(IF provider = "ionq" /\ budget = 0 THEN Ended(client, "error")
            ELSE [client EXCEPT !.at = "loop", !.remaining = budget])

\* The next batch.  (Faulty: always a whole one.)
BatchWhole(c) == minBatch
Batch(c) == Smaller(minBatch, c.remaining)

Begin ==
    /\ client.at = "loop" /\ provider # "mock"
    /\ Goes(IF Batch(client) = 0 THEN Ended(client, "ok")
            ELSE [Asking(client, "submit") EXCEPT !.batch = Batch(client)])

\* submit_job: the identifier arrives, and poll_until_done begins; or the batch, and with it
\* the whole call, fails.
Submitted ==
    /\ Answered("submit")
    /\ client' = Asking(client, "status")
    /\ elapsed' = 0
    /\ paid' = IF honest THEN paid + client.batch ELSE paid
    /\ UNCHANGED <<provider, budget, minBatch, device, job, honest>>
Lost == \E req \in {"submit", "status", "results", "probabilities"} :
            Failed(req) /\ Goes(Ended(client, "error"))

\* poll_until_done: the status decides first, then the deadline.
\* (PolledLate is faulty: after the deadline a finished job counts as late.)
Finished(c, status) ==
    IF status = "failed" THEN Ended(c, "error")
    ELSE Asking(c, IF provider = "ibm" THEN "results" ELSE "probabilities")
Awaited(c) == IF elapsed > Deadline THEN Ended(c, "timeout") ELSE Quiet(c, "asleep")
PolledLate(c, status) ==
    IF elapsed <= Deadline /\ status \in {"done", "failed"} THEN Finished(c, status) ELSE Awaited(c)
Polled(c, status) == IF status \in {"done", "failed"} THEN Finished(c, status) ELSE Awaited(c)
Poll == Answered("status") /\ Goes(Polled(client, client.body))
Sleep ==
    /\ client.at = "asleep"
    /\ client' = Asking(client, "status")
    /\ \E n \in Naps : elapsed' = elapsed + n
    /\ UNCHANGED <<provider, budget, minBatch, device, job, paid, honest>>

\* BayesianEstimator: an update with n counts, and is_converged.
Merged(old, new) == IF old = "none" THEN new ELSE IF new = "none" THEN old ELSE "many"
Updated(c, n, outcomes) == [c EXCEPT !.counted = @ + n, !.outcomes = Merged(@, outcomes)]
Kinds(n) == CASE n = 0 -> {"none"} [] n = 1 -> {"one"} [] OTHER -> {"one", "many"}
Converged(c) == CASE c.counted = 0 -> {FALSE}
                  [] c.outcomes = "one" -> {c.counted >= minBatch}
                  [] OTHER -> BOOLEAN

\* The end of a turn: shots were taken and n counts came back.
\* (Faulty: the remaining budget is not kept from going below zero.)
SpentUnchecked(c, shots) == [c EXCEPT !.total = @ + shots, !.remaining = @ - shots]
Spent(c, shots) == [c EXCEPT !.total = @ + shots,
                             !.remaining = IF shots > @ THEN 0 ELSE @ - shots]
Turn(shots, n) ==
    \E o \in Kinds(n) :
       LET c == Updated(Spent(client, shots), n, o) IN
       \E done \in Converged(c) :
          /\ client' = IF done \/ c.remaining = 0 THEN Ended(c, "ok") ELSE Quiet(c, "loop")
          /\ job' = NoJob /\ elapsed' = 0

\* result_to_counts of the IBM client: the samples that can be read are the shots; there may
\* be fewer than asked for, or more when the circuit has several registers.
CollectIbm ==
    /\ Answered("results")
    /\ Turn(client.body, client.body)
    /\ honest' = (honest /\ client.body = client.batch)
    /\ UNCHANGED <<provider, budget, minBatch, device, paid>>

\* IonQ: a shots field that is missing or 0 stands for the batch; probabilities may be absent,
\* and are rounded to counts.  (Faulty: 0 is taken at its word.)
ReportedAsIs(shots) == shots
Reported(shots) == IF shots > 0 THEN shots ELSE client.batch
CollectIonq ==
    /\ Answered("probabilities")
    /\ \E said \in 0 .. client.batch :
          LET shots == Reported(said) IN
          /\ \E n \in {0, shots, shots + 1} : Turn(shots, n)
          /\ honest' = (honest /\ shots = client.batch)
    /\ UNCHANGED <<provider, budget, minBatch, device, paid>>

\* MockQpuBackend::submit: suggest_batch_size is between min and 10 * min.
SampleMock ==
    /\ client.at = "loop" /\ provider = "mock"
    /\ IF client.remaining = 0 THEN client' = Ended(client, "ok") /\ UNCHANGED <<job, elapsed>>
       ELSE \E k \in 1 .. 10 :
              LET shots == Smaller(k * minBatch, client.remaining) IN
              /\ client.counted = 0 => k = 1
              /\ Turn(shots, shots)
    /\ UNCHANGED <<provider, budget, minBatch, device, paid, honest>>

Acts == \/ Retry \/ ConnectIbm \/ ConnectIonq \/ Characterized \/ Refreshed \/ NotRefreshed
        \/ Submit \/ Begin \/ Submitted \/ Lost \/ Poll \/ Sleep \/ CollectIbm \/ CollectIonq
        \/ SampleMock
Next == Acts \/ Refuse \/ Refresh \/ Serve \/ Deliver \/ Tick \/ JobEnds

\* The client's thread runs, and every request ends somehow (the transport has timeouts); the
\* job may stay in the queue for ever.
Spec == Init /\ [][Next]_vars /\ WF_vars(Acts) /\ WF_vars(Deliver)

-----------------------------------------------------------------------------
(***************************************************************************)
(* Properties.                                                             *)
(***************************************************************************)
TypeOK ==
    /\ provider \in Providers /\ budget \in Budgets /\ minBatch \in MinBatches
    /\ client.at \in {"new", "ready", "loop", "asks", "asleep", "ended"}
    /\ client.req \in Requests \cup {None}
    /\ client.reply \in Replies \cup {None}
    /\ client.attempt \in 0 .. MaxRetries
    /\ client.remaining \in 0 .. budget
    /\ client.outcomes \in {"none", "one", "many"}
    /\ client.result \in {None, "ok", "error", "timeout"}
    /\ device.cal \in {None, "synthetic", "live"}
    /\ job.status \in Statuses \cup {None}
    /\ elapsed \in Nat /\ paid \in Nat /\ honest \in BOOLEAN

\* Whatever is lost, retried or late, the jobs that the client knows of never ask for more shots
\* than the budget, as long as the service reports the shots it was asked for; only a
\* submission whose answer was lost can make a job beyond it.
PaidWithinBudget == honest => paid <= budget

\* A timeout is reported only for a job that was not finished when the deadline passed, up to
\* the time an answer travels: a job that finished during the last sleep is not thrown away.
TimeoutJustified ==
    client.result = "timeout" => job.status = "queued" \/ job.ended + Latency > Deadline

\* A call of submit ends: it converges, uses the budget up, or fails.  The IBM client has one
\* way out of that, a service whose batches stay empty for ever.
Ends == <>(client.at = "ended") \/ (provider = "ibm" /\ []<>(Asks("results") /\ client.body = 0))
=============================================================================
