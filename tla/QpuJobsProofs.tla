---------------------------- MODULE QpuJobsProofs ----------------------------
(***************************************************************************)
(* Proofs about the client of a quantum computer: its types, the budget,   *)
(* and the deadline of a poll; and about the cache of the circuits that    *)
(* were compiled for it.                                                   *)
(***************************************************************************)
EXTENDS QpuJobs, CacheCalls, FiniteSetTheorems, SequenceTheorems, TLAPS

Places == {"new", "ready", "loop", "asks", "asleep", "ended"}
Answers == {None, "fine", "absent", "plain", "characterized"} \cup Statuses \cup Nat \cup Reports
Outcomes == {"none", "one", "many"}
Results == {None, "ok", "error", "timeout"}

Client == [at : Places, refreshing : BOOLEAN, refreshes : {0, 1}, req : Requests \cup {None},
           served : BOOLEAN, reply : Replies \cup {None}, body : Answers, attempt : 0 .. MaxRetries,
           age : 0 .. Latency, batch : Nat, remaining : Nat, total : Nat, counted : Nat,
           outcomes : Outcomes, result : Results]
Job == [status : Statuses \cup {None}, shots : Nat, ended : Nat]

\* The requests about a job that was paid for, and the ones of its batch.
OfJob == {"status", "results", "probabilities"}
OfBatch == OfJob \cup {"submit"}
InJob(c) == c.at = "asleep" \/ (c.at = "asks" /\ c.req \in OfJob)
InBatch(c) == c.at = "asleep" \/ (c.at = "asks" /\ c.req \in OfBatch)
Connecting(c) == c.at \in {"new", "ready"} \/ (c.at = "asks" /\ c.req \notin OfBatch)

\* A request is one of the client's, an answer was given by the service; a job is known while one is polled.
AnswersServed(c) == (c.at = "asks" => c.req \in Requests) /\ (c.reply = "ok" => c.served)
BodyRead(c) == c.at = "asks" /\ c.req = "results" /\ c.served => c.body \in Nat
JobKnown(c, j) ==
    /\ c.at = "asks" /\ c.req = "submit" /\ c.served => j.status \in Statuses
    /\ InJob(c) => j.status \in Statuses
    /\ c.at = "asks" /\ c.req = "status" /\ c.served => c.body \in Statuses

\* What is paid for and what is left stay within the budget: the batch that is being worked on is
\* counted in both.
Covered(c, b, p, h) ==
    /\ c.remaining <= b
    /\ InBatch(c) => c.batch <= c.remaining
    /\ Connecting(c) => p = 0 /\ h
    /\ h /\ (c.at = "loop" \/ (c.at = "asks" /\ c.req = "submit")) => p + c.remaining <= b
    /\ h /\ InJob(c) => p + c.remaining <= b + c.batch
    /\ h /\ c.at = "ended" => p <= b

\* A status that says "queued" was true at most as long ago as the answer has travelled.
Fresh(c, j, e) ==
    /\ c.at = "asks" /\ c.req = "status" /\ c.served /\ c.body = "queued"
          => j.status = "queued" \/ j.ended + c.age >= e
    /\ c.result # None => c.at = "ended"
    /\ c.result = "timeout" => j.status = "queued" \/ j.ended + Latency > Deadline

Good(c, j, b, e, p, h) ==
    /\ c \in Client /\ j \in Job /\ e \in Nat /\ p \in Nat /\ h \in BOOLEAN
    /\ AnswersServed(c) /\ BodyRead(c) /\ JobKnown(c, j)
    /\ Covered(c, b, p, h)
    /\ Fresh(c, j, e)

Fixed == provider \in Providers /\ budget \in Budgets /\ minBatch \in MinBatches
Calibrated == device.cal \in {None, "synthetic", "live"}
IInv == Fixed /\ Calibrated /\ Good(client, job, budget, elapsed, paid, honest)

-----------------------------------------------------------------------------
\* What the helpers that move the client leave of it.
LEMMA AskingFields ==
    ASSUME NEW c \in Client, NEW r \in Requests \cup {None}
    PROVE  /\ Asking(c, r) \in Client
           /\ Asking(c, r).at = "asks" /\ Asking(c, r).req = r
           /\ Asking(c, r).served = FALSE /\ Asking(c, r).reply = None
           /\ Asking(c, r).age = 0
           /\ Asking(c, r).batch = c.batch /\ Asking(c, r).remaining = c.remaining
           /\ Asking(c, r).result = c.result
  <1>1. 0 \in 0 .. MaxRetries /\ 0 \in 0 .. Latency
    BY RetryAssumption, TimeAssumption
  <1>2. Asking(c, r) \in Client
    BY <1>1 DEF Client, Asking, Places, Answers
  <1> QED
    BY <1>2 DEF Client, Asking

LEMMA QuietFields ==
    ASSUME NEW c \in Client, NEW at \in Places
    PROVE  /\ Quiet(c, at) \in Client
           /\ Quiet(c, at).at = at
           /\ Quiet(c, at).served = FALSE /\ Quiet(c, at).reply = None
           /\ Quiet(c, at).batch = c.batch /\ Quiet(c, at).remaining = c.remaining
           /\ Quiet(c, at).result = c.result
  <1>1. Asking(c, None) \in Client
    BY AskingFields
  <1>2. Quiet(c, at) \in Client
    BY <1>1 DEF Client, Quiet
  <1>3. /\ Asking(c, None).served = FALSE /\ Asking(c, None).reply = None
        /\ Asking(c, None).batch = c.batch /\ Asking(c, None).remaining = c.remaining
        /\ Asking(c, None).result = c.result
    BY AskingFields
  <1> HIDE DEF Asking
  <1> QED
    BY <1>1, <1>2, <1>3 DEF Client, Quiet

LEMMA EndedFields ==
    ASSUME NEW c \in Client, NEW r \in Results
    PROVE  /\ Ended(c, r) \in Client
           /\ Ended(c, r).at = "ended"
           /\ Ended(c, r).served = FALSE /\ Ended(c, r).reply = None
           /\ Ended(c, r).remaining = c.remaining
           /\ Ended(c, r).result = r
  <1>1. Quiet(c, "ended") \in Client
    BY QuietFields DEF Places
  <1> QED
    <2>1. Quiet(c, "ended").at = "ended" /\ Quiet(c, "ended").served = FALSE
          /\ Quiet(c, "ended").reply = None /\ Quiet(c, "ended").remaining = c.remaining
      BY QuietFields DEF Places
    <2>2. Ended(c, r) = [Quiet(c, "ended") EXCEPT !.result = r]
      BY DEF Ended
    <2> QED BY <1>1, <2>1, <2>2 DEF Client

LEMMA InitGood == Init => IInv
  <1> SUFFICES ASSUME Init PROVE IInv
    OBVIOUS
  <1>1. budget \in Nat
    BY ShotsAssumption DEF Init
  <1>2. Fixed /\ Calibrated
    BY DEF Init, Fixed, Calibrated
  <1>3. client \in Client /\ job \in Job
    BY RetryAssumption, TimeAssumption
    DEF Init, Client, Job, NoJob, Places, Answers, Outcomes, Results
  <1>4. /\ client.at \in {"new", "ready"} /\ client.reply = None /\ client.served = FALSE
        /\ client.remaining = 0 /\ client.result = None
    BY DEF Init
  <1>5. elapsed = 0 /\ paid = 0 /\ honest = TRUE
    BY DEF Init
  <1> QED
    BY <1>1, <1>2, <1>3, <1>4, <1>5, NoneAssumption
    DEF IInv, Good, AnswersServed, BodyRead, JobKnown, Covered, Fresh, InJob, InBatch, Replies

\* A call that ends, with anything but a timeout, keeps the invariant.
LEMMA EndingGood ==
    ASSUME IInv, NEW r \in {"ok", "error"}, client.at # "ended"
    PROVE  Good(Ended(client, r), job, budget, elapsed, paid, honest)
  <1>1. budget \in Nat
    BY ShotsAssumption DEF IInv, Fixed
  <1>2. client \in Client /\ r \in Results
    BY DEF IInv, Good, Results
  <1>3. /\ Ended(client, r) \in Client
        /\ Ended(client, r).at = "ended"
        /\ Ended(client, r).served = FALSE /\ Ended(client, r).reply = None
        /\ Ended(client, r).remaining = client.remaining
        /\ Ended(client, r).result = r
    BY <1>2, EndedFields
  <1>4. client.at \in Places /\ client.remaining \in Nat /\ client.batch \in Nat
    BY <1>2 DEF Client
  <1>5. honest => paid <= budget
    BY <1>1, <1>4 DEF IInv, Good, Covered, InJob, InBatch, Connecting, Places, OfJob, OfBatch
  <1> QED
    BY <1>1, <1>3, <1>5, NoneAssumption
    DEF IInv, Good, AnswersServed, BodyRead, JobKnown, Covered, Fresh, InJob, InBatch,
        Connecting, Replies

\* A step of the client alone.
LEMMA GoesGood ==
    ASSUME IInv, NEW c, Goes(c), Good(c, job, budget, elapsed, paid, honest)
    PROVE  IInv'
  BY DEF IInv, Goes, ClientOnly, Fixed, Calibrated

\* What the proofs of the steps use of the invariant.
LEMMA Typed ==
    ASSUME IInv
    PROVE  /\ client \in Client /\ job \in Job /\ elapsed \in Nat /\ paid \in Nat /\ honest \in BOOLEAN
           /\ budget \in Nat /\ minBatch \in Nat
           /\ client.at \in Places /\ client.remaining \in Nat /\ client.batch \in Nat
           /\ client.age \in Nat /\ client.body \in Answers /\ client.served \in BOOLEAN
           /\ job.status \in Statuses \cup {None} /\ job.ended \in Nat
           /\ client.remaining <= budget
  <1>1. client \in Client /\ job \in Job
    BY DEF IInv, Good
  <1>2. budget \in Nat /\ minBatch \in Nat
    BY ShotsAssumption DEF IInv, Fixed
  <1> QED
    BY <1>1, <1>2, TimeAssumption DEF IInv, Good, Covered, Client, Job

-----------------------------------------------------------------------------
\* The service and the clock.
LEMMA ServeGood == ASSUME IInv, Serve PROVE IInv'
  <1>1. PICK b \in Bodies : client' = [client EXCEPT !.served = TRUE, !.body = b]
    BY DEF Serve
  <1>2. /\ client.at = "asks" /\ client.reply = None
        /\ UNCHANGED <<provider, budget, minBatch, device, elapsed, paid, honest>>
    BY DEF Serve
  <1>3. /\ client.req = "submit" => job' = [status |-> "queued", shots |-> client.batch, ended |-> 0]
        /\ client.req # "submit" => job' = job
    BY DEF Serve
  <1>4. client.req \in Requests
    BY <1>2, Typed DEF IInv, Good, AnswersServed
  <1>5. b \in Answers
    <2>1. client.req = "status" => job.status \in Statuses
      BY <1>2 DEF IInv, Good, JobKnown, InJob, OfJob
    <2>2. client.req = "results" => b \in Nat
      BY <1>1, Typed DEF Bodies
    <2> QED
      BY <1>1, <1>4, <2>1, <2>2 DEF Bodies, Answers, Requests
  <1>6. client' \in Client
    BY <1>1, <1>5, Typed DEF Client
  <1>7. job' \in Job
    BY <1>3, Typed DEF Job, Statuses
  <1>8. /\ client'.served = TRUE /\ client'.body = b
        /\ client'.at = client.at /\ client'.req = client.req /\ client'.reply = client.reply
        /\ client'.batch = client.batch /\ client'.remaining = client.remaining
        /\ client'.result = client.result /\ client'.age = client.age
    BY <1>1, Typed DEF Client
  <1>9. client.req = "results" => b \in Nat
    BY <1>1, Typed DEF Bodies
  <1>10. client.req = "status" => b = job.status /\ job.status \in Statuses
    BY <1>1, <1>2 DEF Bodies, IInv, Good, JobKnown, InJob, OfJob
  <1>11. client.req = "submit" => job'.status \in Statuses
    BY <1>3 DEF Statuses
  <1>12. AnswersServed(client') /\ BodyRead(client')
    BY <1>2, <1>4, <1>8, <1>9 DEF AnswersServed, BodyRead
  <1>13. JobKnown(client', job')
    BY <1>2, <1>3, <1>8, <1>10, <1>11 DEF JobKnown, InJob, OfJob, IInv, Good
  <1>14. Covered(client', budget', paid', honest')
    BY <1>2, <1>8 DEF Covered, InJob, InBatch, Connecting, IInv, Good
  <1>15. Fresh(client', job', elapsed')
    BY <1>2, <1>3, <1>8, <1>10, NoneAssumption DEF Fresh, IInv, Good
  <1> QED
    BY <1>2, <1>6, <1>7, <1>12, <1>13, <1>14, <1>15, Typed DEF IInv, Good, Fixed, Calibrated

LEMMA DeliverGood == ASSUME IInv, Deliver PROVE IInv'
  <1>1. PICK r \in Replies : (r = "ok" => client.served) /\ client' = [client EXCEPT !.reply = r]
    BY DEF Deliver
  <1>2. /\ client.at = "asks"
        /\ UNCHANGED <<provider, budget, minBatch, device, job, elapsed, paid, honest>>
    BY DEF Deliver
  <1>3. client' \in Client
    BY <1>1, Typed DEF Client
  <1>4. /\ client'.served = client.served /\ client'.body = client.body /\ client'.reply = r
        /\ client'.at = client.at /\ client'.req = client.req
        /\ client'.batch = client.batch /\ client'.remaining = client.remaining
        /\ client'.result = client.result /\ client'.age = client.age
    BY <1>1, Typed DEF Client
  <1>5. AnswersServed(client') /\ BodyRead(client') /\ JobKnown(client', job')
    BY <1>1, <1>2, <1>4 DEF AnswersServed, BodyRead, JobKnown, InJob, IInv, Good
  <1>6. Covered(client', budget', paid', honest') /\ Fresh(client', job', elapsed')
    BY <1>2, <1>4 DEF Covered, Fresh, InJob, InBatch, Connecting, IInv, Good
  <1> QED
    BY <1>2, <1>3, <1>5, <1>6, Typed DEF IInv, Good, Fixed, Calibrated

LEMMA TickGood == ASSUME IInv, Tick PROVE IInv'
  <1>1. /\ client.at = "asks" /\ client.req = "status" /\ client.age < Latency
        /\ client' = [client EXCEPT !.age = @ + 1] /\ elapsed' = elapsed + 1
        /\ UNCHANGED <<provider, budget, minBatch, device, job, paid, honest>>
    BY DEF Tick, Asks
  <1>2. client.age + 1 \in 0 .. Latency
    BY <1>1, Typed, TimeAssumption
  <1>3. client' \in Client
    BY <1>1, <1>2, Typed DEF Client
  <1>4. /\ client'.served = client.served /\ client'.body = client.body
        /\ client'.reply = client.reply
        /\ client'.at = client.at /\ client'.req = client.req
        /\ client'.batch = client.batch /\ client'.remaining = client.remaining
        /\ client'.result = client.result /\ client'.age = client.age + 1
    BY <1>1, Typed DEF Client
  <1>5. AnswersServed(client') /\ BodyRead(client') /\ JobKnown(client', job')
    BY <1>1, <1>4 DEF AnswersServed, BodyRead, JobKnown, InJob, IInv, Good
  <1>6. Covered(client', budget', paid', honest')
    BY <1>1, <1>4 DEF Covered, InJob, InBatch, Connecting, IInv, Good
  <1>7. Fresh(client', job', elapsed')
    BY <1>1, <1>4, Typed DEF Fresh, IInv, Good
  <1> QED
    BY <1>1, <1>3, <1>5, <1>6, <1>7, Typed DEF IInv, Good, Fixed, Calibrated

LEMMA JobEndsGood == ASSUME IInv, JobEnds PROVE IInv'
  <1>1. PICK s \in {"done", "failed"} : job' = [job EXCEPT !.status = s, !.ended = elapsed]
    BY DEF JobEnds
  <1>2. /\ job.status = "queued" /\ client.at \in {"asks", "asleep"}
        /\ UNCHANGED <<provider, budget, minBatch, client, device, elapsed, paid, honest>>
    BY DEF JobEnds
  <1>3. job' \in Job /\ job'.status = s /\ job'.ended = elapsed
    BY <1>1, Typed DEF Job, Statuses
  <1>4. JobKnown(client, job')
    BY <1>2, <1>3 DEF JobKnown, Statuses, IInv, Good
  <1>5. Fresh(client, job', elapsed)
    <2>1. job'.ended + client.age >= elapsed
      BY <1>3, Typed
    <2>2. client.result # None => client.at = "ended"
      BY DEF IInv, Good, Fresh
    <2> QED
      BY <1>2, <2>1, <2>2, NoneAssumption DEF Fresh
  <1> QED
    BY <1>2, <1>3, <1>4, <1>5 DEF IInv, Good, Fixed, Calibrated

\* A request that starts anew: its answer is still to come.
LEMMA RequestGood ==
    ASSUME IInv, NEW r \in Requests, client.at # "ended",
           r \notin OfBatch => Connecting(client),
           r = "submit" => client.at = "asks" /\ client.req = "submit",
           r \in OfJob => InJob(client)
    PROVE  \A e \in Nat : Good(Asking(client, r), job, budget, e, paid, honest)
  <1> DEFINE c == Asking(client, r)
  <1>1. /\ c \in Client /\ c.at = "asks" /\ c.req = r /\ c.served = FALSE /\ c.reply = None
        /\ c.batch = client.batch /\ c.remaining = client.remaining /\ c.result = client.result
    BY AskingFields, Typed
  <1> HIDE DEF c
  <1>2. AnswersServed(c) /\ BodyRead(c)
    BY <1>1, NoneAssumption DEF AnswersServed, BodyRead, Replies
  <1>3. JobKnown(c, job)
    BY <1>1 DEF JobKnown, InJob, IInv, Good
  <1>4. Covered(c, budget, paid, honest)
    BY <1>1, Typed DEF Covered, InJob, InBatch, Connecting, OfJob, OfBatch, IInv, Good
  <1>5. \A e \in Nat : Fresh(c, job, e)
    BY <1>1, NoneAssumption DEF Fresh, IInv, Good
  <1>6. \A e \in Nat : Good(c, job, budget, e, paid, honest)
    BY <1>1, <1>2, <1>3, <1>4, <1>5, Typed DEF Good
  <1> QED
    BY <1>6 DEF c

LEMMA RetryGood == ASSUME IInv, Retry PROVE IInv'
  <1>1. /\ client.at = "asks" /\ client.attempt < MaxRetries
        /\ client' = [Asking(client, client.req) EXCEPT !.attempt = client.attempt + 1]
        /\ elapsed' \in {elapsed, elapsed + 1}
        /\ UNCHANGED <<provider, budget, minBatch, device, job, paid, honest>>
    BY DEF Retry, Retries
  <1>2. client.req \in Requests /\ client.attempt \in 0 .. MaxRetries
    BY <1>1, Typed DEF IInv, Good, AnswersServed, Client
  <1> DEFINE c == Asking(client, client.req)
  <1>3. \A e \in Nat : Good(c, job, budget, e, paid, honest)
    BY <1>1, <1>2, RequestGood DEF InJob, OfJob, OfBatch, Connecting
  <1> HIDE DEF c
  <1>4. client.attempt + 1 \in 0 .. MaxRetries
    BY <1>1, <1>2, RetryAssumption
  <1>5. c \in Client /\ client' = [c EXCEPT !.attempt = client.attempt + 1]
    BY <1>1, <1>3, Typed DEF Good, c
  <1>6. /\ client' \in Client
        /\ client'.served = c.served /\ client'.body = c.body /\ client'.reply = c.reply
        /\ client'.at = c.at /\ client'.req = c.req
        /\ client'.batch = c.batch /\ client'.remaining = c.remaining
        /\ client'.result = c.result /\ client'.age = c.age
    BY <1>4, <1>5 DEF Client
  <1>7. elapsed' \in Nat
    BY <1>1, Typed
  <1>8. Good(c, job, budget, elapsed', paid, honest)
    BY <1>3, <1>7
  <1>9. Good(client', job, budget, elapsed', paid, honest)
    BY <1>6, <1>8 DEF Good, AnswersServed, BodyRead, JobKnown, Covered, Fresh, InJob, InBatch, Connecting
  <1> QED
    BY <1>1, <1>9 DEF IInv, Fixed, Calibrated

-----------------------------------------------------------------------------
\* Connecting, and the calibration: nothing is paid for yet.
LEMMA ReadyGood ==
    ASSUME IInv, Connecting(client)
    PROVE  Good(Ready(client), job, budget, elapsed, paid, honest)
  <1> DEFINE q == Quiet(client, "ready")
             c == Ready(client)
  <1>1. /\ q \in Client /\ q.at = "ready" /\ q.served = FALSE /\ q.reply = None
        /\ q.remaining = client.remaining /\ q.result = client.result
    BY QuietFields, Typed DEF Places
  <1>2. c = [q EXCEPT !.refreshing = FALSE]
    BY DEF Ready
  <1> HIDE DEF c, q
  <1>3. /\ c \in Client /\ c.at = "ready" /\ c.served = FALSE /\ c.reply = None
        /\ c.remaining = client.remaining /\ c.result = client.result
    BY <1>1, <1>2 DEF Client
  <1>4. client.result = None
    BY DEF IInv, Good, Fresh, Connecting
  <1>5. Good(c, job, budget, elapsed, paid, honest)
    BY <1>3, <1>4, Typed, NoneAssumption
    DEF IInv, Good, AnswersServed, BodyRead, JobKnown, Covered, Fresh, InJob, InBatch,
        Connecting, Replies
  <1> QED
    BY <1>5 DEF c

LEMMA RequestStep ==
    ASSUME IInv, NEW r \in Requests \ OfBatch, Connecting(client), Goes(Asking(client, r))
    PROVE  IInv'
  <1>1. Good(Asking(client, r), job, budget, elapsed, paid, honest)
    BY RequestGood, Typed DEF Connecting, OfBatch
  <1> QED
    BY <1>1, GoesGood

LEMMA EndingStep ==
    ASSUME IInv, NEW r \in {"ok", "error"}, client.at # "ended", Goes(Ended(client, r))
    PROVE  IInv'
  BY EndingGood, GoesGood

LEMMA ReadyStep ==
    ASSUME IInv, Connecting(client), client' = Ready(client), device'.cal \in {None, "synthetic", "live"},
           UNCHANGED <<provider, budget, minBatch, job, elapsed, paid, honest>>
    PROVE  IInv'
  BY ReadyGood DEF IInv, Fixed, Calibrated

LEMMA ConnectIbmGood == ASSUME IInv, ConnectIbm PROVE IInv'
  <1>1. CASE client.at = "new" /\ Goes(Asking(client, "token"))
    BY <1>1, RequestStep DEF Connecting, Requests, OfBatch, OfJob
  <1>2. CASE Answered("token") /\ Goes(Asking(client, "crn"))
    BY <1>2, RequestStep DEF Connecting, Requests, OfBatch, OfJob, Answered, Asks
  <1>3. CASE Answered("crn") /\ Goes(Ended(client, "error"))
    BY <1>3, EndingStep DEF Answered, Asks
  <1>4. CASE Answered("crn") /\ Goes(Asking(client, "config"))
    BY <1>4, RequestStep DEF Connecting, Requests, OfBatch, OfJob, Answered, Asks
  <1>5. CASE client.at = "asks" /\ Goes(Ended(client, "error"))
    BY <1>5, EndingStep
  <1>6. CASE /\ Answered("config") /\ client' = Ready(client) /\ device' = Synthetic
             /\ UNCHANGED <<provider, budget, minBatch, job, elapsed, paid, honest>>
    BY <1>6, ReadyStep DEF Connecting, OfBatch, OfJob, Answered, Asks, Synthetic
  <1> QED
    BY <1>1, <1>2, <1>3, <1>4, <1>5, <1>6 DEF ConnectIbm, Failed, Asks

LEMMA ConnectIonqGood == ASSUME IInv, ConnectIonq PROVE IInv'
  <1>1. CASE client.at = "new" /\ Goes(Asking(client, "list"))
    BY <1>1, RequestStep DEF Connecting, Requests, OfBatch, OfJob
  <1>2. CASE Answered("list") /\ Goes(Asking(client, "characterization"))
    BY <1>2, RequestStep DEF Connecting, Requests, OfBatch, OfJob, Answered, Asks
  <1>3. CASE /\ Answered("list") /\ client' = Ready(client)
             /\ device' \in {device, Synthetic}
             /\ UNCHANGED <<provider, budget, minBatch, job, elapsed, paid, honest>>
    BY <1>3, ReadyStep
    DEF Connecting, OfBatch, OfJob, Answered, Asks, Synthetic, IInv, Calibrated
  <1>4. CASE Asks("list") /\ Goes(Ready(client))
    BY <1>4, ReadyGood, GoesGood DEF Connecting, OfBatch, OfJob, Asks
  <1>5. CASE Asks("list") /\ Goes(Ended(client, "error"))
    BY <1>5, EndingStep DEF Asks
  <1> QED
    BY <1>1, <1>2, <1>3, <1>4, <1>5 DEF ConnectIonq, Answered, Failed

LEMMA CharacterizedGood == ASSUME IInv, Characterized PROVE IInv'
  <1>1. Asks("characterization") /\ client' = Ready(client)
    BY DEF Characterized, Answered, Failed
  <1>2. device'.cal \in {None, "synthetic", "live"}
    BY DEF Characterized, Synthetic, Uncharacterized, IInv, Calibrated
  <1> QED
    BY <1>1, <1>2, ReadyStep DEF Characterized, Connecting, OfBatch, OfJob, Asks

LEMMA RefreshGood == ASSUME IInv, Refresh PROVE IInv'
  <1> DEFINE r == IF provider = "ibm" THEN "properties" ELSE "list"
             a == Asking(client, r)
             n == client.refreshes - 1
             c == [a EXCEPT !.refreshes = n, !.refreshing = TRUE]
  <1>1. client.at = "ready" /\ client.refreshes = 1
    BY Typed DEF Refresh, Client
  <1>2. a \in Client /\ a.refreshes = client.refreshes
    <2>1. client \in Client /\ r \in Requests
      BY Typed DEF Requests
    <2>2. a \in Client
      BY <2>1, AskingFields
    <2>3. a.refreshes = client.refreshes
      BY <2>1 DEF Asking, Client
    <2> QED BY <2>2, <2>3
  <1>3. Goes(c)
    BY <1>2 DEF Refresh
  <1>4. Good(a, job, budget, elapsed, paid, honest)
    BY <1>1, RequestGood, Typed DEF Requests, OfBatch, OfJob, Connecting
  <1>5. n \in {0, 1}
    BY <1>1
  <1> HIDE DEF a, n
  <1>6. /\ c \in Client
        /\ c.served = a.served /\ c.body = a.body /\ c.reply = a.reply
        /\ c.at = a.at /\ c.req = a.req /\ c.batch = a.batch /\ c.remaining = a.remaining
        /\ c.result = a.result /\ c.age = a.age
    BY <1>2, <1>5 DEF Client
  <1> HIDE DEF c
  <1>7. Good(c, job, budget, elapsed, paid, honest)
    BY <1>4, <1>6 DEF Good, AnswersServed, BodyRead, JobKnown, Covered, Fresh, InJob, InBatch, Connecting
  <1> QED
    BY <1>3, <1>7, GoesGood

LEMMA RefreshedGood == ASSUME IInv, Refreshed \/ NotRefreshed PROVE IInv'
  <1>1. Asks("properties")
    BY DEF Refreshed, NotRefreshed, Answered, Failed
  <1>2. Connecting(client)
    BY <1>1 DEF Connecting, OfBatch, OfJob, Asks
  <1>3. CASE Refreshed
    BY <1>2, <1>3, ReadyStep DEF Refreshed
  <1>4. CASE NotRefreshed
    BY <1>2, <1>4, ReadyGood, GoesGood DEF NotRefreshed
  <1> QED
    BY <1>3, <1>4

LEMMA RefuseGood == ASSUME IInv, Refuse PROVE IInv'
  BY EndingStep DEF Refuse

-----------------------------------------------------------------------------
\* The sampling loop.
LEMMA SubmitGood == ASSUME IInv, Submit PROVE IInv'
  <1>1. client.at = "ready"
    BY DEF Submit
  <1>2. CASE Goes(Ended(client, "error"))
    BY <1>1, <1>2, EndingStep
  <1> DEFINE c == [client EXCEPT !.at = "loop", !.remaining = budget]
  <1>3. CASE Goes(c)
    <2>1. /\ c \in Client /\ c.at = "loop" /\ c.remaining = budget
          /\ c.served = client.served /\ c.reply = client.reply /\ c.result = client.result
      BY Typed DEF Client, Places
    <2> HIDE DEF c
    <2>2. paid = 0 /\ client.result = None
      BY <1>1 DEF IInv, Good, Covered, Connecting, Fresh
    <2>3. Good(c, job, budget, elapsed, paid, honest)
      BY <2>1, <2>2, Typed, NoneAssumption
      DEF IInv, Good, AnswersServed, BodyRead, JobKnown, Covered, Fresh, InJob, InBatch, Connecting
    <2> QED
      BY <1>3, <2>3, GoesGood
  <1> QED
    BY <1>2, <1>3 DEF Submit

LEMMA BatchBound == ASSUME IInv PROVE Batch(client) \in Nat /\ Batch(client) <= client.remaining
  BY Typed DEF Batch, Smaller

LEMMA BeginGood == ASSUME IInv, Begin PROVE IInv'
  <1>1. client.at = "loop"
    BY DEF Begin
  <1>2. CASE Goes(Ended(client, "ok"))
    BY <1>1, <1>2, EndingStep
  <1> DEFINE a == Asking(client, "submit")
             n == Batch(client)
             c == [a EXCEPT !.batch = n]
  <1>3. CASE Goes(c)
    <2>1. /\ a \in Client /\ a.at = "asks" /\ a.req = "submit" /\ a.served = FALSE /\ a.reply = None
          /\ a.remaining = client.remaining /\ a.result = client.result
      BY AskingFields, Typed DEF Requests
    <2>2. n \in Nat /\ n <= client.remaining
      BY BatchBound
    <2> HIDE DEF a, n
    <2>3. /\ c \in Client /\ c.at = "asks" /\ c.req = "submit" /\ c.served = FALSE /\ c.reply = None
          /\ c.remaining = client.remaining /\ c.result = client.result /\ c.batch = n
      BY <2>1, <2>2 DEF Client
    <2> HIDE DEF c
    <2>4. Covered(c, budget, paid, honest)
      BY <1>1, <2>2, <2>3, Typed DEF Covered, InJob, InBatch, Connecting, OfJob, OfBatch, IInv, Good
    <2>5. client.result = None
      BY <1>1 DEF IInv, Good, Fresh
    <2>6. Good(c, job, budget, elapsed, paid, honest)
      BY <2>3, <2>4, <2>5, Typed, NoneAssumption
      DEF Good, AnswersServed, BodyRead, JobKnown, Fresh, InJob, OfJob, Replies, Requests
    <2> QED
      BY <1>3, <2>6, GoesGood
  <1> QED
    BY <1>2, <1>3 DEF Begin

\* The batch becomes a job: it is paid for, and stays to be spent.
LEMMA SubmittedGood == ASSUME IInv, Submitted PROVE IInv'
  <1> DEFINE c == Asking(client, "status")
  <1>1. /\ client.at = "asks" /\ client.req = "submit" /\ client.served
        /\ client' = c /\ elapsed' = 0
        /\ paid' = IF honest THEN paid + client.batch ELSE paid
        /\ UNCHANGED <<provider, budget, minBatch, device, job, honest>>
    BY DEF Submitted, Answered, Asks, IInv, Good, AnswersServed
  <1>2. /\ c \in Client /\ c.at = "asks" /\ c.req = "status" /\ c.served = FALSE /\ c.reply = None
        /\ c.batch = client.batch /\ c.remaining = client.remaining /\ c.result = client.result
    BY AskingFields, Typed DEF Requests
  <1> HIDE DEF c
  <1>3. client.batch <= client.remaining /\ (honest => paid + client.remaining <= budget)
    BY <1>1 DEF IInv, Good, Covered, InBatch, OfBatch
  <1>4. client.result = None /\ job.status \in Statuses
    BY <1>1 DEF IInv, Good, Fresh, JobKnown
  <1>5. paid' \in Nat /\ (honest => paid' + client.remaining <= budget + client.batch)
    BY <1>1, <1>3, Typed
  <1>6. Covered(c, budget, paid', honest)
    BY <1>2, <1>3, <1>5, Typed DEF Covered, InJob, InBatch, Connecting, OfJob, OfBatch
  <1>7. Good(c, job, budget, 0, paid', honest)
    BY <1>2, <1>4, <1>5, <1>6, Typed, NoneAssumption
    DEF Good, AnswersServed, BodyRead, JobKnown, Fresh, InJob, OfJob, Replies, Requests
  <1> QED
    BY <1>1, <1>7 DEF IInv, Fixed, Calibrated

LEMMA LostGood == ASSUME IInv, Lost PROVE IInv'
  BY EndingStep DEF Lost, Failed, Asks

\* A deadline that passes while the service still says "queued".
LEMMA TimeoutGood ==
    ASSUME IInv, Answered("status"), client.body \notin {"done", "failed"}, elapsed > Deadline
    PROVE  Good(Ended(client, "timeout"), job, budget, elapsed, paid, honest)
  <1> DEFINE c == Ended(client, "timeout")
  <1>1. /\ c \in Client /\ c.at = "ended" /\ c.served = FALSE /\ c.reply = None
        /\ c.remaining = client.remaining /\ c.result = "timeout"
    BY EndedFields, Typed DEF Results
  <1> HIDE DEF c
  <1>2. client.at = "asks" /\ client.req = "status" /\ client.served
    BY DEF Answered, Asks, IInv, Good, AnswersServed
  <1>3. client.body = "queued"
    BY <1>2 DEF IInv, Good, JobKnown, Statuses
  <1>4. client.age <= Latency
    BY Typed, TimeAssumption DEF Client
  <1>5. job.status = "queued" \/ job.ended + Latency > Deadline
    <2>1. job.status = "queued" \/ job.ended + client.age >= elapsed
      BY <1>2, <1>3 DEF IInv, Good, Fresh
    <2> QED
      BY <2>1, <1>4, Typed, TimeAssumption
  <1>6. honest => paid <= budget
    BY <1>2, Typed DEF IInv, Good, Covered, InJob, InBatch, OfJob, OfBatch
  <1>7. Good(c, job, budget, elapsed, paid, honest)
    BY <1>1, <1>5, <1>6, Typed, NoneAssumption
    DEF Good, AnswersServed, BodyRead, JobKnown, Covered, Fresh, InJob, InBatch, Connecting, Replies
  <1> QED
    BY <1>7 DEF c

LEMMA PollGood == ASSUME IInv, Poll PROVE IInv'
  <1>1. client.at = "asks" /\ client.req = "status" /\ Answered("status")
    BY DEF Poll, Answered, Asks
  <1>2. CASE Goes(Ended(client, "error"))
    BY <1>1, <1>2, EndingStep
  <1>3. CASE \E r \in {"results", "probabilities"} : Goes(Asking(client, r))
    <2>1. PICK r \in {"results", "probabilities"} : Goes(Asking(client, r))
      BY <1>3
    <2>2. Good(Asking(client, r), job, budget, elapsed, paid, honest)
      BY <1>1, RequestGood, Typed DEF Requests, OfJob, OfBatch, InJob
    <2> QED
      BY <2>1, <2>2, GoesGood
  <1>4. CASE /\ client.body \notin {"done", "failed"} /\ elapsed > Deadline
             /\ Goes(Ended(client, "timeout"))
    BY <1>1, <1>4, TimeoutGood, GoesGood
  <1>5. CASE Goes(Quiet(client, "asleep"))
    <2> DEFINE c == Quiet(client, "asleep")
    <2>1. /\ c \in Client /\ c.at = "asleep" /\ c.served = FALSE /\ c.reply = None
          /\ c.batch = client.batch /\ c.remaining = client.remaining /\ c.result = client.result
      BY QuietFields, Typed DEF Places
    <2> HIDE DEF c
    <2>2. Covered(c, budget, paid, honest)
      BY <1>1, <2>1 DEF Covered, InJob, InBatch, Connecting, OfJob, OfBatch, IInv, Good
    <2>3. client.result = None /\ job.status \in Statuses
      BY <1>1 DEF IInv, Good, Fresh, JobKnown, InJob, OfJob
    <2>4. Good(c, job, budget, elapsed, paid, honest)
      BY <2>1, <2>2, <2>3, Typed, NoneAssumption
      DEF Good, AnswersServed, BodyRead, JobKnown, Fresh, InJob, Replies
    <2> QED
      BY <1>5, <2>4, GoesGood DEF c
  <1>6. \/ Polled(client, client.body) = Ended(client, "error")
        \/ Polled(client, client.body) = Asking(client, "results")
        \/ Polled(client, client.body) = Asking(client, "probabilities")
        \/ /\ Polled(client, client.body) = Ended(client, "timeout")
           /\ client.body \notin {"done", "failed"} /\ elapsed > Deadline
        \/ Polled(client, client.body) = Quiet(client, "asleep")
    <2> DEFINE r == IF provider = "ibm" THEN "results" ELSE "probabilities"
    <2>1. r = "results" \/ r = "probabilities"
      OBVIOUS
    <2>2. CASE client.body = "failed"
      BY <2>2 DEF Polled, Finished
    <2>3. CASE client.body = "done"
      <3>1. Polled(client, client.body) = Asking(client, r)
        BY <2>3 DEF Polled, Finished
      <3> HIDE DEF r
      <3> QED
        BY <2>1, <3>1
    <2>4. CASE client.body \notin {"done", "failed"} /\ elapsed > Deadline
      BY <2>4 DEF Polled, Awaited
    <2>5. CASE client.body \notin {"done", "failed"} /\ ~(elapsed > Deadline)
      BY <2>5 DEF Polled, Awaited
    <2> QED
      BY <2>2, <2>3, <2>4, <2>5
  <1>7. Goes(Polled(client, client.body))
    BY DEF Poll
  <1> QED
    BY <1>2, <1>3, <1>4, <1>5, <1>6, <1>7

LEMMA SleepGood == ASSUME IInv, Sleep PROVE IInv'
  <1>1. PICK n \in Naps : elapsed' = elapsed + n
    BY DEF Sleep
  <1>2. /\ client.at = "asleep" /\ client' = Asking(client, "status")
        /\ UNCHANGED <<provider, budget, minBatch, device, job, paid, honest>>
    BY DEF Sleep
  <1>3. elapsed' \in Nat
    BY <1>1, Typed, TimeAssumption
  <1>4. Good(Asking(client, "status"), job, budget, elapsed', paid, honest)
    BY <1>2, <1>3, RequestGood DEF Requests, OfJob, OfBatch, InJob
  <1> QED
    BY <1>2, <1>4 DEF IInv, Fixed, Calibrated

-----------------------------------------------------------------------------
\* The end of a turn.
LEMMA SpentFields ==
    ASSUME NEW c \in Client, NEW shots \in Nat
    PROVE  /\ Spent(c, shots) \in Client
           /\ Spent(c, shots).remaining <= c.remaining
           /\ shots <= c.remaining => Spent(c, shots).remaining = c.remaining - shots
           /\ Spent(c, shots).at = c.at /\ Spent(c, shots).result = c.result
           /\ Spent(c, shots).served = c.served /\ Spent(c, shots).reply = c.reply
  <1> DEFINE left == IF shots > c.remaining THEN 0 ELSE c.remaining - shots
             total == c.total + shots
  <1>1. c.remaining \in Nat /\ c.total \in Nat
    BY DEF Client
  <1>2. left \in Nat /\ left <= c.remaining /\ total \in Nat
    BY <1>1
  <1>3. shots <= c.remaining => left = c.remaining - shots
    BY <1>1
  <1>4. Spent(c, shots) = [c EXCEPT !.total = total, !.remaining = left]
    BY DEF Spent, Client
  <1> HIDE DEF left, total
  <1> QED
    BY <1>2, <1>3, <1>4 DEF Client

LEMMA UpdatedFields ==
    ASSUME NEW c \in Client, NEW n \in Nat, NEW o \in Outcomes
    PROVE  /\ Updated(c, n, o) \in Client
           /\ Updated(c, n, o).remaining = c.remaining
           /\ Updated(c, n, o).at = c.at /\ Updated(c, n, o).result = c.result
           /\ Updated(c, n, o).served = c.served /\ Updated(c, n, o).reply = c.reply
  <1> DEFINE count == c.counted + n
             out == Merged(c.outcomes, o)
  <1>1. count \in Nat
    BY DEF Client
  <1>2. out \in Outcomes
    BY DEF Client, Merged, Outcomes
  <1>3. Updated(c, n, o) = [c EXCEPT !.counted = count, !.outcomes = out]
    BY DEF Updated, Client
  <1> HIDE DEF count, out
  <1> QED
    BY <1>1, <1>2, <1>3 DEF Client

\* A turn leaves the budget covered when the shots it spends are those of the batch (honest), or
\* when nothing is paid for (the mock device).
LEMMA TurnGood ==
    ASSUME IInv, NEW shots \in Nat, NEW n \in Nat, Turn(shots, n),
           client.at # "ended", NEW h \in BOOLEAN,
           h => paid + Spent(client, shots).remaining <= budget
    PROVE  Good(client', job', budget, elapsed', paid, h)
  <1>1. PICK o \in Kinds(n) :
          LET c == Updated(Spent(client, shots), n, o) IN
          /\ \/ client' = Ended(c, "ok")
             \/ client' = Quiet(c, "loop")
          /\ job' = NoJob /\ elapsed' = 0
    BY DEF Turn
  <1> DEFINE s == Spent(client, shots)
             c == Updated(s, n, o)
  <1>2. s \in Client /\ s.remaining <= client.remaining /\ s.result = client.result
    BY SpentFields, Typed
  <1> HIDE DEF s
  <1>3. o \in Outcomes
    BY <1>1 DEF Kinds, Outcomes
  <1>4. c \in Client /\ c.remaining = s.remaining /\ c.result = s.result
    BY <1>2, <1>3, UpdatedFields
  <1>5. client' = Ended(c, "ok") \/ client' = Quiet(c, "loop")
    BY <1>1 DEF s
  <1> HIDE DEF c
  <1>6. NoJob \in Job /\ NoJob.status = None /\ job' = NoJob /\ elapsed' = 0
    BY <1>1 DEF NoJob, Job
  <1>7. client.result = None
    BY DEF IInv, Good, Fresh
  <1>8. s.remaining \in Nat /\ s.remaining <= budget
    BY <1>2, Typed DEF Client
  <1>9. h => paid + s.remaining <= budget
    BY DEF s
  <1>10. CASE client' = Ended(c, "ok")
    <2> DEFINE e == Ended(c, "ok")
    <2>1. /\ e \in Client /\ e.at = "ended" /\ e.served = FALSE /\ e.reply = None
          /\ e.remaining = s.remaining /\ e.result = "ok"
      BY <1>4, EndedFields DEF Results
    <2> HIDE DEF e
    <2>2. h => paid <= budget
      BY <1>8, <1>9, Typed
    <2>3. Good(e, NoJob, budget, 0, paid, h)
      BY <2>1, <2>2, <1>6, <1>8, Typed, NoneAssumption
      DEF Good, AnswersServed, BodyRead, JobKnown, Covered, Fresh, InJob, InBatch, Connecting, Replies
    <2> QED
      BY <1>6, <1>10, <2>3 DEF e
  <1>11. CASE client' = Quiet(c, "loop")
    <2> DEFINE e == Quiet(c, "loop")
    <2>1. /\ e \in Client /\ e.at = "loop" /\ e.served = FALSE /\ e.reply = None
          /\ e.remaining = s.remaining /\ e.result = None
      BY <1>2, <1>4, <1>7, QuietFields DEF Places
    <2> HIDE DEF e
    <2>2. Good(e, NoJob, budget, 0, paid, h)
      BY <2>1, <1>6, <1>8, <1>9, Typed, NoneAssumption
      DEF Good, AnswersServed, BodyRead, JobKnown, Covered, Fresh, InJob, InBatch, Connecting, Replies
    <2> QED
      BY <1>6, <1>11, <2>2 DEF e
  <1> QED
    BY <1>5, <1>10, <1>11

\* In a job, the batch's own shots are covered.
LEMMA BatchCovered ==
    ASSUME IInv, client.at = "asks", client.req \in OfJob, honest
    PROVE  paid + Spent(client, client.batch).remaining <= budget
  <1>1. client.batch <= client.remaining /\ paid + client.remaining <= budget + client.batch
    BY DEF IInv, Good, Covered, InBatch, InJob, OfBatch
  <1>2. Spent(client, client.batch).remaining = client.remaining - client.batch
    BY <1>1, SpentFields, Typed
  <1> QED
    BY <1>1, <1>2, Typed

LEMMA CollectIbmGood == ASSUME IInv, CollectIbm PROVE IInv'
  <1>1. client.at = "asks" /\ client.req = "results" /\ client.served
    BY DEF CollectIbm, Answered, Asks, IInv, Good, AnswersServed
  <1>2. client.body \in Nat
    BY <1>1 DEF IInv, Good, BodyRead
  <1>3. /\ Turn(client.body, client.body)
        /\ honest' = (honest /\ client.body = client.batch)
        /\ UNCHANGED <<provider, budget, minBatch, device, paid>>
    BY DEF CollectIbm
  <1>4. honest' \in BOOLEAN
    BY <1>3
  <1>5. honest' => paid + Spent(client, client.body).remaining <= budget
    <2>1. honest' => honest /\ client.body = client.batch
      BY <1>3
    <2> QED
      BY <2>1, <1>1, BatchCovered DEF OfJob
  <1>6. Good(client', job', budget, elapsed', paid, honest')
    BY <1>1, <1>2, <1>3, <1>4, <1>5, TurnGood
  <1> QED
    BY <1>3, <1>6 DEF IInv, Fixed, Calibrated

LEMMA CollectIonqGood == ASSUME IInv, CollectIonq PROVE IInv'
  <1>1. client.at = "asks" /\ client.req = "probabilities"
    BY DEF CollectIonq, Answered, Asks
  <1>2. PICK said \in 0 .. client.batch :
          LET shots == Reported(said) IN
          /\ \E n \in {0, shots, shots + 1} : Turn(shots, n)
          /\ honest' = (honest /\ shots = client.batch)
    BY DEF CollectIonq
  <1> DEFINE shots == Reported(said)
  <1>3. shots \in Nat
    BY Typed DEF Reported
  <1>4. honest' = (honest /\ shots = client.batch)
    BY <1>2
  <1>5. PICK n \in {0, shots, shots + 1} : Turn(shots, n)
    BY <1>2
  <1> HIDE DEF shots
  <1>6. n \in Nat
    BY <1>3
  <1>7. honest' \in BOOLEAN
    BY <1>4
  <1>8. honest' => paid + Spent(client, shots).remaining <= budget
    <2>1. honest' => honest /\ shots = client.batch
      BY <1>4
    <2> QED
      BY <2>1, <1>1, BatchCovered DEF OfJob
  <1>9. Good(client', job', budget, elapsed', paid, honest')
    BY <1>1, <1>3, <1>5, <1>6, <1>7, <1>8, TurnGood
  <1> QED
    BY <1>9 DEF CollectIonq, IInv, Fixed, Calibrated

LEMMA SampleMockGood == ASSUME IInv, SampleMock PROVE IInv'
  <1>1. /\ client.at = "loop"
        /\ UNCHANGED <<provider, budget, minBatch, device, paid, honest>>
    BY DEF SampleMock
  <1>2. CASE client' = Ended(client, "ok") /\ UNCHANGED <<job, elapsed>>
    BY <1>1, <1>2, EndingStep DEF Goes, ClientOnly
  <1>3. CASE \E k \in 1 .. 10 : LET shots == Smaller(k * minBatch, client.remaining)
                                 IN  Turn(shots, shots)
    <2>1. PICK k \in 1 .. 10 : LET shots == Smaller(k * minBatch, client.remaining)
                               IN  Turn(shots, shots)
      BY <1>3
    <2> DEFINE shots == Smaller(k * minBatch, client.remaining)
    <2>2. Turn(shots, shots)
      BY <2>1
    <2>3. k * minBatch \in Nat
      BY Typed
    <2>4. shots \in Nat
      BY <2>3, Typed DEF Smaller
    <2> HIDE DEF shots
    <2>5. honest => paid + client.remaining <= budget
      BY <1>1 DEF IInv, Good, Covered
    <2>6. /\ Spent(client, shots) \in Client
          /\ Spent(client, shots).remaining <= client.remaining
      BY <2>4, SpentFields, Typed
    <2>7. Spent(client, shots).remaining \in Nat
      BY <2>6 DEF Client
    <2>8. honest => paid + Spent(client, shots).remaining <= budget
      BY <2>5, <2>6, <2>7, Typed
    <2>9. Good(client', job', budget, elapsed', paid, honest)
      BY <1>1, <2>2, <2>4, <2>8, TurnGood, Typed
    <2> QED
      BY <1>1, <2>9 DEF IInv, Fixed, Calibrated
  <1> QED
    BY <1>2, <1>3 DEF SampleMock

-----------------------------------------------------------------------------
LEMMA ActsGood == ASSUME IInv, Acts PROVE IInv'
  BY RetryGood, ConnectIbmGood, ConnectIonqGood, CharacterizedGood, RefreshedGood, SubmitGood,
     BeginGood, SubmittedGood, LostGood, PollGood, SleepGood, CollectIbmGood, CollectIonqGood,
     SampleMockGood
  DEF Acts

LEMMA NextGood == IInv /\ [Next]_vars => IInv'
  <1> SUFFICES ASSUME IInv, [Next]_vars PROVE IInv'
    OBVIOUS
  <1>1. CASE Next
    BY <1>1, ActsGood, RefuseGood, RefreshGood, ServeGood, DeliverGood, TickGood, JobEndsGood
    DEF Next
  <1>2. CASE UNCHANGED vars
    BY <1>2 DEF vars, IInv, Fixed, Calibrated
  <1> QED
    BY <1>1, <1>2

LEMMA Invariant == Spec => []IInv
  BY InitGood, NextGood, PTL DEF Spec

\* The types of the client's state, for every budget, batch size and number of retries.
THEOREM JobsTypeCorrect == Spec => []TypeOK
  <1>1. IInv => TypeOK
    <2> SUFFICES ASSUME IInv PROVE TypeOK
      OBVIOUS
    <2>1. Fixed /\ Calibrated
      BY DEF IInv
    <2>2. /\ client.at \in Places /\ client.req \in Requests \cup {None}
          /\ client.reply \in Replies \cup {None} /\ client.attempt \in 0 .. MaxRetries
          /\ client.outcomes \in Outcomes /\ client.result \in Results
      BY Typed DEF Client
    <2>3. client.remaining \in 0 .. budget
      BY Typed
    <2> QED
      BY <2>1, <2>2, <2>3, Typed
      DEF TypeOK, Fixed, Calibrated, Places, Outcomes, Results
  <1> QED
    BY <1>1, Invariant, PTL

\* The jobs that the client paid for stay within the shot budget, whatever is lost and retried.
THEOREM BudgetIsKept == Spec => []PaidWithinBudget
  <1>1. IInv => PaidWithinBudget
    <2> SUFFICES ASSUME IInv, honest PROVE paid <= budget
      BY DEF PaidWithinBudget
    <2> QED
      BY Typed DEF IInv, Good, Covered, InJob, InBatch, Connecting, Places, OfJob, OfBatch
  <1> QED
    BY <1>1, Invariant, PTL

\* A timeout means that the job was not finished in time, up to the time an answer travels.
THEOREM TimeoutsAreJustified == Spec => []TimeoutJustified
  <1>1. IInv => TimeoutJustified
    BY DEF IInv, Good, Fresh, TimeoutJustified
  <1> QED
    BY <1>1, Invariant, PTL

------------------------------------------------------------------------------
\* The cache of compiled circuits: its entries are in the order of their last turns, and a
\* key that is in none of them is older than all and left a full cache.
Entries == [key : Keys, template : Templates]
Kept(c) == c \in Seq(Entries) /\ Len(c) <= Capacity
History(s, n) ==
    /\ n \in Nat /\ DOMAIN s \subseteq Keys /\ IsFiniteSet(DOMAIN s)
    /\ \A k \in DOMAIN s : s[k].turn \in Nat /\ s[k].turn <= n
Latest(c, s) ==
    \A i \in DOMAIN c : c[i].key \in DOMAIN s /\ c[i].template = s[c[i].key].template
InOrder(c, s) ==
    \A i, j \in DOMAIN c : i < j => s[c[i].key].turn < s[c[j].key].turn
Out(c, q) == \A i \in DOMAIN c : c[i].key # q
Older(c, s, q) == \A i \in DOMAIN c : s[q].turn < s[c[i].key].turn
OldAreOut(c, s) == \A q \in DOMAIN s : Out(c, q) => Len(c) >= Capacity /\ Older(c, s, q)
CacheInv ==
    /\ Kept(cache) /\ History(served, turn)
    /\ Latest(cache, served) /\ InOrder(cache, served) /\ OldAreOut(cache, served)

\* A list from which k has been taken, with room for it.
Room(r, s, k) ==
    /\ r \in Seq(Entries) /\ Len(r) < Capacity
    /\ Latest(r, s) /\ InOrder(r, s) /\ Out(r, k)
    /\ \A q \in DOMAIN s : q # k /\ Out(r, q) => Len(r) + 1 >= Capacity /\ Older(r, s, q)
\* The history s2 is s, after a turn for k.
Turned(s, s2, n, k, t) ==
    /\ DOMAIN s2 = DOMAIN s \cup {k}
    /\ s2[k].turn = n + 1 /\ s2[k].template = t
    /\ \A q \in DOMAIN s : q # k => s2[q] = s[q]

LEMMA Removed ==
  ASSUME NEW S, NEW c \in Seq(S), NEW i \in DOMAIN c
  PROVE  /\ RemoveAt(c, i) \in Seq(S)
         /\ Len(RemoveAt(c, i)) = Len(c) - 1
         /\ \A j \in DOMAIN RemoveAt(c, i) :
               IF j < i THEN j \in DOMAIN c /\ RemoveAt(c, i)[j] = c[j]
               ELSE j + 1 \in DOMAIN c /\ RemoveAt(c, i)[j] = c[j + 1]
         /\ \A j \in DOMAIN c : j # i => \E l \in DOMAIN RemoveAt(c, i) : RemoveAt(c, i)[l] = c[j]
<1> DEFINE a == SubSeq(c, 1, i - 1)
           b == SubSeq(c, i + 1, Len(c))
           r == RemoveAt(c, i)
<1>1. i \in 1 .. Len(c) /\ Len(c) \in Nat  OBVIOUS
<1>2. a \in Seq(S) /\ Len(a) = i - 1  BY <1>1
<1>3. \A j \in 1 .. (i - 1) : a[j] = c[j]  BY <1>1
<1>4. b \in Seq(S) /\ Len(b) = Len(c) - i  BY <1>1
<1>5. \A j \in 1 .. (Len(c) - i) : b[j] = c[i + j]  BY <1>1
<1>6. r = a \o b  BY DEF RemoveAt
<1> HIDE DEF a, b, r
<1>7. r \in Seq(S) /\ Len(r) = Len(a) + Len(b)  BY <1>2, <1>4, <1>6, ConcatProperties
<1>8. \A j \in 1 .. Len(a) + Len(b) : r[j] = IF j <= Len(a) THEN a[j] ELSE b[j - Len(a)]
  BY <1>2, <1>4, <1>6, ConcatProperties
<1>9. Len(r) = Len(c) - 1  BY <1>1, <1>2, <1>4, <1>7
<1>10. \A j \in 1 .. Len(c) - 1 : r[j] = IF j < i THEN c[j] ELSE c[j + 1]
  <2> TAKE j \in 1 .. Len(c) - 1
  <2>1. j \in 1 .. Len(a) + Len(b)  BY <1>1, <1>2, <1>4
  <2>2. CASE j < i
    <3>1. j <= Len(a) /\ j \in 1 .. (i - 1)  BY <2>2, <1>1, <1>2
    <3>2. r[j] = a[j]  BY <3>1, <2>1, <1>8
    <3>3. a[j] = c[j]  BY <3>1, <1>3
    <3> QED  BY <2>2, <3>2, <3>3
  <2>3. CASE j >= i
    <3> DEFINE l == j - Len(a)
    <3>1. l \in 1 .. (Len(c) - i) /\ i + l = j + 1  BY <2>3, <1>1, <1>2
    <3>2. ~(j <= Len(a)) /\ ~(j < i)  BY <2>3, <1>1, <1>2
    <3>3. r[j] = b[l]  BY <3>2, <2>1, <1>8
    <3> HIDE DEF l
    <3>4. b[l] = c[i + l]  BY <3>1, <1>5
    <3> QED  BY <3>1, <3>2, <3>3, <3>4
  <2> QED  BY <2>2, <2>3, <1>1
<1>11. ASSUME NEW j \in DOMAIN c, j # i
       PROVE  \E l \in DOMAIN r : r[l] = c[j]
  <2>1. DOMAIN r = 1 .. Len(c) - 1  BY <1>7, <1>9
  <2>2. CASE j < i
    <3>1. j \in 1 .. Len(c) - 1  BY <2>2, <1>1
    <3> QED  BY <3>1, <2>1, <2>2, <1>10
  <2>3. CASE j > i
    <3>1. j - 1 \in 1 .. Len(c) - 1 /\ ~(j - 1 < i) /\ (j - 1) + 1 = j  BY <2>3, <1>1
    <3>2. r[j - 1] = c[j]  BY <3>1, <1>10
    <3> QED  BY <3>1, <3>2, <2>1
  <2> QED  BY <2>2, <2>3, <1>1, <1>11
<1>12. \A j \in DOMAIN r : /\ j \in 1 .. Len(c) - 1
                          /\ IF j < i THEN j \in DOMAIN c ELSE j + 1 \in DOMAIN c
  BY <1>1, <1>7, <1>9
<1> QED  BY <1>7, <1>9, <1>10, <1>11, <1>12 DEF r

\* Whatever entry goes, the others stay in order.
LEMMA RemovedInOrder ==
  ASSUME NEW c \in Seq(Entries), NEW s, Latest(c, s), InOrder(c, s), NEW i \in DOMAIN c
  PROVE  Latest(RemoveAt(c, i), s) /\ InOrder(RemoveAt(c, i), s)
<1> DEFINE r == RemoveAt(c, i)
           from(j) == IF j < i THEN j ELSE j + 1
<1>1. \A j \in DOMAIN r : from(j) \in DOMAIN c /\ r[j] = c[from(j)]  BY Removed
<1>2. \A j, l \in DOMAIN r : j < l => from(j) < from(l)
  <2>1. DOMAIN r \subseteq Int /\ i \in Int  BY Removed
  <2> HIDE DEF r
  <2> QED  BY <2>1
<1> HIDE DEF r, from
<1> QED  BY <1>1, <1>2 DEF Latest, InOrder, r

\* No key is in two entries, so an entry with the key is the first one.
LEMMA PositionFound ==
  ASSUME NEW c \in Seq(Entries), NEW s, NEW n, History(s, n), Latest(c, s), InOrder(c, s),
         NEW k, Found(c, k) # {}
  PROVE  /\ Position(c, k) \in DOMAIN c /\ c[Position(c, k)].key = k
         /\ \A j \in DOMAIN c : c[j].key = k => j = Position(c, k)
<1>1. PICK i \in DOMAIN c : c[i].key = k  BY DEF Found
<1>2. \A j \in DOMAIN c : c[j].key = k => j = i
  <2> SUFFICES ASSUME NEW j \in DOMAIN c, c[j].key = k, j # i PROVE FALSE  OBVIOUS
  <2>1. k \in DOMAIN s /\ s[k].turn \in Nat  BY <1>1 DEF Latest, History
  <2>2. i \in Nat /\ j \in Nat  OBVIOUS
  <2>3. i < j \/ j < i  BY <2>2
  <2>4. s[k].turn < s[k].turn  BY <1>1, <2>3 DEF InOrder
  <2> QED  BY <2>1, <2>4
<1>3. i \in Nat  OBVIOUS
<1>4. Found(c, k) = {i}  BY <1>1, <1>2 DEF Found
<1>5. Position(c, k) = i  BY <1>3, <1>4 DEF Position
<1> QED  BY <1>1, <1>2, <1>5

\* The entry of k is taken out: what was not in the cache is older still.
LEMMA RoomOfItsOwn ==
  ASSUME NEW c, NEW s, NEW n, Kept(c), History(s, n), Latest(c, s), InOrder(c, s), OldAreOut(c, s),
         NEW k, Found(c, k) # {}
  PROVE  Room(RemoveAt(c, Position(c, k)), s, k)
<1> DEFINE i == Position(c, k)
           r == RemoveAt(c, i)
<1>1. c \in Seq(Entries) /\ Len(c) <= Capacity  BY DEF Kept
<1>2. i \in DOMAIN c /\ c[i].key = k /\ \A j \in DOMAIN c : c[j].key = k => j = i
  BY <1>1, PositionFound
<1> HIDE DEF i
<1>3. /\ r \in Seq(Entries) /\ Len(r) = Len(c) - 1
      /\ \A j \in DOMAIN r : \E l \in DOMAIN c : l # i /\ r[j] = c[l]
      /\ \A j \in DOMAIN c : j # i => \E l \in DOMAIN r : r[l] = c[j]
  <2>1. /\ r \in Seq(Entries) /\ Len(r) = Len(c) - 1
        /\ \A j \in DOMAIN r :
              IF j < i THEN j \in DOMAIN c /\ r[j] = c[j] ELSE j + 1 \in DOMAIN c /\ r[j] = c[j + 1]
        /\ \A j \in DOMAIN c : j # i => \E l \in DOMAIN r : r[l] = c[j]
    BY <1>1, <1>2, Removed
  <2>2. i \in Int /\ DOMAIN r \subseteq Int  BY <1>1, <1>2, <2>1
  <2> HIDE DEF r
  <2> QED  BY <2>1, <2>2
<1>4. Latest(r, s) /\ InOrder(r, s)  BY <1>1, <1>2, RemovedInOrder
<1> HIDE DEF r
<1>5. Out(r, k)  BY <1>2, <1>3 DEF Out
<1>6. ASSUME NEW q \in DOMAIN s, q # k, Out(r, q)
      PROVE  Len(r) + 1 >= Capacity /\ Older(r, s, q)
  <2>1. Out(c, q)  BY <1>2, <1>3, <1>6 DEF Out
  <2>2. Len(c) >= Capacity /\ Older(c, s, q)  BY <2>1 DEF OldAreOut
  <2> QED  BY <2>2, <1>1, <1>3 DEF Older
<1>7. Len(r) < Capacity  BY <1>1, <1>3, CapacityAssumption
<1> QED  BY <1>3, <1>4, <1>5, <1>6, <1>7 DEF Room, r, i

\* The oldest entry of a full cache is taken out: it joins those that are older.
LEMMA RoomOfTheOldest ==
  ASSUME NEW c, NEW s, Kept(c), Latest(c, s), InOrder(c, s), OldAreOut(c, s),
         NEW k, Out(c, k), Len(c) >= Capacity
  PROVE  Room(RemoveAt(c, 1), s, k)
<1> DEFINE r == RemoveAt(c, 1)
<1>1. c \in Seq(Entries) /\ Len(c) = Capacity /\ Capacity >= 1 /\ Capacity \in Nat
  BY CapacityAssumption DEF Kept
<1>2. 1 \in DOMAIN c  BY <1>1
<1>3. /\ r \in Seq(Entries) /\ Len(r) = Len(c) - 1
      /\ \A j \in DOMAIN r : j + 1 \in DOMAIN c /\ 1 < j + 1 /\ r[j] = c[j + 1]
      /\ \A j \in DOMAIN c : j # 1 => \E l \in DOMAIN r : r[l] = c[j]
  <2>1. /\ r \in Seq(Entries) /\ Len(r) = Len(c) - 1
        /\ \A j \in DOMAIN r :
              IF j < 1 THEN j \in DOMAIN c /\ r[j] = c[j] ELSE j + 1 \in DOMAIN c /\ r[j] = c[j + 1]
        /\ \A j \in DOMAIN c : j # 1 => \E l \in DOMAIN r : r[l] = c[j]
    BY <1>1, <1>2, Removed
  <2>2. \A j \in DOMAIN r : ~(j < 1) /\ 1 < j + 1  BY <1>1, <2>1
  <2> HIDE DEF r
  <2> QED  BY <2>1, <2>2
<1>4. Latest(r, s) /\ InOrder(r, s)  BY <1>1, <1>2, RemovedInOrder
<1> HIDE DEF r
<1>5. Out(r, k)  BY <1>3 DEF Out
<1>6. ASSUME NEW q \in DOMAIN s, q # k, Out(r, q)
      PROVE  Len(r) + 1 >= Capacity /\ Older(r, s, q)
  <2>1. CASE Out(c, q)
    <3>1. Older(c, s, q)  BY <2>1 DEF OldAreOut
    <3> QED  BY <3>1, <1>1, <1>3 DEF Older
  <2>2. CASE ~Out(c, q)
    <3>1. c[1].key = q  BY <2>2, <1>3, <1>6 DEF Out
    <3>2. \A j \in DOMAIN r : s[q].turn < s[c[j + 1].key].turn
      BY <3>1, <1>2, <1>3 DEF InOrder
    <3> QED  BY <3>2, <1>1, <1>3 DEF Older
  <2> QED  BY <2>1, <2>2
<1>7. Len(r) < Capacity  BY <1>1, <1>3
<1> QED  BY <1>3, <1>4, <1>5, <1>6, <1>7 DEF Room, r

\* insert makes room, in its order: first the entry of the key, then the oldest.
LEMMA RoomMade ==
  ASSUME NEW c, NEW s, NEW n, Kept(c), History(s, n), Latest(c, s), InOrder(c, s), OldAreOut(c, s),
         NEW k
  PROVE  Room(Trimmed(Without(c, k)), s, k)
<1>1. CASE Found(c, k) # {}
  <2>1. Room(Without(c, k), s, k)  BY <1>1, RoomOfItsOwn DEF Without
  <2>2. Len(Without(c, k)) < Capacity /\ Len(Without(c, k)) \in Nat  BY <2>1 DEF Room
  <2>3. ~(Len(Without(c, k)) >= Capacity)  BY <2>2, CapacityAssumption
  <2> QED  BY <2>1, <2>3 DEF Trimmed
<1>2. CASE Found(c, k) = {}
  <2>1. Without(c, k) = c /\ Out(c, k)  BY <1>2 DEF Without, Found, Out
  <2>2. CASE Len(c) >= Capacity  BY <2>1, <2>2, RoomOfTheOldest DEF Trimmed
  <2>3. CASE ~(Len(c) >= Capacity)
    <3>1. Len(c) \in Nat /\ c \in Seq(Entries)  BY DEF Kept
    <3>2. Len(c) < Capacity  BY <3>1, <2>3, CapacityAssumption
    <3>3. Room(c, s, k)  BY <2>1, <2>3, <3>1, <3>2 DEF Room, OldAreOut
    <3> QED  BY <2>1, <2>3, <3>3 DEF Trimmed
  <2> QED  BY <2>2, <2>3
<1> QED  BY <1>1, <1>2

\* The entry of the key that is served goes to the end.
LEMMA Pushed ==
  ASSUME NEW r, NEW s, NEW n, NEW s2, NEW k \in Keys, NEW t \in Templates,
         Room(r, s, k), History(s, n), Turned(s, s2, n, k, t)
  PROVE  LET c == Append(r, CachedCircuit(k, t))
         IN  /\ Kept(c) /\ History(s2, n + 1)
             /\ Latest(c, s2) /\ InOrder(c, s2) /\ OldAreOut(c, s2)
<1> DEFINE e == CachedCircuit(k, t)
           c == Append(r, e)
<1>1. e \in Entries /\ e.key = k /\ e.template = t  BY DEF CachedCircuit, Entries
<1> HIDE DEF e
<1>2. /\ r \in Seq(Entries) /\ Len(r) < Capacity /\ Len(r) \in Nat /\ Capacity \in Nat
      /\ Latest(r, s) /\ InOrder(r, s) /\ Out(r, k)
  BY CapacityAssumption DEF Room
<1>3. /\ c \in Seq(Entries) /\ Len(c) = Len(r) + 1
      /\ c[Len(r) + 1] = e /\ \A i \in DOMAIN r : i \in DOMAIN c /\ c[i] = r[i]
      /\ \A i \in DOMAIN c : i # Len(r) + 1 => i \in DOMAIN r
      /\ Len(r) + 1 \in DOMAIN c
      /\ \A i \in DOMAIN c : i \in Nat /\ i <= Len(r) + 1
  BY <1>1, <1>2
<1> HIDE DEF c
<1>4. Kept(c)  BY <1>2, <1>3 DEF Kept
<1>5. \A q \in DOMAIN s : q # k => s2[q] = s[q] /\ s[q].turn \in Nat /\ s[q].turn < n + 1
  BY DEF History, Turned
<1>6. History(s2, n + 1)
  <2>1. n \in Nat /\ DOMAIN s \subseteq Keys /\ IsFiniteSet(DOMAIN s)  BY DEF History
  <2>2. IsFiniteSet(DOMAIN s \cup {k})  BY <2>1, FS_AddElement
  <2>3. \A q \in DOMAIN s2 : s2[q].turn \in Nat /\ s2[q].turn <= n + 1
    BY <2>1, <1>5 DEF Turned
  <2> QED  BY <2>1, <2>2, <2>3 DEF History, Turned
<1>7. Latest(c, s2)
  BY <1>1, <1>2, <1>3, <1>5 DEF Latest, Turned, Out
<1>8. InOrder(c, s2)
  <2> SUFFICES ASSUME NEW i \in DOMAIN c, NEW j \in DOMAIN c, i < j
               PROVE  s2[c[i].key].turn < s2[c[j].key].turn
    BY DEF InOrder
  <2>1. i \in DOMAIN r  BY <1>3, <1>2
  <2>2. r[i].key \in DOMAIN s /\ r[i].key # k  BY <2>1, <1>2 DEF Latest, Out
  <2>3. CASE j = Len(r) + 1  BY <2>1, <2>2, <2>3, <1>1, <1>3, <1>5 DEF Turned
  <2>4. CASE j # Len(r) + 1
    <3>1. j \in DOMAIN r  BY <2>4, <1>3
    <3>2. r[j].key \in DOMAIN s /\ r[j].key # k  BY <3>1, <1>2 DEF Latest, Out
    <3>3. s[r[i].key].turn < s[r[j].key].turn  BY <2>1, <3>1, <1>2 DEF InOrder
    <3> QED  BY <2>1, <2>2, <3>1, <3>2, <3>3, <1>3, <1>5
  <2> QED  BY <2>3, <2>4
<1>9. OldAreOut(c, s2)
  <2> SUFFICES ASSUME NEW q \in DOMAIN s2, Out(c, q)
               PROVE  Len(c) >= Capacity /\ Older(c, s2, q)
    BY DEF OldAreOut
  <2>1. q # k  BY <1>1, <1>3 DEF Out
  <2>2. q \in DOMAIN s  BY <2>1 DEF Turned
  <2>3. Out(r, q)  BY <1>3 DEF Out
  <2>4. Len(r) + 1 >= Capacity /\ Older(r, s, q)  BY <2>1, <2>2, <2>3 DEF Room
  <2>5. ASSUME NEW i \in DOMAIN c PROVE s2[q].turn < s2[c[i].key].turn
    <3>1. CASE i = Len(r) + 1  BY <3>1, <2>1, <2>2, <1>1, <1>3, <1>5 DEF Turned
    <3>2. CASE i # Len(r) + 1
      <4>1. i \in DOMAIN r  BY <3>2, <1>3
      <4>2. r[i].key \in DOMAIN s /\ r[i].key # k  BY <4>1, <1>2 DEF Latest, Out
      <4>3. s[q].turn < s[r[i].key].turn  BY <4>1, <2>4 DEF Older
      <4> QED  BY <4>1, <4>2, <4>3, <2>1, <2>2, <1>3, <1>5
    <3> QED  BY <3>1, <3>2
  <2> QED  BY <2>4, <2>5, <1>3 DEF Older
<1> QED  BY <1>4, <1>6, <1>7, <1>8, <1>9 DEF c, e

LEMMA ServeTurns ==
  ASSUME NEW k, NEW t, TakesTurn(k, t), turn \in Nat
  PROVE  Turned(served, served', turn, k, t) /\ turn' = turn + 1
BY DEF TakesTurn, Turned

LEMMA HitKeeps ==
  ASSUME CacheInv, NEW k \in Keys, Hit(k)
  PROVE  CacheInv'
<1> DEFINE i == Position(cache, k)
           r == RemoveAt(cache, i)
           t == served[k].template
<1>1. cache \in Seq(Entries) /\ turn \in Nat  BY DEF CacheInv, Kept, History
<1>2. i \in DOMAIN cache /\ cache[i].key = k
  BY <1>1, PositionFound DEF CacheInv, Hit
<1>3. Room(r, served, k)  BY RoomOfItsOwn DEF CacheInv, Hit
<1>4. cache[i] \in Entries /\ cache[i].template = t  BY <1>1, <1>2 DEF CacheInv, Latest
<1>5. t \in Templates /\ cache[i] = CachedCircuit(k, t)
  <2> HIDE DEF i, t
  <2> QED  BY <1>2, <1>4 DEF Entries, CachedCircuit
<1>6. cache' = Append(r, CachedCircuit(k, t))  BY <1>5 DEF Hit
<1>7. Turned(served, served', turn, k, t) /\ turn' = turn + 1  BY <1>1, ServeTurns DEF Hit
<1>8. History(served, turn)  BY DEF CacheInv
<1> HIDE DEF r, t
<1> QED  BY <1>3, <1>5, <1>6, <1>7, <1>8, Pushed DEF CacheInv

LEMMA InsertKeeps ==
  ASSUME CacheInv, NEW k \in Keys, NEW t \in Templates, Insert(k, t)
  PROVE  CacheInv'
<1>1. turn \in Nat /\ History(served, turn)  BY DEF CacheInv, History
<1>2. Room(Trimmed(Without(cache, k)), served, k)  BY RoomMade DEF CacheInv
<1>3. cache' = Append(Trimmed(Without(cache, k)), CachedCircuit(k, t))  BY DEF Insert, Inserted
<1>4. Turned(served, served', turn, k, t) /\ turn' = turn + 1  BY <1>1, ServeTurns DEF Insert
<1> QED  BY <1>1, <1>2, <1>3, <1>4, Pushed DEF CacheInv

LEMMA EmptyKept ==
  ASSUME NEW c, NEW s, c = <<>>, s = <<>>
  PROVE  Kept(c) /\ History(s, 0) /\ Latest(c, s) /\ InOrder(c, s) /\ OldAreOut(c, s)
<1>1. DOMAIN s = {} /\ c \in Seq(Entries) /\ Len(c) = 0 /\ DOMAIN c = {}  OBVIOUS
<1> QED  BY <1>1, CapacityAssumption, FS_EmptySet DEF Kept, History, Latest, InOrder, OldAreOut

LEMMA CacheInvHolds == CacheSpec => []CacheInv
<1>1. EmptyCache => CacheInv  BY EmptyKept DEF EmptyCache, CacheInv
<1>2. CacheInv /\ [CacheNext]_cacheVars => CacheInv'
  <2> SUFFICES ASSUME CacheInv, [CacheNext]_cacheVars PROVE CacheInv'  OBVIOUS
  <2>1. ASSUME NEW key \in Keys, Hit(key) PROVE CacheInv'  BY <2>1, HitKeeps
  <2>2. ASSUME NEW entry, Store(entry) PROVE CacheInv'
    BY <2>2, InsertKeeps DEF Store
  <2>3. CASE NewCache  BY <2>3, EmptyKept DEF NewCache, CacheInv
  <2>4. CASE UNCHANGED <<cache, served, turn>>  BY <2>4 DEF CacheInv
  <2> QED  BY <2>1, <2>2, <2>3, <2>4 DEF CacheNext, cacheVars
<1> QED  BY <1>1, <1>2, PTL DEF CacheSpec

\* A cache of n entries has n keys.
LEMMA KeysCounted ==
  ASSUME CacheInv, NEW K, K = {cache[i].key : i \in DOMAIN cache}
  PROVE  IsFiniteSet(K) /\ Cardinality(K) = Len(cache)
<1> DEFINE D == 1 .. Len(cache)
           f == [i \in D |-> cache[i].key]
<1>1. Len(cache) \in Nat /\ D = DOMAIN cache  BY DEF CacheInv, Kept
<1>2. f \in Surjection(D, K)  BY <1>1 DEF Surjection
<1>3. IsFiniteSet(D) /\ Cardinality(D) = Len(cache)
  <2>1. IsFiniteSet(D) /\ Cardinality(D) = IF 1 > Len(cache) THEN 0 ELSE Len(cache) - 1 + 1
    BY <1>1, FS_Interval
  <2> QED  BY <1>1, <2>1
<1>4. \A i, j \in D : f[i] = f[j] => i = j
  <2> SUFFICES ASSUME NEW i \in D, NEW j \in D, f[i] = f[j], i # j PROVE FALSE  OBVIOUS
  <2>1. i < j \/ j < i  BY <1>1
  <2>2. cache[i].key \in DOMAIN served /\ cache[i].key = cache[j].key
    BY <1>1 DEF CacheInv, Latest
  <2>3. served[cache[i].key].turn \in Nat  BY <2>2 DEF CacheInv, History
  <2>4. served[cache[i].key].turn < served[cache[i].key].turn
    BY <1>1, <2>1, <2>2 DEF CacheInv, InOrder
  <2> QED  BY <2>3, <2>4
<1>5. f \in Injection(D, K)  BY <1>2, <1>4 DEF Injection, IsInjective, Surjection
<1> HIDE DEF D, f
<1> QED  BY <1>2, <1>3, <1>5, FS_Surjection

LEMMA RecentKept ==
  ASSUME CacheInv
  PROVE  KeepsTheRecent
<1> DEFINE K == {cache[i].key : i \in DOMAIN cache}
<1>1. IsFiniteSet(K) /\ Cardinality(K) = Len(cache)  BY KeysCounted
<1>2. Len(cache) \in Nat /\ Len(cache) <= Capacity /\ Capacity \in Nat
  BY CapacityAssumption DEF CacheInv, Kept
<1>3. \A q \in DOMAIN served : q \notin K => Out(cache, q)  BY DEF Out
<1>4. ASSUME NEW i \in DOMAIN cache
      PROVE  cache[i].key \in DOMAIN served /\ Cardinality(Since(cache[i].key)) <= Capacity
  <2>1. cache[i].key \in DOMAIN served  BY DEF CacheInv, Latest
  <2>2. \A q \in Since(cache[i].key) : q \in DOMAIN served /\ ~(served[q].turn < served[cache[i].key].turn)
    <3>1. \A q \in DOMAIN served : served[q].turn \in Nat  BY DEF CacheInv, History
    <3> QED  BY <3>1, <2>1 DEF Since
  <2>3. Since(cache[i].key) \subseteq K
    BY <1>3, <2>2 DEF CacheInv, OldAreOut, Older
  <2>4. Cardinality(Since(cache[i].key)) <= Cardinality(K) /\ IsFiniteSet(Since(cache[i].key))
    BY <1>1, <2>3, FS_Subset
  <2>5. Cardinality(Since(cache[i].key)) \in Nat  BY <2>4, FS_CardinalityType
  <2> QED  BY <1>1, <1>2, <2>1, <2>4, <2>5
<1>5. ASSUME NEW q \in DOMAIN served, Cardinality(Since(q)) <= Capacity
      PROVE  q \in K
  <2> SUFFICES ASSUME q \notin K PROVE FALSE  OBVIOUS
  <2>1. Len(cache) >= Capacity /\ Older(cache, served, q)
    BY <1>3 DEF CacheInv, OldAreOut
  <2>2. IsFiniteSet(K \cup {q}) /\ Cardinality(K \cup {q}) = Len(cache) + 1
    BY <1>1, FS_AddElement
  <2>3. K \cup {q} \subseteq Since(q)
    <3>1. \A p \in DOMAIN served : served[p].turn \in Nat  BY DEF CacheInv, History
    <3>2. \A i \in DOMAIN cache : cache[i].key \in DOMAIN served  BY DEF CacheInv, Latest
    <3> QED  BY <2>1, <3>1, <3>2 DEF Older, Since
  <2>4. IsFiniteSet(Since(q))
    <3>1. IsFiniteSet(DOMAIN served) /\ Since(q) \subseteq DOMAIN served
      BY DEF CacheInv, History, Since
    <3> QED  BY <3>1, FS_Subset
  <2> HIDE DEF K
  <2>5. Cardinality(K \cup {q}) <= Cardinality(Since(q))  BY <2>3, <2>4, FS_Subset
  <2>6. Cardinality(Since(q)) \in Nat  BY <2>4, FS_CardinalityType
  <2> QED  BY <1>2, <1>5, <2>1, <2>2, <2>5, <2>6
<1>6. K = {key \in DOMAIN served : Cardinality(Since(key)) <= Capacity}
  BY <1>4, <1>5
<1> QED  BY <1>6 DEF KeepsTheRecent, CacheInv, InOrder

\* For every capacity, and whatever is looked up, inserted, replaced and evicted: the cache holds
\* the structures last served, and of no other (CircuitCache::lookup, insert).
THEOREM CacheIsLru == CacheSpec => []KeepsTheRecent
BY CacheInvHolds, RecentKept, PTL

\* What lookup finds is what was stored last under its key (CircuitCache::insert).
THEOREM CacheIsCurrent == CacheSpec => []FindsTheLatest
<1>1. CacheInv => FindsTheLatest  BY DEF CacheInv, Latest, FindsTheLatest
<1> QED  BY <1>1, CacheInvHolds, PTL

=============================================================================
