--------------------------- MODULE TargetDelivery ---------------------------
(***************************************************************************)
(* The durable outbox of the selected target: rows committed with the      *)
(* charging write that caused them, one worker that hands the oldest row   *)
(* of every ordering key to the target session and records what the        *)
(* session reports, the session's bounded queues, and the host that        *)
(* supervises, stops and restarts them.                                    *)
(*                                                                         *)
(* A message is its delivery ID.  Time is counted in whole seconds: the    *)
(* store compares next_attempt_at with the poll's instant as text, which   *)
(* orders instants of different seconds correctly and says nothing certain *)
(* of two instants of the same second.                                     *)
(***************************************************************************)
EXTENDS Integers, Sequences, SequencesExt, FiniteSets

CONSTANTS
  Deliveries,         \* delivery IDs, each committed at most once
  KeyOf,              \* ordering key of each delivery
  Critical,           \* deliveries of durability Critical; others may be shed
  Adapters,           \* adapters the target may be of
  Lifetime,           \* seconds from commit to deadline
  InitialBackoff,
  MaximumBackoff,
  PageLimit,          \* rows read by one poll
  QueueCapacity,      \* delivery channel
  ReportCapacity,     \* report channel
  HeldLimit,          \* deliveries the MQTT adapter works on at once
  HistoryAge,         \* seconds an attempt of a final delivery is retained
  LastCommit,         \* bound: the last second a write commits in
  MaxTime,            \* bound: the last second
  MaxRestarts         \* bound: process restarts

ASSUME DeliveryAssumption ==
  /\ KeyOf \in [Deliveries -> STRING]
  /\ Critical \subseteq Deliveries
  /\ Adapters \subseteq {"http", "mqtt"}
  /\ {Lifetime, InitialBackoff, PageLimit, QueueCapacity, ReportCapacity, HeldLimit}
       \subseteq Nat \ {0}
  /\ MaximumBackoff \in Nat /\ MaximumBackoff >= InitialBackoff
  /\ {HistoryAge, LastCommit, MaxTime, MaxRestarts} \subseteq Nat

VARIABLES
  outbox,     \* pending rows, oldest first (rowid order)
  row,        \* attempt_count, next_attempt_at and deadline of a delivery
  last,       \* newest recorded attempt of a delivery: outcome, final, at
  worker,     \* control point of run_worker, batch of the poll, its instant
  inFlight,   \* in_flight of run_worker: delivery -> attempt count when sent
  queue,      \* bounded delivery channel into the session
  held,       \* deliveries the adapter took and has no outcome of
  unsent,     \* reports, stamped, that wait for room in the channel
  reports,    \* bounded report channel
  session,    \* "up", "stopping" or "down"
  host,       \* "run", "stopping", "joining" or "exited"
  exit,       \* "ok", "closed" when the first error is the closed report
              \* channel, "failed" after any other error
  now,
  restarts,
  adapter,    \* adapter of the selected target
  committed,  \* ghost: deliveries in commit order
  dropped,    \* ghost: best-effort deliveries shed under storage pressure
  pruned,     \* ghost: deliveries whose history maintenance removed
  peer        \* ghost: deliveries the adapter took

stored == <<outbox, row, last, committed, dropped, pruned>>
target == <<queue, held, unsent, session, peer>>
hosting == <<host, exit, restarts, adapter>>
vars == <<stored, worker, inFlight, target, reports, hosting, now>>

Endings == {"stopped", "conflict", "unexpected", "closed", "storage", "aborted"}
NoAttempt == [outcome |-> "none", final |-> FALSE, at |-> 0]
IdleWorker == [pc |-> "select", batch |-> <<>>, at |-> 0]
Pending == ToSet(outbox)

TypeOK ==
  /\ outbox \in Seq(Deliveries) /\ IsInjective(outbox)
  /\ row \in [Deliveries -> [attempts : Nat, next : Nat, deadline : Nat]]
  /\ \A d \in Deliveries : last[d].final \in BOOLEAN
  /\ worker.pc \in {"select", "expire", "read", "enqueue"} \union Endings
  /\ DOMAIN inFlight \subseteq Deliveries
  /\ queue \in Seq(Deliveries) /\ Len(queue) <= QueueCapacity
  /\ held \subseteq Deliveries /\ Cardinality(held) + Cardinality(unsent) <= HeldLimit
  /\ Len(reports) <= ReportCapacity
  /\ session \in {"up", "stopping", "down"}
  /\ host \in {"run", "stopping", "joining", "exited"}

Init ==
  /\ outbox = <<>>
  /\ row = [d \in Deliveries |-> [attempts |-> 0, next |-> 0, deadline |-> 0]]
  /\ last = [d \in Deliveries |-> NoAttempt]
  /\ worker = IdleWorker
  /\ inFlight = <<>>
  /\ queue = <<>> /\ held = {} /\ unsent = {} /\ reports = <<>>
  /\ session = "up" /\ host = "run" /\ exit = "ok" /\ adapter \in Adapters
  /\ now = 0 /\ restarts = 0
  /\ committed = <<>> /\ dropped = {} /\ pruned = {} /\ peer = {}

-----------------------------------------------------------------------------
(* Storage.                                                                 *)

(* Deliveries deleted when a critical write does not fit the budget.        *)
Shed(under) == IF under THEN Pending \ Critical ELSE {}

(* One charging write commits its delivery at the end of the outbox.  Under *)
(* pressure the same transaction deletes every best-effort row; a           *)
(* best-effort delivery that still does not fit is left out of the write.   *)
write_atomic(d, under, fits) ==
  /\ host # "exited" /\ d \notin ToSet(committed)
  /\ now <= LastCommit
  /\ fits \/ d \notin Critical
  /\ LET kept == SelectSeq(outbox, LAMBDA x : x \notin Shed(under))
     IN outbox' = IF fits THEN Append(kept, d) ELSE kept
  /\ row' = [row EXCEPT ![d].deadline = now + Lifetime]
  /\ committed' = Append(committed, d)
  /\ dropped' = dropped \union Shed(under) \union (IF fits THEN {} ELSE {d})
  /\ UNCHANGED <<last, pruned, worker, inFlight, target, reports, hosting, now>>

(* Maintenance deletes every aged attempt of deliveries not pending.        *)
Aged == {d \in Deliveries \ Pending : /\ last[d] # NoAttempt
                                      /\ now >= last[d].at + HistoryAge}
maintain ==
  /\ Aged # {}
  /\ last' = [d \in Deliveries |-> IF d \in Aged THEN NoAttempt ELSE last[d]]
  /\ pruned' = pruned \union Aged
  /\ UNCHANGED <<outbox, row, committed, dropped, worker, inFlight, target,
                 reports, hosting, now>>

(* The first PageLimit rows that are the oldest of their key and due.  slow *)
(* holds rows due in this very second that the text comparison passes over. *)
OldestAny(d) == TRUE
Oldest(d) ==
  \A i, j \in DOMAIN outbox :
    (outbox[j] = d /\ i < j) => KeyOf[outbox[i]] # KeyOf[d]
read_pending(at, slow) ==
  LET ids == SelectSeq(outbox, LAMBDA d : Oldest(d) /\ row[d].next <= at /\ d \notin slow)
  IN  SubSeq(ids, 1, IF Len(ids) < PageLimit THEN Len(ids) ELSE PageLimit)
DueThisSecond(at) == {d \in Pending : row[d].next = at /\ row[d].attempts > 0}

(* The transaction that records an attempt: final ones delete the row,      *)
(* others count the attempt and schedule the next.  Its caller has checked  *)
(* that the row exists.                                                     *)
record_attempt(d, outcome, at, final, retry_at) ==
  /\ last' = [last EXCEPT ![d] = [outcome |-> outcome, final |-> final, at |-> at]]
  /\ outbox' = IF final THEN SelectSeq(outbox, LAMBDA x : x # d) ELSE outbox
  /\ row' = IF final THEN row
            ELSE [row EXCEPT ![d].attempts = @ + 1, ![d].next = retry_at]
  /\ UNCHANGED <<committed, dropped, pruned>>

-----------------------------------------------------------------------------
(* The delivery worker.                                                     *)

(* The completion of the two retry policies the host sets up.               *)
Required(d) == IF d \in Critical /\ adapter = "mqtt" THEN "acknowledged" ELSE "exposed"

CompletesAny(required, outcome) == TRUE
(* An acknowledgement names its peer (the MQTT adapter never reports a      *)
(* blank one); a permanent failure always completes.                        *)
completes(required, outcome) ==
  outcome \in {"permanent", "acknowledged"} \/ outcome = required

(* initial_backoff doubled for each earlier attempt, at most the maximum.   *)
Backoff(attempts) ==
  LET delay == InitialBackoff * 2 ^ attempts
  IN  IF delay < MaximumBackoff THEN delay ELSE MaximumBackoff
retry_at(d, at, attempts) ==
  LET due == at + Backoff(attempts)
  IN  IF due < row[d].deadline THEN due ELSE row[d].deadline

Goto(pc) == worker' = [worker EXCEPT !.pc = pc]

(* run_worker returns: its table and its end of the report channel go.      *)
End(how) ==
  /\ worker' = [IdleWorker EXCEPT !.pc = how]
  /\ inFlight' = <<>> /\ reports' = <<>>

(* A tick of the poll interval.                                             *)
StartPoll ==
  /\ worker.pc = "select"
  /\ worker' = [pc |-> "expire", batch |-> <<>>, at |-> now]
  /\ UNCHANGED <<stored, inFlight, target, reports, hosting, now>>

(* expire: one deadline recorded as a permanent failure.  A row that is     *)
(* gone is a Conflict, which ends the worker.                               *)
expire(d, next, flight) ==
  /\ \/ /\ d \in Pending
        /\ record_attempt(d, "expired", worker.at, TRUE, 0)
        /\ worker' = next /\ inFlight' = flight /\ UNCHANGED reports
     \/ d \notin Pending /\ End("conflict") /\ UNCHANGED stored
  /\ UNCHANGED <<target, hosting, now>>

OverdueNever == {}
Overdue == {d \in DOMAIN inFlight : row[d].deadline <= worker.at}

ExpireKeepsInFlight ==
  /\ worker.pc = "expire"
  /\ \/ \E d \in Overdue : expire(d, [worker EXCEPT !.pc = "read"], inFlight)
     \/ /\ Overdue = {} /\ Goto("read")
        /\ UNCHANGED <<stored, inFlight, target, reports, hosting, now>>
expire_in_flight ==
  /\ worker.pc = "expire"
  /\ \/ \E d \in Overdue : expire(d, worker, Restrict(inFlight, DOMAIN inFlight \ {d}))
     \/ /\ Overdue = {} /\ Goto("read")
        /\ UNCHANGED <<stored, inFlight, target, reports, hosting, now>>

ReadPending ==
  /\ worker.pc = "read"
  /\ \E slow \in SUBSET DueThisSecond(worker.at) :
       worker' = [worker EXCEPT !.pc = "enqueue", !.batch = read_pending(worker.at, slow)]
  /\ UNCHANGED <<stored, inFlight, target, reports, hosting, now>>

(* try_deliver: the shared budget or a full or closed queue refuses.        *)
try_deliver(d) ==
  \/ /\ session # "down" /\ Len(queue) < QueueCapacity
     /\ queue' = Append(queue, d)
     /\ inFlight' = [x \in DOMAIN inFlight \union {d} |->
                       IF x = d THEN row[d].attempts ELSE inFlight[x]]
  \/ UNCHANGED <<queue, inFlight>>

EnqueueAgain ==
  /\ worker.pc = "enqueue" /\ worker.batch # <<>>
  /\ try_deliver(Head(worker.batch))
  /\ worker' = [worker EXCEPT !.batch = Tail(@)]
  /\ UNCHANGED <<stored, held, unsent, session, peer, reports, hosting, now>>
Enqueue ==
  /\ worker.pc = "enqueue" /\ worker.batch # <<>>
  /\ LET d == Head(worker.batch)
         rest == [worker EXCEPT !.batch = Tail(@)]
     IN \/ /\ d \in DOMAIN inFlight
           /\ worker' = rest
           /\ UNCHANGED <<stored, inFlight, target, reports, hosting, now>>
        \/ /\ d \notin DOMAIN inFlight /\ row[d].deadline <= worker.at
           /\ expire(d, rest, inFlight)
        \/ /\ d \notin DOMAIN inFlight /\ row[d].deadline > worker.at
           /\ try_deliver(d) /\ worker' = rest
           /\ UNCHANGED <<stored, held, unsent, session, peer, reports, hosting, now>>

EndPoll ==
  /\ worker.pc = "enqueue" /\ worker.batch = <<>>
  /\ worker' = IdleWorker
  /\ UNCHANGED <<stored, inFlight, target, reports, hosting, now>>

(* A report of work that is not in flight is accepted only if the newest    *)
(* attempt is final; otherwise it ends the worker.  A report of work in     *)
(* flight completes it or schedules the next attempt.                       *)
record_report ==
  /\ worker.pc = "select" /\ reports # <<>>
  /\ LET d == Head(reports).id
         outcome == Head(reports).outcome
         at == Head(reports).at
     IN \/ /\ d \notin DOMAIN inFlight /\ last[d].final
           /\ reports' = Tail(reports)
           /\ UNCHANGED <<stored, worker, inFlight>>
        \/ /\ d \notin DOMAIN inFlight /\ ~ last[d].final
           /\ End("unexpected") /\ UNCHANGED stored
        \/ /\ d \in DOMAIN inFlight /\ d \in Pending
           /\ record_attempt(d, outcome, at, completes(Required(d), outcome),
                             retry_at(d, at, inFlight[d]))
           /\ inFlight' = Restrict(inFlight, DOMAIN inFlight \ {d})
           /\ reports' = Tail(reports)
           /\ UNCHANGED worker
        \/ /\ d \in DOMAIN inFlight /\ d \notin Pending
           /\ End("conflict") /\ UNCHANGED stored
  /\ UNCHANGED <<target, hosting, now>>

(* Every sender of the report channel went away with the session.           *)
ReportChannelClosed ==
  /\ worker.pc = "select" /\ session = "down" /\ reports = <<>>
  /\ End("closed")
  /\ UNCHANGED <<stored, target, hosting, now>>

(* Any store request of the worker may fail, which ends it.                 *)
StorageFails ==
  /\ \/ worker.pc \in {"expire", "read", "enqueue"}
     \/ worker.pc = "select" /\ reports # <<>>
  /\ End("storage")
  /\ UNCHANGED <<stored, target, hosting, now>>

WorkerShutdown ==
  /\ worker.pc = "select" /\ host = "joining"
  /\ End("stopped")
  /\ UNCHANGED <<stored, target, hosting, now>>

-----------------------------------------------------------------------------
(* The target session and its adapter.                                      *)

(* What the adapters report.  A retryable failure and an uncertain handoff  *)
(* are one outcome: neither policy completes on either.                     *)
Outcomes == IF adapter = "http" THEN {"exposed"} ELSE {"acknowledged", "retry", "permanent"}

(* The HTTP adapter awaits each report before it takes the next delivery;   *)
(* the MQTT adapter counts what it works on and the reports on their way.   *)
CanReceive ==
  Cardinality(held) + Cardinality(unsent) < (IF adapter = "http" THEN 1 ELSE HeldLimit)

(* The adapter takes the next delivery of its queue and puts it out.        *)
Take ==
  /\ session = "up" /\ queue # <<>> /\ CanReceive
  /\ queue' = Tail(queue)
  /\ held' = held \union {Head(queue)}
  /\ peer' = peer \union {Head(queue)}
  /\ UNCHANGED <<stored, worker, inFlight, unsent, session, reports, hosting, now>>

(* The outcome of a delivery is known: its report is stamped and waits.     *)
SpawnReport(d, outcome) ==
  /\ session # "down" /\ d \in held
  /\ held' = held \ {d}
  /\ unsent' = unsent \union {[id |-> d, outcome |-> outcome, at |-> now]}
  /\ UNCHANGED <<stored, worker, inFlight, queue, session, peer, reports, hosting, now>>

ReportUnbounded(report) ==
  /\ session # "down" /\ worker.pc \notin Endings
  /\ unsent' = unsent \ {report}
  /\ reports' = Append(reports, report)
  /\ UNCHANGED <<stored, worker, inFlight, queue, held, session, peer, hosting, now>>
(* A report reaches the worker's channel once there is room for it.         *)
Report(report) ==
  /\ session # "down"
  /\ worker.pc \notin Endings /\ Len(reports) < ReportCapacity
  /\ unsent' = unsent \ {report}
  /\ reports' = Append(reports, report)
  /\ UNCHANGED <<stored, worker, inFlight, queue, held, session, peer, hosting, now>>

SessionDown(reason) ==
  /\ session' = "down" /\ queue' = <<>> /\ held' = {} /\ unsent' = {}
  /\ exit' = IF exit = "ok" THEN reason ELSE exit

(* The critical-report budget or a worker that has ended refuses a report:  *)
(* the HTTP adapter goes on, the MQTT session ends.                         *)
ReportRefused(report) ==
  /\ session # "down"
  /\ IF adapter = "http"
       THEN unsent' = unsent \ {report} /\ UNCHANGED <<queue, held, session, exit>>
       ELSE SessionDown("failed")
  /\ UNCHANGED <<stored, worker, inFlight, peer, reports, host, restarts, adapter, now>>

SessionFails ==
  /\ session = "up"
  /\ SessionDown("failed")
  /\ UNCHANGED <<stored, worker, inFlight, peer, reports, host, restarts, adapter, now>>

(* Asked to stop, the session reports what it holds and returns, or is      *)
(* aborted at the deadline.                                                 *)
SessionStops ==
  /\ session = "stopping"
  /\ \/ held = {} /\ unsent = {} /\ SessionDown("ok")
     \/ SessionDown("failed")
  /\ UNCHANGED <<stored, worker, inFlight, peer, reports, host, restarts, adapter, now>>

-----------------------------------------------------------------------------
(* The host.                                                                *)

AskSessionToStop ==
  /\ host' = "stopping"
  /\ session' = IF session = "up" THEN "stopping" ELSE session

StopSignal ==
  /\ host = "run"
  /\ AskSessionToStop
  /\ UNCHANGED <<stored, worker, inFlight, queue, held, unsent, peer, reports, exit,
                 restarts, adapter, now>>

(* The supervision tick finds the session or the worker finished.           *)
Supervise ==
  /\ host = "run"
  /\ session = "down" \/ worker.pc \in Endings
  /\ AskSessionToStop
  /\ exit' = IF exit = "ok" THEN "failed" ELSE exit
  /\ UNCHANGED <<stored, worker, inFlight, queue, held, unsent, peer, reports,
                 restarts, adapter, now>>

JoinWorker ==
  /\ host = "stopping" /\ session = "down"
  /\ host' = "joining"
  /\ UNCHANGED <<stored, worker, inFlight, target, reports, exit, restarts, adapter, now>>

(* The worker's result, or its abort at the deadline, ends the host.        *)
Exit ==
  /\ host = "joining"
  /\ host' = "exited"
  /\ IF worker.pc \in Endings THEN UNCHANGED <<worker, inFlight, reports>>
     ELSE End("aborted")
  /\ exit' = IF exit # "ok" \/ worker'.pc = "stopped" THEN exit
             ELSE IF worker'.pc = "closed" THEN "closed" ELSE "failed"
  /\ UNCHANGED <<stored, target, restarts, adapter, now>>

(* A new process, after an exit or a crash at any point: the store remains. *)
Restart ==
  /\ restarts < MaxRestarts
  /\ restarts' = restarts + 1
  /\ worker' = IdleWorker /\ inFlight' = <<>>
  /\ queue' = <<>> /\ held' = {} /\ unsent' = {} /\ reports' = <<>>
  /\ session' = "up" /\ host' = "run" /\ exit' = "ok"
  /\ UNCHANGED <<stored, peer, adapter, now>>

Tick ==
  /\ now < MaxTime
  /\ now' = now + 1
  /\ UNCHANGED <<stored, worker, inFlight, target, reports, hosting>>

Poll == StartPoll \/ expire_in_flight \/ ReadPending \/ Enqueue \/ EndPoll

Worker == \/ Poll \/ record_report \/ StorageFails
          \/ ReportChannelClosed \/ WorkerShutdown

Session == \/ Take
           \/ \E d \in Deliveries, o \in Outcomes : SpawnReport(d, o)
           \/ \E report \in unsent : Report(report) \/ ReportRefused(report)
           \/ SessionFails \/ SessionStops

Host == StopSignal \/ Supervise \/ JoinWorker \/ Exit \/ Restart

Storage == \/ \E d \in Deliveries, under, fits \in BOOLEAN : write_atomic(d, under, fits)
           \/ maintain

Next == Storage \/ Worker \/ Session \/ Host \/ Tick

Spec == Init /\ [][Next]_vars

(* The poll is a task of its own with a 250 ms ticker: it always comes back *)
(* and each of its store requests is answered.  Nothing is asked of the     *)
(* peer, of the adapter or of the reports.                                  *)
FairSpec == Spec /\ WF_vars(Poll) /\ WF_vars(Tick)

-----------------------------------------------------------------------------
(* Properties.                                                              *)

Before(d, e) == \E i, j \in DOMAIN committed :
                  i < j /\ committed[i] = d /\ committed[j] = e

(* read_pending offers only the oldest row of an ordering key, and a row    *)
(* leaves the outbox only with a final attempt: whatever expires, is        *)
(* retried, is shed or is cut short by a restart, the adapter never takes   *)
(* a delivery after it took a younger one of its key.                       *)
PeerOrder ==
  [][\A d \in held' \ held : \A e \in peer : KeyOf[d] = KeyOf[e] => ~ Before(d, e)]_vars

(* record_attempt deletes a row only with a final attempt: a committed      *)
(* delivery that is no longer pending was shed, or was put out with the     *)
(* outcome its class requires, or was refused for good by the adapter, or   *)
(* passed its deadline.                                                     *)
NothingVanishes ==
  \A d \in ToSet(committed) \ (Pending \union dropped \union pruned) :
    /\ last[d].final
    /\ \/ last[d].outcome = "expired" /\ last[d].at >= row[d].deadline
       \/ last[d].outcome = "permanent"
       \/ last[d].outcome \in {Required(d), "acknowledged"} /\ d \in peer

Count(s, d) == Cardinality({i \in DOMAIN s : s[i] = d})

(* in_flight keeps enqueue_ready from sending again what the session still  *)
(* has: at most one copy of a delivery is in the queue, with the adapter,   *)
(* in a report that waits or in the channel, even while it expires.         *)
OneCopy ==
  \A d \in Deliveries :
    Count(queue, d) + Cardinality(held \intersect {d})
      + Cardinality({report \in unsent : report.id = d})
      + Cardinality({i \in DOMAIN reports : reports[i].id = d}) <= 1

(* record_report and expire end the worker on a row that is gone and on a   *)
(* report without work.  No order of expiries, late reports, retries and    *)
(* restarts causes either: the first takes a delivery shed under storage    *)
(* pressure, the second a history pruned before the late report came.       *)
WorkerSurvives ==
  /\ worker.pc = "conflict" => dropped # {}
  /\ worker.pc = "unexpected" => pruned # {}

(* docs/operations/service-lifecycle.md, shutdown contract: "Deadline       *)
(* expiry produces exit code 1; a completed drain exits 0."  A stop with    *)
(* nothing failed and no deadline missed exits with success.                *)
CompletedDrainExitsZero == host = "exited" => exit # "closed"

WorkerEnded == worker.pc \in Endings
Settled(d) == d \notin Pending \/ WorkerEnded \/ session = "down" \/ host # "run"

(* A pending delivery leaves the outbox unless the worker or its session    *)
(* ends first: a lost report, a full queue, a page occupied by rows in      *)
(* flight and a failing peer delay it until its deadline at most.           *)
EverySettles == \A d \in Deliveries : (d \in Pending) ~> Settled(d)
=============================================================================
