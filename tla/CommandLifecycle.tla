------------------------- MODULE CommandLifecycle -------------------------
(* The life of an external command: durable admission, one live dispatch   *)
(* attempt, the charger's answer, observed effects, restart and pruning.   *)
(*                                                                         *)
(* Three parts of the program meet here.  The command coordinator          *)
(* (crates/application/src/command) runs one asynchronous task per         *)
(* submission; it may be interrupted at every await, and another task may  *)
(* submit the same request ID meanwhile.  The SQLite command tables        *)
(* (adapters/storage/src/command.rs) are owned by one worker thread, so    *)
(* each store request is one atomic step.  The station sockets             *)
(* (bins/uob-service/src/charging/commands.rs, adapters/protocol/src/call) *)
(* transmit a queued call, or do not, and resolve it later.                *)
EXTENDS Naturals, FiniteSets

CONSTANTS
  Requests,       \* request IDs, ordered as the request_id column is
  Contents,       \* what a fingerprint tells apart: everything but the ID
  RouteOf,        \* the return route and resource of a content
  Correlated,     \* requests whose late reply can still be correlated
  Tasks,          \* concurrent submissions
  Writers,        \* concurrent writers of evidence about stored commands
  Events,         \* journal events that show the effect of a command
  PageLimit,      \* rows a recovery page holds
  MaxGenerations, \* bound: sockets the station opens per process lifetime
  MaxBoots,       \* bound: restarts of the process
  Prunable,       \* bound: requests whose retention may run out
  NoCommand,      \* no row in table commands
  NoResult        \* no row in table command_results

ProtocolResponse == {"Accepted", "Refused"}
Final            == ProtocolResponse \cup {"Rejected"}
Unresolved       == {"Admitted", "Dispatched", "Uncertain"}
Lifecycle        == Final \cup Unresolved

Command == [content : Contents, unresolved : BOOLEAN, aged : BOOLEAN,
            boot : Nat, sockets : Nat, gen : Nat]
Result  == [route : {RouteOf[c] : c \in Contents}, lifecycle : Lifecycle,
            effects : SUBSET Events]

ASSUME ConstantsAssumption ==
  /\ Requests \subseteq Nat \ {0}
  /\ RouteOf \in [Contents -> {RouteOf[c] : c \in Contents}]
  /\ Correlated \subseteq Requests
  /\ Prunable \subseteq Requests
  /\ PageLimit \in Nat \ {0}
  /\ MaxGenerations \in Nat
  /\ MaxBoots \in Nat
  /\ NoCommand \notin Command
  /\ NoResult \notin Result
  /\ Contents # {}

VARIABLES
  commands,   \* table commands
  results,    \* table command_results
  tasks,      \* submit_at and finalize_dispatch, one record per submission
  writers,    \* reconcile_observed_effect and late_response
  calls,      \* calls queued in, or awaiting a reply on, a station socket
  late,       \* reservation calls whose late reply a socket still accepts
  sockets,    \* LiveCommands: sockets opened, live ones, the registered one
  startup,    \* recover: serving or not, cursor, the page being worked on
  boots,      \* restarts so far
  (* History: what the station saw and the callers were told of the row a  *)
  (* request has now; requests pruned while evidence on them was pending.  *)
  (* So are a row's boot and gen (the process and the socket it was        *)
  (* validated for) and a task's known (a caller had been told of the row). *)
  sends, answer, told, raced

durable == <<commands, results>>
seen    == <<sends, answer>>
vars    == <<commands, results, tasks, writers, calls, late, sockets, startup,
             boots, sends, answer, told, raced>>

-----------------------------------------------------------------------------
(* Types. *)

NoTask   == [pc |-> "idle"]
NoWriter == [pc |-> "idle"]
NoSockets == [opened |-> 0, live |-> {}, current |-> 0]
Starting  == [serving |-> FALSE, after |-> 0, page |-> {}]

ActiveTask ==
  [pc : {"lookup", "duplicate", "context", "admit", "mark", "dispatch", "await",
         "persist", "reread"},
   req : Requests, content : Contents, gen : Nat, known : BOOLEAN,
   outcome : {"none", "Rejected", "Accepted", "Refused", "Uncertain"}]

Task == {NoTask} \cup ActiveTask

Kind == {"effect"} \cup ProtocolResponse

NewWriter ==
  [pc : {"readCommand"}, req : Requests, kind : Kind, events : SUBSET Events,
   gen : Nat, copy : {NoResult}]

HoldingWriter ==
  [pc : {"readResult", "write"}, req : Requests, kind : Kind,
   events : SUBSET Events, gen : Nat, copy : Result]

Writer == {NoWriter} \cup NewWriter \cup HoldingWriter

Call == [req : Requests, task : Tasks, content : Contents, gen : Nat,
         phase : {"queued", "sent"}]

(* Type invariant: every table, task, call and history variable keeps the   *)
(* shape the program gives it.                                              *)
TypeOK ==
  /\ commands \in [Requests -> Command \cup {NoCommand}]
  /\ results \in [Requests -> Result \cup {NoResult}]
  /\ tasks \in [Tasks -> Task]
  /\ writers \in [Writers -> Writer]
  /\ calls \subseteq Call
  /\ late \subseteq Requests \X Nat
  /\ sockets \in [opened : Nat, live : SUBSET Nat, current : Nat]
  /\ startup \in [serving : BOOLEAN, after : Nat, page : SUBSET Requests]
  /\ boots \in Nat
  /\ sends \in [Requests -> Nat]
  /\ answer \in [Requests -> ProtocolResponse \cup {"none"}]
  /\ told \in [Requests -> SUBSET (Lifecycle \cup {"Denied"})]
  /\ raced \subseteq Requests

Init ==
  /\ commands = [r \in Requests |-> NoCommand]
  /\ results = [r \in Requests |-> NoResult]
  /\ tasks = [t \in Tasks |-> NoTask]
  /\ writers = [w \in Writers |-> NoWriter]
  /\ calls = {}
  /\ late = {}
  /\ sockets = NoSockets
  /\ startup = Starting
  /\ boots = 0
  /\ sends = [r \in Requests |-> 0]
  /\ answer = [r \in Requests |-> "none"]
  /\ told = [r \in Requests |-> {}]
  /\ raced = {}

-----------------------------------------------------------------------------
(* The command tables.  Each operator is one request to the store's worker. *)

lifecycle_rank(l) ==
  CASE l = "Admitted" -> 0 [] l = "Dispatched" -> 1 [] OTHER -> 2

Correlates(r, previous, incoming) ==
  previous = "Uncertain" /\ incoming \in ProtocolResponse /\ r \in Correlated

KeepsPreviousFinal(r, previous, incoming) ==
  /\ lifecycle_rank(previous) = 2
  /\ lifecycle_rank(incoming) = 2
  /\ ~Correlates(r, previous, incoming)

KeepsPreviousHigher(r, previous, incoming) ==
  lifecycle_rank(previous) > lifecycle_rank(incoming)

KeepsPrevious(r, previous, incoming) ==
  \/ lifecycle_rank(previous) > lifecycle_rank(incoming)
  \/ /\ lifecycle_rank(previous) = 2
     /\ lifecycle_rank(incoming) = 2
     /\ ~Correlates(r, previous, incoming)

MergedWithoutUnion(r, previous, incoming) ==
  IF previous = NoResult THEN incoming
  ELSE [incoming EXCEPT
          !.lifecycle = IF KeepsPrevious(r, previous.lifecycle, @)
                        THEN previous.lifecycle ELSE @]

Merged(r, previous, incoming) ==
  IF previous = NoResult THEN incoming
  ELSE [incoming EXCEPT
          !.lifecycle = IF KeepsPrevious(r, previous.lifecycle, @)
                        THEN previous.lifecycle ELSE @,
          !.effects = @ \cup previous.effects]

IdentityChanged(r, incoming) ==
  results[r] # NoResult /\ results[r].route # incoming.route

command_result(content, l) ==
  [route |-> RouteOf[content], lifecycle |-> l, effects |-> {}]

WriteResultIncomingFlag(rows, r, incoming) ==
  /\ ~IdentityChanged(r, incoming)
  /\ results' = [results EXCEPT ![r] = Merged(r, results[r], incoming)]
  /\ commands' =
       IF rows[r] = NoCommand THEN rows
       ELSE [rows EXCEPT ![r].unresolved = incoming.lifecycle \in Unresolved]

(* write_result on the rows of table commands the transaction has built.    *)
write_result(rows, r, incoming) ==
  /\ ~IdentityChanged(r, incoming)
  /\ results' = [results EXCEPT ![r] = Merged(r, results[r], incoming)]
  /\ commands' =
       IF rows[r] = NoCommand THEN rows
       ELSE [rows EXCEPT ![r].unresolved =
               Merged(r, results[r], incoming).lifecycle \in Unresolved]

NewRow(t) ==
  [content |-> tasks[t].content, unresolved |-> TRUE, aged |-> FALSE,
   boot |-> boots, sockets |-> sockets.opened, gen |-> tasks[t].gen]

(* The seven days of retention pass.  No submission, and no call a socket   *)
(* still holds, lasts that long: a call leaves the queue at its expiry and  *)
(* waits for its reply at most response_timeout.                            *)
Age(r) ==
  /\ r \in Prunable
  /\ commands[r] # NoCommand
  /\ ~commands[r].aged
  /\ \A t \in Tasks : tasks[t].pc # "idle" => tasks[t].req # r
  /\ \A c \in calls : c.req # r
  /\ commands' = [commands EXCEPT ![r].aged = TRUE]
  /\ UNCHANGED <<results, tasks, writers, calls, late, sockets, startup, boots,
                 sends, answer, told, raced>>

(* Evidence about the present row of r is still on its way to the store.    *)
Outstanding(r) ==
  \/ \E w \in Writers : writers[w].pc # "idle" /\ writers[w].req = r
  \/ \E l \in late : l[1] = r

PruneKeepsResults(S) ==
  /\ startup.serving
  /\ S # {}
  /\ \A r \in S : /\ commands[r] # NoCommand
                  /\ ~commands[r].unresolved
                  /\ commands[r].aged
  /\ commands' = [r \in Requests |-> IF r \in S THEN NoCommand ELSE commands[r]]
  /\ sends' = [r \in Requests |-> IF r \in S THEN 0 ELSE sends[r]]
  /\ answer' = [r \in Requests |-> IF r \in S THEN "none" ELSE answer[r]]
  /\ told' = [r \in Requests |-> IF r \in S THEN {} ELSE told[r]]
  /\ raced' = (raced \ S) \cup {r \in S : Outstanding(r)}
  /\ UNCHANGED <<results, tasks, writers, calls, late, sockets, startup, boots>>

PruneIgnoresUnresolved(S) ==
  /\ startup.serving
  /\ S # {}
  /\ \A r \in S : commands[r] # NoCommand /\ commands[r].aged
  /\ commands' = [r \in Requests |-> IF r \in S THEN NoCommand ELSE commands[r]]
  /\ results' = [r \in Requests |-> IF r \in S THEN NoResult ELSE results[r]]
  /\ sends' = [r \in Requests |-> IF r \in S THEN 0 ELSE sends[r]]
  /\ answer' = [r \in Requests |-> IF r \in S THEN "none" ELSE answer[r]]
  /\ told' = [r \in Requests |-> IF r \in S THEN {} ELSE told[r]]
  /\ raced' = raced \ S
  /\ UNCHANGED <<tasks, writers, calls, late, sockets, startup, boots>>

(* A row with a pending multipart report is kept, hence the choice of S.    *)
prune(S) ==
  /\ startup.serving
  /\ S # {}
  /\ \A r \in S : /\ commands[r] # NoCommand
                  /\ ~commands[r].unresolved
                  /\ commands[r].aged
  /\ commands' = [r \in Requests |-> IF r \in S THEN NoCommand ELSE commands[r]]
  /\ results' = [r \in Requests |-> IF r \in S THEN NoResult ELSE results[r]]
  /\ sends' = [r \in Requests |-> IF r \in S THEN 0 ELSE sends[r]]
  /\ answer' = [r \in Requests |-> IF r \in S THEN "none" ELSE answer[r]]
  /\ told' = [r \in Requests |-> IF r \in S THEN {} ELSE told[r]]
  /\ raced' = (raced \ S) \cup {r \in S : Outstanding(r)}
  /\ UNCHANGED <<tasks, writers, calls, late, sockets, startup, boots>>

-----------------------------------------------------------------------------
(* submit_at: one step per await of the coordinator's task.                 *)

Become(t, pc) == tasks' = [tasks EXCEPT ![t].pc = pc]
Done(t)       == tasks' = [tasks EXCEPT ![t] = NoTask]
Tell(r, l)    == told' = [told EXCEPT ![r] = @ \cup {l}]

(* The caller gets a Rejected result that is stored nowhere.  Recorded when *)
(* the submission came after a caller had been told of the stored row.      *)
Deny(t) ==
  told' = IF tasks[t].known
          THEN [told EXCEPT ![tasks[t].req] = @ \cup {"Denied"}] ELSE told

Submit(t, r, c) ==
  /\ startup.serving
  /\ tasks[t] = NoTask
  /\ tasks' = [tasks EXCEPT ![t] = [pc |-> "lookup", req |-> r, content |-> c,
                                   gen |-> 0, outcome |-> "none",
                                   known |-> /\ told[r] # {}
                                             /\ commands[r] # NoCommand
                                             /\ ~commands[r].aged]]
  /\ UNCHANGED <<durable, writers, calls, late, sockets, startup, boots, seen,
                 told, raced>>

LookupAfterValidation(t) ==
  /\ tasks[t].pc = "lookup"
  /\ LET row == commands[tasks[t].req] IN
       \/ /\ row = NoCommand
          /\ tasks' = [tasks EXCEPT ![t].pc = "context", ![t].gen = sockets.current]
          /\ UNCHANGED told
       \/ Deny(t) /\ Done(t)
       \/ /\ row # NoCommand /\ row.content = tasks[t].content
          /\ Become(t, "duplicate")
          /\ UNCHANGED told
  /\ UNCHANGED <<durable, writers, calls, late, sockets, startup, boots, seen, raced>>

(* command_by_request_id.  A request without a row is rejected for its      *)
(* parameters or its expiry, or reads the socket generation, in the same    *)
(* step; a known one with another content is an error.                      *)
Lookup(t) ==
  /\ tasks[t].pc = "lookup"
  /\ LET row == commands[tasks[t].req] IN
       \/ /\ row = NoCommand
          /\ tasks' = [tasks EXCEPT ![t].pc = "context", ![t].gen = sockets.current]
          /\ UNCHANGED told
       \/ row = NoCommand /\ Deny(t) /\ Done(t)
       \/ /\ row # NoCommand /\ row.content # tasks[t].content
          /\ Done(t)
          /\ UNCHANGED told
       \/ /\ row # NoCommand /\ row.content = tasks[t].content
          /\ Become(t, "duplicate")
          /\ UNCHANGED told
  /\ UNCHANGED <<durable, writers, calls, late, sockets, startup, boots, seen, raced>>

Duplicate(t) ==
  /\ tasks[t].pc = "duplicate"
  /\ LET r == tasks[t].req IN
       IF results[r] = NoResult THEN UNCHANGED told ELSE Tell(r, results[r].lifecycle)
  /\ Done(t)
  /\ UNCHANGED <<durable, writers, calls, late, sockets, startup, boots, seen, raced>>

(* The socket must be open, and still be the one registered when the        *)
(* expectations are built.  Without it, and on every other rejection before *)
(* admission (capability, expectations), the result is stored nowhere.      *)
Context(t) ==
  /\ tasks[t].pc = "context"
  /\ \/ /\ sockets.current = tasks[t].gen
        /\ tasks[t].gen \in sockets.live
        /\ Become(t, "admit")
        /\ UNCHANGED told
     \/ Deny(t) /\ Done(t)
  /\ UNCHANGED <<durable, writers, calls, late, sockets, startup, boots, seen, raced>>

AdmitIgnoresDuplicate(t) ==
  /\ tasks[t].pc = "admit"
  /\ LET r == tasks[t].req
         c == tasks[t].content
     IN write_result(IF commands[r] = NoCommand
                     THEN [commands EXCEPT ![r] = NewRow(t)] ELSE commands,
                     r, command_result(c, "Admitted"))
  /\ Become(t, "mark")
  /\ UNCHANGED <<writers, calls, late, sockets, startup, boots, seen, told, raced>>

AdmitSkipsMark(t) ==
  /\ tasks[t].pc = "admit"
  /\ commands[tasks[t].req] = NoCommand
  /\ LET r == tasks[t].req
         c == tasks[t].content
     IN write_result([commands EXCEPT ![r] = NewRow(t)], r,
                     command_result(c, "Admitted"))
  /\ Become(t, "dispatch")
  /\ UNCHANGED <<writers, calls, late, sockets, startup, boots, seen, told, raced>>

(* write_atomic with the command and its Admitted result.  A conflict, of   *)
(* the command or of the reservation, profile or job written with it, is an *)
(* error for a plain command and a Rejected result stored nowhere for the   *)
(* others.                                                                  *)
Admit(t) ==
  /\ tasks[t].pc = "admit"
  /\ LET r   == tasks[t].req
         c   == tasks[t].content
         row == commands[r]
     IN \/ /\ row = NoCommand
           /\ write_result([commands EXCEPT ![r] = NewRow(t)], r,
                           command_result(c, "Admitted"))
           /\ Become(t, "mark")
           /\ UNCHANGED told
        \/ /\ row # NoCommand => row.content # c
           /\ Deny(t) \/ UNCHANGED told
           /\ Done(t)
           /\ UNCHANGED durable
        \/ /\ row # NoCommand
           /\ row.content = c
           /\ Tell(r, IF results[r] = NoResult THEN "Admitted"
                      ELSE results[r].lifecycle)
           /\ Done(t)
           /\ UNCHANGED durable
  /\ UNCHANGED <<writers, calls, late, sockets, startup, boots, seen, raced>>

Mark(t) ==
  /\ tasks[t].pc = "mark"
  /\ write_result(commands, tasks[t].req, command_result(tasks[t].content, "Dispatched"))
  /\ Become(t, "dispatch")
  /\ UNCHANGED <<writers, calls, late, sockets, startup, boots, seen, told, raced>>

DispatchToCurrent(t) ==
  /\ tasks[t].pc = "dispatch"
  /\ sockets.current \in sockets.live
  /\ calls' = calls \cup {[req |-> tasks[t].req, task |-> t,
                          content |-> tasks[t].content,
                          gen |-> sockets.current, phase |-> "queued"]}
  /\ Become(t, "await")
  /\ UNCHANGED <<durable, writers, late, sockets, startup, boots, seen, told, raced>>

DispatchWithoutOutcome(t) ==
  /\ tasks[t].pc = "dispatch"
  /\ Become(t, "persist")
  /\ UNCHANGED <<durable, writers, calls, late, sockets, startup, boots, seen, told, raced>>

(* dispatch_to_generation: only the socket seen before admission, still     *)
(* registered and open, may take the call; otherwise nothing is sent.       *)
Dispatch(t) ==
  /\ tasks[t].pc = "dispatch"
  /\ \/ /\ sockets.current = tasks[t].gen
        /\ tasks[t].gen \in sockets.live
        /\ calls' = calls \cup {[req |-> tasks[t].req, task |-> t,
                                content |-> tasks[t].content,
                                gen |-> tasks[t].gen, phase |-> "queued"]}
        /\ Become(t, "await")
     \/ /\ tasks' = [tasks EXCEPT ![t].pc = "persist", ![t].outcome = "Rejected"]
        /\ UNCHANGED calls
  /\ UNCHANGED <<durable, writers, late, sockets, startup, boots, seen, told, raced>>

Persist(t) ==
  /\ tasks[t].pc = "persist"
  /\ write_result(commands, tasks[t].req,
                  command_result(tasks[t].content, tasks[t].outcome))
  /\ Become(t, "reread")
  /\ UNCHANGED <<writers, calls, late, sockets, startup, boots, seen, told, raced>>

Reread(t) ==
  /\ tasks[t].pc = "reread"
  /\ LET r == tasks[t].req IN
       IF results[r] = NoResult THEN UNCHANGED told ELSE Tell(r, results[r].lifecycle)
  /\ Done(t)
  /\ UNCHANGED <<durable, writers, calls, late, sockets, startup, boots, seen, raced>>

(* A task ends early at any await: the store is busy, full or draining, the *)
(* station port fails, a reply does not match its request, or the client    *)
(* that waits for the submission goes away and the task is dropped.         *)
Abort(t) ==
  /\ tasks[t].pc # "idle"
  /\ Done(t)
  /\ UNCHANGED <<durable, writers, calls, late, sockets, startup, boots, seen,
                 told, raced>>

-----------------------------------------------------------------------------
(* The station's sockets and the calls they hold.                           *)

(* The outcome o reaches the tasks that still await one of the calls C.     *)
Settle(C, o) ==
  tasks' = [t \in Tasks |->
    IF /\ tasks[t].pc = "await"
       /\ \E c \in C : c.task = t /\ c.req = tasks[t].req
    THEN [tasks[t] EXCEPT !.pc = "persist", !.outcome = o]
    ELSE tasks[t]]

Attach ==
  /\ startup.serving
  /\ sockets.live = {}
  /\ sockets.opened < MaxGenerations
  /\ LET g == sockets.opened + 1 IN
       sockets' = [sockets EXCEPT !.opened = g, !.live = @ \cup {g}, !.current = g]
  /\ UNCHANGED <<durable, tasks, writers, calls, late, startup, boots, seen, told, raced>>

SocketEndsRejecting(g) ==
  /\ g \in sockets.live
  /\ sockets' = [sockets EXCEPT !.live = @ \ {g}]
  /\ LET C == {c \in calls : c.gen = g} IN
       calls' = calls \ C /\ Settle(C, "Rejected")
  /\ late' = {l \in late : l[2] # g}
  /\ UNCHANGED <<durable, writers, startup, boots, seen, told, raced>>

SocketEndsSilently(g) ==
  /\ g \in sockets.live
  /\ sockets' = [sockets EXCEPT !.live = @ \ {g}]
  /\ calls' = {c \in calls : c.gen # g}
  /\ late' = {l \in late : l[2] # g}
  /\ UNCHANGED <<durable, tasks, writers, startup, boots, seen, told, raced>>

(* The socket's task ends: what it still held, sent or not, is uncertain.   *)
SocketEnds(g) ==
  /\ g \in sockets.live
  /\ sockets' = [sockets EXCEPT !.live = @ \ {g}]
  /\ LET C == {c \in calls : c.gen = g} IN
       calls' = calls \ C /\ Settle(C, "Uncertain")
  /\ late' = {l \in late : l[2] # g}
  /\ UNCHANGED <<durable, writers, startup, boots, seen, told, raced>>

(* The station loop of socket g ends and unregisters it, if a newer socket  *)
(* has not taken its place.  The socket may still be open: it is shut down  *)
(* afterwards.                                                              *)
Remove(g) ==
  /\ sockets.current = g
  /\ sockets' = [sockets EXCEPT !.current = 0]
  /\ UNCHANGED <<durable, tasks, writers, calls, late, startup, boots, seen, told, raced>>

Transmit(c) ==
  /\ c \in calls
  /\ c.phase = "queued"
  /\ calls' = (calls \ {c}) \cup {[c EXCEPT !.phase = "sent"]}
  /\ sends' = [sends EXCEPT ![c.req] = @ + 1]
  /\ UNCHANGED <<durable, tasks, writers, late, sockets, startup, boots, answer,
                 told, raced>>

(* Expired, over capacity, or its protected value is gone: never written.   *)
NotTransmitted(c) ==
  /\ c \in calls
  /\ c.phase = "queued"
  /\ calls' = calls \ {c}
  /\ Settle({c}, "Rejected")
  /\ UNCHANGED <<durable, writers, late, sockets, startup, boots, seen, told, raced>>

(* The write fails: its bytes may have left, and so may those of the calls  *)
(* the socket already sent.                                                 *)
WriteFailed(c) ==
  /\ c \in calls
  /\ c.phase = "queued"
  /\ LET C == {c} \cup {d \in calls : d.gen = c.gen /\ d.phase = "sent"} IN
       calls' = calls \ C /\ Settle(C, "Uncertain")
  /\ sends' \in {sends, [sends EXCEPT ![c.req] = @ + 1]}
  /\ UNCHANGED <<durable, writers, late, sockets, startup, boots, answer, told, raced>>

Reply(c, a) ==
  /\ c \in calls
  /\ c.phase = "sent"
  /\ calls' = calls \ {c}
  /\ Settle({c}, a)
  /\ answer' = [answer EXCEPT ![c.req] = a]
  /\ UNCHANGED <<durable, writers, late, sockets, startup, boots, sends, told, raced>>

NoUsableReplyRefuses(c) ==
  /\ c \in calls
  /\ c.phase = "sent"
  /\ calls' = calls \ {c}
  /\ Settle({c}, "Refused")
  /\ UNCHANGED <<durable, writers, late, sockets, startup, boots, seen, told, raced>>

(* The deadline passes, or the reply cannot be interpreted.                 *)
NoUsableReply(c) ==
  /\ c \in calls
  /\ c.phase = "sent"
  /\ calls' = calls \ {c}
  /\ Settle({c}, "Uncertain")
  /\ late' = IF c.req \in Correlated THEN late \cup {<<c.req, c.gen>>} ELSE late
  /\ UNCHANGED <<durable, writers, sockets, startup, boots, seen, told, raced>>

-----------------------------------------------------------------------------
(* Writers of later evidence.  Reading the row, reading its result and      *)
(* writing the changed copy back are three requests to the store.           *)

Begin(w, r, kind, E, g) ==
  /\ writers[w] = NoWriter
  /\ writers' = [writers EXCEPT ![w] =
        [pc |-> "readCommand", req |-> r, kind |-> kind, events |-> E, gen |-> g,
         copy |-> NoResult]]

(* reconcile_observed_effect for a command that command_candidates listed.  *)
ObservedEffect(w, r, e) ==
  /\ startup.serving
  /\ commands[r] # NoCommand
  /\ Begin(w, r, "effect", {e}, 0)
  /\ UNCHANGED <<durable, tasks, calls, late, sockets, startup, boots, seen, told, raced>>

(* A late reservation reply; the diagnostics queue may be full and lose it. *)
LateReply(l, a) ==
  /\ l \in late
  /\ late' = late \ {l}
  /\ answer' = [answer EXCEPT ![l[1]] = a]
  /\ \/ \E w \in Writers : Begin(w, l[1], a, {}, l[2])
     \/ UNCHANGED writers
  /\ UNCHANGED <<durable, tasks, calls, sockets, startup, boots, sends, told, raced>>

ReadCommand(w) ==
  /\ writers[w].pc = "readCommand"
  /\ LET row == commands[writers[w].req] IN
       writers' = [writers EXCEPT ![w] =
         IF row = NoCommand \/ (@.kind # "effect" /\ @.gen > row.sockets)
         THEN NoWriter
         ELSE [@ EXCEPT !.pc = "readResult",
                        !.copy = command_result(row.content, "Admitted")]]
  /\ UNCHANGED <<durable, tasks, calls, late, sockets, startup, boots, seen, told, raced>>

Evidence(writer, result) ==
  [result EXCEPT !.effects = @ \cup writer.events,
                 !.lifecycle = IF writer.kind = "effect" THEN @ ELSE writer.kind]

ReadResult(w) ==
  /\ writers[w].pc = "readResult"
  /\ LET stored == results[writers[w].req]
         result == IF stored = NoResult THEN writers[w].copy ELSE stored
         nothing == IF writers[w].kind = "effect"
                    THEN writers[w].events \subseteq result.effects
                    ELSE stored = NoResult
     IN writers' = [writers EXCEPT ![w] =
          IF nothing THEN NoWriter
          ELSE [@ EXCEPT !.pc = "write", !.copy = Evidence(writers[w], result)]]
  /\ UNCHANGED <<durable, tasks, calls, late, sockets, startup, boots, seen, told, raced>>

WriteEvidence(w) ==
  /\ writers[w].pc = "write"
  /\ \/ write_result(commands, writers[w].req, writers[w].copy)
     \/ IdentityChanged(writers[w].req, writers[w].copy) /\ UNCHANGED durable
  /\ writers' = [writers EXCEPT ![w] = NoWriter]
  /\ UNCHANGED <<tasks, calls, late, sockets, startup, boots, seen, told, raced>>

AbortWriter(w) ==
  /\ writers[w].pc # "idle"
  /\ writers' = [writers EXCEPT ![w] = NoWriter]
  /\ UNCHANGED <<durable, tasks, calls, late, sockets, startup, boots, seen, told, raced>>

-----------------------------------------------------------------------------
(* Restart.  recover pages through the unresolved rows before the listener  *)
(* starts; nothing else runs meanwhile.                                     *)

Crash ==
  /\ boots < MaxBoots
  /\ boots' = boots + 1
  /\ tasks' = [t \in Tasks |-> NoTask]
  /\ writers' = [w \in Writers |-> NoWriter]
  /\ calls' = {}
  /\ late' = {}
  /\ sockets' = NoSockets
  /\ startup' = Starting
  /\ UNCHANGED <<durable, seen, told, raced>>

ActiveCommandsIgnoreCursor(after) ==
  LET rows == {r \in Requests : commands[r] # NoCommand /\ commands[r].unresolved}
  IN {r \in rows : Cardinality({q \in rows : q < r}) < PageLimit}

(* read_active_commands: the first PageLimit unresolved rows past the cursor *)
active_commands(after) ==
  LET rows == {r \in Requests : /\ commands[r] # NoCommand
                               /\ commands[r].unresolved
                               /\ r > after}
  IN {r \in rows : Cardinality({q \in rows : q < r}) < PageLimit}

RecoverFirstPageOnly ==
  /\ ~startup.serving
  /\ startup.page = {}
  /\ LET page == active_commands(startup.after) IN
       \/ /\ page = {} \/ startup.after > 0
          /\ startup' = [startup EXCEPT !.serving = TRUE]
       \/ \E last \in page :
            /\ startup.after = 0
            /\ \A r \in page : r <= last
            /\ startup' = [startup EXCEPT !.page = page, !.after = last]
  /\ UNCHANGED <<durable, tasks, writers, calls, late, sockets, boots, seen, told, raced>>

(* The cursor moves to the last row of the page, which is past the previous *)
(* cursor: the check for that never fails.                                  *)
RecoverPage ==
  /\ ~startup.serving
  /\ startup.page = {}
  /\ LET page == active_commands(startup.after) IN
       \/ /\ page = {}
          /\ startup' = [startup EXCEPT !.serving = TRUE]
       \/ \E last \in page :
            /\ \A r \in page : r <= last
            /\ startup' = [startup EXCEPT !.page = page, !.after = last]
  /\ UNCHANGED <<durable, tasks, writers, calls, late, sockets, boots, seen, told, raced>>

(* The rows of a page in their order; only a Dispatched one is written.     *)
RecoverOne ==
  \E r \in startup.page :
    /\ \A q \in startup.page : r <= q
    /\ startup' = [startup EXCEPT !.page = @ \ {r}]
    /\ \/ /\ results[r] # NoResult
          /\ results[r].lifecycle = "Dispatched"
          /\ write_result(commands, r, [results[r] EXCEPT !.lifecycle = "Uncertain"])
       \/ /\ results[r] = NoResult \/ results[r].lifecycle # "Dispatched"
          /\ UNCHANGED durable
    /\ UNCHANGED <<tasks, writers, calls, late, sockets, boots, seen, told, raced>>

-----------------------------------------------------------------------------

TaskStep(t) ==
  \/ Lookup(t) \/ Duplicate(t) \/ Context(t) \/ Admit(t) \/ Mark(t)
  \/ Dispatch(t) \/ Persist(t) \/ Reread(t)

Host ==
  \/ \E t \in Tasks, r \in Requests, c \in Contents : Submit(t, r, c)
  \/ \E t \in Tasks : TaskStep(t) \/ Abort(t)

CallStep(c) ==
  \/ Transmit(c)
  \/ NotTransmitted(c) \/ WriteFailed(c) \/ NoUsableReply(c)
  \/ \E a \in ProtocolResponse : Reply(c, a)

Station ==
  \/ Attach
  \/ \E g \in sockets.live : SocketEnds(g)
  \/ \E g \in 1 .. sockets.opened : Remove(g)
  \/ \E c \in calls : CallStep(c)

WriterStep(w) ==
  \/ ReadCommand(w) \/ ReadResult(w) \/ WriteEvidence(w) \/ AbortWriter(w)

LaterEvidence ==
  \/ \E w \in Writers, r \in Requests, e \in Events : ObservedEffect(w, r, e)
  \/ \E l \in late, a \in ProtocolResponse : LateReply(l, a)
  \/ \E w \in Writers : WriterStep(w)

Retention ==
  \/ \E r \in Requests : Age(r)
  \/ \E S \in SUBSET Requests : prune(S)

Recovery == RecoverPage \/ RecoverOne

Next == Host \/ Station \/ LaterEvidence \/ Retention \/ Crash \/ Recovery

Spec == Init /\ [][Next]_vars

(* The runtime polls every ready task and every queued call has a deadline; *)
(* startup does not wait for anyone.                                        *)
Fairness ==
  /\ \A t \in Tasks : WF_vars(TaskStep(t))
  /\ \A t \in Tasks : WF_vars(\E c \in calls : c.task = t /\ CallStep(c))
  /\ WF_vars(Recovery)

FairSpec == Spec /\ Fairness

-----------------------------------------------------------------------------
(* What the system promises.                                                *)

(* A request ID makes the station act at most once while its row is kept,   *)
(* however often it is submitted, and across restarts and reconnections:    *)
(* admission is decided by the one transaction of write_atomic, and no      *)
(* recovery path dispatches (command/recovery.rs).                          *)
AtMostOneSend == \A r \in Requests : sends[r] <= 1

(* Dispatched is durable before the first byte may leave, so a restart can  *)
(* never find an Admitted row whose call was sent (admission.rs 289-301).   *)
WriteAhead ==
  \A r \in Requests : sends[r] > 0 =>
    /\ commands[r] # NoCommand
    /\ results[r] # NoResult
    /\ results[r].lifecycle # "Admitted"

(* A stored rejection means the station never saw the command and never     *)
(* will: callers may safely submit it again under a new ID.  Only refused   *)
(* dispatch and NotTransmitted become Rejected (finalization.rs).           *)
RejectedMeansUnsent ==
  \A r \in Requests \ raced :
    results[r] # NoResult /\ results[r].lifecycle = "Rejected" =>
      sends[r] = 0 /\ \A c \in calls : c.req # r

(* A stored protocol response is the station's own answer to the one call   *)
(* that was sent; neither a restart, a timeout, an observed effect nor a    *)
(* duplicate submission invents one.                                        *)
NoManufacturedAnswer ==
  \A r \in Requests \ raced :
    results[r] # NoResult /\ results[r].lifecycle \in ProtocolResponse =>
      sends[r] = 1 /\ answer[r] = results[r].lifecycle

(* A call always belongs to a row of this process lifetime with the same    *)
(* content, and is held by the very socket that was registered and open     *)
(* when the command was validated, which is still open: no later connection *)
(* and no restart executes an earlier command, whatever reconnects between  *)
(* validation, admission and dispatch (commands.rs 438-480).                *)
NoReplay ==
  \A c \in calls :
    LET row == commands[c.req] IN
      /\ row # NoCommand
      /\ row.content = c.content
      /\ row.boot = boots
      /\ row.gen = c.gen
      /\ c.gen \in sockets.live

(* The unresolved column, which recovery and pruning select by, agrees with *)
(* the lifecycle inside the result payload after every interleaving.        *)
UnresolvedColumn ==
  \A r \in Requests : commands[r] # NoCommand =>
    /\ results[r] # NoResult
    /\ commands[r].unresolved <=> results[r].lifecycle \in Unresolved

(* Once the bridge serves, no row of an earlier process lifetime is still   *)
(* Dispatched: every page was visited, whatever rows were left unresolved.  *)
RecoveryIsComplete ==
  startup.serving =>
    \A r \in Requests :
      commands[r] # NoCommand /\ commands[r].boot < boots =>
        results[r].lifecycle # "Dispatched"

(* A final outcome a caller was told of the stored row is the stored one,   *)
(* for the submission that made the row, one that raced it and one that     *)
(* asked later.  And once any caller was told of the row, no submission     *)
(* that starts within its retention gets a rejection the store knows        *)
(* nothing about; one that started earlier may (admission.rs 40-59, 74-265). *)
CallersAgree ==
  \A r \in Requests \ raced :
    /\ told[r] \cap Final # {} => told[r] \cap Final = {results[r].lifecycle}
    /\ "Denied" \notin told[r]

(* The row of r is kept by the step. *)
Kept(r) ==
  commands[r] # NoCommand /\ commands'[r] # NoCommand

NeverBack ==
  \A r \in Requests : Kept(r) =>
    LET old == results[r].lifecycle
        new == results'[r].lifecycle
    IN /\ lifecycle_rank(new) >= lifecycle_rank(old)
       /\ old \in Final => new = old
       /\ old = "Uncertain" /\ new # old => r \in Correlated

KeepsEffects ==
  \A r \in Requests : Kept(r) => results[r].effects \subseteq results'[r].effects

ForgetsOnlyFinal ==
  \A r \in Requests : commands[r] # NoCommand /\ commands'[r] = NoCommand =>
    results[r].lifecycle \in Final

(* No write moves a command back: the rank never falls, a final outcome is  *)
(* kept, and only a correlated reservation reply resolves uncertainty.      *)
LifecycleMonotone == [][NeverBack]_vars

(* Writers read a result, change their copy and write it back later; none   *)
(* of the interleavings loses an effect another writer recorded.            *)
EffectsNeverLost == [][KeepsEffects]_vars

(* Pruning forgets a request only once its outcome is final, so the ID of   *)
(* a command that may still act is never accepted again.                    *)
UncertainIsNeverForgotten == [][ForgetsOnlyFinal]_vars

(* No result outlives its command: "the prune transaction removes an        *)
(* eligible command and result together".                                   *)
ResultHasCommand ==
  \A r \in Requests : results[r] # NoResult => commands[r] # NoCommand

(* Startup reaches service although recovered rows may stay unresolved: the *)
(* cursor moves past them.                                                  *)
RecoveryCompletes == ~startup.serving ~> startup.serving

(* Every submission returns to its caller: a call that is queued or sent is *)
(* settled by a reply, its deadline or the end of its socket.               *)
SubmissionsEnd == \A t \in Tasks : tasks[t].pc # "idle" ~> tasks[t].pc = "idle"
=============================================================================
