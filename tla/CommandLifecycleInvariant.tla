----------------------- MODULE CommandLifecycleInvariant -----------------------
(* The inductive invariant of CommandLifecycle, and the steps that admit    *)
(* nothing and send nothing.                                                *)
EXTENDS CommandLifecycle, TLAPS

(* The task that admitted the present row of r and has not returned.        *)
Owns(t, r) ==
  /\ tasks[t].pc \in {"mark", "dispatch", "await", "persist", "reread"}
  /\ tasks[t].req = r

(* The owner has not handed its call to a socket yet.                       *)
Ready(t, r) == tasks[t].pc \in {"mark", "dispatch"} /\ tasks[t].req = r

(* A settled task has an outcome.                                           *)
TasksOK ==
  \A t \in Tasks : tasks[t].pc = "persist" => tasks[t].outcome # "none"

(* Only a kept row that is not aged has an owner or a call, and both carry  *)
(* what was admitted.                                                       *)
Owned ==
  /\ \A r \in Requests : commands[r] = NoCommand => sends[r] = 0
  /\ \A t \in Tasks : \A r \in Requests : Owns(t, r) =>
       /\ commands[r] # NoCommand
       /\ ~commands[r].aged
       /\ commands[r].content = tasks[t].content
       /\ commands[r].boot = boots
       /\ commands[r].gen = tasks[t].gen
  /\ \A c \in calls :
       /\ commands[c.req] # NoCommand
       /\ ~commands[c.req].aged
       /\ commands[c.req].content = c.content
       /\ commands[c.req].boot = boots
       /\ commands[c.req].gen = c.gen

(* One permission to send per row: it is with the owner, then with the      *)
(* queued call, then spent.                                                 *)
OneAttempt ==
  /\ \A r \in Requests : sends[r] <= 1
  /\ \A t, u \in Tasks, r \in Requests : Ready(t, r) /\ Ready(u, r) => t = u
  /\ \A t \in Tasks, r \in Requests : Ready(t, r) =>
       sends[r] = 0 /\ \A c \in calls : c.req # r
  /\ \A c, d \in calls : c.req = d.req => c = d
  /\ \A c \in calls : c.phase = "queued" => sends[c.req] = 0

(* The durable mark precedes the call.                                      *)
Marked ==
  /\ \A t \in Tasks : tasks[t].pc = "dispatch" =>
       results[tasks[t].req].lifecycle # "Admitted"
  /\ \A c \in calls : results[c.req].lifecycle # "Admitted"
  /\ \A r \in Requests : sends[r] > 0 => results[r].lifecycle # "Admitted"

IInv == TypeOK /\ TasksOK /\ UnresolvedColumn /\ Owned /\ OneAttempt /\ Marked

-----------------------------------------------------------------------------
(* The merge of write_result.                                               *)

(* Merging a result into a stored one gives a result.                       *)
LEMMA MergedType ==
  ASSUME NEW r \in Requests, NEW p \in Result \cup {NoResult}, NEW i \in Result
  PROVE  Merged(r, p, i) \in Result
BY ConstantsAssumption DEF Merged, Result

(* A merge never returns to Admitted: not from a stored result past it, and *)
(* not with an incoming one past it.                                        *)
LEMMA MergedNotAdmitted ==
  ASSUME NEW r \in Requests, NEW p \in Result \cup {NoResult}, NEW i \in Result,
         \/ p # NoResult /\ p.lifecycle # "Admitted"
         \/ i.lifecycle # "Admitted"
  PROVE  Merged(r, p, i).lifecycle # "Admitted"
BY ConstantsAssumption
DEF Merged, KeepsPrevious, lifecycle_rank, Result, Lifecycle, Final, Unresolved, ProtocolResponse

(* What coordinator and recovery write is a result.                         *)
LEMMA CommandResultType ==
  ASSUME NEW c \in Contents, NEW l \in Lifecycle
  PROVE  command_result(c, l) \in Result
BY ConstantsAssumption DEF command_result, Result

(* The rows survive the step with what was admitted.                        *)
SameRows ==
  \A q \in Requests :
    /\ commands'[q] = NoCommand <=> commands[q] = NoCommand
    /\ commands[q] # NoCommand =>
         /\ commands'[q].content = commands[q].content
         /\ commands'[q].aged = commands[q].aged
         /\ commands'[q].boot = commands[q].boot
         /\ commands'[q].gen = commands[q].gen

(* No result returns to Admitted in the step.                               *)
KeepsMarks ==
  \A q \in Requests :
    results[q] # NoResult /\ results[q].lifecycle # "Admitted" =>
      results'[q] # NoResult /\ results'[q].lifecycle # "Admitted"

(* write_result on the stored rows changes no row but for its unresolved    *)
(* column, which it keeps in agreement, and forgets no mark.                *)
LEMMA WriteResult ==
  ASSUME TypeOK, UnresolvedColumn, NEW r \in Requests, NEW i \in Result,
         write_result(commands, r, i)
  PROVE  /\ commands' \in [Requests -> Command \cup {NoCommand}]
         /\ results' \in [Requests -> Result \cup {NoResult}]
         /\ UnresolvedColumn'
         /\ SameRows
         /\ KeepsMarks
         /\ i.lifecycle # "Admitted" => results'[r].lifecycle # "Admitted"
<1> DEFINE m == Merged(r, results[r], i)
<1> DEFINE u == m.lifecycle \in Unresolved
<1>1. m \in Result
  BY SMTT(30), MergedType DEF TypeOK
<1>2. results' = [results EXCEPT ![r] = m]
  BY DEF write_result
<1>3. commands' = IF commands[r] = NoCommand THEN commands
                 ELSE [commands EXCEPT ![r].unresolved = u]
  BY DEF write_result
<1>4. /\ results[r] # NoResult /\ results[r].lifecycle # "Admitted"
            => m.lifecycle # "Admitted"
      /\ i.lifecycle # "Admitted" => m.lifecycle # "Admitted"
  BY MergedNotAdmitted DEF TypeOK
<1>5. m # NoResult
  BY <1>1, ConstantsAssumption
<1>6. u \in BOOLEAN /\ (u <=> m.lifecycle \in Unresolved)
  OBVIOUS
<1> HIDE DEF m, u
<1>7. commands[r] # NoCommand =>
        /\ commands[r] \in Command
        /\ [commands[r] EXCEPT !.unresolved = u] \in Command
  BY <1>6 DEF TypeOK, Command
<1>8. \A q \in Requests :
        commands'[q] = IF q = r /\ commands[r] # NoCommand
                       THEN [commands[r] EXCEPT !.unresolved = u] ELSE commands[q]
  BY <1>3 DEF TypeOK
<1>9. commands' \in [Requests -> Command \cup {NoCommand}]
  BY <1>3, <1>7 DEF TypeOK
<1>10. results' \in [Requests -> Result \cup {NoResult}]
  BY <1>1, <1>2 DEF TypeOK
<1>11. SameRows
  BY <1>7, <1>8, ConstantsAssumption DEF Command, SameRows
<1>12. UnresolvedColumn'
  BY <1>2, <1>5, <1>6, <1>7, <1>8, ConstantsAssumption DEF TypeOK, Command, UnresolvedColumn
<1>13. KeepsMarks
  BY <1>2, <1>4, <1>5 DEF TypeOK, KeepsMarks
<1> QED
  BY <1>2, <1>4, <1>9, <1>10, <1>11, <1>12, <1>13 DEF TypeOK

-----------------------------------------------------------------------------
(* Steps that start no attempt.                                             *)

(* No task becomes an owner or returns to an earlier point of its attempt.  *)
NoNewOwner ==
  \A t \in Tasks :
    \/ tasks'[t] = tasks[t]
    \/ tasks'[t].pc \in {"idle", "lookup", "duplicate", "context", "admit"}
    \/ /\ tasks[t].pc \in {"dispatch", "await", "persist"}
       /\ tasks'[t].pc \in {"persist", "reread"}
       /\ tasks'[t].req = tasks[t].req
       /\ tasks'[t].content = tasks[t].content
       /\ tasks'[t].gen = tasks[t].gen

Quiet ==
  /\ SameRows
  /\ KeepsMarks
  /\ NoNewOwner
  /\ calls' \subseteq calls
  /\ UNCHANGED <<sends, boots>>

(* A step that writes nothing leaves rows, results and their agreement.     *)
LEMMA DurableUnchanged ==
  ASSUME UnresolvedColumn, UNCHANGED durable
  PROVE  SameRows /\ KeepsMarks /\ UnresolvedColumn'
BY DEF durable, SameRows, KeepsMarks, UnresolvedColumn

(* A quiet step keeps the three invariants that count attempts.             *)
LEMMA QuietStep ==
  ASSUME IInv, TypeOK', Quiet
  PROVE  Owned' /\ OneAttempt' /\ Marked'
<1> USE DEF IInv
<1>1. \A t \in Tasks, r \in Requests :
        /\ Owns(t, r)' => /\ Owns(t, r)
                          /\ tasks'[t].content = tasks[t].content
                          /\ tasks'[t].gen = tasks[t].gen
        /\ Ready(t, r)' => Ready(t, r)
  BY DEF Quiet, NoNewOwner, Owns, Ready
<1>2. \A t \in Tasks : tasks'[t].pc = "dispatch" => tasks'[t] = tasks[t]
  BY DEF Quiet, NoNewOwner
<1>3. calls \subseteq Call /\ calls' \subseteq calls
  BY DEF TypeOK, Quiet
<1>4. Owned'
  BY <1>1, <1>3 DEF Owned, Quiet, SameRows, Call
<1>5. OneAttempt'
  BY <1>1, <1>3 DEF OneAttempt, Quiet, Call
<1>6. Marked'
  <2>1. \A t \in Tasks : tasks[t].pc = "dispatch" =>
          tasks[t].req \in Requests /\ Owns(t, tasks[t].req)
    BY DEF TypeOK, Task, ActiveTask, NoTask, Owns
  <2>2. \A r \in Requests : commands[r] # NoCommand => results[r] # NoResult
    BY DEF UnresolvedColumn
  <2>3. \A t \in Tasks : tasks'[t].pc = "dispatch" =>
          results'[tasks'[t].req].lifecycle # "Admitted"
    BY <1>2, <2>1, <2>2 DEF Marked, Owned, Quiet, KeepsMarks
  <2>4. \A c \in calls' : results'[c.req].lifecycle # "Admitted"
    BY <1>3, <2>2 DEF Marked, Owned, Quiet, KeepsMarks, Call
  <2>5. \A r \in Requests : sends'[r] > 0 => results'[r].lifecycle # "Admitted"
    BY <2>2 DEF Marked, Owned, Quiet, KeepsMarks, TypeOK
  <2> QED
    BY <2>3, <2>4, <2>5 DEF Marked
<1> QED
  BY <1>4, <1>5, <1>6

-----------------------------------------------------------------------------
(* One lemma per action. *)

(* A new submission owns nothing yet.                                       *)
LEMMA SubmitStep ==
  ASSUME IInv, NEW t \in Tasks, NEW r \in Requests, NEW c \in Contents, Submit(t, r, c)
  PROVE  IInv'
<1> USE DEF IInv
<1>1. SameRows /\ KeepsMarks /\ UnresolvedColumn'
  BY DurableUnchanged DEF Submit
<1>2. TypeOK'
  BY <1>1 DEF TypeOK, durable, seen, Submit, Task, ActiveTask, NoTask
<1>3. TasksOK'
  BY <1>1 DEF TypeOK, TasksOK, Task, ActiveTask, NoTask, Submit
<1>4. Quiet
  BY <1>1 DEF TypeOK, Quiet, NoNewOwner, Task, ActiveTask, NoTask, durable, seen, Submit
<1> QED
  BY <1>1, <1>2, <1>3, <1>4, QuietStep

(* Finding the row, or its absence, starts no attempt.                      *)
LEMMA LookupStep ==
  ASSUME IInv, NEW t \in Tasks, Lookup(t)
  PROVE  IInv'
<1> USE DEF IInv
<1>1. SameRows /\ KeepsMarks /\ UnresolvedColumn'
  BY DurableUnchanged DEF Lookup
<1>2. TypeOK'
  BY SMTT(30), <1>1 DEF TypeOK, durable, seen, Lookup, Done, Become, Deny, Task, ActiveTask, NoTask
<1>3. TasksOK'
  BY <1>1 DEF TypeOK, TasksOK, Task, ActiveTask, NoTask, Lookup, Done, Become, Deny
<1>4. Quiet
  BY <1>1 DEF TypeOK, Quiet, NoNewOwner, Task, ActiveTask, NoTask, durable, seen, Lookup, Done, Become, Deny
<1> QED
  BY <1>1, <1>2, <1>3, <1>4, QuietStep

(* A duplicate only reads.                                                  *)
LEMMA DuplicateStep ==
  ASSUME IInv, NEW t \in Tasks, Duplicate(t)
  PROVE  IInv'
<1> USE DEF IInv
<1>1. SameRows /\ KeepsMarks /\ UnresolvedColumn'
  BY DurableUnchanged DEF Duplicate
<1>2. TypeOK'
  BY <1>1 DEF TypeOK, durable, seen, Duplicate, Done, Tell, Task, ActiveTask, NoTask, Result
<1>3. TasksOK'
  BY <1>1 DEF TypeOK, TasksOK, Task, ActiveTask, NoTask, Duplicate, Done, Tell
<1>4. Quiet
  BY <1>1 DEF TypeOK, Quiet, NoNewOwner, Task, ActiveTask, NoTask, durable, seen, Duplicate, Done, Tell
<1> QED
  BY <1>1, <1>2, <1>3, <1>4, QuietStep

(* Neither does the check of the socket.                                    *)
LEMMA ContextStep ==
  ASSUME IInv, NEW t \in Tasks, Context(t)
  PROVE  IInv'
<1> USE DEF IInv
<1>1. SameRows /\ KeepsMarks /\ UnresolvedColumn'
  BY DurableUnchanged DEF Context
<1>2. TypeOK'
  BY <1>1 DEF TypeOK, durable, seen, Context, Done, Become, Deny, Task, ActiveTask, NoTask
<1>3. TasksOK'
  BY <1>1 DEF TypeOK, TasksOK, Task, ActiveTask, NoTask, Context, Done, Become, Deny
<1>4. Quiet
  BY <1>1 DEF TypeOK, Quiet, NoNewOwner, Task, ActiveTask, NoTask, durable, seen, Context, Done, Become, Deny
<1> QED
  BY <1>1, <1>2, <1>3, <1>4, QuietStep

(* The owner returns.                                                       *)
LEMMA RereadStep ==
  ASSUME IInv, NEW t \in Tasks, Reread(t)
  PROVE  IInv'
<1> USE DEF IInv
<1>1. SameRows /\ KeepsMarks /\ UnresolvedColumn'
  BY DurableUnchanged DEF Reread
<1>2. TypeOK'
  BY <1>1 DEF TypeOK, durable, seen, Reread, Done, Tell, Task, ActiveTask, NoTask, Result
<1>3. TasksOK'
  BY <1>1 DEF TypeOK, TasksOK, Task, ActiveTask, NoTask, Reread, Done, Tell
<1>4. Quiet
  BY <1>1 DEF TypeOK, Quiet, NoNewOwner, Task, ActiveTask, NoTask, durable, seen, Reread, Done, Tell
<1> QED
  BY <1>1, <1>2, <1>3, <1>4, QuietStep

(* An abandoned submission leaves its call, if any, to the socket.          *)
LEMMA AbortStep ==
  ASSUME IInv, NEW t \in Tasks, Abort(t)
  PROVE  IInv'
<1> USE DEF IInv
<1>1. SameRows /\ KeepsMarks /\ UnresolvedColumn'
  BY DurableUnchanged DEF Abort
<1>2. TypeOK'
  BY <1>1 DEF TypeOK, durable, seen, Abort, Done, Task, ActiveTask, NoTask
<1>3. TasksOK'
  BY <1>1 DEF TypeOK, TasksOK, Task, ActiveTask, NoTask, Abort, Done
<1>4. Quiet
  BY <1>1 DEF TypeOK, Quiet, NoNewOwner, Task, ActiveTask, NoTask, durable, seen, Abort, Done
<1> QED
  BY <1>1, <1>2, <1>3, <1>4, QuietStep

(* Settled calls end the wait of their tasks and nothing else.              *)
LEMMA SettleTasks ==
  ASSUME TypeOK, TasksOK, NEW C, NEW o \in {"Rejected", "Accepted", "Refused", "Uncertain"},
         Settle(C, o)
  PROVE  tasks' \in [Tasks -> Task] /\ TasksOK' /\ NoNewOwner
<1>1. \A t \in Tasks :
        \/ tasks'[t] = tasks[t]
        \/ /\ tasks[t].pc = "await"
           /\ tasks'[t] = [tasks[t] EXCEPT !.pc = "persist", !.outcome = o]
  BY DEF Settle
<1>2. ASSUME NEW t \in Tasks, tasks[t].pc = "await",
             NEW next, next = [tasks[t] EXCEPT !.pc = "persist", !.outcome = o]
      PROVE  /\ next \in Task
             /\ next.pc = "persist" /\ next.outcome = o
             /\ next.req = tasks[t].req
             /\ next.gen = tasks[t].gen
             /\ next.content = tasks[t].content
  <2>1. tasks[t] \in ActiveTask
    BY <1>2 DEF TypeOK, NoTask, Task
  <2>2. /\ next.pc = "persist" /\ next.outcome = o
        /\ next.req = tasks[t].req
        /\ next.gen = tasks[t].gen
        /\ next.content = tasks[t].content
    BY <1>2, <2>1 DEF ActiveTask
  <2>3. next \in Task
    BY <1>2, <2>1 DEF Task, ActiveTask
  <2> QED
    BY <2>2, <2>3
<1>3. tasks' \in [Tasks -> Task]
  <2>1. ASSUME NEW t \in Tasks PROVE tasks'[t] \in Task
    <3>1. CASE tasks'[t] = tasks[t]
      BY <3>1 DEF TypeOK
    <3>2. CASE /\ tasks[t].pc = "await"
               /\ tasks'[t] = [tasks[t] EXCEPT !.pc = "persist", !.outcome = o]
      BY <1>2, <3>2
    <3> QED
      BY <1>1, <3>1, <3>2
  <2>2. tasks' = [t \in Tasks |-> tasks'[t]]
    BY DEF Settle
  <2> QED
    BY <2>1, <2>2
<1>4. TasksOK'
  <2>1. ASSUME NEW t \in Tasks, tasks'[t] # tasks[t]
        PROVE  tasks'[t].pc = "persist" /\ tasks'[t].outcome = o
    BY ZenonT(40), <1>1, <1>2, <2>1
  <2>2. \A t \in Tasks : tasks'[t].pc = "persist" => tasks'[t].outcome # "none"
    BY <2>1 DEF TasksOK
  <2> QED
    BY <2>2 DEF TasksOK
<1>5. NoNewOwner
  BY ZenonT(40), <1>1, <1>2 DEF NoNewOwner
<1> QED
  BY <1>3, <1>4, <1>5

(* The end of a socket settles what it held.                                *)
LEMMA SocketEndsStep ==
  ASSUME IInv, NEW g, SocketEnds(g)
  PROVE  IInv'
<1> USE DEF IInv
<1>1. SameRows /\ KeepsMarks /\ UnresolvedColumn'
  BY DurableUnchanged DEF SocketEnds
<1>2. tasks' \in [Tasks -> Task] /\ TasksOK' /\ NoNewOwner
  <2>1. Settle({c \in calls : c.gen = g}, "Uncertain")
    BY DEF SocketEnds
  <2> QED
    BY <2>1, SettleTasks DEF ProtocolResponse
<1>3. TypeOK'
  BY <1>2 DEF TypeOK, durable, seen, SocketEnds
<1>4. Quiet
  BY <1>1, <1>2 DEF Quiet, seen, SocketEnds
<1> QED
  BY <1>1, <1>2, <1>3, <1>4, QuietStep

(* A call that is not written is settled as rejected.                       *)
LEMMA NotTransmittedStep ==
  ASSUME IInv, NEW c, NotTransmitted(c)
  PROVE  IInv'
<1> USE DEF IInv
<1>1. SameRows /\ KeepsMarks /\ UnresolvedColumn'
  BY DurableUnchanged DEF NotTransmitted
<1>2. tasks' \in [Tasks -> Task] /\ TasksOK' /\ NoNewOwner
  <2>1. Settle({c}, "Rejected")
    BY DEF NotTransmitted
  <2> QED
    BY <2>1, SettleTasks DEF ProtocolResponse
<1>3. TypeOK'
  BY <1>2 DEF TypeOK, durable, seen, NotTransmitted
<1>4. Quiet
  BY <1>1, <1>2 DEF Quiet, seen, NotTransmitted
<1> QED
  BY <1>1, <1>2, <1>3, <1>4, QuietStep

(* A reply settles its call.                                                *)
LEMMA ReplyStep ==
  ASSUME IInv, NEW c, NEW a \in ProtocolResponse, Reply(c, a)
  PROVE  IInv'
<1> USE DEF IInv
<1>1. SameRows /\ KeepsMarks /\ UnresolvedColumn'
  BY DurableUnchanged DEF Reply
<1>2. tasks' \in [Tasks -> Task] /\ TasksOK' /\ NoNewOwner
  <2>1. Settle({c}, a)
    BY DEF Reply
  <2> QED
    BY <2>1, SettleTasks DEF ProtocolResponse
<1>3. TypeOK'
  BY <1>2 DEF TypeOK, durable, seen, Reply, Call, ProtocolResponse
<1>4. Quiet
  BY <1>1, <1>2 DEF Quiet, seen, Reply
<1> QED
  BY <1>1, <1>2, <1>3, <1>4, QuietStep

(* A deadline or an unusable reply settles its call.                        *)
LEMMA NoUsableReplyStep ==
  ASSUME IInv, NEW c, NoUsableReply(c)
  PROVE  IInv'
<1> USE DEF IInv
<1>1. SameRows /\ KeepsMarks /\ UnresolvedColumn'
  BY DurableUnchanged DEF NoUsableReply
<1>2. tasks' \in [Tasks -> Task] /\ TasksOK' /\ NoNewOwner
  <2>1. Settle({c}, "Uncertain")
    BY DEF NoUsableReply
  <2> QED
    BY <2>1, SettleTasks DEF ProtocolResponse
<1>3. TypeOK'
  BY <1>2 DEF TypeOK, durable, seen, NoUsableReply, Call
<1>4. Quiet
  BY <1>1, <1>2 DEF Quiet, seen, NoUsableReply
<1> QED
  BY <1>1, <1>2, <1>3, <1>4, QuietStep

(* A new socket has the highest number.                                     *)
LEMMA AttachStep ==
  ASSUME IInv, Attach
  PROVE  IInv'
<1> USE DEF IInv
<1>1. SameRows /\ KeepsMarks /\ UnresolvedColumn'
  BY DurableUnchanged DEF Attach
<1>2. TypeOK'
  <2>1. sockets.opened + 1 \in Nat
    BY DEF TypeOK
  <2>2. sockets' \in [opened : Nat, live : SUBSET Nat, current : Nat]
    BY <2>1 DEF TypeOK, Attach
  <2> QED
    BY <2>2 DEF TypeOK, durable, seen, Attach
<1>3. TasksOK'
  BY <1>1 DEF TypeOK, TasksOK, Task, ActiveTask, NoTask, Attach
<1>4. Quiet
  BY <1>1 DEF TypeOK, Quiet, NoNewOwner, Task, ActiveTask, NoTask, durable, seen, Attach
<1> QED
  BY <1>1, <1>2, <1>3, <1>4, QuietStep

(* Unregistering a socket.                                                  *)
LEMMA RemoveStep ==
  ASSUME IInv, NEW g, Remove(g)
  PROVE  IInv'
<1> USE DEF IInv
<1>1. SameRows /\ KeepsMarks /\ UnresolvedColumn'
  BY DurableUnchanged DEF Remove
<1>2. TypeOK'
  BY <1>1 DEF TypeOK, durable, seen, Remove
<1>3. TasksOK'
  BY <1>1 DEF TypeOK, TasksOK, Task, ActiveTask, NoTask, Remove
<1>4. Quiet
  BY <1>1 DEF TypeOK, Quiet, NoNewOwner, Task, ActiveTask, NoTask, durable, seen, Remove
<1> QED
  BY <1>1, <1>2, <1>3, <1>4, QuietStep

(* A writer starts.                                                         *)
LEMMA ObservedEffectStep ==
  ASSUME IInv, NEW w \in Writers, NEW r \in Requests, NEW e \in Events, ObservedEffect(w, r, e)
  PROVE  IInv'
<1> USE DEF IInv
<1>1. SameRows /\ KeepsMarks /\ UnresolvedColumn'
  BY DurableUnchanged DEF ObservedEffect
<1>2. TypeOK'
  BY <1>1 DEF TypeOK, durable, seen, ObservedEffect, Begin, Writer, NoWriter, NewWriter, HoldingWriter, Kind
<1>3. TasksOK'
  BY <1>1 DEF TypeOK, TasksOK, Task, ActiveTask, NoTask, ObservedEffect, Begin
<1>4. Quiet
  BY <1>1 DEF TypeOK, Quiet, NoNewOwner, Task, ActiveTask, NoTask, durable, seen, ObservedEffect, Begin
<1> QED
  BY <1>1, <1>2, <1>3, <1>4, QuietStep

(* A late reply starts a writer or is lost.                                 *)
LEMMA LateReplyStep ==
  ASSUME IInv, NEW l \in late, NEW a \in ProtocolResponse, LateReply(l, a)
  PROVE  IInv'
<1> USE DEF IInv
<1>1. SameRows /\ KeepsMarks /\ UnresolvedColumn'
  BY DurableUnchanged DEF LateReply
<1>2. TypeOK'
  BY <1>1 DEF TypeOK, durable, seen, LateReply, Begin, Writer, NoWriter, NewWriter, HoldingWriter, Kind, ProtocolResponse
<1>3. TasksOK'
  BY <1>1 DEF TypeOK, TasksOK, Task, ActiveTask, NoTask, LateReply, Begin
<1>4. Quiet
  BY <1>1 DEF TypeOK, Quiet, NoNewOwner, Task, ActiveTask, NoTask, durable, seen, LateReply, Begin
<1> QED
  BY <1>1, <1>2, <1>3, <1>4, QuietStep

(* A writer gives up.                                                       *)
LEMMA AbortWriterStep ==
  ASSUME IInv, NEW w \in Writers, AbortWriter(w)
  PROVE  IInv'
<1> USE DEF IInv
<1>1. SameRows /\ KeepsMarks /\ UnresolvedColumn'
  BY DurableUnchanged DEF AbortWriter
<1>2. TypeOK'
  BY <1>1 DEF TypeOK, durable, seen, AbortWriter, Writer, NoWriter, NewWriter, HoldingWriter, Kind
<1>3. TasksOK'
  BY <1>1 DEF TypeOK, TasksOK, Task, ActiveTask, NoTask, AbortWriter
<1>4. Quiet
  BY <1>1 DEF TypeOK, Quiet, NoNewOwner, Task, ActiveTask, NoTask, durable, seen, AbortWriter
<1> QED
  BY <1>1, <1>2, <1>3, <1>4, QuietStep

(* Startup reads a page.                                                    *)
LEMMA RecoverPageStep ==
  ASSUME IInv, RecoverPage
  PROVE  IInv'
<1> USE DEF IInv
<1>1. SameRows /\ KeepsMarks /\ UnresolvedColumn'
  BY DurableUnchanged DEF RecoverPage
<1>2. TypeOK'
  <2>1. active_commands(startup.after) \subseteq Requests
    BY DEF active_commands
  <2>2. startup' \in [serving : BOOLEAN, after : Nat, page : SUBSET Requests]
    <3>1. CASE startup' = [startup EXCEPT !.serving = TRUE]
      BY <3>1 DEF TypeOK
    <3>2. ASSUME NEW last \in active_commands(startup.after),
                 startup' = [startup EXCEPT !.page = active_commands(startup.after),
                                            !.after = last]
          PROVE  startup' \in [serving : BOOLEAN, after : Nat, page : SUBSET Requests]
      <4>1. last \in Nat
        BY <2>1, ConstantsAssumption
      <4> QED
        BY <2>1, <3>2, <4>1 DEF TypeOK
    <3> QED
      BY <3>1, <3>2 DEF RecoverPage
  <2> QED
    BY <2>2 DEF TypeOK, durable, seen, RecoverPage
<1>3. TasksOK'
  BY <1>1 DEF TypeOK, TasksOK, Task, ActiveTask, NoTask, RecoverPage
<1>4. Quiet
  BY <1>1 DEF TypeOK, Quiet, NoNewOwner, Task, ActiveTask, NoTask, durable, seen, RecoverPage
<1> QED
  BY <1>1, <1>2, <1>3, <1>4, QuietStep

(* A writer's first read: it holds a result of the row it found.            *)
LEMMA ReadCommandStep ==
  ASSUME IInv, NEW w \in Writers, ReadCommand(w)
  PROVE  IInv'
<1> USE DEF IInv
<1>1. SameRows /\ KeepsMarks /\ UnresolvedColumn'
  BY DurableUnchanged DEF ReadCommand
<1>2. TypeOK'
  <2> DEFINE row == commands[writers[w].req]
  <2> DEFINE copy == command_result(row.content, "Admitted")
  <2> DEFINE next == [writers[w] EXCEPT !.pc = "readResult", !.copy = copy]
  <2>1. writers[w] \in NewWriter
    BY DEF ReadCommand, TypeOK, Writer, NoWriter, HoldingWriter
  <2>2. row # NoCommand => copy \in Result
    BY <2>1, CommandResultType DEF TypeOK, NewWriter, Command, Lifecycle, Unresolved
  <2>3. copy \in Result => next \in HoldingWriter
    BY <2>1 DEF NewWriter, HoldingWriter
  <2>4. \/ writers' = [writers EXCEPT ![w] = NoWriter]
        \/ row # NoCommand /\ writers' = [writers EXCEPT ![w] = next]
    BY DEF ReadCommand
  <2> HIDE DEF next, copy, row
  <2>5. writers' \in [Writers -> Writer]
    BY <2>2, <2>3, <2>4 DEF TypeOK, Writer
  <2> QED
    BY <2>5 DEF TypeOK, durable, seen, ReadCommand
<1>3. TasksOK'
  BY DEF TasksOK, ReadCommand
<1>4. Quiet
  BY <1>1 DEF Quiet, NoNewOwner, seen, ReadCommand
<1> QED
  BY <1>1, <1>2, <1>3, <1>4, QuietStep

(* Evidence added to a result gives a result.                               *)
LEMMA EvidenceType ==
  ASSUME NEW x \in Result, NEW v \in HoldingWriter
  PROVE  Evidence(v, x) \in Result
<1>1. v.kind \in Kind /\ v.events \subseteq Events
  BY DEF HoldingWriter
<1>2. (IF v.kind = "effect" THEN x.lifecycle ELSE v.kind) \in Lifecycle
  BY <1>1 DEF Kind, Result, Lifecycle, Final, ProtocolResponse
<1>3. x.effects \cup v.events \in SUBSET Events
  BY <1>1 DEF Result
<1> QED
  BY <1>2, <1>3 DEF Evidence, Result

(* A writer's second read.                                                  *)
LEMMA ReadResultStep ==
  ASSUME IInv, NEW w \in Writers, ReadResult(w)
  PROVE  IInv'
<1> USE DEF IInv
<1>1. SameRows /\ KeepsMarks /\ UnresolvedColumn'
  BY DurableUnchanged DEF ReadResult
<1>2. TypeOK'
  <2> DEFINE stored == results[writers[w].req]
  <2> DEFINE result == IF stored = NoResult THEN writers[w].copy ELSE stored
  <2> DEFINE next == [writers[w] EXCEPT !.pc = "write", !.copy = Evidence(writers[w], result)]
  <2>1. writers[w] \in HoldingWriter
    BY DEF ReadResult, TypeOK, Writer, NoWriter, NewWriter
  <2>2. result \in Result
    BY <2>1 DEF TypeOK, HoldingWriter
  <2>3. next \in HoldingWriter
    <3> HIDE DEF result
    <3> QED
      BY <2>1, <2>2, EvidenceType DEF HoldingWriter
  <2>4. \/ writers' = [writers EXCEPT ![w] = NoWriter]
        \/ writers' = [writers EXCEPT ![w] = next]
    BY DEF ReadResult
  <2> HIDE DEF next
  <2>5. writers' \in [Writers -> Writer]
    BY <2>3, <2>4 DEF TypeOK, Writer
  <2> QED
    BY <2>5 DEF TypeOK, durable, seen, ReadResult
<1>3. TasksOK'
  BY DEF TasksOK, ReadResult
<1>4. Quiet
  BY <1>1 DEF Quiet, NoNewOwner, seen, ReadResult
<1> QED
  BY <1>1, <1>2, <1>3, <1>4, QuietStep

(* A writer writes its copy back, or finds that the identity changed.       *)
LEMMA WriteEvidenceStep ==
  ASSUME IInv, NEW w \in Writers, WriteEvidence(w)
  PROVE  IInv'
<1> USE DEF IInv
<1>1. writers[w].req \in Requests /\ writers[w].copy \in Result
  BY DEF WriteEvidence, TypeOK, Writer, NoWriter, NewWriter, HoldingWriter
<1>2. /\ commands' \in [Requests -> Command \cup {NoCommand}]
      /\ results' \in [Requests -> Result \cup {NoResult}]
      /\ SameRows /\ KeepsMarks /\ UnresolvedColumn'
  <2>1. CASE UNCHANGED durable
    BY <2>1, DurableUnchanged DEF TypeOK, durable
  <2>2. CASE write_result(commands, writers[w].req, writers[w].copy)
    BY <1>1, <2>2, WriteResult
  <2> QED
    BY <2>1, <2>2 DEF WriteEvidence
<1>3. TypeOK'
  BY <1>2 DEF TypeOK, Writer, WriteEvidence, seen
<1>4. TasksOK'
  BY DEF TasksOK, WriteEvidence
<1>5. Quiet
  BY <1>2 DEF Quiet, NoNewOwner, seen, WriteEvidence
<1> QED
  BY <1>2, <1>3, <1>4, <1>5, QuietStep

(* Recovery turns a Dispatched result into an uncertain one.                *)
LEMMA RecoverOneStep ==
  ASSUME IInv, RecoverOne
  PROVE  IInv'
<1> USE DEF IInv
<1>1. PICK r \in startup.page :
        /\ startup' = [startup EXCEPT !.page = @ \ {r}]
        /\ \/ /\ results[r] # NoResult
              /\ write_result(commands, r, [results[r] EXCEPT !.lifecycle = "Uncertain"])
           \/ UNCHANGED durable
        /\ UNCHANGED <<tasks, writers, calls, late, sockets, boots, seen, told, raced>>
  BY DEF RecoverOne
<1>2. r \in Requests
  BY DEF TypeOK
<1>3. /\ commands' \in [Requests -> Command \cup {NoCommand}]
      /\ results' \in [Requests -> Result \cup {NoResult}]
      /\ SameRows /\ KeepsMarks /\ UnresolvedColumn'
  <2>1. CASE UNCHANGED durable
    BY <2>1, DurableUnchanged DEF TypeOK, durable
  <2>2. CASE /\ results[r] # NoResult
             /\ write_result(commands, r, [results[r] EXCEPT !.lifecycle = "Uncertain"])
    <3>1. [results[r] EXCEPT !.lifecycle = "Uncertain"] \in Result
      BY <1>2, <2>2 DEF TypeOK, Result, Lifecycle, Unresolved
    <3> QED
      BY <1>2, <2>2, <3>1, WriteResult
  <2> QED
    BY <1>1, <2>1, <2>2
<1>4. TypeOK'
  BY <1>1, <1>3 DEF TypeOK, seen
<1>5. TasksOK'
  BY <1>1 DEF TasksOK
<1>6. Quiet
  BY <1>1, <1>3 DEF Quiet, NoNewOwner, seen
<1> QED
  BY <1>3, <1>4, <1>5, <1>6, QuietStep

(* The owner stores its outcome.                                            *)
LEMMA PersistStep ==
  ASSUME IInv, NEW t \in Tasks, Persist(t)
  PROVE  IInv'
<1> USE DEF IInv
<1>1. tasks[t] \in ActiveTask /\ tasks[t].outcome # "none"
  BY DEF Persist, TypeOK, TasksOK, Task, NoTask
<1>2. tasks[t].req \in Requests
  BY <1>1 DEF ActiveTask
<1>3. command_result(tasks[t].content, tasks[t].outcome) \in Result
  BY <1>1, CommandResultType
  DEF ActiveTask, Lifecycle, Final, Unresolved, ProtocolResponse
<1>4. /\ commands' \in [Requests -> Command \cup {NoCommand}]
      /\ results' \in [Requests -> Result \cup {NoResult}]
      /\ SameRows /\ KeepsMarks /\ UnresolvedColumn'
  BY <1>2, <1>3, WriteResult DEF Persist
<1>5. tasks' = [tasks EXCEPT ![t].pc = "reread"]
  BY DEF Persist, Become
<1>6. TypeOK'
  BY <1>1, <1>4, <1>5 DEF TypeOK, Task, ActiveTask, Persist, seen
<1>7. TasksOK'
  BY <1>1, <1>5 DEF TypeOK, TasksOK, ActiveTask, Persist
<1>8. Quiet
  BY <1>1, <1>4, <1>5 DEF TypeOK, Quiet, NoNewOwner, ActiveTask, Persist, seen
<1> QED
  BY <1>4, <1>6, <1>7, <1>8, QuietStep
=============================================================================
