----------------------- MODULE CommandLifecycleSteps -----------------------
(* The steps that admit, mark, hand over, send and forget a command         *)
(* preserve the inductive invariant; so does every step.                    *)
EXTENDS CommandLifecycleInvariant

(* The owner marks its row Dispatched.                                      *)
LEMMA MarkStep ==
  ASSUME IInv, NEW t \in Tasks, Mark(t)
  PROVE  IInv'
<1> USE DEF IInv
<1> DEFINE r == tasks[t].req
<1>1. tasks[t] \in ActiveTask
  BY DEF Mark, TypeOK, Task, NoTask
<1>2. r \in Requests
  BY <1>1 DEF ActiveTask
<1>3. /\ command_result(tasks[t].content, "Dispatched") \in Result
      /\ command_result(tasks[t].content, "Dispatched").lifecycle # "Admitted"
  BY <1>1, CommandResultType DEF ActiveTask, Lifecycle, Unresolved, command_result
<1>4. /\ commands' \in [Requests -> Command \cup {NoCommand}]
      /\ results' \in [Requests -> Result \cup {NoResult}]
      /\ SameRows /\ KeepsMarks /\ UnresolvedColumn'
      /\ results'[r].lifecycle # "Admitted"
  BY <1>2, <1>3, WriteResult DEF Mark
<1>5. tasks' = [tasks EXCEPT ![t].pc = "dispatch"]
  BY DEF Mark, Become
<1>6. TypeOK'
  BY <1>1, <1>4, <1>5 DEF TypeOK, Task, ActiveTask, Mark, seen
<1>7. TasksOK'
  BY <1>1, <1>5 DEF TypeOK, TasksOK, ActiveTask, Mark
<1>8. \A u \in Tasks, q \in Requests :
        /\ Owns(u, q)' <=> Owns(u, q)
        /\ Ready(u, q)' <=> Ready(u, q)
        /\ tasks'[u].content = tasks[u].content
        /\ tasks'[u].gen = tasks[u].gen
        /\ tasks'[u].req = tasks[u].req
  BY <1>1, <1>5 DEF TypeOK, ActiveTask, Owns, Ready, Mark
<1>9. Owned'
  <2>1. UNCHANGED <<calls, sends, boots>>
    BY DEF Mark, seen
  <2>2. \A q \in Requests : commands'[q] = NoCommand => sends'[q] = 0
    BY <1>4, <2>1 DEF Owned, SameRows
  <2>3. \A u \in Tasks, q \in Requests : Owns(u, q)' =>
          /\ commands'[q] # NoCommand
          /\ ~commands'[q].aged
          /\ commands'[q].content = tasks'[u].content
          /\ commands'[q].boot = boots'
          /\ commands'[q].gen = tasks'[u].gen
    BY <1>4, <1>8, <2>1 DEF Owned, SameRows
  <2>4. \A c \in calls' :
          /\ commands'[c.req] # NoCommand
          /\ ~commands'[c.req].aged
          /\ commands'[c.req].content = c.content
          /\ commands'[c.req].boot = boots'
          /\ commands'[c.req].gen = c.gen
    BY <1>4, <2>1 DEF TypeOK, Owned, SameRows, Call
  <2> QED
    BY <2>2, <2>3, <2>4 DEF Owned
<1>10. OneAttempt'
  BY <1>8 DEF OneAttempt, Mark, seen
<1>11. Marked'
  <2>1. \A q \in Requests : commands[q] # NoCommand => results[q] # NoResult
    BY DEF UnresolvedColumn
  <2>2. \A u \in Tasks : tasks[u].pc = "dispatch" =>
          tasks[u].req \in Requests /\ Owns(u, tasks[u].req)
    BY DEF TypeOK, Task, ActiveTask, NoTask, Owns
  <2>3. \A u \in Tasks : tasks'[u].pc = "dispatch" =>
          results'[tasks'[u].req].lifecycle # "Admitted"
    <3> TAKE u \in Tasks
    <3>1. CASE u = t
      BY <1>2, <1>4, <1>8, <3>1
    <3>2. CASE u # t
      <4>1. tasks'[u] = tasks[u]
        BY <1>5, <3>2 DEF TypeOK
      <4> QED
        BY <1>4, <2>1, <2>2, <4>1 DEF Marked, Owned, KeepsMarks
    <3> QED
      BY <3>1, <3>2
  <2>4. \A c \in calls' : results'[c.req].lifecycle # "Admitted"
    BY <1>4, <2>1 DEF TypeOK, Marked, Owned, Mark, KeepsMarks, Call
  <2>5. \A q \in Requests : sends'[q] > 0 => results'[q].lifecycle # "Admitted"
    BY <1>4, <2>1 DEF TypeOK, Marked, Owned, Mark, KeepsMarks, seen
  <2> QED
    BY <2>3, <2>4, <2>5 DEF Marked
<1> QED
  BY <1>4, <1>6, <1>7, <1>9, <1>10, <1>11

(* Dispatch turns the owner's permission into a queued call, or gives it up *)
LEMMA DispatchStep ==
  ASSUME IInv, NEW t \in Tasks, Dispatch(t)
  PROVE  IInv'
<1> USE DEF IInv
<1> DEFINE call == [req |-> tasks[t].req, task |-> t, content |-> tasks[t].content,
                    gen |-> tasks[t].gen, phase |-> "queued"]
<1>0. PICK r \in Requests : tasks[t] \in ActiveTask /\ tasks[t].req = r
  BY DEF Dispatch, TypeOK, Task, ActiveTask, NoTask
<1>1. tasks[t] \in ActiveTask /\ Owns(t, r) /\ Ready(t, r)
  BY <1>0 DEF Dispatch, Owns, Ready
<1>2. SameRows /\ KeepsMarks /\ UnresolvedColumn'
  BY DurableUnchanged DEF Dispatch
<1>3. CASE tasks' = [tasks EXCEPT ![t].pc = "persist", ![t].outcome = "Rejected"]
           /\ UNCHANGED calls
  <2>1. TypeOK'
    BY ZenonT(40), <1>1, <1>3 DEF TypeOK, Task, ActiveTask, Dispatch, durable, seen
  <2>2. TasksOK'
    BY <1>1, <1>3 DEF TypeOK, TasksOK, ActiveTask, Dispatch
  <2>3. Quiet
    BY <1>1, <1>2, <1>3 DEF TypeOK, Quiet, NoNewOwner, ActiveTask, Dispatch, seen
  <2> QED
    BY <1>2, <2>1, <2>2, <2>3, QuietStep
<1>4. CASE calls' = calls \cup {call} /\ tasks' = [tasks EXCEPT ![t].pc = "await"]
  <2>1. call \in Call
    BY <1>1 DEF ActiveTask, Call
  <2>2. TypeOK'
    <3>1. calls' \subseteq Call
      BY <1>4, <2>1 DEF TypeOK
    <3>2. tasks' \in [Tasks -> Task]
      BY <1>1, <1>4 DEF TypeOK, Task, ActiveTask
    <3> QED
      BY <3>1, <3>2 DEF TypeOK, Dispatch, durable, seen
  <2>3. TasksOK'
    BY <1>1, <1>4 DEF TypeOK, TasksOK, ActiveTask, Dispatch
  <2>4. /\ call.req = r /\ call.content = tasks[t].content
        /\ call.gen = tasks[t].gen /\ call.phase = "queued"
    BY <1>0
  <2>5. \A u \in Tasks, q \in Requests :
          /\ Owns(u, q)' <=> Owns(u, q)
          /\ Ready(u, q)' <=> u # t /\ Ready(u, q)
          /\ tasks'[u].content = tasks[u].content
          /\ tasks'[u].gen = tasks[u].gen
          /\ tasks'[u].req = tasks[u].req
          /\ tasks'[u].pc = "dispatch" => tasks'[u] = tasks[u]
    BY <1>1, <1>4 DEF TypeOK, ActiveTask, Owns, Ready, Dispatch
  <2>6. UNCHANGED <<commands, results, sends, boots>>
    BY DEF Dispatch, durable, seen
  <2> HIDE DEF call
  <2>7. Owned'
    BY <1>1, <1>4, <2>4, <2>5, <2>6 DEF Owned
  <2>8. OneAttempt'
    <3>1. \A u \in Tasks : ~Ready(u, r)'
      BY <1>1, <2>5 DEF OneAttempt
    <3>2. sends[r] = 0 /\ \A c \in calls : c.req # r
      BY <1>1 DEF OneAttempt
    <3>3. \A u, v \in Tasks, q \in Requests : Ready(u, q)' /\ Ready(v, q)' => u = v
      BY <2>5 DEF OneAttempt
    <3>4. \A u \in Tasks, q \in Requests : Ready(u, q)' =>
            sends'[q] = 0 /\ \A c \in calls' : c.req # q
      BY <1>4, <2>4, <2>5, <2>6, <3>1 DEF OneAttempt
    <3>5. \A c, d \in calls' : c.req = d.req => c = d
      BY <1>4, <2>4, <3>2 DEF OneAttempt
    <3>6. \A c \in calls' : c.phase = "queued" => sends'[c.req] = 0
      BY <1>4, <2>4, <2>6, <3>2 DEF OneAttempt
    <3> QED
      BY <2>6, <3>3, <3>4, <3>5, <3>6 DEF OneAttempt
  <2>9. Marked'
    <3>1. results[r].lifecycle # "Admitted"
      BY <1>0 DEF Marked, Dispatch
    <3> QED
      BY <1>1, <1>4, <2>4, <2>5, <2>6, <3>1 DEF Marked
  <2> QED
    BY <1>2, <2>2, <2>3, <2>7, <2>8, <2>9
<1> QED
  BY <1>3, <1>4 DEF Dispatch, Become

(* What leaves the queue and may reach the station.                         *)
Sent(c, n) ==
  /\ c \in calls
  /\ c.phase = "queued"
  /\ n \in {0, 1}
  /\ sends' = [sends EXCEPT ![c.req] = @ + n]
  /\ \A d \in calls' :
       \/ d \in calls /\ d # c
       \/ d = [c EXCEPT !.phase = "sent"]
  /\ UNCHANGED boots

(* Spending the permission of a queued call keeps the count.                *)
LEMMA SentStep ==
  ASSUME IInv, TypeOK', NoNewOwner, UNCHANGED durable, NEW c, NEW n, Sent(c, n)
  PROVE  Owned' /\ OneAttempt' /\ Marked'
<1> USE DEF IInv
<1> DEFINE sent == [c EXCEPT !.phase = "sent"]
<1>1. /\ c \in Call /\ c.req \in Requests
      /\ sent.req = c.req /\ sent.content = c.content /\ sent.gen = c.gen
      /\ sent.phase = "sent"
  BY DEF TypeOK, Call, Sent
<1>2. sends[c.req] = 0
  BY DEF OneAttempt, Sent
<1>3. \A q \in Requests : sends'[q] = IF q = c.req THEN n ELSE sends[q]
  BY <1>1, <1>2 DEF TypeOK, Sent
<1>4. \A d \in calls' : (d \in calls /\ d.req # c.req) \/ d = sent
  BY DEF OneAttempt, Sent
<1>5. \A t \in Tasks, r \in Requests :
        /\ Owns(t, r)' => /\ Owns(t, r)
                          /\ tasks'[t].content = tasks[t].content
                          /\ tasks'[t].gen = tasks[t].gen
        /\ Ready(t, r)' => Ready(t, r)
  BY DEF NoNewOwner, Owns, Ready
<1>6. \A t \in Tasks : tasks'[t].pc = "dispatch" => tasks'[t] = tasks[t]
  BY DEF NoNewOwner
<1>7. UNCHANGED <<commands, results, boots>>
  BY DEF durable, Sent
<1>8. c \in calls /\ n \in {0, 1}
  BY DEF Sent
<1> HIDE DEF sent
<1>9. Owned'
  <2>1. \A q \in Requests : commands'[q] = NoCommand => sends'[q] = 0
    BY <1>1, <1>3, <1>7, <1>8 DEF Owned
  <2> QED
    BY <1>1, <1>4, <1>5, <1>7, <1>8, <2>1 DEF Owned
<1>10. OneAttempt'
  <2>1. \A q \in Requests : sends'[q] <= 1
    <3>1. n <= 1
      BY <1>8
    <3> QED
      BY <1>3, <3>1 DEF OneAttempt
  <2>2. \A t \in Tasks : ~Ready(t, c.req)
    BY <1>1, <1>8 DEF OneAttempt
  <2>3. \A t \in Tasks, r \in Requests : Ready(t, r)' =>
          sends'[r] = 0 /\ \A d \in calls' : d.req # r
    BY <1>1, <1>3, <1>4, <1>5, <2>2 DEF OneAttempt
  <2>4. \A d, e \in calls' : d.req = e.req => d = e
    BY <1>1, <1>4 DEF OneAttempt
  <2>5. \A d \in calls' : d.phase = "queued" => sends'[d.req] = 0
    BY <1>1, <1>3, <1>4 DEF OneAttempt, TypeOK, Call
  <2> QED
    BY <1>5, <2>1, <2>3, <2>4, <2>5 DEF OneAttempt
<1>11. Marked'
  BY <1>1, <1>3, <1>4, <1>6, <1>7, <1>8 DEF Marked
<1> QED
  BY <1>9, <1>10, <1>11

(* A queued call is written to the socket.                                  *)
LEMMA TransmitStep ==
  ASSUME IInv, NEW c, Transmit(c)
  PROVE  IInv'
<1> USE DEF IInv
<1>1. UNCHANGED durable /\ UnresolvedColumn'
  BY DurableUnchanged DEF Transmit
<1>2. c \in Call /\ [c EXCEPT !.phase = "sent"] \in Call
  BY DEF Transmit, TypeOK, Call
<1>3. TypeOK'
  <2>1. calls' \subseteq Call
    BY <1>2 DEF Transmit, TypeOK
  <2>2. sends' \in [Requests -> Nat]
    BY <1>2 DEF Transmit, TypeOK, Call
  <2> QED
    BY <2>1, <2>2 DEF TypeOK, Transmit, durable
<1>4. TasksOK' /\ NoNewOwner
  BY DEF TasksOK, NoNewOwner, Transmit
<1>5. Sent(c, 1)
  BY DEF Transmit, Sent
<1> QED
  BY <1>1, <1>3, <1>4, <1>5, SentStep

(* A failed write may have sent the call.                                   *)
LEMMA WriteFailedStep ==
  ASSUME IInv, NEW c, WriteFailed(c)
  PROVE  IInv'
<1> USE DEF IInv
<1> DEFINE C == {c} \cup {d \in calls : d.gen = c.gen /\ d.phase = "sent"}
<1>1. UNCHANGED durable /\ UnresolvedColumn'
  BY DurableUnchanged DEF WriteFailed
<1>2. c \in Call /\ c.req \in Requests
  BY DEF WriteFailed, TypeOK, Call
<1>3. tasks' \in [Tasks -> Task] /\ TasksOK' /\ NoNewOwner
  <2>1. Settle(C, "Uncertain") /\ UNCHANGED sockets
    BY DEF WriteFailed
  <2> QED
    BY <2>1, SettleTasks
<1>4. sends' \in [Requests -> Nat]
  BY <1>2 DEF WriteFailed, TypeOK
<1>5. calls' = calls \ C /\ c \in calls /\ c.phase = "queued" /\ UNCHANGED boots
  BY DEF WriteFailed
<1>6. TypeOK'
  BY <1>3, <1>4, <1>5 DEF TypeOK, WriteFailed, durable
<1>7. \E n \in {0, 1} : Sent(c, n)
  <2>1. \E n \in {0, 1} : sends' = [sends EXCEPT ![c.req] = @ + n]
    <3>1. CASE sends' = sends
      <4>1. sends' = [sends EXCEPT ![c.req] = @ + 0]
        BY <1>2, <3>1 DEF TypeOK
      <4> QED
        BY <4>1
    <3>2. CASE sends' = [sends EXCEPT ![c.req] = @ + 1]
      BY <3>2
    <3> QED
      BY <3>1, <3>2 DEF WriteFailed
  <2> QED
    BY <1>5, <2>1 DEF Sent
<1> QED
  BY <1>1, <1>3, <1>6, <1>7, SentStep

(* Only a row without owner and call ages.                                  *)
LEMMA AgeStep ==
  ASSUME IInv, NEW r \in Requests, Age(r)
  PROVE  IInv'
<1> USE DEF IInv
<1>1. /\ commands[r] \in Command
      /\ commands' = [commands EXCEPT ![r] = [commands[r] EXCEPT !.aged = TRUE]]
      /\ [commands[r] EXCEPT !.aged = TRUE] \in Command
  <2>1. commands[r] \in Command
    BY DEF Age, TypeOK
  <2>2. [commands[r] EXCEPT !.aged = TRUE] \in Command
    BY <2>1 DEF Command
  <2>3. commands' = [commands EXCEPT ![r].aged = TRUE]
    BY DEF Age
  <2> QED
    BY <2>1, <2>2, <2>3
<1>2. \A q \in Requests : q # r => commands'[q] = commands[q]
  BY <1>1 DEF TypeOK
<1>3. /\ commands'[r] # NoCommand /\ commands[r] # NoCommand
      /\ commands'[r].unresolved = commands[r].unresolved
  <2>1. commands'[r] = [commands[r] EXCEPT !.aged = TRUE]
    BY <1>1 DEF TypeOK
  <2>2. commands'[r] # NoCommand /\ commands[r] # NoCommand
    BY <1>1, <2>1, ConstantsAssumption
  <2> QED
    BY <1>1, <2>1, <2>2 DEF Command
<1>4. UNCHANGED <<results, tasks, calls, sockets, sends, boots>>
  BY DEF Age
<1>5. TypeOK'
  BY <1>1 DEF TypeOK, Age
<1>6. TasksOK'
  BY <1>4 DEF TasksOK
<1>7. UnresolvedColumn'
  BY <1>2, <1>3, <1>4 DEF UnresolvedColumn
<1>8. Owned'
  <2>1. \A t \in Tasks : ~Owns(t, r)
    BY DEF Age, Owns
  <2>2. \A c \in calls : c.req # r
    BY DEF Age
  <2>3. \A t \in Tasks, q \in Requests : Owns(t, q)' => Owns(t, q)
    BY <1>4 DEF Owns
  <2>4. \A c \in calls : c.req \in Requests
    BY DEF TypeOK, Call
  <2> QED
    BY <1>2, <1>3, <1>4, <2>1, <2>2, <2>3, <2>4 DEF Owned
<1>9. OneAttempt' /\ Marked'
  BY <1>4 DEF OneAttempt, Marked, Ready
<1> QED
  BY <1>5, <1>6, <1>7, <1>8, <1>9

(* Pruning removes rows that have neither owner nor call.                   *)
LEMMA PruneStep ==
  ASSUME IInv, NEW S \in SUBSET Requests, prune(S)
  PROVE  IInv'
<1> USE DEF IInv
<1>1. UNCHANGED <<tasks, calls, sockets, boots>>
  BY DEF prune
<1>2. \A q \in Requests :
        /\ commands'[q] = IF q \in S THEN NoCommand ELSE commands[q]
        /\ results'[q] = IF q \in S THEN NoResult ELSE results[q]
        /\ sends'[q] = IF q \in S THEN 0 ELSE sends[q]
  BY DEF prune
<1>3. TypeOK'
  BY DEF TypeOK, prune
<1>4. TasksOK'
  BY <1>1 DEF TasksOK
<1>5. UnresolvedColumn'
  BY <1>2 DEF UnresolvedColumn
<1>6. \A r \in S : commands[r] # NoCommand /\ commands[r].aged
  BY DEF prune
<1>7. \A t \in Tasks, q \in Requests :
        /\ Owns(t, q)' <=> Owns(t, q)
        /\ Ready(t, q)' <=> Ready(t, q)
        /\ Owns(t, q) => q \notin S
  BY <1>1, <1>6 DEF Owned, Owns, Ready
<1>8. \A c \in calls : c.req \in Requests \ S
  BY <1>6 DEF TypeOK, Call, Owned
<1>9. Owned'
  BY <1>1, <1>2, <1>7, <1>8 DEF Owned
<1>10. OneAttempt'
  BY <1>1, <1>2, <1>7, <1>8 DEF OneAttempt
<1>11. Marked'
  <2>1. \A t \in Tasks : tasks[t].pc = "dispatch" =>
          tasks[t].req \in Requests /\ Owns(t, tasks[t].req)
    BY DEF TypeOK, Task, ActiveTask, NoTask, Owns
  <2> QED
    BY <1>1, <1>2, <1>7, <1>8, <2>1 DEF Marked
<1> QED
  BY <1>3, <1>4, <1>5, <1>9, <1>10, <1>11

(* A restart forgets owners and calls, never rows, results or sends.        *)
LEMMA CrashStep ==
  ASSUME IInv, Crash
  PROVE  IInv'
<1> USE DEF IInv
<1>1. /\ calls' = {} /\ UNCHANGED <<commands, results, sends>>
      /\ \A t \in Tasks : tasks'[t] = NoTask
  BY DEF Crash, durable, seen
<1>2. TypeOK'
  BY DEF TypeOK, Crash, durable, seen, Task, Writer, NoSockets, Starting
<1>3. TasksOK'
  BY <1>1 DEF TasksOK, Crash, NoSockets, NoTask
<1>4. UnresolvedColumn'
  BY <1>1 DEF UnresolvedColumn
<1>5. \A t \in Tasks, q \in Requests : ~Owns(t, q)' /\ ~Ready(t, q)'
  BY <1>1 DEF Owns, Ready, NoTask
<1>6. Owned' /\ OneAttempt'
  BY <1>1, <1>5 DEF Owned, OneAttempt
<1>7. Marked'
  BY <1>1 DEF Marked, NoTask
<1> QED
  BY <1>2, <1>3, <1>4, <1>6, <1>7

(* Admission creates the row and its one owner, or changes nothing.         *)
LEMMA AdmitStep ==
  ASSUME IInv, NEW t \in Tasks, Admit(t)
  PROVE  IInv'
<1> USE DEF IInv
<1>a. tasks[t].pc = "admit"
  BY DEF Admit
<1>0. PICK r \in Requests : tasks[t] \in ActiveTask /\ tasks[t].req = r
  BY <1>a DEF TypeOK, Task, ActiveTask, NoTask
<1> DEFINE c == tasks[t].content
<1> DEFINE row == NewRow(t)
<1> DEFINE i == command_result(c, "Admitted")
<1> DEFINE m == Merged(r, results[r], i)
<1> DEFINE u == m.lifecycle \in Unresolved
<1>1. /\ tasks[t].pc = "admit" /\ c \in Contents /\ tasks[t].gen \in Nat
  BY <1>0 DEF Admit, ActiveTask
<1>2. CASE UNCHANGED durable /\ Done(t)
  <2>1. SameRows /\ KeepsMarks /\ UnresolvedColumn'
    BY <1>2, DurableUnchanged
  <2>2. told' \in [Requests -> SUBSET (Lifecycle \cup {"Denied"})]
    <3> DEFINE l == IF results[r] = NoResult THEN "Admitted" ELSE results[r].lifecycle
    <3>1. UNCHANGED told \/ Deny(t) \/ Tell(r, l)
      BY <1>0 DEF Admit
    <3>2. l \in Lifecycle
      BY <1>0 DEF TypeOK, Result, Lifecycle, Unresolved
    <3> HIDE DEF l
    <3> QED
      BY <1>0, <3>1, <3>2 DEF Tell, Deny, TypeOK
  <2>3. TypeOK'
    BY <1>2, <2>2 DEF Admit, TypeOK, Done, Task, durable, seen
  <2>4. TasksOK'
    BY <1>2 DEF Admit, TypeOK, TasksOK, Done, NoTask
  <2>5. Quiet
    BY <1>2, <2>1 DEF Admit, TypeOK, Quiet, NoNewOwner, Done, NoTask, seen
  <2> QED
    BY <2>1, <2>3, <2>4, <2>5, QuietStep
<1>3. CASE /\ commands[r] = NoCommand
           /\ write_result([commands EXCEPT ![r] = row], r, i)
           /\ Become(t, "mark")
           /\ UNCHANGED told
  <2>1. i \in Result /\ m \in Result /\ m # NoResult
    BY <1>1, CommandResultType, MergedType, ConstantsAssumption
    DEF TypeOK, Lifecycle, Unresolved
  <2>2. /\ row \in Command /\ row.content = c /\ ~row.aged
        /\ row.boot = boots /\ row.gen = tasks[t].gen
    BY <1>1 DEF NewRow, Command, TypeOK
  <2>3. u \in BOOLEAN /\ (u <=> m.lifecycle \in Unresolved)
    OBVIOUS
  <2>4. row # NoCommand
    BY <2>2, ConstantsAssumption
  <2>5. results' = [results EXCEPT ![r] = m]
    BY <1>3 DEF write_result
  <2>6. commands' = [commands EXCEPT ![r] = [row EXCEPT !.unresolved = u]]
    <3> HIDE DEF row
    <3>1. [commands EXCEPT ![r] = row][r] = row
      BY DEF TypeOK
    <3>2. commands' = [[commands EXCEPT ![r] = row] EXCEPT ![r].unresolved = u]
      BY <1>3, <2>4, <3>1 DEF write_result
    <3> QED
      BY <3>1, <3>2 DEF TypeOK
  <2> HIDE DEF row, m, u, i
  <2>7. /\ [row EXCEPT !.unresolved = u] \in Command
        /\ [row EXCEPT !.unresolved = u].unresolved = u
        /\ [row EXCEPT !.unresolved = u].content = c
        /\ ~[row EXCEPT !.unresolved = u].aged
        /\ [row EXCEPT !.unresolved = u].boot = boots
        /\ [row EXCEPT !.unresolved = u].gen = tasks[t].gen
    BY <2>2, <2>3 DEF Command
  <2>8. [row EXCEPT !.unresolved = u] # NoCommand
    BY <2>7, ConstantsAssumption
  <2>9. /\ commands'[r] = [row EXCEPT !.unresolved = u] /\ results'[r] = m
        /\ \A q \in Requests : q # r => commands'[q] = commands[q] /\ results'[q] = results[q]
    BY <2>5, <2>6 DEF TypeOK
  <2>10. tasks' = [tasks EXCEPT ![t].pc = "mark"]
    BY <1>3 DEF Become
  <2>11. TypeOK'
    <3>1. commands' \in [Requests -> Command \cup {NoCommand}]
      BY <2>6, <2>7 DEF TypeOK
    <3>2. results' \in [Requests -> Result \cup {NoResult}]
      BY <2>1, <2>5 DEF TypeOK
    <3>3. tasks' \in [Tasks -> Task]
      BY <1>0, <2>10 DEF TypeOK, Task, ActiveTask
    <3> QED
      BY <1>3, <3>1, <3>2, <3>3 DEF Admit, TypeOK, seen
  <2>12. TasksOK'
    BY <1>0, <2>10 DEF Admit, TypeOK, TasksOK, ActiveTask
  <2>13. UnresolvedColumn'
    BY ZenonT(40), <2>1, <2>3, <2>7, <2>9 DEF UnresolvedColumn
  <2>14. UNCHANGED <<calls, sends, boots>>
    BY DEF Admit, seen
  <2>15. /\ tasks'[t].pc = "mark" /\ tasks'[t].req = r
         /\ tasks'[t].content = c /\ tasks'[t].gen = tasks[t].gen
         /\ \A v \in Tasks : v # t => tasks'[v] = tasks[v]
    BY <1>0, <2>10 DEF TypeOK, ActiveTask
  <2>16. /\ sends[r] = 0
         /\ \A v \in Tasks : ~Owns(v, r) /\ ~Ready(v, r)
         /\ \A d \in calls : d.req # r /\ d.req \in Requests
    BY <1>3 DEF Owned, Owns, Ready, TypeOK, Call
  <2>17. \A v \in Tasks, q \in Requests :
           /\ Owns(v, q)' => (v = t /\ q = r) \/ (v # t /\ q # r /\ Owns(v, q))
           /\ Ready(v, q)' => (v = t /\ q = r) \/ (v # t /\ q # r /\ Ready(v, q))
    BY <2>15, <2>16 DEF Owns, Ready
  <2> HIDE DEF c
  <2>18. Owned'
    <3>1. \A q \in Requests : commands'[q] = NoCommand => sends'[q] = 0
      BY <2>8, <2>9, <2>14 DEF Owned
    <3>2. \A v \in Tasks, q \in Requests : Owns(v, q)' =>
            /\ commands'[q] # NoCommand
            /\ ~commands'[q].aged
            /\ commands'[q].content = tasks'[v].content
            /\ commands'[q].boot = boots'
            /\ commands'[q].gen = tasks'[v].gen
      <4> TAKE v \in Tasks, q \in Requests
      <4> HAVE Owns(v, q)'
      <4>1. CASE v = t /\ q = r
        BY <1>1, <2>7, <2>8, <2>9, <2>14, <2>15, <4>1
      <4>2. CASE v # t /\ q # r /\ Owns(v, q)
        BY <2>9, <2>14, <2>15, <4>2 DEF Owned
      <4> QED
        BY <2>17, <4>1, <4>2
    <3>3. \A d \in calls' :
            /\ commands'[d.req] # NoCommand
            /\ ~commands'[d.req].aged
            /\ commands'[d.req].content = d.content
            /\ commands'[d.req].boot = boots'
            /\ commands'[d.req].gen = d.gen
      BY <2>9, <2>14, <2>16 DEF Owned
    <3> QED
      BY <3>1, <3>2, <3>3 DEF Owned
  <2>19. OneAttempt'
    BY <2>14, <2>16, <2>17 DEF OneAttempt
  <2>20. Marked'
    <3>0. \A v \in Tasks : tasks[v].pc = "dispatch" =>
            tasks[v].req \in Requests /\ Owns(v, tasks[v].req)
      BY DEF TypeOK, Task, ActiveTask, NoTask, Owns
    <3>1. \A v \in Tasks : tasks'[v].pc = "dispatch" =>
            /\ tasks'[v] = tasks[v] /\ tasks[v].req \in Requests \ {r}
      BY <2>15, <2>16, <3>0
    <3>2. \A d \in calls' : results'[d.req].lifecycle # "Admitted"
      BY <2>9, <2>14, <2>16 DEF Marked
    <3>3. \A q \in Requests : sends'[q] > 0 => results'[q].lifecycle # "Admitted"
      BY <2>9, <2>14, <2>16 DEF Marked
    <3>4. \A v \in Tasks : tasks'[v].pc = "dispatch" =>
            results'[tasks'[v].req].lifecycle # "Admitted"
      BY <2>9, <3>1 DEF Marked
    <3> QED
      BY <3>2, <3>3, <3>4 DEF Marked
  <2> QED
    BY <2>11, <2>12, <2>13, <2>18, <2>19, <2>20
<1> QED
  BY <1>0, <1>2, <1>3 DEF Admit

-----------------------------------------------------------------------------
(* The initial states.                                                      *)
LEMMA InitIInv == Init => IInv
<1> SUFFICES ASSUME Init PROVE IInv
  OBVIOUS
<1>1. TypeOK
  BY DEF Init, TypeOK, Task, Writer, NoSockets, Starting, ProtocolResponse
<1>2. TasksOK
  BY DEF Init, TasksOK, NoSockets, NoTask
<1>3. UnresolvedColumn
  BY DEF Init, UnresolvedColumn
<1>4. Owned /\ OneAttempt /\ Marked
  BY DEF Init, Owned, OneAttempt, Marked, Owns, Ready, NoTask
<1> QED
  BY <1>1, <1>2, <1>3, <1>4 DEF IInv

(* A step that changes nothing.                                             *)
LEMMA StutterStep ==
  ASSUME IInv, UNCHANGED vars
  PROVE  IInv'
<1> USE DEF IInv, vars
<1>1. TypeOK' /\ TasksOK' /\ UnresolvedColumn'
  BY DEF TypeOK, TasksOK, UnresolvedColumn
<1>2. Quiet
  BY DEF Quiet, SameRows, KeepsMarks, NoNewOwner
<1> QED
  BY <1>1, <1>2, QuietStep

(* Every step keeps the invariant.                                          *)
LEMMA NextIInv == IInv /\ [Next]_vars => IInv'
<1> SUFFICES ASSUME IInv, [Next]_vars PROVE IInv'
  OBVIOUS
<1>1. CASE Host
  BY <1>1, SubmitStep, LookupStep, DuplicateStep, ContextStep, AdmitStep, MarkStep,
     DispatchStep, PersistStep, RereadStep, AbortStep
  DEF Host, TaskStep
<1>2. CASE Station
  BY <1>2, AttachStep, SocketEndsStep, RemoveStep, TransmitStep, NotTransmittedStep,
     WriteFailedStep, ReplyStep, NoUsableReplyStep
  DEF Station, CallStep
<1>3. CASE LaterEvidence
  BY <1>3, ObservedEffectStep, LateReplyStep, ReadCommandStep, ReadResultStep,
     WriteEvidenceStep, AbortWriterStep
  DEF LaterEvidence, WriterStep
<1>4. CASE Retention
  BY <1>4, AgeStep, PruneStep DEF Retention
<1>5. CASE Crash
  BY <1>5, CrashStep
<1>6. CASE Recovery
  BY <1>6, RecoverPageStep, RecoverOneStep DEF Recovery
<1>7. CASE UNCHANGED vars
  BY <1>7, StutterStep
<1> QED
  BY <1>1, <1>2, <1>3, <1>4, <1>5, <1>6, <1>7 DEF Next

(* The invariant the theorems below rest on.                                *)
THEOREM Inductive == Spec => []IInv
<1>1. Init => IInv
  BY InitIInv
<1>2. IInv /\ [Next]_vars => IInv'
  BY NextIInv
<1> QED
  BY <1>1, <1>2, PTL DEF Spec
=============================================================================
