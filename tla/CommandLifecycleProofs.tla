----------------------- MODULE CommandLifecycleProofs -----------------------
(* Theorems about CommandLifecycle for every number of requests, tasks,     *)
(* writers, sockets and restarts.                                           *)
EXTENDS CommandLifecycleSteps

(* Every variable keeps its type.                                           *)
THEOREM TypeCorrect == Spec => []TypeOK
<1>1. IInv => TypeOK
  BY DEF IInv
<1> QED
  BY <1>1, Inductive, PTL

(* A stored request reaches the station at most once, for every number of   *)
(* concurrent submissions, sockets and restarts.                            *)
THEOREM SendsAtMostOnce == Spec => []AtMostOneSend
<1>1. IInv => AtMostOneSend
  BY DEF IInv, OneAttempt, AtMostOneSend
<1> QED
  BY <1>1, Inductive, PTL

(* A call leaves only after Dispatched is durable.                          *)
THEOREM MarksBeforeSending == Spec => []WriteAhead
<1>1. IInv => WriteAhead
  BY DEF IInv, TypeOK, Owned, Marked, UnresolvedColumn, WriteAhead
<1> QED
  BY <1>1, Inductive, PTL

(* Every call is held by an open socket.                                    *)
OnOpenSocket == \A c \in calls : c.gen \in sockets.live

(* A socket takes its calls with it when it ends, a restart takes all, and  *)
(* dispatch only adds a call to an open socket.                             *)
LEMMA OpenStep ==
  ASSUME TypeOK, OnOpenSocket, [Next]_vars
  PROVE  OnOpenSocket'
<1>1. CASE /\ calls' \subseteq calls
           /\ sockets.live \subseteq sockets'.live
  BY <1>1 DEF OnOpenSocket
<1>2. ASSUME NEW t \in Tasks, Dispatch(t) PROVE OnOpenSocket'
  BY <1>2 DEF Dispatch, OnOpenSocket
<1>3. ASSUME NEW c \in calls, Transmit(c) PROVE OnOpenSocket'
  <2>1. [c EXCEPT !.phase = "sent"].gen = c.gen
    BY DEF TypeOK, Call
  <2> QED
    BY <1>3, <2>1 DEF Transmit, OnOpenSocket
<1>4. ASSUME NEW g, SocketEnds(g) PROVE OnOpenSocket'
  BY <1>4 DEF SocketEnds, OnOpenSocket, TypeOK
<1>5. CASE Crash
  BY <1>5 DEF Crash, OnOpenSocket
<1>6. CASE Attach
  <2>1. calls' \subseteq calls /\ sockets.live \subseteq sockets'.live
    BY <1>6 DEF Attach, TypeOK
  <2> QED
    BY <1>1, <2>1
<1>7. ASSUME NEW g, Remove(g) PROVE OnOpenSocket'
  <2>1. calls' \subseteq calls /\ sockets.live \subseteq sockets'.live
    BY <1>7 DEF Remove, TypeOK
  <2> QED
    BY <1>1, <2>1
<1> QED
  BY ZenonT(40), <1>1, <1>2, <1>3, <1>4, <1>5, <1>6, <1>7
  DEF Next, Host, TaskStep, Station, CallStep, LaterEvidence, WriterStep, Retention,
      Recovery, vars, Submit, Lookup, Duplicate, Context, Admit, Mark, Persist, Reread,
      Abort, NotTransmitted, WriteFailed, Reply, NoUsableReply, ObservedEffect,
      LateReply, ReadCommand, ReadResult, WriteEvidence, AbortWriter, Age, prune,
      RecoverPage, RecoverOne

(* A call is only ever held by the open socket its command was validated    *)
(* for, in the process that admitted it and with the content admitted.      *)
THEOREM NeverReplays == Spec => []NoReplay
<1>1. Init => OnOpenSocket
  BY DEF Init, OnOpenSocket
<1>2. IInv /\ OnOpenSocket /\ [Next]_vars => OnOpenSocket'
  BY OpenStep DEF IInv
<1>3. IInv /\ OnOpenSocket => NoReplay
  BY DEF IInv, Owned, OnOpenSocket, NoReplay
<1> QED
  BY <1>1, <1>2, <1>3, Inductive, PTL DEF Spec

(* The unresolved column agrees with the stored lifecycle.                  *)
THEOREM ColumnAgrees == Spec => []UnresolvedColumn
<1>1. IInv => UnresolvedColumn
  BY DEF IInv
<1> QED
  BY <1>1, Inductive, PTL

-----------------------------------------------------------------------------
(* What a step does to the results of the rows it keeps.                    *)

Merges ==
  \A q \in Requests : Kept(q) =>
    \/ results'[q] = results[q]
    \/ \E i \in Result : results'[q] = Merged(q, results[q], i)

(* A write merges into the result of its request and leaves the others.     *)
LEMMA WriteMerges ==
  ASSUME TypeOK, NEW r \in Requests, NEW i \in Result, NEW rows,
         write_result(rows, r, i)
  PROVE  Merges
BY DEF TypeOK, write_result, Merges

(* Every step merges into a kept row's result or leaves it.                 *)
LEMMA StepMerges ==
  ASSUME IInv, [Next]_vars
  PROVE  Merges
<1> USE DEF IInv
<1>1. CASE UNCHANGED results
  BY <1>1 DEF Merges
<1>2. ASSUME NEW t \in Tasks, Admit(t) PROVE Merges
  <2>1. CASE UNCHANGED durable
    BY <1>1, <2>1 DEF durable
  <2>2. CASE ~UNCHANGED durable
    <3>1. tasks[t] \in ActiveTask
      BY <1>2 DEF Admit, TypeOK, Task, NoTask
    <3>2. tasks[t].req \in Requests /\ command_result(tasks[t].content, "Admitted") \in Result
      BY <3>1, CommandResultType DEF ActiveTask, Lifecycle, Unresolved
    <3> QED
      BY <1>2, <2>2, <3>2, WriteMerges DEF Admit
  <2> QED
    BY <2>1, <2>2
<1>3. ASSUME NEW t \in Tasks, Mark(t) PROVE Merges
  <2>1. tasks[t] \in ActiveTask
    BY <1>3 DEF Mark, TypeOK, Task, NoTask
  <2>2. tasks[t].req \in Requests /\ command_result(tasks[t].content, "Dispatched") \in Result
    BY <2>1, CommandResultType DEF ActiveTask, Lifecycle, Unresolved
  <2> QED
    BY <1>3, <2>2, WriteMerges DEF Mark
<1>4. ASSUME NEW t \in Tasks, Persist(t) PROVE Merges
  <2>1. tasks[t] \in ActiveTask /\ tasks[t].outcome # "none"
    BY <1>4 DEF Persist, TypeOK, TasksOK, Task, NoTask
  <2>2. /\ tasks[t].req \in Requests
        /\ command_result(tasks[t].content, tasks[t].outcome) \in Result
    BY <2>1, CommandResultType
    DEF ActiveTask, Lifecycle, Final, Unresolved, ProtocolResponse
  <2> QED
    BY <1>4, <2>2, WriteMerges DEF Persist
<1>5. ASSUME NEW w \in Writers, WriteEvidence(w) PROVE Merges
  <2>1. writers[w].req \in Requests /\ writers[w].copy \in Result
    BY <1>5 DEF WriteEvidence, TypeOK, Writer, NoWriter, NewWriter, HoldingWriter
  <2> QED
    BY <1>1, <1>5, <2>1, WriteMerges DEF WriteEvidence, durable
<1>6. ASSUME RecoverOne PROVE Merges
  <2>1. PICK r \in startup.page :
          \/ /\ results[r] # NoResult
             /\ write_result(commands, r, [results[r] EXCEPT !.lifecycle = "Uncertain"])
          \/ UNCHANGED durable
    BY <1>6 DEF RecoverOne
  <2>2. r \in Requests
    BY DEF TypeOK
  <2>3. results[r] # NoResult => [results[r] EXCEPT !.lifecycle = "Uncertain"] \in Result
    BY <2>2 DEF TypeOK, Result, Lifecycle, Unresolved
  <2> QED
    BY <1>1, <2>1, <2>2, <2>3, WriteMerges DEF durable
<1>7. ASSUME NEW S \in SUBSET Requests, prune(S) PROVE Merges
  BY <1>7 DEF prune, Merges, Kept
<1> QED
  BY ZenonT(40), <1>1, <1>2, <1>3, <1>4, <1>5, <1>6, <1>7
  DEF Next, Host, TaskStep, Station, CallStep, LaterEvidence, WriterStep, Retention,
      Recovery, vars, durable, Submit, Lookup, Duplicate, Context, Dispatch, Reread, Abort,
      Attach, SocketEnds, Remove, Transmit, NotTransmitted, WriteFailed, Reply,
      NoUsableReply, ObservedEffect, LateReply, ReadCommand, ReadResult, AbortWriter,
      Age, Crash, RecoverPage

(* The merge never lowers the rank, never replaces a final lifecycle, and   *)
(* leaves uncertainty only by a correlated reply.                           *)
LEMMA MergedMonotone ==
  ASSUME NEW r \in Requests, NEW p \in Result, NEW i \in Result
  PROVE  LET new == Merged(r, p, i).lifecycle IN
           /\ lifecycle_rank(new) >= lifecycle_rank(p.lifecycle)
           /\ p.lifecycle \in Final => new = p.lifecycle
           /\ p.lifecycle = "Uncertain" /\ new # p.lifecycle => r \in Correlated
<1> DEFINE new == Merged(r, p, i).lifecycle
<1>1. new = IF KeepsPrevious(r, p.lifecycle, i.lifecycle) THEN p.lifecycle ELSE i.lifecycle
  BY ConstantsAssumption DEF Merged, Result
<1>2. p.lifecycle \in Lifecycle /\ i.lifecycle \in Lifecycle
  BY DEF Result
<1> HIDE DEF new
<1> QED
  BY <1>1, <1>2
  DEF new, KeepsPrevious, Correlates, lifecycle_rank, Lifecycle, Final, Unresolved,
      ProtocolResponse

(* The merge keeps every recorded effect.                                   *)
LEMMA MergedEffects ==
  ASSUME NEW r \in Requests, NEW p \in Result, NEW i \in Result
  PROVE  p.effects \subseteq Merged(r, p, i).effects
BY ConstantsAssumption DEF Merged, Result

(* A kept row has a result on both sides of a step.                         *)
LEMMA KeptResult ==
  ASSUME IInv, NEW q \in Requests, Kept(q)
  PROVE  results[q] \in Result
BY DEF IInv, TypeOK, UnresolvedColumn, Kept

(* No interleaving of submissions, late replies, observed effects and       *)
(* restarts moves a stored lifecycle back.                                  *)
THEOREM NeverMovesBack == Spec => LifecycleMonotone
<1>1. IInv /\ [Next]_vars => [NeverBack]_vars
  <2> SUFFICES ASSUME IInv, [Next]_vars, NEW q \in Requests, Kept(q)
               PROVE  LET old == results[q].lifecycle
                          new == results'[q].lifecycle
                      IN /\ lifecycle_rank(new) >= lifecycle_rank(old)
                         /\ old \in Final => new = old
                         /\ old = "Uncertain" /\ new # old => q \in Correlated
    BY DEF NeverBack
  <2>1. results[q] \in Result
    BY KeptResult
  <2>2. CASE results'[q] = results[q]
    BY <2>1, <2>2 DEF Result, Lifecycle, Final, Unresolved, ProtocolResponse, lifecycle_rank
  <2>3. ASSUME NEW i \in Result, results'[q] = Merged(q, results[q], i)
        PROVE  LET old == results[q].lifecycle
                   new == results'[q].lifecycle
               IN /\ lifecycle_rank(new) >= lifecycle_rank(old)
                  /\ old \in Final => new = old
                  /\ old = "Uncertain" /\ new # old => q \in Correlated
    BY <2>1, <2>3, MergedMonotone
  <2> QED
    BY <2>2, <2>3, StepMerges DEF Merges
<1> QED
  BY <1>1, Inductive, PTL DEF Spec, LifecycleMonotone

(* No interleaving of writers loses a recorded effect.                      *)
THEOREM NeverLosesEffects == Spec => EffectsNeverLost
<1>1. IInv /\ [Next]_vars => [KeepsEffects]_vars
  <2> SUFFICES ASSUME IInv, [Next]_vars, NEW q \in Requests, Kept(q)
               PROVE  results[q].effects \subseteq results'[q].effects
    BY DEF KeepsEffects
  <2>1. results[q] \in Result
    BY KeptResult
  <2> QED
    BY <2>1, StepMerges, MergedEffects DEF Merges
<1> QED
  BY <1>1, Inductive, PTL DEF Spec, EffectsNeverLost

(* Admission removes no row.                                                *)
LEMMA AdmitKeepsRows ==
  ASSUME IInv, NEW t \in Tasks, Admit(t), NEW q \in Requests, commands[q] # NoCommand
  PROVE  commands'[q] # NoCommand
<1> USE DEF IInv
<1>1. CASE UNCHANGED durable
  BY <1>1 DEF durable
<1>2. CASE ~UNCHANGED durable
  <2>1. PICK r \in Requests : tasks[t] \in ActiveTask /\ tasks[t].req = r
    BY DEF Admit, TypeOK, Task, ActiveTask, NoTask
  <2> DEFINE rows == [commands EXCEPT ![r] = NewRow(t)]
  <2>2. /\ commands[r] = NoCommand
        /\ write_result(rows, r, command_result(tasks[t].content, "Admitted"))
    BY <1>2, <2>1 DEF Admit
  <2>3. rows[q] = commands[q] /\ q # r
    BY <2>2 DEF TypeOK
  <2> HIDE DEF rows
  <2>4. commands'[q] = rows[q]
    BY <2>2, <2>3 DEF write_result
  <2> QED
    BY <2>3, <2>4
<1> QED
  BY <1>1, <1>2

(* Only prune removes a row, and only one whose column says resolved.       *)
LEMMA OnlyPruneRemoves ==
  ASSUME IInv, [Next]_vars, NEW q \in Requests,
         commands[q] # NoCommand, commands'[q] = NoCommand
  PROVE  ~commands[q].unresolved
<1> USE DEF IInv
<1>1. CASE UNCHANGED commands
  BY <1>1
<1>2. ASSUME SameRows PROVE FALSE
  BY <1>2 DEF SameRows
<1>3. ASSUME NEW t \in Tasks, Admit(t) PROVE FALSE
  BY <1>3, AdmitKeepsRows
<1>4. ASSUME NEW t \in Tasks, Mark(t) PROVE FALSE
  <2>1. tasks[t] \in ActiveTask
    BY <1>4 DEF Mark, TypeOK, Task, NoTask
  <2>2. tasks[t].req \in Requests /\ command_result(tasks[t].content, "Dispatched") \in Result
    BY <2>1, CommandResultType DEF ActiveTask, Lifecycle, Unresolved
  <2> QED
    BY <1>2, <1>4, <2>2, WriteResult DEF Mark
<1>5. ASSUME NEW t \in Tasks, Persist(t) PROVE FALSE
  <2>1. tasks[t] \in ActiveTask /\ tasks[t].outcome # "none"
    BY <1>5 DEF Persist, TypeOK, TasksOK, Task, NoTask
  <2>2. /\ tasks[t].req \in Requests
        /\ command_result(tasks[t].content, tasks[t].outcome) \in Result
    BY <2>1, CommandResultType
    DEF ActiveTask, Lifecycle, Final, Unresolved, ProtocolResponse
  <2> QED
    BY <1>2, <1>5, <2>2, WriteResult DEF Persist
<1>6. ASSUME NEW w \in Writers, WriteEvidence(w) PROVE FALSE
  <2>1. writers[w].req \in Requests /\ writers[w].copy \in Result
    BY <1>6 DEF WriteEvidence, TypeOK, Writer, NoWriter, NewWriter, HoldingWriter
  <2> QED
    BY <1>2, <1>6, <2>1, WriteResult DEF WriteEvidence, durable
<1>7. ASSUME RecoverOne PROVE FALSE
  <2>1. PICK r \in startup.page :
          \/ /\ results[r] # NoResult
             /\ write_result(commands, r, [results[r] EXCEPT !.lifecycle = "Uncertain"])
          \/ UNCHANGED durable
    BY <1>7 DEF RecoverOne
  <2>2. r \in Requests
    BY DEF TypeOK
  <2>3. results[r] # NoResult => [results[r] EXCEPT !.lifecycle = "Uncertain"] \in Result
    BY <2>2 DEF TypeOK, Result, Lifecycle, Unresolved
  <2> QED
    BY <1>2, <2>1, <2>2, <2>3, WriteResult DEF durable
<1>8. ASSUME NEW S \in SUBSET Requests, prune(S) PROVE ~commands[q].unresolved
  BY <1>8 DEF prune
<1>9. ASSUME NEW r \in Requests, Age(r) PROVE FALSE
  <2>1. commands[r] \in Command /\ commands' = [commands EXCEPT ![r].aged = TRUE]
    BY <1>9 DEF Age, TypeOK
  <2>2. [commands[r] EXCEPT !.aged = TRUE] \in Command
    BY <2>1 DEF Command
  <2> QED
    BY ZenonT(40), <2>1, <2>2, ConstantsAssumption DEF TypeOK
<1> QED
  BY ZenonT(40), <1>1, <1>3, <1>4, <1>5, <1>6, <1>7, <1>8, <1>9
  DEF Next, Host, TaskStep, Station, CallStep, LaterEvidence, WriterStep, Retention,
      Recovery, vars, durable, Submit, Lookup, Duplicate, Context, Dispatch, Reread, Abort,
      Attach, SocketEnds, Remove, Transmit, NotTransmitted, WriteFailed, Reply,
      NoUsableReply, ObservedEffect, LateReply, ReadCommand, ReadResult, AbortWriter,
      Crash, RecoverPage

(* Only a row with a final outcome disappears.                              *)
THEOREM NeverForgetsUncertain == Spec => UncertainIsNeverForgotten
<1>1. IInv /\ [Next]_vars => [ForgetsOnlyFinal]_vars
  <2> SUFFICES ASSUME IInv, [Next]_vars, NEW q \in Requests,
                      commands[q] # NoCommand, commands'[q] = NoCommand
               PROVE  results[q].lifecycle \in Final
    BY DEF ForgetsOnlyFinal
  <2>1. results[q] \in Result /\ (commands[q].unresolved <=> results[q].lifecycle \in Unresolved)
    BY DEF IInv, TypeOK, UnresolvedColumn
  <2>2. ~commands[q].unresolved
    BY OnlyPruneRemoves
  <2> QED
    BY <2>1, <2>2 DEF Result, Lifecycle
<1> QED
  BY <1>1, Inductive, PTL DEF Spec, UncertainIsNeverForgotten
=============================================================================
