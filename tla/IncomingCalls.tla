--------------------------- MODULE IncomingCalls ---------------------------
(* The calls a station makes on its socket.                                 *)
(*                                                                          *)
(* The socket's task checks the message ID, decodes the call and puts it in *)
(* a bounded queue (call/runtime/incoming.rs).  The station loop of the     *)
(* host (charging/runtime.rs) handles one call at a time, after the         *)
(* diagnostics of the session; the responder of the call puts the answer in *)
(* a second bounded queue (call/types.rs), which the socket's task drains.  *)
(* The two tasks interleave freely: while the socket's task is suspended in *)
(* a write, only the host runs.                                             *)
EXTENDS Naturals, Sequences

CONSTANTS
  Ids,              \* message IDs the station uses
  IncomingCapacity, \* incoming_call_capacity: of the calls and of the replies
  HistoryCapacity,  \* diagnostic_capacity: of recent_incoming, diagnostics
  MaxFrames         \* bound: frames the session accepts

ASSUME IncomingAssumption ==
  /\ IncomingCapacity \in Nat \ {0}
  /\ HistoryCapacity \in Nat \ {0}
  /\ MaxFrames \in Nat

VARIABLES
  log,              \* accepted frames in order: a call is its place in log
  incoming,         \* queue of calls for the host
  diagnostics,      \* number of diagnostics queued for the host
  held,             \* the call the host has, and its responder
  replies,          \* queue of answers for the socket
  incoming_ids,     \* SessionState.incoming_ids
  recent_incoming,  \* SessionState.recent_incoming
  alive,            \* the socket's task runs
  host,             \* the station loop: "serving" or "stopped"
  (* History: how often each frame was answered on the socket, the answers *)
  (* that found the reply queue full, and the calls whose last answer the  *)
  (* byte budget of the process refused.                                    *)
  answers, lost, refused

vars == <<log, incoming, diagnostics, held, replies, incoming_ids,
          recent_incoming, alive, host, answers, lost, refused>>

Kind   == {"Response", "CallError", "InternalError"}
Answer == [call : 1 .. MaxFrames, kind : Kind]

(* A call being handled, or whose responder is about to be dropped; whether *)
(* the responder still has its sender, and whether the loop will end.       *)
NoCall == [call |-> 0, pc |-> "none", sender |-> FALSE, ends |-> FALSE]
Held   == [call : 1 .. MaxFrames, pc : {"handling", "dropping"},
           sender : BOOLEAN, ends : BOOLEAN]

Elements(s) == {s[i] : i \in DOMAIN s}

(* Type invariant: the queues and the history stay within their capacity.   *)
TypeOK ==
  /\ log \in Seq([id : Ids, report : BOOLEAN]) /\ Len(log) <= MaxFrames
  /\ incoming \in Seq(1 .. MaxFrames) /\ Len(incoming) <= IncomingCapacity
  /\ diagnostics \in 0 .. HistoryCapacity
  /\ held \in Held \cup {NoCall}
  /\ replies \in Seq(1 .. MaxFrames) /\ Len(replies) <= IncomingCapacity
  /\ incoming_ids \subseteq Ids
  /\ recent_incoming \in Seq(Ids) /\ Len(recent_incoming) <= HistoryCapacity
  /\ alive \in BOOLEAN
  /\ host \in {"serving", "stopped"}
  /\ answers \in [1 .. MaxFrames -> Nat]
  /\ lost \subseteq Answer
  /\ refused \subseteq 1 .. MaxFrames

Init ==
  /\ log = <<>> /\ incoming = <<>> /\ diagnostics = 0
  /\ held = NoCall /\ replies = <<>>
  /\ incoming_ids = {} /\ recent_incoming = <<>>
  /\ alive = TRUE /\ host = "serving"
  /\ answers = [n \in 1 .. MaxFrames |-> 0] /\ lost = {} /\ refused = {}

-----------------------------------------------------------------------------
(* The socket's task.                                                       *)

RetainPopsBack(id) ==
  IF Len(recent_incoming) = HistoryCapacity
  THEN Append(SubSeq(recent_incoming, 1, HistoryCapacity - 1), id)
  ELSE Append(recent_incoming, id)

retain_recent(id) ==
  IF Len(recent_incoming) = HistoryCapacity
  THEN Append(Tail(recent_incoming), id)
  ELSE Append(recent_incoming, id)

(* The duplicate check of process and report.                               *)
FreshId(id) ==
  /\ alive
  /\ Len(log) < MaxFrames
  /\ id \notin incoming_ids
  /\ id \notin Elements(recent_incoming)

(* process, on a call that is delivered: the host keeps its end of the      *)
(* queue open until the session has ended.                                  *)
Deliver(id) ==
  /\ FreshId(id)
  /\ Len(incoming) < IncomingCapacity
  /\ log' = Append(log, [id |-> id, report |-> FALSE])
  /\ incoming' = Append(incoming, Len(log) + 1)
  /\ incoming_ids' = incoming_ids \cup {id}
  /\ recent_incoming' = retain_recent(id)
  /\ UNCHANGED <<diagnostics, held, replies, alive, host, answers, lost, refused>>

(* report: a native report fragment is routed and answered in place; only   *)
(* the history remembers its ID.                                            *)
Report(id) ==
  /\ FreshId(id)
  /\ log' = Append(log, [id |-> id, report |-> TRUE])
  /\ recent_incoming' = retain_recent(id)
  /\ answers' = [answers EXCEPT ![Len(log) + 1] = @ + 1]
  /\ UNCHANGED <<incoming, diagnostics, held, replies, incoming_ids, alive, host,
                 lost, refused>>

(* A duplicate call, a malformed frame or an uncorrelated reply changes     *)
(* nothing but the diagnostics, which emit drops when their queue is full.  *)
(* A call that does not decode, or that the byte budget or the queue of     *)
(* calls refuses, gets its CALLERROR at once: a stuttering step.            *)
RefuseFrame ==
  /\ alive
  /\ diagnostics < HistoryCapacity
  /\ diagnostics' = diagnostics + 1
  /\ UNCHANGED <<log, incoming, held, replies, incoming_ids, recent_incoming,
                 alive, host, answers, lost, refused>>

SendReplyKeepsId ==
  /\ alive
  /\ replies # <<>>
  /\ replies' = Tail(replies)
  /\ answers' = [answers EXCEPT ![Head(replies)] = @ + 1]
  /\ UNCHANGED <<log, incoming, diagnostics, held, incoming_ids, recent_incoming,
                 alive, host, lost, refused>>

(* The reply branch of run_session.  A write that fails ends the session.   *)
SendReply ==
  /\ alive
  /\ replies # <<>>
  /\ replies' = Tail(replies)
  /\ incoming_ids' = incoming_ids \ {log[Head(replies)].id}
  /\ answers' = [answers EXCEPT ![Head(replies)] = @ + 1]
  /\ UNCHANGED <<log, incoming, diagnostics, held, recent_incoming, alive, host,
                 lost, refused>>

(* The task ends; answers still queued go with it.                          *)
SessionEnds ==
  /\ alive
  /\ alive' = FALSE
  /\ replies' = <<>>
  /\ incoming_ids' = {}
  /\ recent_incoming' = <<>>
  /\ UNCHANGED <<log, incoming, diagnostics, held, host, answers, lost, refused>>

-----------------------------------------------------------------------------
(* The host's station loop.                                                 *)

(* The select is biased: a queued diagnostic goes before a queued call.     *)
(* But the socket's task may queue one between the polls of the two.        *)
TakeCall ==
  /\ host = "serving"
  /\ held = NoCall
  /\ incoming # <<>>
  /\ held' = [call |-> Head(incoming), pc |-> "handling", sender |-> TRUE,
              ends |-> FALSE]
  /\ incoming' = Tail(incoming)
  /\ UNCHANGED <<log, diagnostics, replies, incoming_ids, recent_incoming, alive,
                 host, answers, lost, refused>>

(* late_response on a diagnostic; it ends the loop when storage fails.      *)
TakeDiagnostic ==
  /\ host = "serving"
  /\ held = NoCall
  /\ diagnostics > 0
  /\ diagnostics' = diagnostics - 1
  /\ host' \in {"serving", "stopped"}
  /\ UNCHANGED <<log, incoming, held, replies, incoming_ids, recent_incoming,
                 alive, answers, lost, refused>>

SendKeepsSender(a, accepted, sender) ==
  /\ sender = held.sender
  /\ \/ /\ held.sender => ~accepted
        /\ UNCHANGED <<replies, lost>>
     \/ /\ held.sender
        /\ accepted = (alive /\ Len(replies) < IncomingCapacity)
        /\ replies' = IF accepted THEN Append(replies, a.call) ELSE replies
        /\ lost' = IF alive /\ ~accepted THEN lost \cup {a} ELSE lost

SendUnbounded(a, accepted, sender) ==
  /\ sender = FALSE
  /\ accepted = alive
  /\ replies' = IF held.sender /\ alive THEN Append(replies, a.call) ELSE replies
  /\ UNCHANGED lost

(* IncomingCallResponder::send: does nothing once the sender is taken.  The *)
(* byte budget is asked first, and its refusal leaves the sender in place;  *)
(* then the sender is taken, whether or not the queue has room.             *)
Send(a, accepted, sender) ==
  \/ /\ ~held.sender
     /\ accepted /\ ~sender
     /\ UNCHANGED <<replies, lost>>
  \/ /\ held.sender
     /\ ~accepted /\ sender
     /\ UNCHANGED <<replies, lost>>
  \/ /\ held.sender /\ ~sender
     /\ accepted = (alive /\ Len(replies) < IncomingCapacity)
     /\ replies' = IF accepted THEN Append(replies, a.call) ELSE replies
     /\ lost' = IF alive /\ ~accepted THEN lost \cup {a} ELSE lost

(* handle_call answers by respond or reject.  The loop ends after an        *)
(* InternalError and after a response that was not queued; after another    *)
(* CALLERROR that was not queued it ends too, except that registration      *)
(* ignores the failure.  It may also end on the update that follows.        *)
Respond(kind) ==
  /\ held.pc = "handling"
  /\ \E accepted, sender, ends \in BOOLEAN :
       /\ Send([call |-> held.call, kind |-> kind], accepted, sender)
       /\ kind = "InternalError" => ends
       /\ kind = "Response" /\ ~accepted => ends
       /\ held' = [held EXCEPT !.pc = "dropping", !.sender = sender, !.ends = ends]
  /\ UNCHANGED <<log, incoming, diagnostics, incoming_ids, recent_incoming, alive,
                 host, answers, refused>>

(* begin_snapshot_commit or handle_call fails without an answer.            *)
Fail ==
  /\ held.pc = "handling"
  /\ held' = [held EXCEPT !.pc = "dropping", !.ends = TRUE]
  /\ UNCHANGED <<log, incoming, diagnostics, replies, incoming_ids,
                 recent_incoming, alive, host, answers, lost, refused>>

DropSilently ==
  /\ held.pc = "dropping"
  /\ held' = NoCall
  /\ host' = IF held.ends THEN "stopped" ELSE host
  /\ UNCHANGED <<log, incoming, diagnostics, replies, incoming_ids,
                 recent_incoming, alive, answers, lost, refused>>

(* Drop of the responder: one more send, of an InternalError, whose result  *)
(* is ignored.                                                              *)
Drop ==
  /\ held.pc = "dropping"
  /\ \E accepted, sender \in BOOLEAN :
       /\ Send([call |-> held.call, kind |-> "InternalError"], accepted, sender)
       /\ refused' = IF sender THEN refused \cup {held.call} ELSE refused
  /\ held' = NoCall
  /\ host' = IF held.ends THEN "stopped" ELSE host
  /\ UNCHANGED <<log, incoming, diagnostics, incoming_ids, recent_incoming, alive,
                 answers>>

(* The loop ends between calls: the service stops, or the diagnostics       *)
(* channel reports the end of the session.  Calls still queued are dropped  *)
(* after the session, and their responders find it closed.                  *)
HostStops ==
  /\ host = "serving"
  /\ held = NoCall
  /\ host' = "stopped"
  /\ UNCHANGED <<log, incoming, diagnostics, held, replies, incoming_ids,
                 recent_incoming, alive, answers, lost, refused>>

-----------------------------------------------------------------------------
Next ==
  \/ \E id \in Ids : Deliver(id) \/ Report(id)
  \/ RefuseFrame
  \/ SendReply
  \/ SessionEnds
  \/ TakeCall
  \/ TakeDiagnostic
  \/ \E kind \in Kind : Respond(kind)
  \/ Fail
  \/ Drop
  \/ HostStops

Spec == Init /\ [][Next]_vars

(* Handlers end, each await of theirs having a deadline or an answer from   *)
(* the storage worker.  The station loop takes a diagnostic, and a call     *)
(* once no diagnostic waits.  The socket's select is not biased and serves  *)
(* a reply that stays ready, if its writes to the socket end: they have no  *)
(* timeout.  A station loop that stopped shuts its session down, by force   *)
(* after three seconds.                                                     *)
FairSpec ==
  /\ Spec
  /\ WF_vars(diagnostics = 0 /\ TakeCall)
  /\ WF_vars(TakeDiagnostic)
  /\ WF_vars((\E kind \in Kind : Respond(kind)) \/ Fail)
  /\ WF_vars(Drop)
  /\ WF_vars(SendReply)
  /\ WF_vars(host = "stopped" /\ SessionEnds)

-----------------------------------------------------------------------------
Calls         == {n \in DOMAIN log : ~log[n].report}
Answered      == {n \in DOMAIN log : answers[n] > 0}
Outstanding   == Calls \ Answered

(* Safety: no call is answered twice, although the drop of its responder    *)
(* always sends after respond or reject did, and does send an answer when   *)
(* the byte budget refused theirs.                                          *)
AnsweredOnce == \A n \in 1 .. MaxFrames : answers[n] <= 1

(* Safety: while the session lives, incoming_ids holds exactly the IDs of   *)
(* the calls not answered yet, lost answers included, and no two of these   *)
(* calls share an ID: an answer can only be read as the answer to one call. *)
IdsAreReserved ==
  alive => /\ incoming_ids = {log[n].id : n \in Outstanding}
           /\ \A m, n \in Outstanding : log[m].id = log[n].id => m = n

(* Safety: a message ID reaches the application, or a report collector,     *)
(* again only when its earlier call was answered and recent_incoming took   *)
(* in HistoryCapacity other frames since.                                   *)
DeliveredOncePerWindow ==
  \A m, n \in DOMAIN log :
    m < n /\ log[m].id = log[n].id => m \in Answered /\ n - m > HistoryCapacity

Unanswerable(n) == (\E a \in lost : a.call = n) \/ n \in refused

(* Liveness: once the station sends no more frames that queue diagnostics,  *)
(* which the biased select puts first, every delivered call is answered, or *)
(* its session ends, or its answer found the reply queue full, or the byte  *)
(* budget refused the answer its drop sent.  Assumes that a write to the    *)
(* socket ends, by completing or by failing.                                *)
CallsAreAnswered ==
  <>[](diagnostics = 0) =>
    \A n \in 1 .. MaxFrames :
      n \in DOMAIN log ~> n \in Answered \/ Unanswerable(n) \/ ~alive

(* The responder promises an InternalError for every call the application   *)
(* leaves without an answer.  On a live session it does not keep it when    *)
(* the reply queue is full.                                                 *)
MissingBecomesInternalError == \A a \in lost : a.kind # "InternalError"
=============================================================================
