---------------------------- MODULE CallSession ----------------------------
(* One station socket and the calls the bridge makes on it.                 *)
(*                                                                          *)
(* A single task owns the socket (adapters/protocol/src/call/runtime.rs).   *)
(* Its select loop takes queued calls, reads frames, expires deadlines and  *)
(* ends; a branch that writes to the socket suspends the whole loop until   *)
(* the write completes or fails.  Replies are matched by message ID, and an *)
(* ID is kept in bounded histories after its call ended so that a reply     *)
(* that comes late is not taken for the reply to a newer call.              *)
EXTENDS Naturals, Sequences

CONSTANTS
  Attempts,         \* calls offered to the session handle, each once
  IdOf,             \* their message IDs, in the order of the ID strings
  Reservations,     \* calls whose action is ReserveNow or CancelReservation
  PendingCapacity,  \* pending_call_capacity: queued, and awaiting a reply
  HistoryCapacity,  \* diagnostic_capacity: entries of each history
  NoAttempt

ASSUME CallSessionAssumption ==
  /\ IdOf \in [Attempts -> Nat]
  /\ Reservations \subseteq Attempts
  /\ PendingCapacity \in Nat \ {0}
  /\ HistoryCapacity \in Nat \ {0}
  /\ NoAttempt \notin Attempts

VARIABLES
  queue,      \* the outbound channel
  pending,    \* SessionState.pending, in the order of the deadlines
  timed_out,  \* SessionState.timed_out: calls that ended without an answer
  retired,    \* SessionState.retired_outbound: IDs
  session,    \* the task, the call it is writing, whether writes still work
  outcome,    \* what the PendingCall of each attempt resolved to
  (* History: calls whose bytes may have reached the station; whose reply   *)
  (* each call was given; late reservation replies reported; IDs a full     *)
  (* history let go of.                                                     *)
  wire, answeredBy, reported, evicted

vars == <<queue, pending, timed_out, retired, session, outcome, wire,
          answeredBy, reported, evicted>>

NotSent   == {"Refused", "NotTransmitted"}
Unsettled == {"TimedOut", "Unusable"}
Settled   == NotSent \cup Unsettled \cup {"Answered", "Uncertain"}

Elements(s) == {s[i] : i \in DOMAIN s}

(* Type invariant: queues and histories stay within their capacity.         *)
TypeOK ==
  /\ queue \in Seq(Attempts) /\ Len(queue) <= PendingCapacity
  /\ pending \in Seq(Attempts) /\ Len(pending) <= PendingCapacity
  /\ timed_out \in Seq(Attempts) /\ Len(timed_out) <= HistoryCapacity
  /\ retired \in Seq(Nat) /\ Len(retired) <= HistoryCapacity
  /\ session \in [alive : BOOLEAN, sending : Attempts \cup {NoAttempt},
                  broken : BOOLEAN]
  /\ outcome \in [Attempts -> {"new", "open"} \cup Settled]
  /\ wire \subseteq Attempts
  /\ answeredBy \in [Attempts -> SUBSET Attempts]
  /\ reported \in [Attempts -> Nat]
  /\ evicted \subseteq Nat

Init ==
  /\ queue = <<>> /\ pending = <<>> /\ timed_out = <<>> /\ retired = <<>>
  /\ session = [alive |-> TRUE, sending |-> NoAttempt, broken |-> FALSE]
  /\ outcome = [a \in Attempts |-> "new"]
  /\ wire = {} /\ evicted = {}
  /\ answeredBy = [a \in Attempts |-> {}]
  /\ reported = [a \in Attempts |-> 0]

-----------------------------------------------------------------------------
(* The histories.                                                           *)

RetainAll(h, s) == h \o s

(* What is left of history h, and what it let go of, once the entries of s  *)
(* were pushed one by one, a full history popping its front first.          *)
retain_recent(h, s) ==
  LET all == h \o s
      out == IF Len(all) > HistoryCapacity THEN Len(all) - HistoryCapacity ELSE 0
  IN  SubSeq(all, out + 1, Len(all))

Popped(h, s) ==
  LET all == h \o s
      out == IF Len(all) > HistoryCapacity THEN Len(all) - HistoryCapacity ELSE 0
  IN  Elements(SubSeq(all, 1, out))

Ids(A)        == {IdOf[a] : a \in A}
Without(s, i) == SubSeq(s, 1, i - 1) \o SubSeq(s, i + 1, Len(s))

UnavailableIgnoresRetired(a) ==
  \/ Len(pending) = PendingCapacity
  \/ IdOf[a] \in Ids(Elements(pending)) \cup Ids(Elements(timed_out))

(* unavailable_before_send, but for the command's own deadline.             *)
unavailable_before_send(a) ==
  \/ Len(pending) = PendingCapacity
  \/ IdOf[a] \in Ids(Elements(pending)) \cup Ids(Elements(timed_out))
                   \cup Elements(retired)

Resolve(A, o) == [a \in Attempts |-> IF a \in A THEN o ELSE outcome[a]]

Idle == session.alive /\ session.sending = NoAttempt

-----------------------------------------------------------------------------
(* Calls of the bridge.                                                     *)

(* CallSessionHandle::enqueue: validation and the byte budget may refuse a  *)
(* call at any time, as do a full queue and a session that is gone.         *)
Enqueue(a) ==
  /\ outcome[a] = "new"
  /\ \/ /\ session.alive
        /\ Len(queue) < PendingCapacity
        /\ queue' = Append(queue, a)
        /\ outcome' = Resolve({a}, "open")
     \/ /\ outcome' = Resolve({a}, "Refused")
        /\ UNCHANGED queue
  /\ UNCHANGED <<pending, timed_out, retired, session, wire, answeredBy,
                 reported, evicted>>

(* send_outbound up to the write.  A command past its deadline, or whose    *)
(* protected reference cannot be resolved, is not transmitted either.       *)
TakeOutbound ==
  /\ Idle
  /\ queue # <<>>
  /\ queue' = Tail(queue)
  /\ LET a == Head(queue) IN
       \/ /\ outcome' = Resolve({a}, "NotTransmitted")
          /\ UNCHANGED <<session, wire>>
       \/ /\ ~unavailable_before_send(a)
          /\ session' = [session EXCEPT !.sending = a]
          /\ wire' = wire \cup {a}
          /\ UNCHANGED outcome
  /\ UNCHANGED <<pending, timed_out, retired, answeredBy, reported, evicted>>

(* send_outbound after a write that completed: the deadline starts now.     *)
WriteCompletes ==
  /\ session.alive /\ session.sending # NoAttempt /\ ~session.broken
  /\ pending' = Append(pending, session.sending)
  /\ session' = [session EXCEPT !.sending = NoAttempt]
  /\ UNCHANGED <<queue, timed_out, retired, outcome, wire, answeredBy, reported,
                 evicted>>

WriteFailsNotTransmitted ==
  /\ session.alive /\ session.sending # NoAttempt
  /\ outcome' = [Resolve(Elements(pending), "Uncertain")
                   EXCEPT ![session.sending] = "NotTransmitted"]
  /\ pending' = <<>>
  /\ session' = [session EXCEPT !.sending = NoAttempt, !.broken = TRUE]
  /\ UNCHANGED <<queue, timed_out, retired, wire, answeredBy, reported, evicted>>

(* After a write that failed every call of the socket is uncertain, but the *)
(* loop goes on.  A socket that failed a write fails every later one.       *)
WriteFails ==
  /\ session.alive /\ session.sending # NoAttempt
  /\ outcome' = Resolve({session.sending} \cup Elements(pending), "Uncertain")
  /\ pending' = <<>>
  /\ session' = [session EXCEPT !.sending = NoAttempt, !.broken = TRUE]
  /\ UNCHANGED <<queue, timed_out, retired, wire, answeredBy, reported, evicted>>

-----------------------------------------------------------------------------
(* Frames of the station.  It may answer a call it received at any time and *)
(* any number of times; usable says whether a reservation call can read a   *)
(* status from the answer.                                                  *)

(* finish_response, the ID being that of a pending call.                    *)
FinishPending(a, usable) ==
  \E i \in DOMAIN pending :
    LET b    == pending[i]
        keep == b \in Reservations /\ ~usable
        held == IF keep THEN <<b>> ELSE <<>>
    IN  /\ IdOf[b] = IdOf[a]
        /\ pending' = Without(pending, i)
        /\ timed_out' = retain_recent(timed_out, held)
        /\ retired' = retain_recent(retired, <<IdOf[b]>>)
        /\ evicted' = evicted \cup Ids(Popped(timed_out, held))
                              \cup Popped(retired, <<IdOf[b]>>)
        /\ outcome' = Resolve({b}, IF keep THEN "Unusable" ELSE "Answered")
        /\ answeredBy' = [answeredBy EXCEPT ![b] = @ \cup {a}]
        /\ UNCHANGED reported

LateKeepsEntry(a, usable) ==
  /\ IdOf[a] \notin Ids(Elements(pending))
  /\ \E i \in DOMAIN timed_out :
       LET b == timed_out[i] IN
         /\ IdOf[b] = IdOf[a]
         /\ reported' = [reported EXCEPT ![b] = @ + 1]
         /\ answeredBy' = [answeredBy EXCEPT ![b] = @ \cup {a}]
         /\ retired' = retain_recent(retired, <<IdOf[b]>>)
         /\ evicted' = evicted \cup Popped(retired, <<IdOf[b]>>)
  /\ UNCHANGED <<pending, timed_out, outcome>>

(* finish_response, the ID being that of a call that ended without an       *)
(* answer.  A reservation call stays until a status can be read; its late   *)
(* status is reported, the diagnostics channel having room.                 *)
FinishLate(a, usable) ==
  /\ IdOf[a] \notin Ids(Elements(pending))
  /\ \E i \in DOMAIN timed_out :
       LET b == timed_out[i] IN
         /\ IdOf[b] = IdOf[a]
         /\ \A j \in 1 .. i - 1 : IdOf[timed_out[j]] # IdOf[a]
         /\ retired' = retain_recent(retired, <<IdOf[b]>>)
         /\ evicted' = evicted \cup Popped(retired, <<IdOf[b]>>)
         /\ timed_out' = IF b \in Reservations /\ ~usable THEN timed_out
                                                        ELSE Without(timed_out, i)
         /\ \/ /\ b \in Reservations /\ usable
               /\ reported' = [reported EXCEPT ![b] = @ + 1]
               /\ answeredBy' = [answeredBy EXCEPT ![b] = @ \cup {a}]
            \/ UNCHANGED <<reported, answeredBy>>
  /\ UNCHANGED <<pending, outcome>>

(* process_frame on a CALLRESULT or CALLERROR.  Another ID is only          *)
(* diagnosed as unmatched.                                                  *)
Receive(a, usable) ==
  /\ Idle
  /\ a \in wire
  /\ FinishPending(a, usable) \/ FinishLate(a, usable)
  /\ UNCHANGED <<queue, session, wire>>

-----------------------------------------------------------------------------
(* Deadlines and the end of the session.                                    *)

InIdOrder(s) == \A i, j \in DOMAIN s : i < j => IdOf[s[i]] < IdOf[s[j]]

ExpireForgets(k, s) ==
  /\ Idle
  /\ outcome' = Resolve(Elements(s), "TimedOut")
  /\ timed_out' = retain_recent(timed_out, s)
  /\ evicted' = evicted \cup Ids(Popped(timed_out, s))
  /\ UNCHANGED <<queue, pending, retired, session, wire, answeredBy, reported>>

(* expire_calls: every deadline that has passed, the first k, in the order  *)
(* of the map that holds them.                                              *)
ExpireCalls(k, s) ==
  /\ Idle
  /\ Elements(s) = {pending[i] : i \in 1 .. k}
  /\ InIdOrder(s)
  /\ pending' = SubSeq(pending, k + 1, Len(pending))
  /\ outcome' = Resolve(Elements(s), "TimedOut")
  /\ timed_out' = retain_recent(timed_out, s)
  /\ evicted' = evicted \cup Ids(Popped(timed_out, s))
  /\ UNCHANGED <<queue, retired, session, wire, answeredBy, reported>>

ExpireAllButLast ==
  \E k \in 1 .. Len(pending) - 1 :
    \E s \in [1 .. k -> {pending[i] : i \in 1 .. k}] : ExpireCalls(k, s)

Expire == \E k \in 1 .. Len(pending) :
            \E s \in [1 .. k -> {pending[i] : i \in 1 .. k}] : ExpireCalls(k, s)

(* The loop returns on shutdown, disconnection, a binary frame or a failed  *)
(* reply, or the task is aborted, a write being in progress or not.  Calls  *)
(* still queued resolve when their result channel closes.                   *)
SessionEnds ==
  /\ session.alive
  /\ session' = [session EXCEPT !.alive = FALSE, !.sending = NoAttempt]
  /\ outcome' = Resolve({session.sending} \cup Elements(pending) \cup Elements(queue),
                        "Uncertain")
  /\ queue' = <<>> /\ pending' = <<>>
  /\ UNCHANGED <<timed_out, retired, wire, answeredBy, reported, evicted>>

-----------------------------------------------------------------------------
Next ==
  \/ \E a \in Attempts : Enqueue(a)
  \/ TakeOutbound
  \/ WriteCompletes
  \/ WriteFails
  \/ \E a \in Attempts, usable \in BOOLEAN : Receive(a, usable)
  \/ Expire
  \/ SessionEnds

Spec == Init /\ [][Next]_vars

(* The select loop polls its branches in random order, so a ready branch is *)
(* not passed over forever; a write completes or fails.  Nothing obliges    *)
(* the station to answer or the session to end.                             *)
FairSpec ==
  /\ Spec
  /\ WF_vars(TakeOutbound)
  /\ WF_vars(WriteCompletes \/ WriteFails)
  /\ WF_vars(Expire)

-----------------------------------------------------------------------------
(* Safety: a call reported as not sent (refused by enqueue, or resolved     *)
(* NotTransmitted by send_outbound) never had a byte of it written.         *)
NotTransmittedMeansUnsent ==
  \A a \in Attempts : outcome[a] \in NotSent => a \notin wire

(* Safety: finish_response gives a call the reply to another call only      *)
(* after a full history let go of their common message ID.  Timeouts,       *)
(* unusable answers and failed writes never free an ID by themselves.       *)
NoStaleReply ==
  \A b \in Attempts : \A a \in answeredBy[b] : a # b => IdOf[b] \in evicted

(* Safety: the late status of a reservation call is reported at most once,  *)
(* and only for a call that ended without a usable answer.                  *)
LateReportedOnce ==
  \A a \in Attempts :
    reported[a] > 0 => reported[a] = 1 /\ outcome[a] \in Unsettled

(* The state a caller can tell a call to be in.                             *)
StatusOf(a) ==
  IF outcome[a] # "open" THEN outcome[a]
  ELSE IF a \in Elements(queue) THEN "queued" ELSE "sent"

Contract == INSTANCE CallContract
              WITH status <- [a \in Attempts |-> StatusOf(a)],
                   late <- {a \in Attempts : reported[a] > 0}

(* Refinement: whatever IDs are reused, replies duplicated and histories    *)
(* overrun, a session keeps the contract of its calls: each resolves once,  *)
(* from a state it can be in.                                               *)
KeepsContract == Contract!Spec

(* Liveness: every call the handle accepted resolves, however the station   *)
(* answers or stays silent, by an answer, its deadline, a failed write or   *)
(* the session's end.  It assumes that every write completes or fails: the  *)
(* write in send_outbound has no timeout, and a station that stops reading  *)
(* can hold the loop, and the deadlines with it, for as long as the         *)
(* transport lets it.                                                       *)
EveryCallSettles ==
  \A a \in Attempts : outcome[a] = "open" ~> outcome[a] \in Settled
=============================================================================
