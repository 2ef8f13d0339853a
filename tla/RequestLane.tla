------------------------------ MODULE RequestLane ------------------------------
(***************************************************************************)
(* The lane of a Controller serving requests over a serial stream           *)
(* (crates/easycon-controller/src/session.rs on top of SerialStream):       *)
(* connecting, commands that wait for a reply, selecting and saving an      *)
(* Amiibo, with their retries, cleanup resets and failures, under           *)
(* cancellation and close.                                                  *)
(*                                                                         *)
(* Reports, leases and sequences are ControllerLane's; here the lane has    *)
(* none, so a request is never deferred behind a report, and the neutral    *)
(* report of close is the only one. Wakes are left out: nothing here waits  *)
(* for one. Cancel stands for the caller, the operation's deadline and the  *)
(* Runtime's close; the token follows the operation's state at once. The    *)
(* transport's close cannot fail, so there is no permanent failure.         *)
(***************************************************************************)
EXTENDS SerialStream, FiniteSets

CONSTANTS Connects, Acks, Selects, Saves,  \* requests, by kind
          Bauds,       \* AUTO_BAUD_RATES.len()
          Chunks,      \* chunks of an Amiibo
          MaxRetries,  \* options.maximum_chunk_retries
          MaxCancels,  \* bound: cancelled operations
          MaxRequests  \* bound: requests of one run

ASSUME RequestAssumption ==
  /\ Bauds \in Nat \ {0} /\ Chunks \in Nat \ {0}
  /\ MaxRetries \in Nat /\ MaxCancels \in Nat /\ MaxRequests \in Nat

Requests == Connects \union Acks \union Selects \union Saves
NoRequest == "none"

(* A command has one kind *)
ASSUME RequestsHaveOneKind ==
  /\ NoRequest \notin Requests
  /\ Connects \cap (Acks \union Selects \union Saves) = {}
  /\ Saves \cap (Acks \union Selects) = {}

VARIABLES
  op,        \* state of each request's Operation
  sub,       \* the submitting thread of each request
  inbox,     \* the lane's command channel
  closer,    \* the thread in close_internal
  conn,      \* ControllerState
  lane,      \* the lane's thread and its locals
  deferred,  \* close_deferred_operations
  cancels,   \* how many operations were cancelled
  clean,     \* history: nothing was owed when the request began
  fooled     \* history: a reply to an earlier exchange completed a later one

clients == <<op, sub, inbox, closer, cancels>>
history == <<clean, fooled>>
vars == <<serialVars, clients, conn, lane, deferred, history>>

ResourceCancelled == closer \in {"sent", "done"}
Closing == closer # "idle"
IsTerminal(r) == op[r] \in {"succeeded", "failed", "cancelled"}

(* operation.cancellation_token(), a child of the resource's *)
Token(r) == op[r] = "cancelling" \/ ResourceCancelled

(* The tokens a call carries: none for the neutral report, the resource's   *)
(* for a cleanup reset, both for the rest                                   *)
CallCancelled ==
  CASE lane.pc = "neutral" -> FALSE
    [] lane.pc # "neutral" /\ lane.use = "cleanup" -> ResourceCancelled
    [] OTHER -> lane.r # NoRequest /\ Token(lane.r)

AtRest == [pc |-> "top", r |-> NoRequest, frame |-> NoFrame, use |-> "main",
           tries |-> 0, result |-> "ok", held |-> {}]

Init ==
  /\ SerialInit
  /\ op = [r \in Requests |-> "absent"]
  /\ sub = [r \in Requests |-> "idle"]
  /\ inbox = << >> /\ closer = "idle" /\ cancels = 0
  /\ conn = "disconnected"
  /\ lane = AtRest
  /\ deferred = {}
  /\ clean = TRUE /\ fooled = "no"

-----------------------------------------------------------------------------
(* Threads that submit, cancel and close                                    *)

(* enqueue_operation: admission is looked at, the operation is created, and *)
(* under the gate it is looked at again. One thread submits the requests,   *)
(* in any order, and keeps at most one of them waiting.                     *)
Admit(r) ==
  /\ sub[r] = "idle" /\ inbox = << >>
  /\ \A other \in Requests : sub[other] # "created"
  /\ Cardinality({other \in Requests : sub[other] # "idle"}) < MaxRequests
  /\ IF Closing
     THEN sub' = [sub EXCEPT ![r] = "refused"] /\ UNCHANGED op
     ELSE /\ sub' = [sub EXCEPT ![r] = "created"]
          /\ op' = [op EXCEPT ![r] = "created"]
  /\ UNCHANGED <<serialVars, inbox, closer, cancels, conn, lane, deferred,
                 history>>

FailedOrCancelled(r) ==
  IF op[r] = "cancelling" THEN "cancelled" ELSE "failed"

Send(r) ==
  /\ sub[r] = "created"
  /\ IF Closing \/ lane.pc \in {"ended", "panicked"}
     THEN /\ sub' = [sub EXCEPT ![r] = "refused"]
          /\ op' = [op EXCEPT ![r] = FailedOrCancelled(r)]
          /\ UNCHANGED inbox
     ELSE /\ sub' = [sub EXCEPT ![r] = "sent"]
          /\ inbox' = Append(inbox, r)
          /\ UNCHANGED op
  /\ UNCHANGED <<serialVars, closer, cancels, conn, lane, deferred, history>>

Cancel(r) ==
  /\ op[r] \in {"created", "running"}
  /\ cancels < MaxCancels /\ cancels' = cancels + 1
  /\ op' = [op EXCEPT ![r] = "cancelling"]
  /\ UNCHANGED <<serialVars, sub, inbox, closer, conn, lane, deferred,
                 history>>

(* close_internal: closing and mark_close_intent under the gate; then the   *)
(* resource's token and the Close command, between which the lane can only  *)
(* wait for the command; then the join                                      *)
Seal ==
  /\ closer = "idle" /\ closer' = "sealed"
  /\ conn' = IF conn = "connected" THEN "disconnecting" ELSE conn
  /\ UNCHANGED <<serialVars, op, sub, inbox, cancels, lane, deferred, history>>

CancelResource ==
  /\ closer = "sealed" /\ closer' = "sent"
  /\ UNCHANGED <<serialVars, op, sub, inbox, cancels, conn, lane, deferred,
                 history>>

Join ==
  /\ closer = "sent" /\ lane.pc \in {"ended", "panicked"}
  /\ closer' = "done"
  /\ UNCHANGED <<serialVars, op, sub, inbox, cancels, conn, lane, deferred,
                 history>>

-----------------------------------------------------------------------------
(* The lane between requests                                                *)

Goto(pc) == lane' = [lane EXCEPT !.pc = pc]

(* run: a cancelled resource leaves only the Close command to wait for *)
Top ==
  /\ lane.pc = "top"
  /\ \/ ~ResourceCancelled /\ Goto("receive")
     \/ ResourceCancelled /\ Goto("close")
  /\ UNCHANGED <<serialVars, clients, conn, deferred, history>>

ReceiveClose ==
  /\ lane.pc = "receive" /\ inbox = << >> /\ closer = "sent"
  /\ Goto("close")
  /\ UNCHANGED <<serialVars, clients, conn, deferred, history>>

Settle(r, state) == op' = [op EXCEPT ![r] = state]

(* prepare_request_operation and the head of handle_connect *)
ReceiveRequest(r) ==
  /\ lane.pc = "receive" /\ inbox # << >> /\ r = Head(inbox)
  /\ inbox' = Tail(inbox)
  /\ LET wanted == IF r \in Connects THEN "disconnected" ELSE "connected"
     IN \/ /\ Token(r)
           /\ Settle(r, "cancelled") /\ Goto("top")
           /\ UNCHANGED <<conn, history>>
        \/ /\ ~Token(r) /\ conn # wanted
           /\ Settle(r, "failed") /\ Goto("top")
           /\ UNCHANGED <<conn, history>>
        \/ /\ ~Token(r) /\ conn = wanted
           /\ Settle(r, "running")
           /\ clean' = (owed = << >> /\ rx = << >>)
           /\ lane' = [AtRest EXCEPT !.r = r,
                !.pc = IF r \in Connects THEN "attempt" ELSE "exchange",
                !.frame = IF r \in Saves THEN [kind |-> "header", chunk |-> 1]
                          ELSE [kind |-> "plain", chunk |-> 0]]
           /\ conn' = IF r \in Connects THEN "connecting" ELSE conn
           /\ UNCHANGED fooled
  /\ dev' = [dev EXCEPT !.stored = {}]
  /\ UNCHANGED <<stream, call, ret, late, irp, gate, taken, owed, residue, rx, faults,
                 sub, closer, cancels, deferred>>

-----------------------------------------------------------------------------
(* handle_connect                                                           *)

LaneCalls(method, frame, sent) ==
  call' = [Idle EXCEPT !.op = method, !.at = "enter", !.frame = frame,
           !.sent = sent,
           !.dir = IF method = "ack" THEN "read" ELSE "write"]

(* Close the transport, disconnect, and settle the connect operation *)
AbandonConnect(state) ==
  /\ CloseStream
  /\ conn' = "disconnected"
  /\ Settle(lane.r, state)
  /\ lane' = AtRest

Attempt ==
  /\ lane.pc = "attempt"
  /\ \/ /\ Token(lane.r)
        /\ AbandonConnect("cancelled")
        /\ UNCHANGED <<call, late>>
     \/ /\ ~Token(lane.r) /\ lane.tries < Bauds
        /\ LaneCalls("handshake", [kind |-> "hello", chunk |-> 0], 0)
        /\ late' = FALSE
        /\ Goto("shaking")
        /\ UNCHANGED <<stream, conn, op>>
     \/ /\ lane.tries = Bauds
        /\ AbandonConnect(FailedOrCancelled(lane.r))
        /\ UNCHANGED <<call, late>>
  /\ UNCHANGED <<ret, irp, gate, taken, device, rx, faults, sub, inbox, closer,
                 cancels, deferred, history>>

Returned == ret.k # "none" /\ ret' = NoResult

Shaken ==
  /\ lane.pc = "shaking" /\ Returned
  /\ late' = FALSE
  /\ \/ /\ ret.k = "ok" /\ ~Token(lane.r)
        /\ conn' = "connected"
        /\ Settle(lane.r, "succeeded")
        /\ lane' = AtRest
        /\ UNCHANGED stream
     \/ /\ ret.err = "cancelled" \/ Token(lane.r)
        /\ AbandonConnect("cancelled")
     \/ /\ ret.k = "err" /\ ret.err # "cancelled" /\ ~Token(lane.r)
        /\ CloseStream
        /\ lane' = [lane EXCEPT !.pc = "attempt", !.tries = @ + 1]
        /\ UNCHANGED <<conn, op>>
  /\ UNCHANGED <<call, irp, gate, taken, device, rx, faults, sub, inbox,
                 closer, cancels, deferred, history>>

-----------------------------------------------------------------------------
(* What a request makes of the result of an exchange: the lane after it     *)

Ended(result) ==
  [lane EXCEPT !.result = result,
               !.pc = IF result = "disconnected" THEN "disconnect"
                                                 ELSE "finish"]

(* A reset the request's own token cannot stop; lane.result is what the     *)
(* request ends with                                                        *)
Cleanup(result) ==
  [lane EXCEPT !.pc = "exchange", !.use = "cleanup", !.result = result,
               !.frame = [kind |-> "reset", chunk |-> 0]]

(* finish_amiibo_save_failure *)
SaveFailure(result) ==
  IF result = "disconnected" THEN Ended(result) ELSE Cleanup(result)

Frame(kind) ==
  [lane EXCEPT !.pc = "exchange", !.use = "main", !.frame.kind = kind]

NextChunk ==
  IF lane.frame.chunk < Chunks
  THEN [Frame("header") EXCEPT !.frame.chunk = @ + 1, !.tries = 0]
  ELSE Ended("ok")

Retry == [Frame("reset") EXCEPT !.tries = @ + 1, !.use = "retry"]

(* handle_amiibo_save: the header, the chunk, the next chunk; a timeout or  *)
(* a wrong byte resets the device and starts the chunk again                *)
SaveStep(result) ==
  IF result = "ok"
  THEN IF lane.frame.kind = "header" THEN Frame("chunk") ELSE NextChunk
  ELSE IF result \in {"timeout", "protocol"} /\ lane.tries < MaxRetries
  THEN Retry
  ELSE SaveFailure(result)

AfterExchange(result) ==
  CASE lane.use = "cleanup" ->
         [lane EXCEPT !.pc = IF result = "ok" THEN "finish"
                                              ELSE "cleanupFailed"]
    [] lane.use = "retry" ->
         IF result = "ok" THEN Frame("header") ELSE SaveFailure(result)
    [] lane.use = "main" /\ lane.r \in Saves -> SaveStep(result)
    [] lane.use = "main" /\ lane.r \notin Saves ->
         IF lane.r \in Selects /\ result = "cancelled" THEN Cleanup(result)
                                                       ELSE Ended(result)

-----------------------------------------------------------------------------
(* exchange_ack and exchange_amiibo_cleanup_reset                           *)

Stale(replies) ==
  [i \in DOMAIN replies |-> [replies[i] EXCEPT !.own = FALSE]]

(* What the exchange looks at before it begins and where it can stop        *)
Stopped == lane.use # "cleanup" /\ Token(lane.r)
Refused == lane.use = "cleanup" /\ (ResourceCancelled \/ conn # "connected")

Outcome(result) == lane' = AfterExchange(result)

(* write_payload: the settlement is dispatched, the sequence moves on *)
BeginWrite(frame) ==
  /\ LaneCalls("write", frame, 0)
  /\ late' = FALSE /\ prepared' = FALSE
  /\ gate' = "outstanding" /\ taken' = 0

BeginExchange ==
  /\ lane.pc = "exchange"
  /\ \/ /\ Stopped \/ Refused
        /\ Outcome("cancelled")
        /\ UNCHANGED <<prepared, call, late, gate, taken, owed, rx>>
     \/ /\ ~Stopped /\ ~Refused
        /\ BeginWrite(lane.frame)
        /\ owed' = Stale(owed) /\ rx' = Stale(rx)
        /\ Goto("writing")
  /\ UNCHANGED <<port, active, ret, irp, dev, residue, faults, clients, conn,
                 deferred, history>>

(* settle_failed_write and close_settled_stream *)
SettleFailedWrite(error) ==
  /\ gate' = "notDelivered"
  /\ IF error.n # 0 \/ ~error.reusable
     THEN /\ CloseStream
          /\ conn' = IF conn = "connected" THEN "disconnected" ELSE conn
     ELSE UNCHANGED <<stream, conn>>

(* The loop of write_payload_with_cancellation. The transport gives back    *)
(* how far the payload is.                                                  *)
WriteReturns ==
  /\ lane.pc = "writing" /\ Returned
  /\ \/ /\ ret.k = "ok" /\ ret.n < FrameLen
        /\ LaneCalls("write", lane.frame, ret.n)
        /\ UNCHANGED <<stream, gate, conn, lane, late>>
     \/ /\ ret.k = "ok" /\ ret.n = FrameLen
        /\ Goto("written")
        /\ late' = FALSE
        /\ UNCHANGED <<stream, call, gate, conn>>
     \/ /\ ret.k = "err"
        /\ SettleFailedWrite(ret)
        /\ Outcome(ret.err)
        /\ late' = FALSE
        /\ UNCHANGED call
  /\ UNCHANGED <<irp, taken, device, rx, faults, clients, deferred,
                 history>>

BeginWait ==
  /\ lane.pc = "written"
  /\ \/ /\ Stopped
        /\ Outcome("cancelled")
        /\ UNCHANGED <<call, late>>
     \/ /\ ~Stopped
        /\ LaneCalls("ack", NoFrame, 0)
        /\ late' = FALSE
        /\ Goto("waiting")
  /\ UNCHANGED <<stream, ret, irp, gate, taken, device, rx, faults, clients,
                 conn, deferred, history>>

Expected == IF lane.frame.kind = "reset" THEN "ready" ELSE "ack"

(* Mutation of Accepts: any byte completes the exchange. *)
AcceptsAnything(byte) == byte # "none"

Accepts(byte) == byte = Expected

(* The transport tags what it reads with the generation it was asked for,   *)
(* so that a frame of an older generation never shows.                      *)
ReplyReturns ==
  /\ lane.pc = "waiting" /\ Returned
  /\ late' = FALSE
  /\ \/ /\ Stopped /\ (ret.k = "err" \/ Accepts(ret.byte.byte))
        /\ Outcome("cancelled")
        /\ UNCHANGED fooled
     \/ /\ ret.k = "ok" /\ Accepts(ret.byte.byte) /\ ~Stopped
        /\ Outcome("ok")
        /\ fooled' = IF ret.byte.own \/ lane.use = "cleanup" THEN fooled
                     ELSE IF clean THEN "clean"
                     ELSE IF fooled = "no" THEN "dirty" ELSE fooled
     \/ /\ ret.k = "ok" /\ ~Accepts(ret.byte.byte)
        /\ Outcome("protocol")
        /\ UNCHANGED fooled
     \/ /\ ret.k = "err" /\ ~Stopped
        /\ Outcome(ret.err)
        /\ UNCHANGED fooled
  /\ UNCHANGED <<stream, call, irp, gate, taken, device, rx, faults,
                 clients, conn, deferred, clean>>

-----------------------------------------------------------------------------
(* The end of a request                                                     *)

(* handle_transport_disconnect, invalidate_amiibo_stream and                *)
(* fail_pending_disconnected                                                *)
Disconnect ==
  /\ conn' = "disconnected"
  /\ CloseStream

(* Mutation of CleanupFailed: the failure is left to the next close. *)
CleanupFailureIgnored ==
  /\ lane.pc = "cleanupFailed"
  /\ Goto("finish")
  /\ UNCHANGED <<serialVars, clients, conn, deferred, history>>

(* handle_amiibo_cleanup_failure: close does it, or the stream goes now *)
CleanupFailed ==
  /\ lane.pc = "cleanupFailed"
  /\ IF ResourceCancelled THEN UNCHANGED <<conn, stream>> ELSE Disconnect
  /\ Goto("finish")
  /\ UNCHANGED <<call, ret, late, irp, gate, taken, device, rx, faults,
                 clients, deferred, history>>

LoseStream ==
  /\ lane.pc = "disconnect"
  /\ Disconnect
  /\ Goto("finish")
  /\ UNCHANGED <<call, ret, late, irp, gate, taken, device, rx, faults,
                 clients, deferred, history>>

(* succeed, finish_cancelled_request or fail_request_exchange. While the    *)
(* resource is being closed all but a success waits for the stream to be    *)
(* closed.                                                                  *)
Finish ==
  /\ lane.pc = "finish"
  /\ lane' = AtRest
  /\ \/ /\ lane.result = "ok"
        /\ Settle(lane.r, IF op[lane.r] = "cancelling" THEN "cancelled"
                                                       ELSE "succeeded")
        /\ UNCHANGED deferred
     \/ /\ lane.result # "ok" /\ ResourceCancelled
        /\ Settle(lane.r, "cancelling")
        /\ deferred' = deferred \union {lane.r}
     \/ /\ lane.result # "ok" /\ ~ResourceCancelled
        /\ Settle(lane.r, IF lane.result = "cancelled" THEN "cancelled"
                          ELSE FailedOrCancelled(lane.r))
        /\ UNCHANGED deferred
  /\ UNCHANGED <<serialVars, sub, inbox, closer, cancels, conn, history>>

-----------------------------------------------------------------------------
(* close_lane *)

(* Queued requests are cancelled; a connected device gets a neutral report. *)
CloseBegins ==
  /\ lane.pc = "close"
  /\ LET connected == conn \in {"connected", "disconnecting"}
         queued == ToSet(inbox)
     IN /\ conn' = IF connected THEN "disconnecting" ELSE conn
        /\ inbox' = << >>
        /\ op' = [r \in Requests |-> IF r \in queued /\ ~IsTerminal(r)
                                     THEN "cancelling" ELSE op[r]]
        /\ lane' = [AtRest EXCEPT !.held = queued,
              !.frame = [kind |-> "neutral", chunk |-> 0],
              !.pc = IF connected THEN "neutral" ELSE "closing"]
        /\ IF connected THEN BeginWrite([kind |-> "neutral", chunk |-> 0])
                        ELSE UNCHANGED <<call, late, prepared, gate, taken>>
  /\ UNCHANGED <<port, active, ret, irp, device, rx, faults, sub, closer,
                 cancels, deferred, history>>

NeutralReturns ==
  /\ lane.pc = "neutral" /\ Returned
  /\ \/ /\ ret.k = "ok" /\ ret.n < FrameLen
        /\ LaneCalls("write", lane.frame, ret.n)
        /\ UNCHANGED <<stream, gate, conn, lane, late>>
     \/ /\ ret.k = "ok" /\ ret.n = FrameLen
        /\ Goto("closing")
        /\ late' = FALSE
        /\ UNCHANGED <<stream, call, gate, conn>>
     \/ /\ ret.k = "err"
        /\ SettleFailedWrite(ret)
        /\ Goto("closing")
        /\ late' = FALSE
        /\ UNCHANGED call
  /\ UNCHANGED <<irp, taken, device, rx, faults, clients, deferred,
                 history>>

(* Mutation of CloseEnds: the requests close took over are forgotten. *)
CloseForgetsDeferred ==
  /\ lane.pc = "closing"
  /\ CloseStream
  /\ op' = [r \in Requests |-> IF r \in lane.held /\ op[r] = "cancelling"
                               THEN "cancelled" ELSE op[r]]
  /\ deferred' = {}
  /\ conn' = "closed"
  /\ lane' = [AtRest EXCEPT !.pc = "ended"]
  /\ UNCHANGED <<call, ret, late, irp, gate, taken, device, rx, faults, sub,
                 inbox, closer, cancels, history>>

CloseEnds ==
  /\ lane.pc = "closing"
  /\ CloseStream
  /\ op' = [r \in Requests |->
              IF r \in lane.held \union deferred /\ op[r] = "cancelling"
              THEN "cancelled" ELSE op[r]]
  /\ deferred' = {}
  /\ conn' = "closed"
  /\ lane' = [AtRest EXCEPT !.pc = "ended"]
  /\ UNCHANGED <<call, ret, late, irp, gate, taken, device, rx, faults, sub,
                 inbox, closer, cancels, history>>

(* The panic of the wait goes on once the transfer is settled; the lane     *)
(* drops its transport.                                                     *)
Unwind ==
  /\ call.at = "unwind" /\ irp.st \in {"done", "failed", "aborted"}
  /\ irp' = NoTransfer
  /\ CloseStream
  /\ call' = Idle
  /\ Goto("panicked")
  /\ UNCHANGED <<ret, late, gate, taken, device, rx, faults, clients, conn,
                 deferred, history>>

-----------------------------------------------------------------------------
Requesting ==
  \/ Attempt \/ Shaken \/ BeginExchange \/ WriteReturns \/ BeginWait
  \/ ReplyReturns \/ CleanupFailed \/ LoseStream \/ Finish

Lane ==
  \/ Top \/ (\E r \in Requests : ReceiveRequest(r)) \/ ReceiveClose \/ Requesting
  \/ CloseBegins \/ NeutralReturns \/ CloseEnds \/ Unwind

Stream ==
  /\ Method(CallCancelled) \/ Driver \/ DeviceReplies \/ TimePasses
  /\ UNCHANGED <<clients, conn, lane, deferred, history>>

StreamFaults ==
  /\ FailTransfer \/ WaitPanics
  /\ UNCHANGED <<clients, conn, lane, deferred, history>>

(* What goes on by itself once somebody asked for it *)
Progress == Lane \/ Stream \/ CancelResource \/ Join
            \/ \E r \in Requests : Send(r)

Next ==
  \/ Progress \/ StreamFaults \/ Seal
  \/ \E r \in Requests : Admit(r) \/ Cancel(r)

Spec == Init /\ [][Next]_vars
-----------------------------------------------------------------------------
(* Properties                                                               *)

(* A payload settled as fully accepted was taken to its last byte, and one  *)
(* settled as not delivered on a stream that stays open not at all; the     *)
(* device never receives the start of a payload in the middle of another,   *)
(* for a stream whose last write stopped halfway is not written again.      *)
(* Only bytes of a write that ended as aborted are missed, for the code     *)
(* takes every such write for one without effect: the last two say nothing  *)
(* while they are with the device, that is until the next hello.            *)
SettlementIsTruthful ==
  /\ gate = "full" => taken = FrameLen
  /\ ~residue => ~dev.garbled /\ (gate = "notDelivered" /\ port => taken = 0)

(* While the driver owns a transfer, and with it the caller's buffer, the   *)
(* call that lent it has not returned, not even by a panic.                 *)
NoOrphanTransfer ==
  Owned => /\ call.at \in {"wait", "settleCancelled", "settleLate", "unwind"}
           /\ lane.pc \notin {"ended", "panicked"}

(* A request that began when the device owed nothing is never completed by  *)
(* the reply to an earlier exchange of its own, whatever timed out, was     *)
(* retried or reset in between.                                             *)
OwnReplies == fooled # "clean"

(* A save that began so and succeeds has every chunk stored on the device,  *)
(* and whichever way it ends, no save is left under way on the device       *)
(* unless its stream is closed.                                             *)
NoHalfSave ==
  [][\A r \in Saves :
       lane.r = r /\ clean /\ ~IsTerminal(r) /\ IsTerminal(r)'
         => /\ op'[r] = "succeeded" => dev'.stored = 1..Chunks
            /\ dev'.header = 0 \/ ~port']_vars

(* Who can go on by itself, without a new request or another cancel: the     *)
(* guards of Progress.                                                      *)
LaneMoves ==
  \/ lane.pc \in {"top", "exchange", "written", "cleanupFailed", "disconnect",
                  "finish", "close", "closing"}
  \/ lane.pc = "receive" /\ (inbox # << >> \/ closer = "sent")
  \/ lane.pc = "attempt" /\ (Token(lane.r) \/ lane.tries <= Bauds)
  \/ lane.pc \in {"shaking", "waiting"} /\ ret.k # "none"
  \/ lane.pc \in {"writing", "neutral"} /\ ret.k # "none"
     /\ (ret.k = "ok" => ret.n <= FrameLen)

CallMoves ==
  \/ call.at \in {"enter", "transfer"}
  \/ call.at = "wait" /\ irp.st = "pending" /\ Interrupted(CallCancelled)
  \/ call.at = "wait" /\ ~late /\ Len(owed) <= MaxOwed
  \/ (Settling \/ call.at = "unwind") /\ irp.st \in {"done", "failed", "aborted"}

DriverMoves ==
  \/ Owned /\ call.dir = "write" /\ (irp.n < Remaining \/ irp.n # 0)
  \/ Owned /\ call.dir = "read" /\ rx # << >>
  \/ irp.st = "cancelling" /\ irp.n = 0
  \/ owed # << >>

ClientMoves ==
  \/ closer = "sealed" \/ (closer = "sent" /\ lane.pc \in {"ended", "panicked"})
  \/ \E r \in Requests : sub[r] = "created"

SomebodyMoves == LaneMoves \/ CallMoves \/ DriverMoves \/ ClientMoves

(* When nothing more can happen, every operation has its outcome and every  *)
(* close has returned, unless the lane panicked.                            *)
NobodyIsStuck ==
  lane.pc # "panicked" /\ ~SomebodyMoves
    => /\ \A r \in Requests : op[r] = "absent" \/ IsTerminal(r)
       /\ closer \in {"idle", "done"}

(* No exchange is completed by the reply to an earlier one. The code does   *)
(* not have this property: what is received after the purge is taken for    *)
(* the reply to the command just sent.                                      *)
LateRepliesRejected == fooled = "no"

Frames == [kind : {"none", "hello", "plain", "header", "chunk", "reset", "neutral"},
           chunk : 0..Chunks]
Bytes == [byte : {"none", "ready", "ack"}, own : BOOLEAN]
Replies == [byte : {"ready", "ack"}, own : BOOLEAN]
Errors == {"none", "cancelled", "writeTimeout", "timeout", "io", "disconnected", "protocol"}
Waiting == {"wait", "settleCancelled", "settleLate", "unwind"}

Calls == [op : {"none", "handshake", "write", "ack"},
          at : {"idle", "enter", "transfer"} \union Waiting,
          dir : {"write", "read"}, frame : Frames, sent : Nat]
Results == [k : {"none", "ok", "err"}, n : Nat, byte : Bytes, err : Errors,
            reusable : BOOLEAN]
Transfers == [st : {"none", "pending", "cancelling", "done", "failed", "aborted"},
              n : Nat, byte : Bytes, err : Errors]
Devices == [got : Nat, garbled : BOOLEAN, header : 0..Chunks,
            stored : SUBSET (1..Chunks)]
Lanes == [pc : {"top", "receive", "attempt", "shaking", "exchange", "writing",
                "written", "waiting", "cleanupFailed", "disconnect", "finish",
                "close", "neutral", "closing", "ended", "panicked"},
          r : Requests \union {NoRequest}, frame : Frames,
          use : {"main", "retry", "cleanup"}, tries : Nat,
          result : Errors \union {"ok"}, held : SUBSET Requests]

CallType == call \in Calls /\ ret \in Results /\ irp \in Transfers

StreamType ==
  /\ port \in BOOLEAN /\ prepared \in BOOLEAN /\ late \in BOOLEAN
  /\ active \in 0..FrameLen /\ taken \in 0..FrameLen
  /\ gate \in {"none", "outstanding", "full", "notDelivered"}
  /\ dev \in Devices
  /\ owed \in Seq(Replies) /\ rx \in Seq(Replies) /\ residue \in BOOLEAN
  /\ faults \in 0..MaxFaults

ClientType ==
  /\ op \in [Requests -> {"absent", "created", "running", "cancelling",
                          "succeeded", "failed", "cancelled"}]
  /\ sub \in [Requests -> {"idle", "created", "sent", "refused"}]
  /\ inbox \in Seq(Requests)
  /\ closer \in {"idle", "sealed", "sent", "done"}
  /\ cancels \in 0..MaxCancels

LaneType ==
  /\ conn \in {"disconnected", "connecting", "connected", "disconnecting",
               "closed"}
  /\ lane \in Lanes
  /\ deferred \subseteq Requests
  /\ clean \in BOOLEAN /\ fooled \in {"no", "dirty", "clean"}

TypeOK == CallType /\ StreamType /\ ClientType /\ LaneType

=============================================================================
