----------------------------- MODULE SerialStream -----------------------------
(***************************************************************************)
(* One serial stream, from the calls of the Controller's lane down to the  *)
(* device: SerialControllerTransport (crates/easycon-serial/src/           *)
(* transport.rs), the byte requests it makes (io.rs), the overlapped       *)
(* transfer that serves them on Windows (windows/io.rs), and the           *)
(* settlement of a logical write (crates/easycon-controller/src/           *)
(* transport.rs).                                                          *)
(*                                                                         *)
(* A method of the transport is a call with a place (call.at) and a result *)
(* (ret); the module that extends this one makes the calls and says when   *)
(* their tokens are cancelled. The driver and the device are external. The *)
(* driver takes the bytes of a write one by one and the device has them at *)
(* once. The device answers a frame it understands, at any later time and  *)
(* in order, and may ignore a frame. What it has sent is lost while no     *)
(* stream is open. The bytes themselves are left out: a payload is a frame *)
(* and a position in it.                                                   *)
(***************************************************************************)
EXTENDS Naturals, Sequences, SequencesExt

CONSTANTS FrameLen,         \* bytes of a payload
          MaxFaults,        \* bound: calls the system fails, waits that
                            \* panic, frames the device does not answer,
                            \* aborted writes that keep a prefix
          MaxOwed           \* bound: replies owed when a deadline passes

ASSUME StreamAssumption ==
  FrameLen \in Nat \ {0} /\ MaxFaults \in Nat /\ MaxOwed \in Nat

VARIABLES
  port,      \* SerialControllerTransport.io is open
  prepared,  \* prepared_command_sequence is the current payload's
  active,    \* active_write: bytes of it that earlier calls wrote, 0 for none
  call,      \* the transport method under way
  ret,       \* what the last call returned; n: bytes of the payload written
  late,      \* the deadline of the call has passed
  irp,       \* the overlapped transfer
  gate,      \* WriteSettlement of the current payload
  taken,     \* history: bytes of the current payload the driver took
  dev,       \* the device: frame being received, save under way, chunks stored
  owed,      \* replies the device has yet to send
  residue,   \* history: an aborted write left bytes with the device that
             \* nobody counted; the next hello makes it start over
  rx,        \* bytes received and not read
  faults     \* how many of the faults have happened

stream == <<port, prepared, active>>
device == <<dev, owed, residue>>
serialVars == <<stream, call, ret, late, irp, gate, taken, device, rx, faults>>

NoFrame == [kind |-> "none", chunk |-> 0]
Idle == [op |-> "none", at |-> "idle", dir |-> "write", frame |-> NoFrame,
         sent |-> 0]
NoByte == [byte |-> "none", own |-> FALSE]
NoResult == [k |-> "none", n |-> 0, byte |-> NoByte, err |-> "none",
             reusable |-> FALSE]
NoTransfer == [st |-> "none", n |-> 0, byte |-> NoByte, err |-> "none"]

Ok == [NoResult EXCEPT !.k = "ok"]
Wrote(n) == [NoResult EXCEPT !.k = "ok", !.n = n]
Got(byte) == [NoResult EXCEPT !.k = "ok", !.n = 1, !.byte = byte]
Err(kind) == [NoResult EXCEPT !.k = "err", !.err = kind]

(* An error of the backend that proves it moved no byte, or does not *)
ZeroEffect(kind) == [Err(kind) EXCEPT !.reusable = TRUE]

(* ByteIoRequest::interruption, with map_error's kinds *)
Interrupted(cancelled) == cancelled \/ late
Interruption(cancelled) ==
  ZeroEffect(IF cancelled THEN "cancelled"
             ELSE IF call.op = "write" THEN "writeTimeout" ELSE "timeout")

(* What a failed system call is mapped to *)
FailureKinds == {"io", "disconnected"}

Fault == faults < MaxFaults /\ faults' = faults + 1

SerialInit ==
  /\ port = FALSE /\ prepared = FALSE /\ active = 0
  /\ call = Idle /\ ret = NoResult /\ late = FALSE
  /\ irp = NoTransfer
  /\ gate = "none" /\ taken = 0
  /\ dev = [got |-> 0, garbled |-> FALSE, header |-> 0, stored |-> {}]
  /\ owed = << >> /\ rx = << >> /\ residue = FALSE
  /\ faults = 0

-----------------------------------------------------------------------------
(* What a method does with the result of its transfer                       *)

(* close_stream *)
CloseStream == port' = FALSE /\ prepared' = FALSE /\ active' = 0

Return(result) == ret' = result /\ call' = Idle

(* close_after_write_failure: the stream survives an error only when no byte *)
(* of the payload was written                                                *)
CloseAfterWriteFailure(error) ==
  IF call.sent = 0 /\ error.reusable
  THEN Return(error) /\ UNCHANGED stream
  ELSE CloseStream /\ Return([Err("disconnected") EXCEPT !.n = call.sent])

(* handshake: write_all, one byte read, compared *)
HandshakeResult(result) ==
  \/ /\ result.k = "err"
     /\ CloseStream /\ Return(result)
  \/ /\ result.k = "ok" /\ call.dir = "write"
     /\ call' = IF call.sent + result.n < FrameLen
                THEN [call EXCEPT !.sent = @ + result.n, !.at = "transfer"]
                ELSE [call EXCEPT !.dir = "read", !.at = "transfer"]
     /\ UNCHANGED <<stream, ret>>
  \/ /\ result.k = "ok" /\ call.dir = "read"
     /\ IF result.byte.byte = "ready"
        THEN Return(Ok) /\ UNCHANGED stream
        ELSE CloseStream /\ Return(Err("protocol"))

(* Mutation of FullAcceptance: any progress counts as the last byte. *)
AnyAcceptance(n) == n > 0

(* publish_final_write_acceptance *)
FullAcceptance(n) == call.sent + n = FrameLen

(* write, after io.write *)
WriteResult(result) ==
  \/ /\ result.k = "err"
     /\ CloseAfterWriteFailure(result) /\ UNCHANGED gate
  \/ /\ result.k = "ok"
     /\ gate' = IF FullAcceptance(result.n) THEN "full" ELSE gate
     /\ active' = IF FullAcceptance(result.n) THEN 0 ELSE call.sent + result.n
     /\ Return(Wrote(call.sent + result.n))
     /\ UNCHANGED <<port, prepared>>

(* The method that made the transfer goes on with its result. *)
Result(result) ==
  \/ call.op = "handshake" /\ HandshakeResult(result) /\ UNCHANGED gate
  \/ call.op = "write" /\ WriteResult(result)
  \/ call.op = "ack" /\ Return(result) /\ UNCHANGED <<stream, gate>>

-----------------------------------------------------------------------------
(* The transport's methods up to their transfers                            *)

(* handshake: the old stream is closed, the port opened, configured and     *)
(* purged. Where the open is interrupted the handle is closed again.        *)
OpenPort(cancelled) ==
  /\ call.op = "handshake" /\ call.at = "enter"
  /\ \/ /\ Interrupted(cancelled)
        /\ CloseStream /\ Return(Interruption(cancelled))
        /\ UNCHANGED <<rx, faults>>
     \/ /\ ~Interrupted(cancelled) /\ Fault
        /\ CloseStream /\ Return(Err("io"))
        /\ UNCHANGED rx
     \/ /\ ~Interrupted(cancelled)
        /\ port' = TRUE /\ prepared' = FALSE /\ active' = 0
        /\ rx' = << >>
        /\ call' = [call EXCEPT !.at = "transfer"]
        /\ UNCHANGED <<ret, faults>>
  /\ gate' = "none" /\ taken' = 0
  /\ UNCHANGED <<late, irp, device>>

(* write: the payload must continue where its last call stopped, and a     *)
(* command purges what was received before it. The purge fails without      *)
(* proof that nothing was lost.                                             *)
EnterWrite(cancelled) ==
  /\ call.op = "write" /\ call.at = "enter"
  /\ LET purge == call.frame.kind # "neutral" /\ ~prepared
     IN \/ /\ active # call.sent
           /\ CloseStream
           /\ Return([Err("disconnected") EXCEPT !.n = call.sent])
           /\ UNCHANGED <<rx, faults>>
        \/ /\ active = call.sent /\ Interrupted(cancelled)
           /\ CloseAfterWriteFailure(Interruption(cancelled))
           /\ UNCHANGED <<rx, faults>>
        \/ /\ active = call.sent /\ ~Interrupted(cancelled) /\ ~port
           /\ CloseAfterWriteFailure(Err("disconnected"))
           /\ UNCHANGED <<rx, faults>>
        \/ /\ active = call.sent /\ ~Interrupted(cancelled) /\ port /\ purge
           /\ Fault
           /\ CloseAfterWriteFailure(Err("io"))
           /\ UNCHANGED rx
        \/ /\ active = call.sent /\ ~Interrupted(cancelled) /\ port
           /\ IF purge THEN prepared' = TRUE /\ rx' = << >>
                       ELSE UNCHANGED <<prepared, rx>>
           /\ call' = [call EXCEPT !.at = "transfer"]
           /\ UNCHANGED <<port, active, ret, faults>>
  /\ UNCHANGED <<late, irp, gate, taken, device>>

(* wait_for_ack *)
EnterAck(cancelled) ==
  /\ call.op = "ack" /\ call.at = "enter"
  /\ \/ /\ Interrupted(cancelled)
        /\ Return([Interruption(cancelled) EXCEPT !.reusable = FALSE])
     \/ /\ ~Interrupted(cancelled) /\ ~port
        /\ Return(Err("disconnected"))
     \/ /\ ~Interrupted(cancelled) /\ port
        /\ call' = [call EXCEPT !.at = "transfer"]
        /\ UNCHANGED ret
  /\ UNCHANGED <<stream, late, irp, gate, taken, device, rx, faults>>

-----------------------------------------------------------------------------
(* WindowsByteIo::transfer. A transfer that completes at once is one whose  *)
(* completion comes before the wait.                                        *)

StartTransfer(cancelled) ==
  /\ call.at = "transfer"
  /\ \/ /\ Interrupted(cancelled)
        /\ Result(Interruption(cancelled))
        /\ UNCHANGED <<irp, faults>>
     \/ /\ ~Interrupted(cancelled) /\ Fault
        /\ \E kind \in FailureKinds : Result(Err(kind))
        /\ UNCHANGED irp
     \/ /\ ~Interrupted(cancelled)
        /\ irp' = [NoTransfer EXCEPT !.st = "pending"]
        /\ call' = [call EXCEPT !.at = "wait"]
        /\ UNCHANGED <<stream, ret, gate, faults>>
  /\ UNCHANGED <<late, taken, device, rx>>

(* Mutation of Interrupt: the wait gives up without the completion. *)
InterruptAndLeave(cancelled) ==
  /\ call.at = "wait" /\ irp.st = "pending"
  /\ Interrupted(cancelled)
  /\ Result(Interruption(cancelled))
  /\ UNCHANGED <<irp, late, taken, device, rx, faults>>

(* cancel_and_settle up to CancelIoEx. The place keeps the reason; from     *)
(* here on the deadline and the tokens are not looked at.                   *)
Interrupt(cancelled) ==
  /\ call.at = "wait" /\ irp.st = "pending"
  /\ Interrupted(cancelled)
  /\ irp' = [irp EXCEPT !.st = "cancelling"]
  /\ call' = [call EXCEPT !.at = IF cancelled THEN "settleCancelled"
                                              ELSE "settleLate"]
  /\ UNCHANGED <<stream, ret, late, gate, taken, device, rx, faults>>

(* The clock panics in the wait: resume_unwind_after_cleanup cancels and    *)
(* settles the transfer before it lets the panic go on.                     *)
WaitPanics ==
  /\ call.at = "wait" /\ irp.st = "pending" /\ Fault
  /\ irp' = [irp EXCEPT !.st = "cancelling"]
  /\ call' = [call EXCEPT !.at = "unwind"]
  /\ UNCHANGED <<stream, ret, late, gate, taken, device, rx>>

Settling == call.at \in {"wait", "settleCancelled", "settleLate"}

(* overlapped_result, settle_cancelled_completion and normalize_progress:   *)
(* a transfer that completed anyway counts, one that was aborted reports    *)
(* why it was interrupted                                                   *)
Completion ==
  IF irp.st = "aborted"
  THEN ZeroEffect(IF call.at = "settleCancelled" THEN "cancelled"
                  ELSE IF call.op = "write" THEN "writeTimeout" ELSE "timeout")
  ELSE IF irp.st = "failed" THEN Err(irp.err)
  ELSE IF irp.n = 0 THEN Err("io")
  ELSE IF call.dir = "read" THEN Got(irp.byte)
  ELSE Wrote(irp.n)

FinishTransfer ==
  /\ Settling
  /\ irp.st \in {"done", "failed", "aborted"}
  /\ Result(Completion)
  /\ irp' = NoTransfer
  /\ UNCHANGED <<late, taken, device, rx, faults>>

-----------------------------------------------------------------------------
(* The driver, external: it owns a transfer until it completes it           *)

Owned == irp.st \in {"pending", "cancelling"}
Remaining == FrameLen - call.sent

(* The device receives a byte of the payload. The first byte of a hello     *)
(* makes it start over; the first byte of anything else in the middle of a  *)
(* frame garbles what it receives until then.                               *)
Receive(frame, position) ==
  LET fresh == [dev EXCEPT !.got = 0, !.garbled = FALSE]
      from == IF position # 1 THEN dev
              ELSE IF frame.kind = "hello" THEN fresh
              ELSE [dev EXCEPT !.garbled = @ \/ dev.got # 0]
      done == position = FrameLen
      served == [from EXCEPT
        !.got = 0,
        !.header = CASE frame.kind = "header" -> frame.chunk
                     [] frame.kind \in {"chunk", "reset", "hello"} -> 0
                     [] OTHER -> @,
        !.stored = IF frame.kind = "chunk" /\ from.header # 0
                   THEN @ \union {from.header} ELSE @]
      reply == [byte |-> IF frame.kind \in {"hello", "reset"} THEN "ready"
                         ELSE "ack", own |-> TRUE]
  IN IF from.garbled \/ ~done
     THEN /\ dev' = [from EXCEPT !.got = IF done THEN 0 ELSE position]
          /\ UNCHANGED <<owed, faults>>
     ELSE \/ /\ dev' = served
             /\ owed' = IF frame.kind = "neutral" THEN owed
                        ELSE Append(owed, reply)
             /\ UNCHANGED faults
          \/ /\ frame.kind # "neutral" /\ Fault
             /\ dev' = [from EXCEPT !.got = 0]
             /\ UNCHANGED owed

TakeByte ==
  /\ Owned /\ call.dir = "write" /\ irp.n < Remaining
  /\ irp' = [irp EXCEPT !.n = @ + 1]
  /\ taken' = IF call.op = "write" THEN taken + 1 ELSE taken
  /\ Receive(call.frame, call.sent + irp.n + 1)
  /\ residue' = (residue /\ ~(call.op = "handshake" /\ call.sent + irp.n = 0))
  /\ UNCHANGED <<stream, call, ret, late, gate, rx>>

CompleteWrite ==
  /\ Owned /\ call.dir = "write"
  /\ IF irp.n = 0 THEN Fault ELSE UNCHANGED faults
  /\ irp' = [irp EXCEPT !.st = "done"]
  /\ UNCHANGED <<stream, call, ret, late, gate, taken, device, rx>>

CompleteRead ==
  /\ Owned /\ call.dir = "read" /\ rx # << >>
  /\ irp' = [irp EXCEPT !.st = "done", !.n = 1, !.byte = Head(rx)]
  /\ rx' = Tail(rx)
  /\ UNCHANGED <<stream, call, ret, late, gate, taken, device, faults>>

FailTransfer ==
  /\ Owned /\ Fault
  /\ \E kind \in FailureKinds :
       irp' = [irp EXCEPT !.st = "failed", !.err = kind]
  /\ UNCHANGED <<stream, call, ret, late, gate, taken, device, rx>>

(* The completion says aborted whether or not bytes were taken before, and  *)
(* nobody looks at how many.                                                *)
AbortTransfer ==
  /\ irp.st = "cancelling"
  /\ IF irp.n = 0 THEN UNCHANGED <<residue, faults>>
                  ELSE Fault /\ residue' = TRUE
  /\ irp' = [irp EXCEPT !.st = "aborted"]
  /\ UNCHANGED <<stream, call, ret, late, gate, taken, dev, owed, rx>>

(* A reply reaches the port, or nobody. *)
DeviceReplies ==
  /\ owed # << >>
  /\ owed' = Tail(owed)
  /\ rx' = IF port THEN Append(rx, Head(owed)) ELSE rx
  /\ UNCHANGED <<stream, call, ret, late, irp, gate, taken, dev, residue, faults>>

(* The write timeout, the protocol timeout or the operation's deadline *)
TimePasses ==
  /\ call.at \in {"enter", "transfer", "wait"} /\ ~late
  /\ Len(owed) <= MaxOwed
  /\ late' = TRUE
  /\ UNCHANGED <<stream, call, ret, irp, gate, taken, device, rx, faults>>

Driver == TakeByte \/ CompleteWrite \/ CompleteRead \/ AbortTransfer
Method(cancelled) ==
  \/ OpenPort(cancelled) \/ EnterWrite(cancelled) \/ EnterAck(cancelled)
  \/ StartTransfer(cancelled) \/ Interrupt(cancelled) \/ FinishTransfer

=============================================================================
