--------------------------- MODULE RequestLaneProofs ---------------------------
(***************************************************************************)
(* Proofs about RequestLane: its invariants and the way a save ends, for   *)
(* any requests, lengths of payloads, chunks, baud rates and bounds.       *)
(*                                                                         *)
(* A step does much at once to nested records, so the proof has two        *)
(* layers. The first says what each action does to the fields that the     *)
(* rest speaks of: a case of it is named (Opens, Settles, Serves,          *)
(* ExchangeBegins, ...), and StepCases says that there are no other steps. *)
(* The second goes through these cases once for each part of the           *)
(* invariant: the call and its result (CallInv), the transfer              *)
(* (TransferInv), the bytes counted (AccountInv, DeviceInv), the request   *)
(* (SentInv, PlaceInv), the replies (ByteInv, ExpectInv) and the save      *)
(* (SaveInv). A second invariant, WaitInv, says who waits for whom.        *)
(***************************************************************************)
EXTENDS RequestLane, TLAPS

(* The lane has a method of the transport under way exactly in these places, *)
(* and then either the call is running or its result is waiting for it.      *)
Serving == {"shaking", "writing", "waiting", "neutral"}
MethodOf(pc) == IF pc = "shaking" THEN "handshake"
                ELSE IF pc = "waiting" THEN "ack" ELSE "write"

CallInv ==
  /\ lane.pc \notin Serving => call.op = "none" /\ ret.k = "none"
  /\ lane.pc \in Serving => \/ call.op = MethodOf(lane.pc) /\ ret.k = "none"
                            \/ call.op = "none" /\ ret.k # "none"
  /\ call.op = "none" <=> call.at = "idle"
  /\ call.op = "write" => call.dir = "write" /\ call.frame = lane.frame
  /\ call.op = "ack" => call.dir = "read"
  /\ call.op = "handshake" =>
       call.frame.kind = "hello" /\ (call.at = "enter" => call.dir = "write" /\ call.sent = 0)
  /\ call.sent < FrameLen

(* The transfer lives as long as its call waits for it, and an aborted write *)
(* took nothing unless the device has a residue of it.                       *)
TransferInv ==
  /\ irp.st = "none" <=> call.at \notin Waiting
  /\ irp.st = "pending" => call.at = "wait"
  /\ irp.st \in {"cancelling", "aborted"} => call.at # "wait"
  /\ call.at \in {"transfer"} \union Waiting => port
  /\ irp.st = "none" => irp.n = 0
  /\ call.dir = "write" => call.sent + irp.n <= FrameLen
  /\ call.dir = "read" => irp.n = (IF irp.st = "done" THEN 1 ELSE 0)
  /\ irp.st = "aborted" => irp.n = 0 \/ residue

(* Whoever writes a payload -- the call, its result, active_write -- has     *)
(* counted what the driver took of it.                                       *)
Writing == lane.pc \in {"writing", "neutral"}
AccountInv ==
  /\ call.op = "write" =>
       active = call.sent /\ taken = call.sent + irp.n /\ gate = "outstanding"
  /\ Writing /\ ret.k = "ok" =>
       /\ taken = ret.n /\ ret.n <= FrameLen
       /\ IF ret.n = FrameLen THEN active = 0 /\ gate = "full"
                              ELSE active = ret.n /\ gate = "outstanding"
  /\ Writing /\ ret.k = "err" =>
       active = 0 /\ (ret.n = 0 /\ ret.reusable => taken = 0 \/ residue)
  /\ ~Writing => active = 0
  /\ gate = "full" => taken = FrameLen
  /\ gate = "notDelivered" /\ port => taken = 0 \/ residue
  /\ call.op = "handshake" /\ call.at # "enter" => gate = "none"
  /\ lane.pc \in {"written", "waiting"} => taken = FrameLen

(* Which request the lane serves in which place, and what it is about to     *)
(* send for it; whoever waits in the channel or is served was sent.          *)
Exchanging == {"exchange", "writing", "written", "waiting"}

SentInv ==
  /\ \A r \in Requests : lane.r = r => sub[r] = "sent"
  /\ \A i \in DOMAIN inbox : sub[inbox[i]] = "sent"

PlaceInv ==
  /\ lane.pc \in {"top", "receive", "close", "neutral", "closing", "ended"} =>
       lane.r = NoRequest
  /\ lane.pc \in {"attempt", "shaking"} => lane.r \in Connects
  /\ lane.pc \in Exchanging \union {"cleanupFailed", "disconnect", "finish"} =>
       lane.r \in Requests \ Connects
  /\ lane.use = "retry" /\ lane.pc \in Exchanging => lane.r \in Saves /\ lane.frame.kind = "reset"
  /\ lane.use = "cleanup" /\ lane.pc \in Exchanging \union {"cleanupFailed"} =>
       lane.frame.kind = "reset" /\ lane.result # "ok"
  /\ lane.use = "main" /\ lane.pc \in Exchanging =>
       lane.frame.kind \in (IF lane.r \in Saves THEN {"header", "chunk"} ELSE {"plain"})
  /\ lane.pc = "disconnect" => lane.result = "disconnected"
  /\ lane.pc = "cleanupFailed" => lane.use = "cleanup"

RequestInv == SentInv /\ PlaceInv

(* The device has what the driver took of the payload that is under way, and *)
(* nothing of another one in front of it, unless an aborted write left bytes *)
(* there. A hello starts it over.                                            *)
Position == IF call.op \in {"handshake", "write"} THEN call.sent + irp.n ELSE active

DeviceInv ==
  ~residue =>
    /\ ~dev.garbled
    /\ port /\ ~(call.op = "handshake" /\ (call.dir = "read" \/ Position = 0)) =>
         dev.got = IF Position = FrameLen THEN 0 ELSE Position
    /\ port /\ call.op = "handshake" /\ call.dir = "read" => dev.got = 0

(* The reply the lane is about to look at, and whether the payload of the    *)
(* exchange is with the driver entirely. In an exchange of a request that    *)
(* began when nothing was owed, one acknowledgement at most is under way,    *)
(* and it is the one to this exchange; a reset after a failed one may meet   *)
(* acknowledgements, but the only ready byte is its own and comes last.      *)
Incoming ==
  IF call.op = "ack" THEN irp.byte
  ELSE IF lane.pc = "waiting" /\ ret.k = "ok" THEN ret.byte ELSE NoByte
Sent == lane.pc # "exchange" /\ taken = FrameLen
Empty == rx = << >> /\ owed = << >>

UnderWay(b) ==
  \/ Incoming = b /\ Empty
  \/ Incoming.byte = "none" /\ rx = <<b>> /\ owed = << >>
  \/ Incoming.byte = "none" /\ rx = << >> /\ owed = <<b>>
MainReplies ==
  \/ Incoming.byte = "none" /\ Empty
  \/ Sent /\ \E b \in Replies : b.own /\ b.byte = "ack" /\ UnderWay(b)
RetryReplies ==
  /\ \A i \in DOMAIN owed : owed[i].byte = "ready" => Sent /\ owed[i].own /\ i = Len(owed)
  /\ \A i \in DOMAIN rx :
       rx[i].byte = "ready" => Sent /\ rx[i].own /\ i = Len(rx) /\ owed = << >>
  /\ Incoming.byte = "ready" => Incoming.own /\ Empty

ByteInv == irp.byte.byte # "none" => irp.st = "done" /\ call.dir = "read"
ExpectInv ==
  clean /\ lane.pc \in Exchanging =>
    (lane.use = "main" => MainReplies) /\ (lane.use = "retry" => RetryReplies)
ReplyInv == ByteInv /\ ExpectInv /\ fooled # "clean"

(* How far a save has come on the device: the chunks before the current one  *)
(* are stored; its header is under way between the two acknowledgements and  *)
(* gone after a reset that was answered.                                     *)
Pending(byte) ==
  \/ Incoming.byte = byte
  \/ \E i \in DOMAIN rx : rx[i].byte = byte
  \/ \E i \in DOMAIN owed : owed[i].byte = byte

SaveUnderWay ==
  /\ lane.use # "cleanup" =>
       lane.frame.chunk \in 1..Chunks /\ 1..(lane.frame.chunk - 1) \subseteq dev.stored
  /\ lane.use # "main" /\ Pending("ready") => dev.header = 0
  /\ lane.use = "main" /\ lane.frame.kind = "header" /\ Pending("ack") =>
       dev.header = lane.frame.chunk
  /\ lane.use = "main" /\ lane.frame.kind = "chunk" =>
       /\ ~Sent => dev.header = lane.frame.chunk
       /\ Pending("ack") => dev.header = 0 /\ lane.frame.chunk \in dev.stored
SaveOver ==
  /\ lane.result = "ok" => dev.stored = 1..Chunks /\ dev.header = 0
  /\ lane.result # "ok" => dev.header = 0 \/ ~port \/ ResourceCancelled

SaveInv ==
  lane.r \in Saves /\ clean =>
    (lane.pc \in Exchanging => SaveUnderWay) /\ (lane.pc = "finish" => SaveOver)

-----------------------------------------------------------------------------
(* The records the stream works with, field by field                        *)

LEMMA IdleFields ==
  /\ Idle \in Calls /\ Idle.op = "none" /\ Idle.at = "idle" /\ Idle.dir = "write"
  /\ Idle.frame.kind = "none" /\ Idle.sent = 0
  BY RequestAssumption DEF Idle, Calls, Frames, NoFrame, RequestAssumption

LEMMA NoTransferFields ==
  /\ NoTransfer \in Transfers /\ NoTransfer.st = "none" /\ NoTransfer.n = 0
  /\ NoTransfer.byte = NoByte
  BY DEF NoTransfer, Transfers, Bytes, NoByte, Errors

LEMMA NoResultFields == NoResult \in Results /\ NoResult.k = "none"
  BY DEF NoResult, Results, Bytes, NoByte, Errors

LEMMA NoByteFields == NoByte \in Bytes /\ NoByte.byte = "none" /\ ~NoByte.own
  BY DEF NoByte, Bytes

LEMMA OkFields == Ok \in Results /\ Ok.k = "ok" /\ Ok.byte = NoByte
  BY DEF Ok, NoResult, Results, Bytes, NoByte, Errors

LEMMA WroteFields ==
  ASSUME NEW n \in Nat
  PROVE  /\ Wrote(n) \in Results /\ Wrote(n).k = "ok" /\ Wrote(n).n = n
         /\ Wrote(n).byte = NoByte
  BY DEF Wrote, NoResult, Results, Bytes, NoByte, Errors

LEMMA GotFields ==
  ASSUME NEW byte \in Bytes
  PROVE  /\ Got(byte) \in Results /\ Got(byte).k = "ok" /\ Got(byte).n = 1
         /\ Got(byte).byte = byte
  BY DEF Got, NoResult, Results, Bytes, NoByte, Errors

LEMMA ErrFields ==
  ASSUME NEW kind \in Errors
  PROVE  /\ Err(kind) \in Results /\ Err(kind).k = "err" /\ Err(kind).n = 0
         /\ ~Err(kind).reusable /\ Err(kind).err = kind
  BY DEF Err, NoResult, Results, Bytes, NoByte, Errors

LEMMA ZeroEffectFields ==
  ASSUME NEW kind \in Errors
  PROVE  /\ ZeroEffect(kind) \in Results /\ ZeroEffect(kind).k = "err"
         /\ ZeroEffect(kind).n = 0 /\ ZeroEffect(kind).err = kind
         /\ ZeroEffect(kind).reusable
  BY DEF ZeroEffect, Err, NoResult, Results, Bytes, NoByte, Errors

LEMMA InterruptionFields ==
  ASSUME NEW c
  PROVE  /\ Interruption(c) \in Results /\ Interruption(c).k = "err"
         /\ Interruption(c).n = 0 /\ Interruption(c).reusable
<1>1. PICK kind \in {"cancelled", "writeTimeout", "timeout"} : Interruption(c) = ZeroEffect(kind)
  BY DEF Interruption
<1>2. kind \in Errors
  BY DEF Errors
<1> QED BY <1>1, <1>2, ZeroEffectFields

(* close_after_write_failure reports how much of the payload was written.    *)
LEMMA LostFields ==
  ASSUME NEW n \in Nat
  PROVE  LET lost == [Err("disconnected") EXCEPT !.n = n]
         IN  lost \in Results /\ lost.k = "err" /\ lost.n = n /\ ~lost.reusable
  BY DEF Err, NoResult, Results, Bytes, NoByte, Errors

-----------------------------------------------------------------------------
(* What the methods of the transport do, case by case                       *)

CallGoes(at, dir, sent) ==
  /\ call' \in Calls /\ call'.op = call.op /\ call'.frame = call.frame
  /\ call'.at = at /\ call'.dir = dir /\ call'.sent = sent

Answers(k) == call' = Idle /\ ret' \in Results /\ ret'.k = k

HandshakeFails == call.op = "handshake" /\ Answers("err") /\ CloseStream
HandshakeWrites(res) ==
  /\ call.op = "handshake" /\ call.dir = "write" /\ res.k = "ok"
  /\ call.sent + res.n < FrameLen
  /\ CallGoes("transfer", "write", call.sent + res.n) /\ UNCHANGED <<stream, ret>>
HandshakeReads(res) ==
  /\ call.op = "handshake" /\ call.dir = "write" /\ res.k = "ok"
  /\ ~(call.sent + res.n < FrameLen)
  /\ CallGoes("transfer", "read", call.sent) /\ UNCHANGED <<stream, ret>>
HandshakeDone ==
  call.op = "handshake" /\ call.dir = "read" /\ Answers("ok") /\ UNCHANGED stream
WriteLost == call.op = "write" /\ Answers("err") /\ ~ret'.reusable /\ CloseStream
WriteRefused(res) ==
  /\ call.op = "write" /\ res.k = "err" /\ call.sent = 0 /\ res.reusable
  /\ Answers("err") /\ UNCHANGED stream
WriteAdvances(res) ==
  /\ call.op = "write" /\ res.k = "ok" /\ Answers("ok") /\ ret'.n = call.sent + res.n
  /\ UNCHANGED <<port, prepared>>
  /\ IF call.sent + res.n = FrameLen THEN active' = 0 /\ gate' = "full"
                                     ELSE active' = call.sent + res.n /\ gate' = gate
AckReturns(res) == call.op = "ack" /\ Answers(res.k) /\ ret' = res /\ UNCHANGED stream

Settled(res) ==
  \/ /\ UNCHANGED gate
     /\ \/ HandshakeFails \/ HandshakeWrites(res) \/ HandshakeReads(res)
        \/ HandshakeDone \/ WriteLost \/ WriteRefused(res) \/ AckReturns(res)
  \/ WriteAdvances(res)

LEMMA CloseAfterWriteFailureEffect ==
  ASSUME call \in Calls, NEW res \in Results, res.k = "err", call.op = "write",
         CloseAfterWriteFailure(res)
  PROVE  WriteLost \/ WriteRefused(res)
<1>1. CASE call.sent = 0 /\ res.reusable
  BY <1>1 DEF CloseAfterWriteFailure, WriteRefused, Answers, Return
<1>2. CASE ~(call.sent = 0 /\ res.reusable)
  <2>1. call.sent \in Nat
    BY DEF Calls
  <2> QED BY <1>2, <2>1, LostFields DEF CloseAfterWriteFailure, WriteLost, Answers, Return
<1> QED BY <1>1, <1>2

LEMMA ResultEffect ==
  ASSUME call \in Calls, ret \in Results, NEW res \in Results, Result(res)
  PROVE  Settled(res)
<1> USE DEF Settled
<1>1. call.sent \in Nat /\ res.n \in Nat
  BY DEF Calls, Results
<1>2. CASE call.op = "handshake" /\ HandshakeResult(res) /\ UNCHANGED gate
  <2>1. CASE res.k = "err"
    BY <1>2, <2>1 DEF HandshakeResult, HandshakeFails, Answers, Return
  <2>2. CASE res.k = "ok" /\ call.dir = "write" /\ call.sent + res.n < FrameLen
    <3>1. PICK sent \in Nat : sent = call.sent + res.n
      BY <1>1
    <3>2. call' = [call EXCEPT !.sent = sent, !.at = "transfer"] /\ UNCHANGED <<stream, ret>>
      BY <1>2, <2>2, <3>1 DEF HandshakeResult
    <3>3. CallGoes("transfer", "write", sent)
      BY <2>2, <3>2 DEF CallGoes, Calls
    <3> QED BY <1>2, <2>2, <3>1, <3>2, <3>3 DEF HandshakeWrites
  <2>3. CASE res.k = "ok" /\ call.dir = "write" /\ ~(call.sent + res.n < FrameLen)
    BY <1>1, <1>2, <2>3 DEF HandshakeResult, HandshakeReads, CallGoes, Calls
  <2>4. CASE res.k = "ok" /\ call.dir = "read"
    <3>1. "protocol" \in Errors
      BY DEF Errors
    <3> QED BY <1>2, <2>4, <3>1, OkFields, ErrFields
            DEF HandshakeResult, HandshakeDone, HandshakeFails, Answers, Return
  <2> QED BY <1>2, <2>1, <2>2, <2>3, <2>4 DEF HandshakeResult
<1>3. CASE call.op = "write" /\ WriteResult(res)
  <2>1. CASE res.k = "err"
    BY <1>3, <2>1, CloseAfterWriteFailureEffect DEF WriteResult
  <2>2. CASE res.k = "ok"
    BY <1>1, <1>3, <2>2, WroteFields
    DEF WriteResult, WriteAdvances, FullAcceptance, Answers, Return
  <2> QED BY <1>3, <2>1, <2>2 DEF WriteResult
<1>4. CASE call.op = "ack" /\ Return(res) /\ UNCHANGED <<stream, gate>>
  BY <1>4 DEF AckReturns, Answers, Return
<1> QED BY <1>2, <1>3, <1>4 DEF Result

FaultCounted == faults' \in {faults, faults + 1} /\ (faults' # faults => faults < MaxFaults)

Opens ==
  /\ call.op = "handshake" /\ call.at = "enter" /\ CallGoes("transfer", call.dir, call.sent)
  /\ port' = TRUE /\ prepared' = FALSE /\ active' = 0 /\ rx' = << >> /\ ret' = ret
  /\ gate' = "none" /\ taken' = 0 /\ faults' = faults /\ UNCHANGED <<late, irp, device>>
OpenFails ==
  /\ call.at = "enter" /\ HandshakeFails
  /\ gate' = "none" /\ taken' = 0 /\ UNCHANGED <<late, irp, device, rx>> /\ FaultCounted

LEMMA OpenPortEffect ==
  ASSUME call \in Calls, faults \in Nat, NEW c, OpenPort(c)
  PROVE  Opens \/ OpenFails
<1>1. "io" \in Errors
  BY DEF Errors
<1>2. CASE Interrupted(c) /\ CloseStream /\ Return(Interruption(c)) /\ UNCHANGED <<rx, faults>>
  BY <1>2, InterruptionFields
  DEF OpenPort, OpenFails, HandshakeFails, Answers, Return, FaultCounted
<1>3. CASE ~Interrupted(c) /\ Fault /\ CloseStream /\ Return(Err("io")) /\ UNCHANGED rx
  BY <1>1, <1>3, ErrFields
  DEF OpenPort, OpenFails, HandshakeFails, Answers, Return, Fault, FaultCounted
<1>4. CASE port' = TRUE /\ prepared' = FALSE /\ active' = 0 /\ rx' = << >>
           /\ call' = [call EXCEPT !.at = "transfer"] /\ UNCHANGED <<ret, faults>>
  <2>1. CallGoes("transfer", call.dir, call.sent)
    BY <1>4 DEF CallGoes, Calls
  <2> QED BY <1>4, <2>1 DEF OpenPort, Opens
<1> QED BY <1>2, <1>3, <1>4 DEF OpenPort

WriteStarts ==
  /\ call.op = "write" /\ call.at = "enter" /\ active = call.sent /\ port
  /\ CallGoes("transfer", call.dir, call.sent)
  /\ UNCHANGED <<port, active, ret, faults>> /\ prepared' \in {prepared, TRUE}
  /\ rx' \in {rx, << >>} /\ UNCHANGED <<late, irp, gate, taken, device>>
WriteFails ==
  /\ call.at = "enter" /\ UNCHANGED <<late, irp, gate, taken, device, rx>>
  /\ \/ WriteLost
     \/ active = call.sent /\ \E res \in Results : WriteRefused(res)
  /\ FaultCounted

LEMMA EnterWriteEffect ==
  ASSUME call \in Calls, faults \in Nat, NEW c, EnterWrite(c)
  PROVE  WriteStarts \/ WriteFails
<1>1. "io" \in Errors /\ "disconnected" \in Errors /\ call.sent \in Nat
  BY DEF Errors, Calls
<1>2. call.op = "write" /\ call.at = "enter" /\ UNCHANGED <<late, irp, gate, taken, device>>
  BY DEF EnterWrite
<1>3. ASSUME NEW res \in Results, res.k = "err", active = call.sent, UNCHANGED rx,
             UNCHANGED faults \/ Fault, CloseAfterWriteFailure(res)
      PROVE  WriteFails
  BY <1>2, <1>3, CloseAfterWriteFailureEffect DEF WriteFails, Fault, FaultCounted
<1>4. CASE active # call.sent /\ CloseStream
           /\ Return([Err("disconnected") EXCEPT !.n = call.sent]) /\ UNCHANGED <<rx, faults>>
  BY <1>1, <1>2, <1>4, LostFields DEF WriteFails, WriteLost, Answers, Return, FaultCounted
<1>5. CASE active = call.sent /\ Interrupted(c) /\ CloseAfterWriteFailure(Interruption(c))
           /\ UNCHANGED <<rx, faults>>
  <2>1. PICK res \in Results : res = Interruption(c) /\ res.k = "err"
    BY InterruptionFields
  <2>2. CloseAfterWriteFailure(res)
    BY <1>5, <2>1 DEF CloseAfterWriteFailure, Return
  <2> QED BY <1>2, <1>3, <1>5, <2>1, <2>2
<1>6. CASE active = call.sent /\ CloseAfterWriteFailure(Err("disconnected"))
           /\ UNCHANGED <<rx, faults>>
  <2>1. PICK res \in Results : res = Err("disconnected") /\ res.k = "err"
    BY <1>1, ErrFields
  <2>2. CloseAfterWriteFailure(res)
    BY <1>6, <2>1 DEF CloseAfterWriteFailure, Return
  <2> QED BY <1>2, <1>3, <1>6, <2>1, <2>2
<1>7. CASE active = call.sent /\ Fault /\ CloseAfterWriteFailure(Err("io")) /\ UNCHANGED rx
  <2>1. PICK res \in Results : res = Err("io") /\ res.k = "err"
    BY <1>1, ErrFields
  <2>2. CloseAfterWriteFailure(res)
    BY <1>7, <2>1 DEF CloseAfterWriteFailure, Return
  <2> QED BY <1>2, <1>3, <1>7, <2>1, <2>2
<1>8. CASE /\ active = call.sent /\ port
           /\ (prepared' = TRUE /\ rx' = << >>) \/ UNCHANGED <<prepared, rx>>
           /\ call' = [call EXCEPT !.at = "transfer"] /\ UNCHANGED <<port, active, ret, faults>>
  <2>1. CallGoes("transfer", call.dir, call.sent)
    BY <1>8 DEF CallGoes, Calls
  <2> QED BY <1>2, <1>8, <2>1 DEF WriteStarts
<1> QED BY <1>2, <1>4, <1>5, <1>6, <1>7, <1>8 DEF EnterWrite

AckStarts ==
  /\ call.op = "ack" /\ call.at = "enter" /\ port
  /\ CallGoes("transfer", call.dir, call.sent)
  /\ UNCHANGED <<stream, ret, late, irp, gate, taken, device, rx, faults>>
AckFails ==
  /\ call.op = "ack" /\ call.at = "enter" /\ Answers("err")
  /\ UNCHANGED <<stream, late, irp, gate, taken, device, rx, faults>>

LEMMA EnterAckEffect ==
  ASSUME call \in Calls, NEW c, EnterAck(c)
  PROVE  AckStarts \/ AckFails
<1>1. "disconnected" \in Errors
  BY DEF Errors
<1>2. CASE Return([Interruption(c) EXCEPT !.reusable = FALSE])
  <2>1. PICK res \in Results : res = Interruption(c) /\ res.k = "err"
    BY InterruptionFields
  <2>2. [res EXCEPT !.reusable = FALSE] \in Results /\ [res EXCEPT !.reusable = FALSE].k = "err"
    BY <2>1 DEF Results
  <2> QED BY <1>2, <2>1, <2>2 DEF EnterAck, AckFails, Answers, Return
<1>3. CASE Return(Err("disconnected"))
  BY <1>1, <1>3, ErrFields DEF EnterAck, AckFails, Answers, Return
<1>4. CASE port /\ call' = [call EXCEPT !.at = "transfer"] /\ UNCHANGED ret
  <2>1. CallGoes("transfer", call.dir, call.sent)
    BY <1>4 DEF CallGoes, Calls
  <2> QED BY <1>4, <2>1 DEF EnterAck, AckStarts
<1> QED BY <1>2, <1>3, <1>4 DEF EnterAck

-----------------------------------------------------------------------------
(* What happens to the transfer, case by case                               *)

TransferGoes(st, n, byte) ==
  irp' \in Transfers /\ irp'.st = st /\ irp'.n = n /\ irp'.byte = byte

Starts ==
  /\ call.at = "transfer" /\ CallGoes("wait", call.dir, call.sent)
  /\ TransferGoes("pending", 0, NoByte)
  /\ UNCHANGED <<stream, ret, gate, faults, late, taken, device, rx>>

(* The result a method gets is that of its transfer.                         *)
Reported(res) ==
  \/ res.k = "err" /\ (res.reusable => irp.st \in {"none", "aborted"})
  \/ /\ res.k = "ok" /\ irp.st = "done" /\ irp.n > 0
     /\ IF call.dir = "read" THEN res.byte = irp.byte ELSE res.n = irp.n

Settles ==
  /\ call.at \in {"transfer", "wait", "settleCancelled", "settleLate"}
  /\ irp' = IF call.at = "transfer" THEN irp ELSE NoTransfer
  /\ call.at # "transfer" => irp.st \in {"done", "failed", "aborted"}
  /\ FaultCounted
  /\ \E res \in Results : Reported(res) /\ Settled(res)
  /\ UNCHANGED <<late, taken, device, rx>>

LEMMA StartTransferEffect ==
  ASSUME call \in Calls, ret \in Results, faults \in Nat, TransferInv, NEW c, StartTransfer(c)
  PROVE  Starts \/ Settles
<1>1. call.at = "transfer" /\ irp.st = "none" /\ UNCHANGED <<late, taken, device, rx>>
  BY DEF StartTransfer, TransferInv, Waiting
<1>2. ASSUME NEW res \in Results, res.k = "err", Result(res), UNCHANGED irp,
             UNCHANGED faults \/ Fault
      PROVE  Settles
  BY <1>1, <1>2, ResultEffect DEF Settles, Reported, Fault, FaultCounted
<1>3. CASE Result(Interruption(c)) /\ UNCHANGED <<irp, faults>>
  <2>1. PICK res \in Results : res = Interruption(c) /\ res.k = "err"
    BY InterruptionFields
  <2>2. Result(res)
    BY <1>3, <2>1 DEF Result, HandshakeResult, WriteResult, CloseAfterWriteFailure, Return
  <2> QED BY <1>1, <1>2, <1>3, <2>1, <2>2
<1>4. CASE Fault /\ (\E kind \in FailureKinds : Result(Err(kind))) /\ UNCHANGED irp
  <2>1. PICK kind \in FailureKinds : Result(Err(kind))
    BY <1>4
  <2>2. kind \in Errors
    BY DEF FailureKinds, Errors
  <2>3. PICK res \in Results : res = Err(kind) /\ res.k = "err"
    BY <2>2, ErrFields
  <2>4. Result(res)
    BY <2>1, <2>3 DEF Result, HandshakeResult, WriteResult, CloseAfterWriteFailure, Return
  <2> QED BY <1>1, <1>2, <1>4, <2>3, <2>4
<1>5. CASE irp' = [NoTransfer EXCEPT !.st = "pending"] /\ call' = [call EXCEPT !.at = "wait"]
           /\ UNCHANGED <<stream, ret, gate, faults>>
  <2>1. CallGoes("wait", call.dir, call.sent)
    BY <1>5 DEF CallGoes, Calls, Waiting
  <2>2. TransferGoes("pending", 0, NoByte)
    BY <1>5 DEF TransferGoes, NoTransfer, Transfers, Bytes, NoByte, Errors
  <2> QED BY <1>1, <1>5, <2>1, <2>2 DEF Starts
<1> QED BY <1>1, <1>3, <1>4, <1>5 DEF StartTransfer

LEMMA CompletionFields ==
  ASSUME irp \in Transfers, call \in Calls, irp.st \in {"done", "failed", "aborted"}
  PROVE  Completion \in Results /\ Reported(Completion)
<1>1. {"io", "cancelled", "writeTimeout", "timeout"} \subseteq Errors
  BY DEF Errors
<1>2. CASE irp.st = "aborted"
  <2>1. PICK kind \in Errors : Completion = ZeroEffect(kind)
    BY <1>1, <1>2 DEF Completion
  <2> QED BY <1>2, <2>1, ZeroEffectFields DEF Reported
<1>3. CASE irp.st = "failed"
  <2>1. irp.err \in Errors
    BY DEF Transfers
  <2> QED BY <1>3, <2>1, ErrFields DEF Completion, Reported
<1>4. CASE irp.st = "done" /\ irp.n = 0
  BY <1>1, <1>4, ErrFields DEF Completion, Reported
<1>5. CASE irp.st = "done" /\ irp.n # 0
  <2>1. irp.n \in Nat /\ irp.byte \in Bytes /\ irp.n > 0
    BY <1>5 DEF Transfers
  <2> QED BY <1>5, <2>1, GotFields, WroteFields DEF Completion, Reported
<1> QED BY <1>2, <1>3, <1>4, <1>5

LEMMA FinishTransferEffect ==
  ASSUME call \in Calls, ret \in Results, irp \in Transfers, FinishTransfer
  PROVE  Settles
<1>1. irp.st \in {"done", "failed", "aborted"} /\ Result(Completion)
  BY DEF FinishTransfer
<1>2. Completion \in Results /\ Reported(Completion)
  BY <1>1, CompletionFields
<1> QED BY <1>1, <1>2, ResultEffect DEF FinishTransfer, Settling, Settles, FaultCounted

Cancels ==
  /\ call.at = "wait" /\ irp.st = "pending"
  /\ \E at \in {"settleCancelled", "settleLate", "unwind"} : CallGoes(at, call.dir, call.sent)
  /\ TransferGoes("cancelling", irp.n, irp.byte)
  /\ FaultCounted
  /\ UNCHANGED <<stream, ret, late, gate, taken, device, rx>>

LEMMA CancelsEffect ==
  ASSUME call \in Calls, irp \in Transfers, faults \in Nat, NEW c, Interrupt(c) \/ WaitPanics
  PROVE  Cancels
<1>1. PICK at \in {"settleCancelled", "settleLate", "unwind"} : call' = [call EXCEPT !.at = at]
  BY DEF Interrupt, WaitPanics
<1>2. CallGoes(at, call.dir, call.sent)
  BY <1>1 DEF CallGoes, Calls, Waiting
<1>3. irp' = [irp EXCEPT !.st = "cancelling"]
  BY DEF Interrupt, WaitPanics
<1>4. TransferGoes("cancelling", irp.n, irp.byte)
  BY <1>3 DEF TransferGoes, Transfers
<1>5. call.at = "wait" /\ irp.st = "pending" /\ (UNCHANGED faults \/ Fault)
      /\ UNCHANGED <<stream, ret, late, gate, taken, device, rx>>
  BY DEF Interrupt, WaitPanics
<1> QED BY <1>2, <1>4, <1>5 DEF Cancels, Fault, FaultCounted

Completes ==
  /\ Owned
  /\ \/ call.dir = "write" /\ UNCHANGED rx /\ TransferGoes("done", irp.n, irp.byte)
     \/ call.dir = "read" /\ rx # << >> /\ rx' = Tail(rx) /\ TransferGoes("done", 1, Head(rx))
     \/ UNCHANGED rx /\ TransferGoes("failed", irp.n, irp.byte)
     \/ /\ irp.st = "cancelling" /\ (irp.n = 0 \/ residue')
        /\ UNCHANGED rx /\ TransferGoes("aborted", irp.n, irp.byte)
  /\ FaultCounted
  /\ residue' \in {residue, TRUE}
  /\ UNCHANGED <<stream, call, ret, late, gate, taken, dev, owed>>

LEMMA CompletesEffect ==
  ASSUME irp \in Transfers, rx \in Seq(Replies), faults \in Nat,
         CompleteWrite \/ CompleteRead \/ FailTransfer \/ AbortTransfer
  PROVE  Completes
<1>1. Owned /\ UNCHANGED <<stream, call, ret, late, gate, taken, dev, owed>>
      /\ (UNCHANGED faults \/ Fault) /\ residue' \in {residue, TRUE}
  BY DEF CompleteWrite, CompleteRead, FailTransfer, AbortTransfer, Owned, device
<1>2. FaultCounted
  BY <1>1 DEF Fault, FaultCounted
<1>3. CASE CompleteWrite
  <2>1. TransferGoes("done", irp.n, irp.byte)
    BY <1>3 DEF CompleteWrite, TransferGoes, Transfers
  <2> QED BY <1>1, <1>2, <1>3, <2>1 DEF Completes, CompleteWrite
<1>4. CASE CompleteRead
  <2>1. Head(rx) \in Replies
    BY <1>4 DEF CompleteRead
  <2>2. PICK byte \in Bytes : byte = Head(rx)
    BY <2>1 DEF Replies, Bytes
  <2>3. irp' = [irp EXCEPT !.st = "done", !.n = 1, !.byte = byte]
    BY <1>4, <2>2 DEF CompleteRead
  <2>4. TransferGoes("done", 1, byte)
    BY <2>3 DEF TransferGoes, Transfers
  <2> QED BY <1>1, <1>2, <1>4, <2>2, <2>4 DEF Completes, CompleteRead
<1>5. CASE FailTransfer
  <2>1. PICK kind \in FailureKinds : irp' = [irp EXCEPT !.st = "failed", !.err = kind]
    BY <1>5 DEF FailTransfer
  <2>2. TransferGoes("failed", irp.n, irp.byte)
    BY <2>1 DEF TransferGoes, Transfers, FailureKinds, Errors
  <2> QED BY <1>1, <1>2, <1>5, <2>2 DEF Completes, FailTransfer
<1>6. CASE AbortTransfer
  <2>1. TransferGoes("aborted", irp.n, irp.byte)
    BY <1>6 DEF AbortTransfer, TransferGoes, Transfers
  <2> QED BY <1>1, <1>2, <1>6, <2>1 DEF Completes, AbortTransfer
<1> QED BY <1>3, <1>4, <1>5, <1>6

TakesByte ==
  /\ Owned /\ call.dir = "write" /\ irp.n < FrameLen - call.sent
  /\ TransferGoes(irp.st, irp.n + 1, irp.byte)
  /\ taken' = IF call.op = "write" THEN taken + 1 ELSE taken
  /\ Receive(call.frame, call.sent + irp.n + 1)
  /\ residue' = (residue /\ ~(call.op = "handshake" /\ call.sent + irp.n = 0))
  /\ UNCHANGED <<stream, call, ret, late, gate, rx>>

LEMMA TakeByteEffect ==
  ASSUME irp \in Transfers, TakeByte
  PROVE  TakesByte
<1>1. TransferGoes(irp.st, irp.n + 1, irp.byte)
  BY DEF TakeByte, TransferGoes, Transfers
<1> QED BY <1>1 DEF TakeByte, TakesByte, Remaining

-----------------------------------------------------------------------------
(* What the lane does, case by case                                         *)

(* The parts of a lane at a place. *)
LaneAt(l, pc, r) == l \in Lanes /\ l.pc = pc /\ l.r = r

LEMMA RestFields ==
  /\ AtRest \in Lanes /\ AtRest.pc = "top" /\ AtRest.r = NoRequest /\ AtRest.use = "main"
  BY RequestAssumption
  DEF AtRest, Lanes, Frames, NoFrame, Errors, RequestAssumption

LEMMA GotoFields ==
  ASSUME lane \in Lanes,
         NEW pc \in {"receive", "close", "top", "shaking", "writing", "written", "waiting",
                     "finish", "closing", "panicked"},
         Goto(pc)
  PROVE  /\ LaneAt(lane', pc, lane.r) /\ lane'.frame = lane.frame /\ lane'.use = lane.use
         /\ lane'.result = lane.result /\ lane'.tries = lane.tries
  BY DEF Goto, Lanes, LaneAt

CallBegins(method, frame, sent) ==
  /\ call' \in Calls /\ call'.op = method /\ call'.at = "enter" /\ call'.frame = frame
  /\ call'.dir = (IF method = "ack" THEN "read" ELSE "write") /\ call'.sent = sent

LEMMA LaneCallsFields ==
  ASSUME NEW method \in {"handshake", "write", "ack"}, NEW frame \in Frames, NEW sent \in Nat,
         LaneCalls(method, frame, sent)
  PROVE  CallBegins(method, frame, sent)
  BY RequestAssumption
  DEF LaneCalls, CallBegins, Calls, Idle, NoFrame, Frames, RequestAssumption

(* AfterExchange: the request ends, resets the device or sends on.           *)
RequestEnds(res) ==
  LaneAt(lane', IF res = "disconnected" THEN "disconnect" ELSE "finish", lane.r)
  /\ lane'.result = res
RequestCleansUp(res) ==
  /\ LaneAt(lane', "exchange", lane.r) /\ lane'.use = "cleanup" /\ lane'.result = res
  /\ lane'.frame.kind = "reset"
RequestSends(use, kind, chunk) ==
  /\ LaneAt(lane', "exchange", lane.r) /\ lane'.use = use
  /\ lane'.frame.kind = kind /\ lane'.frame.chunk = chunk

Outcomes(res) ==
  \/ /\ lane.use = "cleanup" /\ lane'.use = "cleanup" /\ lane'.frame = lane.frame
     /\ lane'.result = lane.result
     /\ LaneAt(lane', IF res = "ok" THEN "finish" ELSE "cleanupFailed", lane.r)
  \/ /\ lane.use = "retry" \/ (lane.use = "main" /\ lane.r \in Saves)
     /\ res # "ok" /\ ((RequestEnds(res) /\ res = "disconnected") \/ RequestCleansUp(res))
  \/ lane.use = "retry" /\ res = "ok" /\ RequestSends("main", "header", lane.frame.chunk)
  \/ /\ lane.use = "main" /\ lane.r \in Saves /\ res = "ok" /\ lane.frame.kind = "header"
     /\ RequestSends("main", "chunk", lane.frame.chunk)
  \/ /\ lane.use = "main" /\ lane.r \in Saves /\ res = "ok" /\ lane.frame.kind # "header"
     /\ \/ lane.frame.chunk < Chunks /\ RequestSends("main", "header", lane.frame.chunk + 1)
        \/ ~(lane.frame.chunk < Chunks) /\ RequestEnds("ok")
  \/ /\ lane.use = "main" /\ lane.r \in Saves /\ res \in {"timeout", "protocol"}
     /\ RequestSends("retry", "reset", lane.frame.chunk)
  \/ /\ lane.use = "main" /\ lane.r \notin Saves
     /\ RequestEnds(res) \/ (res # "ok" /\ RequestCleansUp(res))

LEMMA FrameFields ==
  ASSUME lane \in Lanes, NEW kind \in {"header", "chunk", "reset"}
  PROVE  /\ LaneAt(Frame(kind), "exchange", lane.r) /\ Frame(kind).use = "main"
         /\ Frame(kind).frame.kind = kind /\ Frame(kind).frame.chunk = lane.frame.chunk
         /\ Frame(kind).tries = lane.tries
  BY DEF Frame, Lanes, Frames, LaneAt

LEMMA EndedEffect ==
  ASSUME lane \in Lanes, NEW res \in Errors \union {"ok"}, lane' = Ended(res)
  PROVE  RequestEnds(res)
<1>1. PICK pc \in {"disconnect", "finish"} :
         pc = IF res = "disconnected" THEN "disconnect" ELSE "finish"
  OBVIOUS
<1>2. lane' = [lane EXCEPT !.result = res, !.pc = pc]
  BY <1>1 DEF Ended
<1>3. LaneAt(lane', pc, lane.r) /\ lane'.result = res
  BY <1>2 DEF Lanes, LaneAt
<1> QED BY <1>1, <1>3 DEF RequestEnds

LEMMA CleanupEffect ==
  ASSUME lane \in Lanes, NEW res \in Errors, lane' = Cleanup(res)
  PROVE  RequestCleansUp(res)
<1>1. PICK frame \in Frames : frame = [kind |-> "reset", chunk |-> 0]
  <2>1. [kind |-> "reset", chunk |-> 0] \in Frames
    BY RequestAssumption DEF Frames, RequestAssumption
  <2> QED BY <2>1
<1>2. lane' = [lane EXCEPT !.pc = "exchange", !.use = "cleanup", !.result = res, !.frame = frame]
  BY <1>1 DEF Cleanup
<1>3. LaneAt(lane', "exchange", lane.r) /\ lane'.use = "cleanup" /\ lane'.result = res
      /\ lane'.frame = frame
  <2>1. /\ lane'.pc = "exchange" /\ lane'.r = lane.r /\ lane'.use = "cleanup"
        /\ lane'.result = res /\ lane'.frame = frame
    BY <1>2 DEF Lanes
  <2>2. lane' \in Lanes
    BY <1>2 DEF Lanes
  <2> QED BY <2>1, <2>2 DEF LaneAt
<1> QED BY <1>1, <1>3 DEF RequestCleansUp

LEMMA NextChunkEffect ==
  ASSUME lane \in Lanes, lane.frame.chunk < Chunks, lane' = NextChunk
  PROVE  RequestSends("main", "header", lane.frame.chunk + 1)
<1>1. PICK frame \in Frames : frame = [kind |-> "header", chunk |-> lane.frame.chunk + 1]
  <2>1. lane.frame \in Frames
    BY DEF Lanes
  <2>2. PICK n \in 0..Chunks : n = lane.frame.chunk + 1
    BY <2>1, RequestAssumption DEF Frames, RequestAssumption
  <2>3. [kind |-> "header", chunk |-> n] \in Frames
    BY <2>2 DEF Frames
  <2> QED BY <2>2, <2>3
<1>2. PICK l \in Lanes : l = Frame("header") /\ l.pc = "exchange" /\ l.r = lane.r /\ l.use = "main"
                          /\ l.frame.kind = "header" /\ l.frame.chunk = lane.frame.chunk
  BY FrameFields DEF LaneAt
<1>3. lane' = [l EXCEPT !.frame.chunk = @ + 1, !.tries = 0]
  BY <1>2 DEF NextChunk
<1>4. lane' = [l EXCEPT !.frame = frame, !.tries = 0]
  <2>1. l.frame \in Frames
    BY <1>2 DEF Lanes
  <2>2. [l.frame EXCEPT !.chunk = @ + 1] = frame
    BY <1>1, <1>2, <2>1 DEF Frames
  <2>3. [l EXCEPT !.frame.chunk = @ + 1, !.tries = 0]
          = [l EXCEPT !.frame = [l.frame EXCEPT !.chunk = @ + 1], !.tries = 0]
    BY <1>2 DEF Lanes
  <2> QED BY <1>3, <2>2, <2>3
<1>5. LaneAt(lane', "exchange", lane.r) /\ lane'.use = "main" /\ lane'.frame = frame
  <2>1. [l EXCEPT !.frame = frame, !.tries = 0] \in Lanes
    BY DEF Lanes
  <2>2. /\ lane'.pc = l.pc /\ lane'.r = l.r /\ lane'.use = l.use /\ lane'.frame = frame
    BY <1>4 DEF Lanes
  <2> QED BY <1>2, <1>4, <2>1, <2>2 DEF LaneAt
<1> QED BY <1>1, <1>5 DEF RequestSends

LEMMA RetryEffect ==
  ASSUME lane \in Lanes, lane' = Retry
  PROVE  RequestSends("retry", "reset", lane.frame.chunk)
<1>1. PICK l \in Lanes : l = Frame("reset") /\ l.pc = "exchange" /\ l.r = lane.r
                          /\ l.frame.kind = "reset" /\ l.frame.chunk = lane.frame.chunk
  BY FrameFields DEF LaneAt
<1>2. PICK n \in Nat : n = l.tries + 1
  BY DEF Lanes
<1>3. lane' = [l EXCEPT !.tries = n, !.use = "retry"]
  BY <1>1, <1>2 DEF Retry, Lanes
<1> QED BY <1>1, <1>3 DEF Lanes, LaneAt, RequestSends

LEMMA SaveFailureEffect ==
  ASSUME lane \in Lanes, NEW res \in Errors, lane' = SaveFailure(res)
  PROVE  (RequestEnds(res) /\ res = "disconnected") \/ RequestCleansUp(res)
<1>1. CASE res = "disconnected"
  BY <1>1, EndedEffect DEF SaveFailure
<1>2. CASE res # "disconnected"
  BY <1>2, CleanupEffect DEF SaveFailure
<1> QED BY <1>1, <1>2

LEMMA OutcomeEffect ==
  ASSUME lane \in Lanes, NEW res \in Errors \union {"ok"}, Outcome(res)
  PROVE  Outcomes(res)
<1> USE DEF Outcomes
<1>1. lane.use \in {"main", "retry", "cleanup"} /\ "ok" \notin Errors
      /\ {"timeout", "protocol", "cancelled"} \subseteq Errors
  BY DEF Lanes, Errors
<1>2. CASE lane.use = "cleanup"
  <2>1. PICK pc \in {"finish", "cleanupFailed"} :
           pc = IF res = "ok" THEN "finish" ELSE "cleanupFailed"
    OBVIOUS
  <2>2. lane' = [lane EXCEPT !.pc = pc]
    BY <1>2, <2>1 DEF Outcome, AfterExchange
  <2>3. LaneAt(lane', pc, lane.r) /\ lane'.use = lane.use /\ lane'.frame = lane.frame
        /\ lane'.result = lane.result
    BY <2>2 DEF Lanes, LaneAt
  <2> QED BY <1>2, <2>1, <2>3
<1>3. CASE lane.use = "retry" /\ res = "ok"
  <2>1. lane' = Frame("header")
    BY <1>3 DEF Outcome, AfterExchange
  <2>2. RequestSends("main", "header", lane.frame.chunk)
    BY <2>1, FrameFields DEF RequestSends
  <2> QED BY <1>3, <2>2
<1>4. CASE lane.use = "retry" /\ res # "ok"
  <2>1. lane' = SaveFailure(res)
    BY <1>4 DEF Outcome, AfterExchange
  <2> QED BY <1>4, <2>1, SaveFailureEffect
<1>5. CASE lane.use = "main" /\ lane.r \in Saves
  <2>1. lane' = SaveStep(res)
    BY <1>5 DEF Outcome, AfterExchange
  <2>2. CASE res = "ok" /\ lane.frame.kind = "header"
    <3>1. lane' = Frame("chunk")
      BY <2>1, <2>2 DEF SaveStep
    <3>2. RequestSends("main", "chunk", lane.frame.chunk)
      BY <3>1, FrameFields DEF RequestSends
    <3> QED BY <1>5, <2>2, <3>2
  <2>3. CASE res = "ok" /\ lane.frame.kind # "header" /\ lane.frame.chunk < Chunks
    <3>1. lane' = NextChunk
      BY <2>1, <2>3 DEF SaveStep
    <3> QED BY <1>5, <2>3, <3>1, NextChunkEffect
  <2>4. CASE res = "ok" /\ lane.frame.kind # "header" /\ ~(lane.frame.chunk < Chunks)
    <3>1. lane' = Ended("ok")
      BY <2>1, <2>4 DEF SaveStep, NextChunk
    <3> QED BY <1>5, <2>4, <3>1, EndedEffect
  <2>5. CASE res \in {"timeout", "protocol"} /\ lane' = Retry
    BY <1>5, <2>5, RetryEffect
  <2>6. CASE res # "ok" /\ lane' = SaveFailure(res)
    BY <1>5, <2>6, SaveFailureEffect
  <2> QED BY <2>1, <2>2, <2>3, <2>4, <2>5, <2>6 DEF SaveStep
<1>6. CASE lane.use = "main" /\ lane.r \notin Saves
  <2>1. CASE lane' = Cleanup(res) /\ res = "cancelled"
    BY <1>1, <1>6, <2>1, CleanupEffect
  <2>2. CASE lane' = Ended(res)
    BY <1>6, <2>2, EndedEffect
  <2> QED BY <1>6, <2>1, <2>2 DEF Outcome, AfterExchange
<1> QED BY <1>1, <1>2, <1>3, <1>4, <1>5, <1>6

(* A reply keeps its byte and its place when it becomes stale.               *)
LEMMA StaleFields ==
  ASSUME NEW replies \in Seq(Replies)
  PROVE  /\ Stale(replies) \in Seq(Replies) /\ Len(Stale(replies)) = Len(replies)
         /\ \A i \in 1..Len(replies) :
              Stale(replies)[i].byte = replies[i].byte /\ ~Stale(replies)[i].own
         /\ replies = << >> => Stale(replies) = << >>
<1>1. DOMAIN replies = 1..Len(replies) /\ Len(replies) \in Nat
  OBVIOUS
<1>2. ASSUME NEW i \in 1..Len(replies)
      PROVE  /\ [replies[i] EXCEPT !.own = FALSE] \in Replies
             /\ [replies[i] EXCEPT !.own = FALSE].byte = replies[i].byte
             /\ ~[replies[i] EXCEPT !.own = FALSE].own
  <2>1. PICK reply \in Replies : reply = replies[i]
    BY <1>1
  <2>2. /\ [reply EXCEPT !.own = FALSE] \in Replies
        /\ [reply EXCEPT !.own = FALSE].byte = reply.byte
        /\ ~[reply EXCEPT !.own = FALSE].own
    BY DEF Replies
  <2> QED BY <2>1, <2>2
<1>3. Stale(replies) \in [1..Len(replies) -> Replies]
  BY <1>1, <1>2 DEF Stale
<1>4. Stale(replies) \in Seq(Replies) /\ Len(Stale(replies)) = Len(replies)
  BY <1>1, <1>3
<1>5. replies = << >> => Stale(replies) = << >>
  BY <1>4
<1> QED BY <1>1, <1>2, <1>4, <1>5 DEF Stale

PayloadBegins(frame) ==
  CallBegins("write", frame, 0) /\ gate' = "outstanding" /\ taken' = 0

ExchangeBegins ==
  /\ LaneAt(lane', "writing", lane.r) /\ lane'.frame = lane.frame /\ lane'.use = lane.use
  /\ lane'.result = lane.result
  /\ PayloadBegins(lane.frame) /\ owed' = Stale(owed) /\ rx' = Stale(rx)
ExchangeStops == Outcomes("cancelled") /\ UNCHANGED <<call, gate, taken, owed, rx>>

LEMMA BeginExchangeEffect ==
  ASSUME lane \in Lanes, BeginExchange
  PROVE  /\ lane.pc = "exchange" /\ (ExchangeBegins \/ ExchangeStops)
         /\ UNCHANGED <<port, active, ret, irp, dev, conn>>
<1>1. CASE Outcome("cancelled") /\ UNCHANGED <<prepared, call, late, gate, taken, owed, rx>>
  <2>1. "cancelled" \in Errors
    BY DEF Errors
  <2> QED BY <1>1, <2>1, OutcomeEffect DEF BeginExchange, ExchangeStops
<1>2. CASE BeginWrite(lane.frame) /\ owed' = Stale(owed) /\ rx' = Stale(rx) /\ Goto("writing")
  <2>1. lane.frame \in Frames /\ 0 \in Nat
    BY DEF Lanes
  <2>2. PayloadBegins(lane.frame)
    BY <1>2, <2>1, LaneCallsFields DEF BeginWrite, PayloadBegins
  <2> QED BY <1>2, <2>2, GotoFields DEF BeginExchange, ExchangeBegins
<1> QED BY <1>1, <1>2 DEF BeginExchange

(* The loop of write_payload_with_cancellation: it goes on, is through, or   *)
(* settles the payload as not delivered.                                     *)
PayloadGoesOn ==
  /\ ret.k = "ok" /\ ret.n < FrameLen /\ CallBegins("write", lane.frame, ret.n)
  /\ UNCHANGED <<stream, gate, conn, lane>>
PayloadWritten(pc) ==
  /\ ret.k = "ok" /\ ret.n = FrameLen
  /\ LaneAt(lane', pc, lane.r) /\ lane'.frame = lane.frame /\ lane'.use = lane.use
  /\ lane'.result = lane.result /\ UNCHANGED <<stream, call, gate, conn>>
PayloadFails ==
  /\ ret.k = "err" /\ gate' = "notDelivered" /\ call' = call
  /\ \/ CloseStream /\ (ret.n # 0 \/ ~ret.reusable)
     \/ ret.n = 0 /\ ret.reusable /\ UNCHANGED stream

LEMMA WriteReturnsEffect ==
  ASSUME lane \in Lanes, ret \in Results, WriteReturns
  PROVE  /\ lane.pc = "writing" /\ ret' = NoResult
         /\ UNCHANGED <<irp, taken, device, rx, history>>
         /\ \/ PayloadGoesOn \/ PayloadWritten("written")
            \/ \E error \in Errors : PayloadFails /\ Outcomes(error)
<1>1. lane.frame \in Frames /\ ret.n \in Nat /\ ret.err \in Errors
  BY DEF Lanes, Results
<1>2. CASE ret.k = "ok" /\ ret.n < FrameLen /\ LaneCalls("write", lane.frame, ret.n)
           /\ UNCHANGED <<stream, gate, conn, lane, late>>
  BY <1>1, <1>2, LaneCallsFields DEF WriteReturns, Returned, PayloadGoesOn
<1>3. CASE ret.k = "ok" /\ ret.n = FrameLen /\ Goto("written")
           /\ UNCHANGED <<stream, call, gate, conn>>
  BY <1>3, GotoFields DEF WriteReturns, Returned, PayloadWritten
<1>4. CASE ret.k = "err" /\ SettleFailedWrite(ret) /\ Outcome(ret.err) /\ call' = call
  BY <1>1, <1>4, OutcomeEffect DEF WriteReturns, Returned, PayloadFails, SettleFailedWrite
<1> QED BY <1>2, <1>3, <1>4 DEF WriteReturns

LEMMA NeutralReturnsEffect ==
  ASSUME lane \in Lanes, ret \in Results, NeutralReturns
  PROVE  /\ lane.pc = "neutral" /\ ret' = NoResult
         /\ UNCHANGED <<irp, taken, device, rx, history>>
         /\ \/ PayloadGoesOn \/ PayloadWritten("closing")
            \/ PayloadFails /\ LaneAt(lane', "closing", lane.r)
<1>1. lane.frame \in Frames /\ ret.n \in Nat
  BY DEF Lanes, Results
<1>2. CASE ret.k = "ok" /\ ret.n < FrameLen /\ LaneCalls("write", lane.frame, ret.n)
           /\ UNCHANGED <<stream, gate, conn, lane, late>>
  BY <1>1, <1>2, LaneCallsFields DEF NeutralReturns, Returned, PayloadGoesOn
<1>3. CASE ret.k = "ok" /\ ret.n = FrameLen /\ Goto("closing")
           /\ UNCHANGED <<stream, call, gate, conn>>
  BY <1>3, GotoFields DEF NeutralReturns, Returned, PayloadWritten
<1>4. CASE ret.k = "err" /\ SettleFailedWrite(ret) /\ Goto("closing") /\ call' = call
  BY <1>4, GotoFields DEF NeutralReturns, Returned, PayloadFails, SettleFailedWrite
<1> QED BY <1>2, <1>3, <1>4 DEF NeutralReturns

WaitBegins ==
  /\ LaneAt(lane', "waiting", lane.r) /\ lane'.frame = lane.frame /\ lane'.use = lane.use
  /\ lane'.result = lane.result /\ CallBegins("ack", NoFrame, 0)

LEMMA BeginWaitEffect ==
  ASSUME lane \in Lanes, BeginWait
  PROVE  /\ lane.pc = "written" /\ (WaitBegins \/ (Outcomes("cancelled") /\ call' = call))
         /\ UNCHANGED <<stream, ret, irp, gate, taken, device, rx, conn, history>>
<1>1. CASE Outcome("cancelled") /\ UNCHANGED <<call, late>>
  <2>1. "cancelled" \in Errors
    BY DEF Errors
  <2> QED BY <1>1, <2>1, OutcomeEffect DEF BeginWait
<1>2. CASE LaneCalls("ack", NoFrame, 0) /\ Goto("waiting")
  <2>1. NoFrame \in Frames /\ 0 \in Nat
    BY RequestAssumption DEF NoFrame, Frames, RequestAssumption
  <2> QED BY <1>2, <2>1, LaneCallsFields, GotoFields DEF BeginWait, WaitBegins
<1> QED BY <1>1, <1>2 DEF BeginWait

(* The reply that is expected completes the exchange, anything else ends it. *)
Acknowledged ==
  /\ ret.k = "ok" /\ ret.byte.byte = Expected /\ Outcomes("ok")
  /\ fooled' = IF ret.byte.own \/ lane.use = "cleanup" THEN fooled
               ELSE IF clean THEN "clean"
               ELSE IF fooled = "no" THEN "dirty" ELSE fooled
Unacknowledged == fooled' = fooled /\ \E error \in Errors : Outcomes(error)

LEMMA ReplyReturnsEffect ==
  ASSUME lane \in Lanes, ret \in Results, ReplyReturns
  PROVE  /\ lane.pc = "waiting" /\ ret.k # "none" /\ ret' = NoResult
         /\ Acknowledged \/ Unacknowledged
         /\ UNCHANGED <<stream, call, irp, gate, taken, device, rx, clean, conn>>
<1>1. {"cancelled", "protocol"} \subseteq Errors /\ ret.err \in Errors
  BY DEF Errors, Results
<1>2. lane.pc = "waiting" /\ ret.k # "none" /\ ret' = NoResult
      /\ UNCHANGED <<stream, call, irp, gate, taken, device, rx, clean, conn>>
  BY DEF ReplyReturns, Returned
<1>3. CASE ret.k = "ok" /\ Accepts(ret.byte.byte) /\ Outcome("ok")
           /\ fooled' = IF ret.byte.own \/ lane.use = "cleanup" THEN fooled
                        ELSE IF clean THEN "clean"
                        ELSE IF fooled = "no" THEN "dirty" ELSE fooled
  BY <1>2, <1>3, OutcomeEffect DEF Accepts, Acknowledged
<1>4. CASE Outcome("cancelled") /\ fooled' = fooled
  BY <1>1, <1>2, <1>4, OutcomeEffect DEF Unacknowledged
<1>5. CASE Outcome("protocol") /\ fooled' = fooled
  BY <1>1, <1>2, <1>5, OutcomeEffect DEF Unacknowledged
<1>6. CASE Outcome(ret.err) /\ fooled' = fooled
  BY <1>1, <1>2, <1>6, OutcomeEffect DEF Unacknowledged
<1> QED BY <1>3, <1>4, <1>5, <1>6 DEF ReplyReturns

AbandonsConnect ==
  /\ CloseStream /\ conn' = "disconnected" /\ lane' = AtRest
  /\ \E state \in {"cancelled", "failed"} : op' = [op EXCEPT ![lane.r] = state]
ShakeBegins ==
  /\ LaneAt(lane', "shaking", lane.r)
  /\ \E frame \in Frames : frame.kind = "hello" /\ CallBegins("handshake", frame, 0)
  /\ UNCHANGED <<stream, conn, op>>

LEMMA AttemptEffect ==
  ASSUME lane \in Lanes, Attempt
  PROVE  /\ lane.pc = "attempt" /\ UNCHANGED <<ret, irp, gate, taken, device, rx, history>>
         /\ ShakeBegins \/ (AbandonsConnect /\ call' = call)
<1>1. CASE call' = call /\ \E state \in {"cancelled", FailedOrCancelled(lane.r)} :
             AbandonConnect(state)
  BY <1>1 DEF Attempt, AbandonConnect, AbandonsConnect, FailedOrCancelled, Settle
<1>2. CASE LaneCalls("handshake", [kind |-> "hello", chunk |-> 0], 0) /\ Goto("shaking")
           /\ UNCHANGED <<stream, conn, op>>
  <2>1. [kind |-> "hello", chunk |-> 0] \in Frames
    BY RequestAssumption DEF Frames, RequestAssumption
  <2>2. PICK frame \in Frames : frame = [kind |-> "hello", chunk |-> 0]
    BY <2>1
  <2>3. LaneCalls("handshake", frame, 0)
    BY <1>2, <2>2
  <2>4. CallBegins("handshake", frame, 0)
    BY <2>3, LaneCallsFields
  <2>5. frame.kind = "hello"
    BY <2>2
  <2> QED BY <1>2, <2>4, <2>5, GotoFields DEF Attempt, ShakeBegins
<1> QED BY <1>1, <1>2 DEF Attempt

Connected ==
  /\ conn' = "connected" /\ lane' = AtRest /\ op' = [op EXCEPT ![lane.r] = "succeeded"]
  /\ UNCHANGED stream
TriesAgain == LaneAt(lane', "attempt", lane.r) /\ CloseStream /\ UNCHANGED <<conn, op>>

LEMMA ShakenEffect ==
  ASSUME lane \in Lanes, Shaken
  PROVE  /\ lane.pc = "shaking" /\ ret.k # "none" /\ ret' = NoResult
         /\ UNCHANGED <<call, irp, gate, taken, device, rx, history>>
         /\ Connected \/ AbandonsConnect \/ TriesAgain
<1>1. lane.pc = "shaking" /\ ret.k # "none" /\ ret' = NoResult
      /\ UNCHANGED <<call, irp, gate, taken, device, rx, history>>
  BY DEF Shaken, Returned
<1>2. CASE conn' = "connected" /\ Settle(lane.r, "succeeded") /\ lane' = AtRest /\ UNCHANGED stream
  BY <1>1, <1>2 DEF Connected, Settle
<1>3. CASE AbandonConnect("cancelled")
  BY <1>1, <1>3 DEF AbandonConnect, AbandonsConnect, Settle
<1>4. CASE CloseStream /\ lane' = [lane EXCEPT !.pc = "attempt", !.tries = @ + 1]
           /\ UNCHANGED <<conn, op>>
  <2>1. PICK n \in Nat : n = lane.tries + 1
    BY DEF Lanes
  <2>2. lane' = [lane EXCEPT !.pc = "attempt", !.tries = n]
    BY <1>4, <2>1 DEF Lanes
  <2>3. LaneAt(lane', "attempt", lane.r)
    BY <2>2 DEF Lanes, LaneAt
  <2> QED BY <1>1, <1>4, <2>3 DEF TriesAgain
<1> QED BY <1>2, <1>3, <1>4 DEF Shaken

RequestBegins(r) ==
  /\ LaneAt(lane', IF r \in Connects THEN "attempt" ELSE "exchange", r)
  /\ lane'.use = "main" /\ lane'.frame.kind = (IF r \in Saves THEN "header" ELSE "plain")
  /\ r \in Saves => lane'.frame.chunk = 1
  /\ clean' = (owed = << >> /\ rx = << >>) /\ fooled' = fooled
  /\ conn' \in {conn, "connecting"} /\ op' = [op EXCEPT ![r] = "running"]
RequestDropped(r) ==
  /\ LaneAt(lane', "top", lane.r) /\ lane'.use = lane.use /\ UNCHANGED <<conn, history>>
  /\ \E state \in {"cancelled", "failed"} : op' = [op EXCEPT ![r] = state]

LEMMA ReceiveRequestEffect ==
  ASSUME lane \in Lanes, dev \in Devices, inbox \in Seq(Requests), NEW r \in Requests,
         ReceiveRequest(r)
  PROVE  /\ lane.pc = "receive" /\ inbox # << >> /\ r = Head(inbox) /\ inbox' = Tail(inbox)
         /\ RequestBegins(r) \/ RequestDropped(r)
         /\ dev' \in Devices /\ dev'.got = dev.got /\ dev'.garbled = dev.garbled
         /\ dev'.header = dev.header /\ dev'.stored = {}
         /\ UNCHANGED <<stream, call, ret, late, irp, gate, taken, owed, rx, faults, sub>>
<1>1. /\ lane.pc = "receive" /\ inbox # << >> /\ r = Head(inbox) /\ inbox' = Tail(inbox)
      /\ UNCHANGED <<stream, call, ret, late, irp, gate, taken, owed, rx, faults, sub>>
  BY DEF ReceiveRequest
<1>2. /\ dev' \in Devices /\ dev'.got = dev.got /\ dev'.garbled = dev.garbled
      /\ dev'.header = dev.header /\ dev'.stored = {}
  BY DEF ReceiveRequest, Devices
<1>3. CASE Goto("top") /\ UNCHANGED <<conn, history>>
           /\ (Settle(r, "cancelled") \/ Settle(r, "failed"))
  BY <1>1, <1>2, <1>3, GotoFields DEF RequestDropped, Settle
<1>4. CASE /\ Settle(r, "running") /\ clean' = (owed = << >> /\ rx = << >>)
           /\ lane' = [AtRest EXCEPT !.r = r,
                !.pc = IF r \in Connects THEN "attempt" ELSE "exchange",
                !.frame = IF r \in Saves THEN [kind |-> "header", chunk |-> 1]
                          ELSE [kind |-> "plain", chunk |-> 0]]
           /\ conn' = IF r \in Connects THEN "connecting" ELSE conn
           /\ UNCHANGED fooled
  <2>1. PICK pc \in {"attempt", "exchange"} : pc = IF r \in Connects THEN "attempt" ELSE "exchange"
    OBVIOUS
  <2>2. [kind |-> "header", chunk |-> 1] \in Frames /\ [kind |-> "plain", chunk |-> 0] \in Frames
    BY RequestAssumption DEF Frames, RequestAssumption
  <2>3. PICK frame \in Frames : frame = IF r \in Saves THEN [kind |-> "header", chunk |-> 1]
                                        ELSE [kind |-> "plain", chunk |-> 0]
    BY <2>2
  <2>4. lane' = [AtRest EXCEPT !.r = r, !.pc = pc, !.frame = frame]
    BY <1>4, <2>1, <2>3
  <2>5. LaneAt(lane', pc, r) /\ lane'.use = "main" /\ lane'.frame = frame
    <3>1. AtRest \in Lanes /\ AtRest.use = "main"
      BY RestFields
    <3>2. lane'.pc = pc /\ lane'.r = r /\ lane'.use = "main" /\ lane'.frame = frame
      BY <2>4, <3>1 DEF Lanes
    <3>3. lane' \in Lanes
      BY <2>1, <2>3, <2>4, <3>1 DEF Lanes
    <3> QED BY <3>2, <3>3 DEF LaneAt
  <2> QED BY <1>1, <1>2, <1>4, <2>1, <2>3, <2>5 DEF RequestBegins, Settle
<1> QED BY <1>1, <1>3, <1>4 DEF ReceiveRequest

NeutralBegins ==
  /\ conn \in {"connected", "disconnecting"} /\ conn' = "disconnecting"
  /\ LaneAt(lane', "neutral", NoRequest) /\ PayloadBegins(lane'.frame)
NothingToClose ==
  LaneAt(lane', "closing", NoRequest) /\ UNCHANGED <<conn, call, prepared, late, gate, taken>>

LEMMA CloseBeginsEffect ==
  ASSUME inbox \in Seq(Requests), CloseBegins
  PROVE  /\ lane.pc = "close" /\ inbox' = << >>
         /\ NeutralBegins \/ NothingToClose
         /\ UNCHANGED <<port, active, ret, irp, device, rx, faults, sub, history>>
<1> DEFINE connected == conn \in {"connected", "disconnecting"}
<1>1. lane.pc = "close" /\ inbox' = << >>
      /\ UNCHANGED <<port, active, ret, irp, device, rx, faults, sub, history>>
  BY DEF CloseBegins
<1>2. PICK held \in SUBSET Requests : held = ToSet(inbox)
  <2>1. \A i \in DOMAIN inbox : inbox[i] \in Requests
    OBVIOUS
  <2> QED BY <2>1 DEF ToSet
<1>3. [kind |-> "neutral", chunk |-> 0] \in Frames
  BY RequestAssumption DEF Frames, RequestAssumption
<1>4. PICK frame \in Frames : frame = [kind |-> "neutral", chunk |-> 0]
  BY <1>3
<1>5. PICK pc \in {"neutral", "closing"} : pc = IF connected THEN "neutral" ELSE "closing"
  OBVIOUS
<1>6. lane' = [AtRest EXCEPT !.held = held, !.frame = frame, !.pc = pc]
  BY <1>2, <1>4, <1>5 DEF CloseBegins
<1>7. LaneAt(lane', pc, NoRequest) /\ lane'.frame = frame
  BY <1>6, RestFields DEF Lanes, LaneAt
<1>8. CASE connected
  <2>1. BeginWrite(frame) /\ conn' = "disconnecting"
    BY <1>4, <1>8 DEF CloseBegins, BeginWrite, LaneCalls
  <2>2. PayloadBegins(frame)
    BY <2>1, LaneCallsFields DEF BeginWrite, PayloadBegins
  <2> QED BY <1>1, <1>5, <1>7, <1>8, <2>1, <2>2 DEF NeutralBegins
<1>9. CASE ~connected
  <2>1. UNCHANGED <<conn, call, prepared, late, gate, taken>>
    BY <1>9 DEF CloseBegins
  <2> QED BY <1>1, <1>5, <1>7, <1>9, <2>1 DEF NothingToClose
<1> QED BY <1>8, <1>9

-----------------------------------------------------------------------------
(* What a byte does to the device                                           *)

Garbled(frame, position) ==
  IF position # 1 THEN dev.garbled
  ELSE IF frame.kind = "hello" THEN FALSE ELSE dev.garbled \/ dev.got # 0

DeviceGoes(got, garbled, header, stored) ==
  /\ dev' \in Devices /\ dev'.got = got /\ dev'.garbled = garbled
  /\ dev'.header = header /\ dev'.stored = stored

HeaderAfter(frame) ==
  IF frame.kind = "header" THEN frame.chunk
  ELSE IF frame.kind \in {"chunk", "reset", "hello"} THEN 0 ELSE dev.header
StoredAfter(frame) ==
  IF frame.kind = "chunk" /\ dev.header # 0 THEN dev.stored \union {dev.header} ELSE dev.stored

Buffers(frame, position) ==
  /\ Garbled(frame, position) \/ position # FrameLen
  /\ DeviceGoes(IF position = FrameLen THEN 0 ELSE position, Garbled(frame, position),
                dev.header, dev.stored)
  /\ UNCHANGED <<owed, faults>>
Serves(frame, position) ==
  /\ ~Garbled(frame, position) /\ position = FrameLen
  /\ DeviceGoes(0, FALSE, HeaderAfter(frame), StoredAfter(frame))
  /\ \/ frame.kind = "neutral" /\ owed' = owed
     \/ \E reply \in Replies :
          /\ reply.own
          /\ reply.byte = (IF frame.kind \in {"hello", "reset"} THEN "ready" ELSE "ack")
          /\ owed' = Append(owed, reply)
  /\ UNCHANGED faults
Ignores(frame, position) ==
  /\ ~Garbled(frame, position) /\ position = FrameLen
  /\ DeviceGoes(0, FALSE, dev.header, dev.stored) /\ UNCHANGED owed
  /\ FaultCounted

LEMMA ReceiveEffect ==
  ASSUME dev \in Devices, faults \in Nat, NEW frame \in Frames, NEW position \in Nat,
         Receive(frame, position)
  PROVE  Buffers(frame, position) \/ Serves(frame, position) \/ Ignores(frame, position)
<1> DEFINE fresh == [dev EXCEPT !.got = 0, !.garbled = FALSE]
           from == IF position # 1 THEN dev
                   ELSE IF frame.kind = "hello" THEN fresh
                   ELSE [dev EXCEPT !.garbled = @ \/ dev.got # 0]
           done == position = FrameLen
           served == [from EXCEPT
             !.got = 0,
             !.header = CASE frame.kind = "header" -> frame.chunk
                          [] frame.kind \in {"chunk", "reset", "hello"} -> 0
                          [] OTHER -> @,
             !.stored = IF frame.kind = "chunk" /\ from.header # 0
                        THEN @ \union {from.header} ELSE @]
           reply == [byte |-> IF frame.kind \in {"hello", "reset"} THEN "ready" ELSE "ack",
                     own |-> TRUE]
<1>1. IF from.garbled \/ ~done
      THEN /\ dev' = [from EXCEPT !.got = IF done THEN 0 ELSE position]
           /\ UNCHANGED <<owed, faults>>
      ELSE \/ /\ dev' = served
              /\ owed' = IF frame.kind = "neutral" THEN owed ELSE Append(owed, reply)
              /\ UNCHANGED faults
           \/ /\ frame.kind # "neutral" /\ Fault
              /\ dev' = [from EXCEPT !.got = 0]
              /\ UNCHANGED owed
  BY DEF Receive
<1>2. PICK f \in Devices : /\ f = from /\ f.garbled = Garbled(frame, position)
                           /\ f.header = dev.header /\ f.stored = dev.stored
  <2>1. fresh \in Devices /\ ~fresh.garbled /\ fresh.header = dev.header
        /\ fresh.stored = dev.stored
    BY DEF Devices
  <2>2. PICK g \in BOOLEAN : g = (dev.garbled \/ dev.got # 0)
    OBVIOUS
  <2>3. [dev EXCEPT !.garbled = @ \/ dev.got # 0] = [dev EXCEPT !.garbled = g]
    BY <2>2 DEF Devices
  <2>4. /\ [dev EXCEPT !.garbled = g] \in Devices /\ [dev EXCEPT !.garbled = g].garbled = g
        /\ [dev EXCEPT !.garbled = g].header = dev.header
        /\ [dev EXCEPT !.garbled = g].stored = dev.stored
    BY DEF Devices
  <2>5. from \in Devices
    BY <2>1, <2>3, <2>4
  <2>6. from.garbled = Garbled(frame, position)
    BY <2>1, <2>2, <2>3, <2>4 DEF Garbled
  <2>7. from.header = dev.header /\ from.stored = dev.stored
    BY <2>1, <2>3, <2>4
  <2> HIDE DEF from
  <2> QED BY <2>5, <2>6, <2>7
<1>3. CASE from.garbled \/ ~done
  <2>1. PICK got \in Nat : got = IF done THEN 0 ELSE position
    OBVIOUS
  <2>2. dev' = [f EXCEPT !.got = got]
    BY <1>1, <1>2, <1>3, <2>1
  <2>3. DeviceGoes(got, f.garbled, f.header, f.stored)
    BY <2>2 DEF Devices, DeviceGoes
  <2> QED BY <1>1, <1>2, <1>3, <2>1, <2>3 DEF Buffers
<1>4. CASE ~(from.garbled \/ ~done) /\ dev' = served /\ UNCHANGED faults
           /\ owed' = IF frame.kind = "neutral" THEN owed ELSE Append(owed, reply)
  <2>1. PICK header \in 0..Chunks : header = HeaderAfter(frame)
    BY RequestAssumption DEF HeaderAfter, Frames, Devices, RequestAssumption
  <2>2. PICK stored \in SUBSET (1..Chunks) : stored = StoredAfter(frame)
    <3>1. dev.header \in 0..Chunks /\ dev.stored \in SUBSET (1..Chunks)
      BY DEF Devices
    <3>2. dev.header # 0 => dev.header \in 1..Chunks
      BY <3>1, RequestAssumption DEF RequestAssumption
    <3>3. StoredAfter(frame) \in SUBSET (1..Chunks)
      BY <3>1, <3>2 DEF StoredAfter
    <3> QED BY <3>3
  <2>3. dev' = [f EXCEPT !.got = 0, !.header = header, !.stored = stored]
    BY <1>2, <1>4, <2>1, <2>2 DEF HeaderAfter, StoredAfter, Devices
  <2>4. DeviceGoes(0, f.garbled, header, stored)
    BY <2>3 DEF Devices, DeviceGoes
  <2>5. reply \in Replies /\ reply.own
        /\ reply.byte = (IF frame.kind \in {"hello", "reset"} THEN "ready" ELSE "ack")
    BY DEF Replies
  <2>6. f.garbled = FALSE
    BY <1>2, <1>4 DEF Devices
  <2> HIDE DEF reply
  <2>7. frame.kind # "neutral" => owed' = Append(owed, reply)
    BY <1>4
  <2> QED BY <1>2, <1>4, <2>1, <2>2, <2>4, <2>5, <2>6, <2>7 DEF Serves
<1>5. CASE ~(from.garbled \/ ~done) /\ Fault /\ dev' = [from EXCEPT !.got = 0] /\ UNCHANGED owed
  <2>1. dev' = [f EXCEPT !.got = 0]
    BY <1>2, <1>5
  <2>2. DeviceGoes(0, f.garbled, f.header, f.stored)
    BY <2>1 DEF Devices, DeviceGoes
  <2>3. f.garbled = FALSE
    BY <1>2, <1>5 DEF Devices
  <2> QED BY <1>2, <1>5, <2>2, <2>3 DEF Ignores, Fault, FaultCounted
<1> QED BY <1>1, <1>3, <1>4, <1>5

-----------------------------------------------------------------------------
(* The steps, by what they do                                               *)

Completions == Completes \/ Cancels \/ Starts \/ Settles
Entries == Opens \/ OpenFails \/ WriteStarts \/ WriteFails \/ AckStarts \/ AckFails
StreamStep ==
  /\ Entries \/ Completions \/ TakesByte \/ DeviceReplies \/ TimePasses
  /\ UNCHANGED <<clients, conn, lane, deferred, history>>

LEMMA StreamStepEffect ==
  ASSUME TypeOK, TransferInv, Stream \/ StreamFaults
  PROVE  StreamStep
<1>1. call \in Calls /\ ret \in Results /\ irp \in Transfers /\ rx \in Seq(Replies)
      /\ faults \in Nat
  BY StreamAssumption DEF TypeOK, CallType, StreamType, StreamAssumption
<1>2. UNCHANGED <<clients, conn, lane, deferred, history>>
  BY DEF Stream, StreamFaults
<1> USE DEF StreamStep, Entries, Completions
<1>3. CASE OpenPort(CallCancelled)
  BY <1>1, <1>2, <1>3, OpenPortEffect
<1>4. CASE EnterWrite(CallCancelled)
  BY <1>1, <1>2, <1>4, EnterWriteEffect
<1>5. CASE EnterAck(CallCancelled)
  BY <1>1, <1>2, <1>5, EnterAckEffect
<1>6. CASE StartTransfer(CallCancelled)
  BY <1>1, <1>2, <1>6, StartTransferEffect
<1>7. CASE Interrupt(CallCancelled) \/ WaitPanics
  BY <1>1, <1>2, <1>7, CancelsEffect
<1>8. CASE FinishTransfer
  BY <1>1, <1>2, <1>8, FinishTransferEffect
<1>9. CASE TakeByte
  BY <1>1, <1>2, <1>9, TakeByteEffect
<1>10. CASE CompleteWrite \/ CompleteRead \/ FailTransfer \/ AbortTransfer
  BY <1>1, <1>2, <1>10, CompletesEffect
<1>11. CASE DeviceReplies \/ TimePasses
  BY <1>2, <1>11
<1> QED BY <1>3, <1>4, <1>5, <1>6, <1>7, <1>8, <1>9, <1>10, <1>11
        DEF Stream, StreamFaults, Method, Driver

(* The threads around the lane touch neither it nor its stream.              *)
ClientStep ==
  \/ CancelResource \/ Join \/ Seal
  \/ \E r \in Requests : Send(r) \/ Admit(r) \/ Cancel(r)

LEMMA ClientsOnlyAsk == ASSUME ClientStep PROVE UNCHANGED <<serialVars, lane, history>>
  BY DEF ClientStep, CancelResource, Join, Seal, Send, Admit, Cancel

LaneStep ==
  \/ Top \/ ReceiveClose \/ (\E r \in Requests : ReceiveRequest(r)) \/ Attempt \/ Shaken
  \/ BeginExchange \/ WriteReturns \/ BeginWait \/ ReplyReturns \/ CleanupFailed \/ LoseStream
  \/ Finish \/ CloseBegins \/ NeutralReturns \/ CloseEnds \/ Unwind

(* Between requests and once one is over the lane only moves.                *)
Passes ==
  /\ lane.pc \in {"top", "receive"} /\ UNCHANGED <<serialVars, clients, conn, deferred, history>>
  /\ \E pc \in {"receive", "close"} : LaneAt(lane', pc, lane.r)

LEMMA PassesEffect == ASSUME lane \in Lanes, Top \/ ReceiveClose PROVE Passes
  BY GotoFields DEF Top, ReceiveClose, Passes

Leaves ==
  \/ /\ lane.pc = "cleanupFailed" /\ LaneAt(lane', "finish", lane.r)
     /\ lane'.result = lane.result /\ lane'.use = lane.use
     /\ (ResourceCancelled /\ UNCHANGED stream) \/ CloseStream
     /\ UNCHANGED <<call, ret, late, irp, gate, taken, device, rx, faults, clients, history>>
  \/ /\ lane.pc = "disconnect" /\ LaneAt(lane', "finish", lane.r)
     /\ lane'.result = lane.result /\ lane'.use = lane.use /\ CloseStream
     /\ UNCHANGED <<call, ret, late, irp, gate, taken, device, rx, faults, clients, history>>
  \/ lane.pc = "finish" /\ lane' = AtRest /\ UNCHANGED <<serialVars, sub, inbox, closer, history>>
  \/ /\ lane.pc = "closing" /\ LaneAt(lane', "ended", NoRequest) /\ CloseStream
     /\ UNCHANGED <<call, ret, late, irp, gate, taken, device, rx, faults, sub, inbox, history>>

LEMMA LeavesEffect ==
  ASSUME lane \in Lanes, CleanupFailed \/ LoseStream \/ Finish \/ CloseEnds
  PROVE  Leaves
<1>1. CASE CleanupFailed
  BY <1>1, GotoFields DEF CleanupFailed, Disconnect, Leaves
<1>2. CASE LoseStream
  BY <1>2, GotoFields DEF LoseStream, Disconnect, Leaves
<1>3. CASE Finish
  BY <1>3 DEF Finish, Leaves, serialVars
<1>4. CASE CloseEnds
  <2>1. LaneAt(lane', "ended", NoRequest)
    BY <1>4, RestFields DEF CloseEnds, Lanes, LaneAt
  <2> QED BY <1>4, <2>1 DEF CloseEnds, Leaves
<1> QED BY <1>1, <1>2, <1>3, <1>4

Unwinds ==
  /\ call.at = "unwind" /\ irp.st \in {"done", "failed", "aborted"} /\ irp' = NoTransfer
  /\ CloseStream /\ call' = Idle /\ LaneAt(lane', "panicked", lane.r)
  /\ UNCHANGED <<ret, late, gate, taken, device, rx, faults, clients, conn, history>>

LEMMA UnwindEffect == ASSUME lane \in Lanes, Unwind PROVE Unwinds
  BY GotoFields DEF Unwind, Unwinds

LEMMA StepCases ==
  ASSUME TypeOK, TransferInv, Next
  PROVE  ClientStep \/ StreamStep \/ LaneStep
<1>1. CASE Stream \/ StreamFaults
  BY <1>1, StreamStepEffect
<1> QED BY <1>1 DEF Next, Progress, Lane, Requesting, LaneStep, ClientStep

(* A residue is left by an abort and taken away by the first byte of a       *)
(* handshake, by nothing else.                                               *)
LEMMA ResidueNext ==
  ASSUME TypeOK, TransferInv, Next
  PROVE  /\ residue' \in BOOLEAN
         /\ residue /\ ~residue' =>
              TakesByte /\ UNCHANGED lane /\ call.op = "handshake" /\ call.sent + irp.n = 0
<1>1. residue \in BOOLEAN
  BY DEF TypeOK, StreamType
<1>2. CASE UNCHANGED residue
  BY <1>1, <1>2
<1>3. CASE ClientStep
  BY <1>2, <1>3, ClientsOnlyAsk DEF serialVars, device
<1>4. CASE StreamStep
  <2>1. CASE Entries \/ Starts \/ Cancels \/ Settles \/ DeviceReplies \/ TimePasses
    BY <1>2, <2>1
    DEF Entries, Opens, OpenFails, WriteStarts, WriteFails, AckStarts, AckFails, Starts, Cancels,
        Settles, DeviceReplies, TimePasses, device
  <2>2. CASE Completes
    <3>1. UNCHANGED residue \/ residue' = TRUE
      BY <2>2 DEF Completes
    <3> QED BY <1>2, <3>1
  <2>3. CASE TakesByte
    BY <1>1, <1>4, <2>3 DEF TakesByte, StreamStep
  <2> QED BY <1>4, <2>1, <2>2, <2>3 DEF StreamStep, Completions
<1>5. CASE LaneStep
  <2>1. CASE Top \/ ReceiveClose \/ Attempt \/ Shaken \/ BeginExchange \/ WriteReturns
    BY <1>2, <2>1
    DEF Top, ReceiveClose, Attempt, Shaken, BeginExchange, WriteReturns, serialVars, device
  <2>2. CASE \E r \in Requests : ReceiveRequest(r)
    BY <1>2, <2>2 DEF ReceiveRequest
  <2>3. CASE \/ BeginWait \/ ReplyReturns \/ CleanupFailed \/ LoseStream \/ Finish
             \/ CloseBegins \/ NeutralReturns \/ CloseEnds \/ Unwind
    BY <1>2, <2>3
    DEF BeginWait, ReplyReturns, CleanupFailed, LoseStream, Finish, CloseBegins, NeutralReturns,
        CloseEnds, Unwind, serialVars, device
  <2> QED BY <1>5, <2>1, <2>2, <2>3 DEF LaneStep
<1> QED BY <1>3, <1>4, <1>5, StepCases

-----------------------------------------------------------------------------
LEMMA CallInvNext == ASSUME TypeOK, CallInv, TransferInv, Next PROVE CallInv'
<1> USE DEF CallInv, Serving, MethodOf
<1>1. call \in Calls /\ ret \in Results /\ irp \in Transfers /\ lane \in Lanes
      /\ dev \in Devices /\ inbox \in Seq(Requests)
  BY DEF TypeOK, CallType, StreamType, ClientType, LaneType
<1>2. FrameLen \in Nat /\ FrameLen > 0
  BY StreamAssumption DEF StreamAssumption
<1>3. call.sent \in Nat /\ ret.n \in Nat /\ (irp.st = "none" <=> call.at \notin Waiting)
  BY <1>1 DEF Calls, Results, TransferInv
<1>4. ASSUME UNCHANGED <<call, ret>>, lane'.pc = lane.pc, lane'.frame = lane.frame PROVE CallInv'
  BY <1>4
<1>5. ASSUME call.op # "none", UNCHANGED lane, Answers("err") \/ Answers("ok") PROVE CallInv'
  BY <1>2, <1>5, IdleFields DEF Answers
<1>6. ASSUME NEW at \in {"transfer", "wait", "settleCancelled", "settleLate", "unwind"},
             NEW dir \in {"read", "write"}, NEW sent \in Nat, sent < FrameLen,
             call.op # "none", dir = call.dir \/ call.op = "handshake",
             UNCHANGED <<ret, lane>>, CallGoes(at, dir, sent)
      PROVE  CallInv'
  BY <1>6 DEF CallGoes
<1>7. CASE ClientStep
  BY <1>4, <1>7, ClientsOnlyAsk DEF serialVars
<1>8. CASE StreamStep
  <2>1. UNCHANGED lane /\ call.dir \in {"read", "write"}
    BY <1>1, <1>8 DEF StreamStep, Calls
  <2>2. CASE Opens \/ WriteStarts \/ AckStarts \/ Starts
    BY <1>3, <1>6, <2>1, <2>2 DEF Opens, WriteStarts, AckStarts, Starts, CallInv
  <2>3. CASE OpenFails \/ WriteFails \/ AckFails
    BY <1>5, <2>1, <2>3 DEF OpenFails, WriteFails, AckFails, HandshakeFails, WriteLost,
                            WriteRefused
  <2>4. CASE Cancels
    <3>1. PICK at \in {"settleCancelled", "settleLate", "unwind"} :
             CallGoes(at, call.dir, call.sent)
      BY <2>4 DEF Cancels
    <3> QED BY <1>3, <1>6, <2>1, <2>4, <3>1 DEF Cancels
  <2>5. CASE Settles
    <3>1. PICK res \in Results : Reported(res) /\ Settled(res)
      BY <2>5 DEF Settles
    <3>2. res.n \in Nat /\ (res.k = "ok" \/ res.k = "err")
      BY <3>1 DEF Results, Reported
    <3>3. CASE HandshakeWrites(res) \/ HandshakeReads(res)
      BY <1>2, <1>3, <1>6, <2>1, <3>2, <3>3 DEF HandshakeWrites, HandshakeReads
    <3>4. CASE HandshakeFails \/ HandshakeDone \/ WriteLost \/ WriteRefused(res)
               \/ AckReturns(res) \/ WriteAdvances(res)
      BY <1>5, <2>1, <3>2, <3>4
      DEF HandshakeFails, HandshakeDone, WriteLost, WriteRefused, AckReturns, WriteAdvances
    <3> QED BY <3>1, <3>3, <3>4 DEF Settled
  <2>6. CASE Completes \/ TakesByte \/ DeviceReplies \/ TimePasses
    BY <1>4, <2>1, <2>6 DEF Completes, TakesByte, DeviceReplies, TimePasses
  <2> QED BY <1>8, <2>2, <2>3, <2>4, <2>5, <2>6 DEF StreamStep, Entries, Completions
<1>9. CASE LaneStep
  <2>1. ASSUME call.op = "none", UNCHANGED call, ret'.k = "none", lane'.pc \notin Serving
        PROVE  CallInv'
    BY <2>1
  <2>2. ASSUME NEW method \in {"handshake", "write", "ack"}, NEW frame \in Frames,
               NEW sent \in Nat,
               sent < FrameLen, CallBegins(method, frame, sent), ret'.k = "none",
               lane'.pc \in Serving, method = MethodOf(lane'.pc),
               method = "write" => lane'.frame = frame,
               method = "handshake" => frame.kind = "hello" /\ sent = 0
        PROVE  CallInv'
    BY <2>2 DEF CallBegins
  <2>3. 0 \in Nat /\ 0 < FrameLen /\ NoFrame \in Frames
    BY <1>2, RequestAssumption DEF RequestAssumption, NoFrame, Frames
  <2>4. ASSUME NEW res, Outcomes(res) PROVE lane'.pc \notin Serving
    BY <2>4 DEF Outcomes, RequestEnds, RequestCleansUp, RequestSends, LaneAt
  <2>5. ASSUME PayloadGoesOn, lane.pc \in {"writing", "neutral"}, ret' = NoResult PROVE CallInv'
    <3>1. lane'.frame \in Frames /\ lane'.pc = lane.pc /\ lane'.frame = lane.frame
      BY <1>1, <2>5 DEF PayloadGoesOn, Lanes
    <3> QED BY <1>3, <2>2, <2>5, <3>1, NoResultFields DEF PayloadGoesOn
  <2>6. CASE Top \/ ReceiveClose
    BY <1>1, <2>1, <2>6, PassesEffect DEF Passes, LaneAt, serialVars
  <2>7. ASSUME NEW r \in Requests, ReceiveRequest(r) PROVE CallInv'
    BY <1>1, <2>1, <2>7, ReceiveRequestEffect DEF RequestBegins, RequestDropped, LaneAt
  <2>8. CASE Attempt
    BY <1>1, <2>1, <2>2, <2>3, <2>8, AttemptEffect, RestFields
    DEF ShakeBegins, AbandonsConnect, LaneAt
  <2>9. CASE Shaken
    BY <1>1, <2>1, <2>9, ShakenEffect, RestFields, NoResultFields
    DEF Connected, AbandonsConnect, TriesAgain, LaneAt
  <2>10. CASE BeginExchange
    <3>1. lane.frame \in Frames
      BY <1>1 DEF Lanes
    <3> QED BY <1>1, <2>1, <2>2, <2>3, <2>4, <2>10, <3>1, BeginExchangeEffect
            DEF ExchangeBegins, ExchangeStops, PayloadBegins, LaneAt
  <2>11. CASE WriteReturns
    BY <1>1, <2>1, <2>4, <2>5, <2>11, WriteReturnsEffect, NoResultFields
    DEF PayloadWritten, PayloadFails, PayloadGoesOn, LaneAt
  <2>12. CASE BeginWait
    BY <1>1, <2>1, <2>2, <2>3, <2>4, <2>12, BeginWaitEffect DEF WaitBegins, LaneAt
  <2>13. CASE ReplyReturns
    BY <1>1, <2>1, <2>4, <2>13, ReplyReturnsEffect, NoResultFields
    DEF Acknowledged, Unacknowledged
  <2>14. CASE CleanupFailed \/ LoseStream \/ Finish \/ CloseEnds
    BY <1>1, <2>1, <2>14, LeavesEffect, RestFields DEF Leaves, LaneAt, serialVars
  <2>15. CASE CloseBegins
    <3>1. lane'.frame \in Frames \/ ~NeutralBegins
      BY DEF NeutralBegins, LaneAt, Lanes
    <3> QED BY <1>1, <2>1, <2>2, <2>3, <2>15, <3>1, CloseBeginsEffect
            DEF NeutralBegins, NothingToClose, PayloadBegins, LaneAt
  <2>16. CASE NeutralReturns
    BY <1>1, <2>1, <2>5, <2>16, NeutralReturnsEffect, NoResultFields
    DEF PayloadWritten, PayloadFails, PayloadGoesOn, LaneAt
  <2>17. CASE Unwind
    BY <1>1, <1>2, <2>17, UnwindEffect, IdleFields DEF Unwinds, LaneAt
  <2> QED BY <1>9, <2>6, <2>7, <2>8, <2>9, <2>10, <2>11, <2>12, <2>13, <2>14, <2>15, <2>16, <2>17
          DEF LaneStep
<1> QED BY <1>7, <1>8, <1>9, StepCases

LEMMA TransferInvNext == ASSUME TypeOK, CallInv, TransferInv, Next PROVE TransferInv'
<1> USE DEF TransferInv, Waiting
<1>1. call \in Calls /\ ret \in Results /\ irp \in Transfers /\ lane \in Lanes
      /\ dev \in Devices /\ inbox \in Seq(Requests)
  BY DEF TypeOK, CallType, StreamType, ClientType, LaneType
<1>2. FrameLen \in Nat /\ FrameLen > 0
  BY StreamAssumption DEF StreamAssumption
<1>3. call.sent \in Nat /\ call.sent < FrameLen /\ irp.n \in Nat /\ call.dir \in {"read", "write"}
      /\ irp.st \in {"none", "pending", "cancelling", "done", "failed", "aborted"}
  BY <1>1 DEF Calls, Transfers, CallInv
<1>0. irp.st = "aborted" /\ residue => residue'
  BY ResidueNext DEF TakesByte, Owned
<1>4. ASSUME UNCHANGED <<irp, call>>, port' = port \/ call.at \notin {"transfer"} \union Waiting
      PROVE  TransferInv'
  BY <1>0, <1>4
<1>5. ASSUME irp'.st = "none", irp'.n = 0, call'.at \in {"idle", "enter"}, call'.sent \in Nat,
             call'.sent <= FrameLen
      PROVE  TransferInv'
  BY <1>2, <1>5
<1>6. CASE ClientStep
  BY <1>4, <1>6, ClientsOnlyAsk DEF serialVars, stream
<1>7. CASE StreamStep
  <2>1. CASE Opens \/ WriteStarts \/ AckStarts
    <3>1. CallGoes("transfer", call.dir, call.sent) /\ irp' = irp /\ port' /\ call.at = "enter"
      BY <2>1 DEF Opens, WriteStarts, AckStarts, stream
    <3> QED BY <1>3, <3>1 DEF CallGoes
  <2>2. CASE Starts
    BY <1>3, <2>2 DEF Starts, CallGoes, TransferGoes, stream
  <2>3. CASE OpenFails \/ WriteFails \/ AckFails
    <3>1. call' = Idle /\ irp' = irp /\ call.at = "enter"
      BY <2>3 DEF OpenFails, WriteFails, AckFails, HandshakeFails, WriteLost, WriteRefused, Answers
    <3> QED BY <1>2, <1>5, <3>1, IdleFields
  <2>4. CASE Cancels
    <3>1. PICK at \in {"settleCancelled", "settleLate", "unwind"} :
             CallGoes(at, call.dir, call.sent)
      BY <2>4 DEF Cancels
    <3> QED BY <1>3, <2>4, <3>1 DEF Cancels, CallGoes, TransferGoes, stream
  <2>5. CASE Settles
    <3>1. PICK res \in Results : Reported(res) /\ Settled(res)
      BY <2>5 DEF Settles
    <3>2. irp'.st = "none" /\ irp'.n = 0 /\ port
      BY <2>5, NoTransferFields DEF Settles
    <3>3. res.n \in Nat /\ (res.k = "ok" \/ res.k = "err")
      BY <3>1 DEF Results, Reported
    <3>4. CASE HandshakeWrites(res) \/ HandshakeReads(res)
      <4>1. port' /\ call'.at = "transfer"
        BY <3>2, <3>4 DEF HandshakeWrites, HandshakeReads, CallGoes, stream
      <4>2. call'.sent \in Nat /\ call'.sent <= FrameLen
        BY <1>2, <1>3, <3>3, <3>4 DEF HandshakeWrites, HandshakeReads, CallGoes
      <4> QED BY <1>2, <3>2, <4>1, <4>2
    <3>5. CASE HandshakeFails \/ HandshakeDone \/ WriteLost \/ WriteRefused(res)
               \/ AckReturns(res) \/ WriteAdvances(res)
      <4>1. call' = Idle
        BY <3>5
        DEF HandshakeFails, HandshakeDone, WriteLost, WriteRefused, AckReturns, WriteAdvances,
            Answers
      <4> QED BY <1>2, <1>5, <3>2, <4>1, IdleFields
    <3> QED BY <3>1, <3>4, <3>5 DEF Settled
  <2>6. CASE Completes
    <3>1. UNCHANGED <<port, call>> /\ irp.st \in {"pending", "cancelling"}
      BY <2>6 DEF Completes, Owned, stream
    <3>2. irp'.st \in {"done", "failed", "aborted"} /\ (irp'.n = irp.n \/ call.dir = "read")
      BY <2>6 DEF Completes, TransferGoes
    <3>3. irp'.st = "aborted" => irp.st = "cancelling" /\ (irp'.n = 0 \/ residue')
      BY <2>6 DEF Completes, TransferGoes
    <3>4. call.dir = "read" => irp'.st \in {"done", "failed", "aborted"}
                               /\ irp'.n = IF irp'.st = "done" THEN 1 ELSE 0
      BY <2>6, <3>1 DEF Completes, TransferGoes
    <3> QED BY <1>3, <3>1, <3>2, <3>3, <3>4
  <2>7. CASE TakesByte
    BY <1>2, <1>3, <2>7 DEF TakesByte, Owned, TransferGoes, stream
  <2>8. CASE DeviceReplies \/ TimePasses
    BY <1>4, <2>8 DEF DeviceReplies, TimePasses, stream
  <2> QED BY <1>7, <2>1, <2>2, <2>3, <2>4, <2>5, <2>6, <2>7, <2>8
          DEF StreamStep, Entries, Completions
<1>8. CASE LaneStep
  <2>1. ASSUME call.op = "none", UNCHANGED <<call, irp>> PROVE TransferInv'
    BY <1>4, <2>1 DEF CallInv
  <2>2. ASSUME call.op = "none", NEW method, NEW frame, NEW sent \in Nat,
               sent <= FrameLen, CallBegins(method, frame, sent), UNCHANGED irp
        PROVE  TransferInv'
    BY <1>5, <2>2 DEF CallInv, CallBegins
  <2>3. 0 \in Nat /\ 0 <= FrameLen
    BY <1>2
  <2>4. ASSUME PayloadGoesOn, ret.k # "none", lane.pc \in Serving, UNCHANGED irp PROVE TransferInv'
    <3>1. ret.n \in Nat
      BY <1>1 DEF Results
    <3> QED BY <1>2, <2>2, <2>4, <3>1 DEF PayloadGoesOn, CallInv
  <2>5. CASE Top \/ ReceiveClose
    BY <1>1, <1>4, <2>5, PassesEffect DEF Passes, serialVars, stream
  <2>6. ASSUME NEW r \in Requests, ReceiveRequest(r) PROVE TransferInv'
    BY <1>1, <1>4, <2>6, ReceiveRequestEffect DEF stream
  <2>7. CASE Attempt
    BY <1>1, <2>1, <2>2, <2>3, <2>7, AttemptEffect DEF ShakeBegins, CallInv, Serving
  <2>8. CASE Shaken
    BY <1>1, <2>1, <2>8, ShakenEffect DEF CallInv, Serving
  <2>9. CASE BeginExchange
    BY <1>1, <2>1, <2>2, <2>3, <2>9, BeginExchangeEffect
    DEF ExchangeBegins, ExchangeStops, PayloadBegins, CallInv, Serving
  <2>10. CASE WriteReturns
    BY <1>1, <2>1, <2>4, <2>10, WriteReturnsEffect
    DEF PayloadWritten, PayloadFails, PayloadGoesOn, CallInv, Serving
  <2>11. CASE BeginWait
    BY <1>1, <2>1, <2>2, <2>3, <2>11, BeginWaitEffect DEF WaitBegins, CallInv, Serving
  <2>12. CASE ReplyReturns
    BY <1>1, <2>1, <2>12, ReplyReturnsEffect DEF CallInv, Serving
  <2>13. CASE CleanupFailed \/ LoseStream \/ Finish \/ CloseEnds
    BY <1>1, <2>1, <2>13, LeavesEffect DEF Leaves, serialVars, CallInv, Serving
  <2>14. CASE CloseBegins
    BY <1>1, <2>1, <2>2, <2>3, <2>14, CloseBeginsEffect
    DEF NeutralBegins, NothingToClose, PayloadBegins, CallInv, Serving
  <2>15. CASE NeutralReturns
    BY <1>1, <2>1, <2>4, <2>15, NeutralReturnsEffect
    DEF PayloadWritten, PayloadFails, PayloadGoesOn, CallInv, Serving
  <2>16. CASE Unwind
    BY <1>1, <1>2, <1>5, <2>16, UnwindEffect, IdleFields, NoTransferFields DEF Unwinds
  <2> QED BY <1>8, <2>5, <2>6, <2>7, <2>8, <2>9, <2>10, <2>11, <2>12, <2>13, <2>14, <2>15, <2>16
          DEF LaneStep
<1> QED BY <1>6, <1>7, <1>8, StepCases

LEMMA AccountInvNext ==
  ASSUME TypeOK, CallInv, TransferInv, AccountInv, Next
  PROVE  AccountInv'
<1> USE DEF AccountInv, Writing
<1>1. call \in Calls /\ ret \in Results /\ irp \in Transfers /\ lane \in Lanes
      /\ dev \in Devices /\ inbox \in Seq(Requests)
  BY DEF TypeOK, CallType, StreamType, ClientType, LaneType
<1>2. FrameLen \in Nat /\ FrameLen > 0 /\ active \in Nat /\ taken \in Nat
  BY StreamAssumption DEF StreamAssumption, TypeOK, StreamType
<1>3. /\ call.sent \in Nat /\ call.sent < FrameLen /\ irp.n \in Nat /\ ret.n \in Nat
      /\ call.dir \in {"read", "write"}
  BY <1>1 DEF Calls, Transfers, Results, CallInv
<1>4. /\ call.op = "write" =>
           call.dir = "write" /\ lane.pc \in {"writing", "neutral"} /\ ret.k = "none"
      /\ call.op = "handshake" => lane.pc = "shaking"
      /\ call.op = "ack" => lane.pc = "waiting"
      /\ call.at \in {"enter", "transfer"} => irp.n = 0
      /\ call.op = "none" => irp.n = 0
      /\ lane.pc \notin Serving => call.op = "none" /\ ret.k = "none"
      /\ ret.k # "none" => call.op = "none"
  BY DEF CallInv, TransferInv, Serving, MethodOf, Waiting
<1>0. residue => residue' \/ (TakesByte /\ lane'.pc = "shaking" /\ gate' = "none")
  BY <1>4, ResidueNext DEF TakesByte, TransferInv, Owned, Waiting
<1>5. ASSUME UNCHANGED <<lane, ret, gate, taken, port, active>>,
             call'.op = call.op, call'.sent = call.sent, irp'.n = irp.n \/ call.op # "write",
             call'.at = call.at \/ call.op # "handshake" \/ call.at # "enter"
      PROVE  AccountInv'
  BY <1>0, <1>5
<1>6. ASSUME call'.op # "write", UNCHANGED <<lane, gate, taken>>,
             lane.pc \notin {"writing", "neutral"},
             call'.op = "handshake" => call.op = "handshake" /\ call.at # "enter",
             (active' = active /\ port' = port) \/ (active' = 0 /\ port' = FALSE)
      PROVE  AccountInv'
  BY <1>0, <1>6
<1>7. CASE ClientStep
  BY <1>5, <1>7, ClientsOnlyAsk DEF serialVars, stream
<1>8. CASE StreamStep
  <2>1. UNCHANGED lane
    BY <1>8 DEF StreamStep
  <2>2. CASE Opens \/ OpenFails
    BY <1>2, <1>4, <2>1, <2>2, IdleFields
    DEF Opens, OpenFails, HandshakeFails, CallGoes, Answers, CloseStream
  <2>3. CASE WriteStarts \/ AckStarts
    BY <1>5, <2>1, <2>3 DEF WriteStarts, AckStarts, CallGoes, stream
  <2>4. CASE Starts
    BY <1>4, <1>5, <2>1, <2>4 DEF Starts, CallGoes, TransferGoes, stream
  <2>5. CASE WriteFails
    BY <1>2, <1>4, <2>1, <2>5, IdleFields
    DEF WriteFails, WriteLost, WriteRefused, Answers, CloseStream, stream
  <2>6. CASE AckFails
    BY <1>4, <1>6, <2>1, <2>6, IdleFields DEF AckFails, Answers, stream
  <2>7. CASE Cancels
    BY <1>5, <2>1, <2>7 DEF Cancels, CallGoes, TransferGoes, stream
  <2>8. CASE Completes
    BY <1>4, <1>5, <2>1, <2>8 DEF Completes, TransferGoes, stream
  <2>9. CASE TakesByte
    BY <1>0, <1>2, <1>3, <1>4, <2>1, <2>9 DEF TakesByte, TransferGoes, stream
  <2>10. CASE DeviceReplies \/ TimePasses
    BY <1>5, <2>1, <2>10 DEF DeviceReplies, TimePasses, stream
  <2>11. CASE Settles
    <3>1. PICK res \in Results : Reported(res) /\ Settled(res)
      BY <2>11 DEF Settles
    <3>2. UNCHANGED <<taken, lane>> /\ res.n \in Nat
      BY <2>1, <2>11, <3>1 DEF Settles, Results
    <3>3. CASE (HandshakeFails \/ HandshakeWrites(res) \/ HandshakeReads(res) \/ HandshakeDone
                \/ AckReturns(res)) /\ UNCHANGED gate
      <4>1. /\ call'.op # "write" /\ lane.pc \notin {"writing", "neutral"}
            /\ call'.op = "handshake" => call.op = "handshake" /\ call.at # "enter"
        BY <1>4, <2>11, <3>3, IdleFields
        DEF HandshakeFails, HandshakeWrites, HandshakeReads, HandshakeDone, AckReturns,
            CallGoes, Answers, Settles
      <4>2. (active' = active /\ port' = port) \/ (active' = 0 /\ port' = FALSE)
        BY <3>3
        DEF HandshakeFails, HandshakeWrites, HandshakeReads, HandshakeDone, AckReturns,
            CloseStream, stream
      <4> QED BY <1>6, <3>2, <3>3, <4>1, <4>2
    <3>4. CASE WriteLost /\ UNCHANGED gate
      BY <1>4, <3>2, <3>4, IdleFields DEF WriteLost, Answers, CloseStream
    <3>5. CASE WriteRefused(res) /\ UNCHANGED gate
      <4>1. irp.n = 0 \/ residue
        BY <3>1, <3>5 DEF WriteRefused, Reported, TransferInv
      <4>2. active = 0 /\ (taken = 0 \/ residue)
        BY <1>2, <1>3, <3>5, <4>1 DEF WriteRefused
      <4> QED BY <1>0, <1>4, <3>2, <3>5, <4>2, IdleFields DEF WriteRefused, Answers, stream
    <3>6. CASE WriteAdvances(res)
      <4>1. res.n = irp.n /\ call.sent + irp.n <= FrameLen /\ taken = call.sent + irp.n
        BY <1>4, <3>1, <3>6 DEF WriteAdvances, Reported, TransferInv
      <4>2. call'.op = "none" /\ ret'.k = "ok" /\ ret'.n = taken /\ port' = port
            /\ taken <= FrameLen
        BY <3>6, <4>1, IdleFields DEF WriteAdvances, Answers
      <4>3. IF taken = FrameLen THEN active' = 0 /\ gate' = "full"
                                ELSE active' = taken /\ gate' = "outstanding"
        BY <3>6, <4>1 DEF WriteAdvances
      <4> QED BY <1>2, <1>4, <3>2, <3>6, <4>2, <4>3 DEF WriteAdvances
    <3> QED BY <3>1, <3>3, <3>4, <3>5, <3>6 DEF Settled
  <2> QED BY <1>8, <2>2, <2>3, <2>4, <2>5, <2>6, <2>7, <2>8, <2>9, <2>10, <2>11
          DEF StreamStep, Entries, Completions
<1>9. CASE LaneStep
  <2>1. ASSUME call'.op = "none", active = 0, UNCHANGED <<gate, taken>>,
               lane'.pc \notin {"writing", "neutral", "written", "waiting"},
               (active' = active /\ port' = port) \/ (active' = 0 /\ port' = FALSE)
        PROVE  AccountInv'
    BY <1>0, <2>1
  <2>2. ASSUME NEW frame, PayloadBegins(frame), lane'.pc \in {"writing", "neutral"}, active = 0,
               UNCHANGED <<active, irp, ret>>, ret.k = "none", irp.n = 0
        PROVE  AccountInv'
    BY <1>2, <2>2 DEF PayloadBegins, CallBegins
  <2>3. ASSUME NEW res, Outcomes(res)
        PROVE  lane'.pc \notin {"writing", "neutral", "written", "waiting"}
    BY <2>3 DEF Outcomes, RequestEnds, RequestCleansUp, RequestSends, LaneAt
  <2>4. ASSUME lane.pc \in {"writing", "neutral"}, PayloadGoesOn, ret' = NoResult,
               UNCHANGED <<irp, taken>>
        PROVE  AccountInv'
    <3>1. call'.op = "write" /\ call'.sent = ret.n /\ lane'.pc = lane.pc /\ irp'.n = 0
          /\ UNCHANGED <<active, gate, port>> /\ ret'.k = "none"
      BY <1>4, <2>4, NoResultFields DEF PayloadGoesOn, CallBegins, stream
    <3> QED BY <1>2, <1>3, <2>4, <3>1 DEF PayloadGoesOn
  <2>5. ASSUME lane.pc \in {"writing", "neutral"}, PayloadFails, UNCHANGED taken,
               lane'.pc \notin {"writing", "neutral", "written", "waiting"}
        PROVE  AccountInv'
    BY <1>0, <1>4, <2>5 DEF PayloadFails, CloseStream, stream
  <2>6. CASE Top \/ ReceiveClose
    BY <1>1, <1>4, <2>1, <2>6, PassesEffect DEF Passes, LaneAt, serialVars, stream, Serving
  <2>7. ASSUME NEW r \in Requests, ReceiveRequest(r) PROVE AccountInv'
    BY <1>1, <1>4, <2>1, <2>7, ReceiveRequestEffect
    DEF RequestBegins, RequestDropped, LaneAt, stream, Serving
  <2>8. CASE Attempt
    <3>1. active = 0 /\ call.op = "none" /\ UNCHANGED <<gate, taken>>
      BY <1>1, <1>4, <2>8, AttemptEffect DEF Serving
    <3>2. CASE ShakeBegins
      BY <1>0, <2>1, <3>1, <3>2 DEF ShakeBegins, CallBegins, LaneAt, stream
    <3>3. CASE AbandonsConnect /\ call' = call
      BY <2>1, <3>1, <3>3, RestFields DEF AbandonsConnect, CloseStream
    <3> QED BY <1>1, <2>8, <3>2, <3>3, AttemptEffect
  <2>9. CASE Shaken
    BY <1>1, <1>4, <2>1, <2>9, ShakenEffect, RestFields
    DEF Connected, AbandonsConnect, TriesAgain, LaneAt, CloseStream, stream
  <2>10. CASE BeginExchange
    BY <1>1, <1>4, <2>1, <2>2, <2>3, <2>10, BeginExchangeEffect
    DEF ExchangeBegins, ExchangeStops, LaneAt, Serving
  <2>11. CASE WriteReturns
    <3>1. CASE PayloadWritten("written")
      BY <1>1, <1>2, <1>4, <2>11, <3>1, WriteReturnsEffect DEF PayloadWritten, LaneAt, stream
    <3> QED BY <1>1, <2>3, <2>4, <2>5, <2>11, <3>1, WriteReturnsEffect
  <2>12. CASE BeginWait
    <3>1. CASE WaitBegins
      BY <1>0, <1>1, <1>2, <1>4, <2>12, <3>1, BeginWaitEffect DEF WaitBegins, CallBegins, LaneAt,
                                                            stream, Serving
    <3> QED BY <1>1, <1>4, <2>1, <2>3, <2>12, <3>1, BeginWaitEffect DEF stream, Serving
  <2>13. CASE ReplyReturns
    BY <1>1, <1>4, <2>1, <2>3, <2>13, ReplyReturnsEffect DEF Acknowledged, Unacknowledged, stream
  <2>14. CASE CleanupFailed \/ LoseStream \/ Finish \/ CloseEnds
    BY <1>1, <1>4, <2>1, <2>14, LeavesEffect, RestFields
    DEF Leaves, LaneAt, CloseStream, serialVars, stream, Serving
  <2>15. CASE CloseBegins
    BY <1>1, <1>4, <2>1, <2>2, <2>15, CloseBeginsEffect
    DEF NeutralBegins, NothingToClose, LaneAt, Serving
  <2>16. CASE NeutralReturns
    <3>1. CASE PayloadWritten("closing")
      BY <1>1, <1>2, <1>4, <2>16, <3>1, NeutralReturnsEffect DEF PayloadWritten, LaneAt, stream
    <3> QED BY <1>1, <2>4, <2>5, <2>16, <3>1, NeutralReturnsEffect DEF LaneAt
  <2>17. CASE Unwind
    BY <1>1, <2>17, UnwindEffect, IdleFields DEF Unwinds, LaneAt, CloseStream
  <2> QED BY <1>9, <2>6, <2>7, <2>8, <2>9, <2>10, <2>11, <2>12, <2>13, <2>14, <2>15, <2>16, <2>17
          DEF LaneStep
<1> QED BY <1>7, <1>8, <1>9, StepCases

(* Sending, admitting and cancelling leave what was sent as it is.           *)
LEMMA SentInvNext == ASSUME TypeOK, TransferInv, SentInv, PlaceInv, Next PROVE SentInv'
<1> USE DEF SentInv
<1>1. lane \in Lanes /\ dev \in Devices /\ inbox \in Seq(Requests) /\ ret \in Results
      /\ sub \in [Requests -> {"idle", "created", "sent", "refused"}]
  BY DEF TypeOK, CallType, StreamType, ClientType, LaneType
<1>2. NoRequest \notin Requests
  BY RequestsHaveOneKind DEF RequestsHaveOneKind
<1>3. \A i \in DOMAIN inbox : inbox[i] \in Requests
  BY <1>1
<1>4. ASSUME UNCHANGED <<sub, inbox>>, lane'.r \in {lane.r, NoRequest} PROVE SentInv'
  BY <1>2, <1>4
<1>5. CASE ClientStep
  <2>1. UNCHANGED lane
    BY <1>5, ClientsOnlyAsk
  <2>2. CASE CancelResource \/ Join \/ Seal \/ \E r \in Requests : Cancel(r)
    BY <1>4, <2>1, <2>2 DEF CancelResource, Join, Seal, Cancel
  <2>3. ASSUME NEW r \in Requests, Admit(r) PROVE SentInv'
    <3>1. PICK state \in {"refused", "created"} : sub' = [sub EXCEPT ![r] = state]
      BY <2>3 DEF Admit
    <3>2. sub[r] = "idle" /\ inbox' = inbox
      BY <2>3 DEF Admit
    <3> QED BY <1>1, <1>3, <2>1, <3>1, <3>2
  <2>4. ASSUME NEW r \in Requests, Send(r) PROVE SentInv'
    <3>1. sub[r] = "created"
      BY <2>4 DEF Send
    <3>2. CASE sub' = [sub EXCEPT ![r] = "refused"] /\ UNCHANGED inbox
      BY <1>1, <1>3, <2>1, <3>1, <3>2
    <3>3. CASE sub' = [sub EXCEPT ![r] = "sent"] /\ inbox' = Append(inbox, r)
      <4>1. \A i \in DOMAIN inbox' : inbox'[i] = r \/ (i \in DOMAIN inbox /\ inbox'[i] = inbox[i])
        BY <1>1, <3>3
      <4> QED BY <1>1, <1>3, <2>1, <3>1, <3>3, <4>1
    <3> QED BY <2>4, <3>2, <3>3 DEF Send
  <2> QED BY <1>5, <2>2, <2>3, <2>4 DEF ClientStep
<1>6. CASE StreamStep
  BY <1>4, <1>6 DEF StreamStep, clients
<1>7. CASE LaneStep
  <2>1. CASE Top \/ ReceiveClose
    BY <1>1, <1>4, <2>1, PassesEffect DEF Passes, LaneAt, clients
  <2>2. ASSUME NEW r \in Requests, ReceiveRequest(r) PROVE SentInv'
    <3>1. inbox # << >> /\ r = Head(inbox) /\ inbox' = Tail(inbox) /\ UNCHANGED sub
          /\ lane.pc = "receive"
      BY <2>2 DEF ReceiveRequest
    <3>2. sub[r] = "sent" /\ \A i \in DOMAIN inbox' : sub[inbox'[i]] = "sent"
      BY <1>1, <3>1
    <3>3. lane'.r \in {r, NoRequest}
      BY <1>1, <2>2, <3>1, ReceiveRequestEffect
      DEF RequestBegins, RequestDropped, LaneAt, PlaceInv
    <3> QED BY <1>2, <3>1, <3>2, <3>3
  <2>3. ASSUME NEW res, Outcomes(res) PROVE lane'.r = lane.r
    BY <2>3 DEF Outcomes, RequestEnds, RequestCleansUp, RequestSends, LaneAt
  <2>4. CASE Attempt
    BY <1>1, <1>4, <2>4, AttemptEffect, RestFields
    DEF Attempt, ShakeBegins, AbandonsConnect, LaneAt
  <2>5. CASE Shaken
    BY <1>1, <1>4, <2>5, ShakenEffect, RestFields
    DEF Shaken, Connected, AbandonsConnect, TriesAgain, LaneAt
  <2>6. CASE BeginExchange
    BY <1>1, <1>4, <2>3, <2>6, BeginExchangeEffect
    DEF BeginExchange, ExchangeBegins, ExchangeStops, LaneAt, clients
  <2>7. CASE WriteReturns
    <3>1. UNCHANGED <<sub, inbox>>
      BY <2>7 DEF WriteReturns, clients
    <3>2. lane'.r = lane.r
      BY <1>1, <2>3, <2>7, WriteReturnsEffect DEF PayloadGoesOn, PayloadWritten, LaneAt
    <3> QED BY <1>4, <3>1, <3>2
  <2>8. CASE BeginWait
    BY <1>1, <1>4, <2>3, <2>8, BeginWaitEffect DEF BeginWait, WaitBegins, LaneAt, clients
  <2>9. CASE ReplyReturns
    <3>1. UNCHANGED <<sub, inbox>>
      BY <2>9 DEF ReplyReturns, clients
    <3>2. lane'.r = lane.r
      BY <1>1, <2>3, <2>9, ReplyReturnsEffect DEF Acknowledged, Unacknowledged
    <3> QED BY <1>4, <3>1, <3>2
  <2>10. CASE CleanupFailed \/ LoseStream \/ Finish \/ CloseEnds
    BY <1>1, <1>4, <2>10, LeavesEffect, RestFields DEF Leaves, LaneAt, clients
  <2>11. CASE CloseBegins
    BY <1>1, <1>2, <2>11, CloseBeginsEffect DEF NeutralBegins, NothingToClose, LaneAt
  <2>12. CASE NeutralReturns
    <3>1. UNCHANGED <<sub, inbox>>
      BY <2>12 DEF NeutralReturns, clients
    <3>2. lane'.r = lane.r
      BY <1>1, <2>12, NeutralReturnsEffect DEF PayloadGoesOn, PayloadWritten, LaneAt
    <3> QED BY <1>4, <3>1, <3>2
  <2>13. CASE Unwind
    BY <1>1, <1>4, <2>13, UnwindEffect DEF Unwinds, LaneAt, clients
  <2> QED BY <1>7, <2>1, <2>2, <2>4, <2>5, <2>6, <2>7, <2>8, <2>9, <2>10, <2>11, <2>12, <2>13
          DEF LaneStep
<1> QED BY <1>5, <1>6, <1>7, StepCases

LEMMA PlaceInvNext == ASSUME TypeOK, TransferInv, PlaceInv, Next PROVE PlaceInv'
<1> USE DEF PlaceInv, Exchanging
<1>1. lane \in Lanes /\ dev \in Devices /\ inbox \in Seq(Requests) /\ ret \in Results
  BY DEF TypeOK, CallType, StreamType, ClientType, LaneType
<1>2. \A r \in Requests : r \in Saves \/ r \in Connects \/ r \in Acks \/ r \in Selects
  BY DEF Requests
<1>3. \A r \in Saves : r \in Requests \ Connects
  BY RequestsHaveOneKind DEF RequestsHaveOneKind, Requests
<1>4. ASSUME UNCHANGED lane PROVE PlaceInv'
  BY <1>4
<1>5. ASSUME lane' = AtRest PROVE PlaceInv'
  BY <1>5, RestFields
<1>6. ASSUME NEW res \in Errors \union {"ok"}, lane.pc \in Exchanging, Outcomes(res)
      PROVE  PlaceInv'
  <2> USE DEF Outcomes
  <2>1. lane.use \in {"main", "retry", "cleanup"} /\ lane.r \in Requests \ Connects
    BY <1>1, <1>6 DEF Lanes
  <2>2. ASSUME RequestEnds(res) PROVE PlaceInv'
    BY <2>1, <2>2 DEF RequestEnds, LaneAt
  <2>3. ASSUME RequestCleansUp(res), res # "ok" PROVE PlaceInv'
    BY <2>1, <2>3 DEF RequestCleansUp, LaneAt
  <2>4. ASSUME NEW kind \in {"header", "chunk"}, NEW chunk, RequestSends("main", kind, chunk),
               lane.r \in Saves
        PROVE  PlaceInv'
    BY <1>3, <2>1, <2>4 DEF RequestSends, LaneAt
  <2>5. ASSUME NEW chunk, RequestSends("retry", "reset", chunk), lane.r \in Saves PROVE PlaceInv'
    BY <1>3, <2>1, <2>5 DEF RequestSends, LaneAt
  <2>6. CASE lane.use = "cleanup"
    BY <1>6, <2>1, <2>6 DEF LaneAt
  <2> QED BY <1>6, <2>1, <2>2, <2>3, <2>4, <2>5, <2>6
<1>7. ASSUME LaneAt(lane', lane'.pc, lane.r), lane'.frame = lane.frame, lane'.use = lane.use,
             lane'.result = lane.result, lane.pc \in Exchanging, lane'.pc \in Exchanging
      PROVE  PlaceInv'
  BY <1>7 DEF LaneAt
<1>8. CASE ClientStep
  BY <1>4, <1>8, ClientsOnlyAsk
<1>9. CASE StreamStep
  BY <1>4, <1>9 DEF StreamStep
<1>10. CASE LaneStep
  <2>1. CASE Top \/ ReceiveClose
    BY <1>1, <2>1, PassesEffect DEF Passes, LaneAt
  <2>2. ASSUME NEW r \in Requests, ReceiveRequest(r) PROVE PlaceInv'
    <3>1. CASE RequestBegins(r)
      BY <1>2, <1>3, <3>1 DEF RequestBegins, LaneAt
    <3>2. CASE RequestDropped(r) /\ lane.pc = "receive"
      BY <3>2 DEF RequestDropped, LaneAt
    <3> QED BY <1>1, <2>2, <3>1, <3>2, ReceiveRequestEffect
  <2>3. CASE Attempt
    BY <1>1, <1>5, <2>3, AttemptEffect DEF ShakeBegins, AbandonsConnect, LaneAt
  <2>4. CASE Shaken
    BY <1>1, <1>5, <2>4, ShakenEffect DEF Connected, AbandonsConnect, TriesAgain, LaneAt
  <2>5. CASE BeginExchange
    <3>1. "cancelled" \in Errors \union {"ok"}
      BY DEF Errors
    <3> QED BY <1>1, <1>6, <1>7, <2>5, <3>1, BeginExchangeEffect
            DEF ExchangeBegins, ExchangeStops, LaneAt
  <2>6. CASE WriteReturns
    BY <1>1, <1>4, <1>6, <1>7, <2>6, WriteReturnsEffect DEF PayloadGoesOn, PayloadWritten, LaneAt
  <2>7. CASE BeginWait
    <3>1. "cancelled" \in Errors \union {"ok"}
      BY DEF Errors
    <3> QED BY <1>1, <1>6, <1>7, <2>7, <3>1, BeginWaitEffect DEF WaitBegins, LaneAt
  <2>8. CASE ReplyReturns
    BY <1>1, <1>6, <2>8, ReplyReturnsEffect DEF Acknowledged, Unacknowledged
  <2>9. CASE CleanupFailed \/ LoseStream \/ Finish \/ CloseEnds
    BY <1>1, <1>5, <2>9, LeavesEffect DEF Leaves, LaneAt
  <2>10. CASE CloseBegins
    BY <1>1, <2>10, CloseBeginsEffect DEF NeutralBegins, NothingToClose, LaneAt
  <2>11. CASE NeutralReturns
    BY <1>1, <1>4, <2>11, NeutralReturnsEffect DEF PayloadGoesOn, PayloadWritten, LaneAt
  <2>12. CASE Unwind
    BY <1>1, <2>12, UnwindEffect DEF Unwinds, LaneAt
  <2> QED BY <1>10, <2>1, <2>2, <2>3, <2>4, <2>5, <2>6, <2>7, <2>8, <2>9, <2>10, <2>11, <2>12
          DEF LaneStep
<1> QED BY <1>8, <1>9, <1>10, StepCases

-----------------------------------------------------------------------------
(* Types                                                                    *)

LEMMA CallTypeNext == ASSUME TypeOK, CallInv, TransferInv, Next PROVE CallType'
<1> USE DEF CallType
<1>1. call \in Calls /\ ret \in Results /\ irp \in Transfers /\ lane \in Lanes
      /\ dev \in Devices /\ inbox \in Seq(Requests)
  BY DEF TypeOK, CallType, StreamType, ClientType, LaneType
<1>2. ASSUME UNCHANGED <<call, ret, irp>> PROVE CallType'
  BY <1>1, <1>2
<1>3. CASE ClientStep
  BY <1>2, <1>3, ClientsOnlyAsk DEF serialVars
<1>4. CASE StreamStep
  <2>1. CASE Entries
    BY <1>1, <2>1, IdleFields
    DEF Entries, Opens, OpenFails, WriteStarts, WriteFails, AckStarts, AckFails, HandshakeFails,
        WriteLost, WriteRefused, Answers, CallGoes
  <2>2. CASE Starts \/ Cancels \/ Completes
    BY <1>1, <2>2 DEF Starts, Cancels, Completes, CallGoes, TransferGoes
  <2>3. CASE Settles
    <3>1. irp' \in Transfers
      BY <1>1, <2>3, NoTransferFields DEF Settles
    <3>2. PICK res \in Results : Settled(res)
      BY <2>3 DEF Settles
    <3> QED BY <1>1, <3>1, <3>2, IdleFields
            DEF Settled, HandshakeFails, HandshakeWrites, HandshakeReads, HandshakeDone, WriteLost,
                WriteRefused, AckReturns, WriteAdvances, Answers, CallGoes
  <2>4. CASE TakesByte \/ DeviceReplies \/ TimePasses
    BY <1>1, <2>4 DEF TakesByte, DeviceReplies, TimePasses, TransferGoes
  <2> QED BY <1>4, <2>1, <2>2, <2>3, <2>4 DEF StreamStep, Completions
<1>5. CASE LaneStep
  <2>1. ASSUME UNCHANGED <<call, irp>>, ret' = NoResult \/ ret' = ret PROVE CallType'
    BY <1>1, <2>1, NoResultFields
  <2>2. ASSUME NEW method, NEW frame, NEW sent, CallBegins(method, frame, sent), UNCHANGED irp,
               ret' = NoResult \/ ret' = ret
        PROVE  CallType'
    BY <1>1, <2>2, NoResultFields DEF CallBegins
  <2>3. CASE Top \/ ReceiveClose
    BY <1>1, <1>2, <2>3, PassesEffect DEF Passes, serialVars
  <2>4. ASSUME NEW r \in Requests, ReceiveRequest(r) PROVE CallType'
    BY <1>1, <1>2, <2>4, ReceiveRequestEffect
  <2>5. CASE Attempt
    BY <1>1, <2>1, <2>2, <2>5, AttemptEffect DEF ShakeBegins
  <2>6. CASE Shaken
    BY <1>1, <2>1, <2>6, ShakenEffect
  <2>7. CASE BeginExchange
    BY <1>1, <2>1, <2>2, <2>7, BeginExchangeEffect DEF ExchangeBegins, ExchangeStops, PayloadBegins
  <2>8. CASE WriteReturns
    BY <1>1, <2>1, <2>2, <2>8, WriteReturnsEffect DEF PayloadGoesOn, PayloadWritten, PayloadFails
  <2>9. CASE BeginWait
    BY <1>1, <2>1, <2>2, <2>9, BeginWaitEffect DEF WaitBegins
  <2>10. CASE ReplyReturns
    BY <1>1, <2>1, <2>10, ReplyReturnsEffect
  <2>11. CASE CleanupFailed \/ LoseStream \/ Finish \/ CloseEnds
    BY <1>1, <1>2, <2>11, LeavesEffect DEF Leaves, serialVars
  <2>12. CASE CloseBegins
    BY <1>1, <2>1, <2>2, <2>12, CloseBeginsEffect DEF NeutralBegins, NothingToClose, PayloadBegins
  <2>13. CASE NeutralReturns
    BY <1>1, <2>1, <2>2, <2>13, NeutralReturnsEffect DEF PayloadGoesOn, PayloadWritten,
                                                         PayloadFails
  <2>14. CASE Unwind
    BY <1>1, <2>14, UnwindEffect, IdleFields, NoTransferFields DEF Unwinds
  <2> QED BY <1>5, <2>3, <2>4, <2>5, <2>6, <2>7, <2>8, <2>9, <2>10, <2>11, <2>12, <2>13, <2>14
          DEF LaneStep
<1> QED BY <1>3, <1>4, <1>5, StepCases

(* The flags of the stream are set and cleared; only the settlement of a     *)
(* payload goes through more values.                                         *)
FlagsKept ==
  /\ port' \in {port, TRUE, FALSE} /\ prepared' \in {prepared, TRUE, FALSE}
  /\ late' \in {late, TRUE, FALSE}
  /\ gate' \in {gate, "none", "outstanding", "full", "notDelivered"}

LEMMA FlagsStep == ASSUME TypeOK, TransferInv, Next PROVE FlagsKept
<1> USE DEF FlagsKept, CloseStream, stream
<1>1. lane \in Lanes
  BY DEF TypeOK, LaneType
<1>2. CASE ClientStep
  BY <1>2, ClientsOnlyAsk DEF serialVars
<1>3. CASE StreamStep
  <2>1. CASE Entries
    BY <2>1
    DEF Entries, Opens, OpenFails, WriteStarts, WriteFails, AckStarts, AckFails, HandshakeFails,
        WriteLost, WriteRefused
  <2>2. CASE Starts \/ Cancels \/ Completes
    BY <2>2 DEF Starts, Cancels, Completes
  <2>3. CASE Settles
    <3>1. PICK res \in Results : Settled(res)
      BY <2>3 DEF Settles
    <3> QED BY <2>3, <3>1
            DEF Settles, Settled, HandshakeFails, HandshakeWrites, HandshakeReads, HandshakeDone,
                WriteLost, WriteRefused, AckReturns, WriteAdvances
  <2>4. CASE TakesByte \/ DeviceReplies \/ TimePasses
    BY <2>4 DEF TakesByte, DeviceReplies, TimePasses
  <2> QED BY <1>3, <2>1, <2>2, <2>3, <2>4 DEF StreamStep, Completions
<1>4. CASE LaneStep
  <2>1. CASE Top \/ ReceiveClose
    BY <1>1, <2>1, PassesEffect DEF Passes, serialVars
  <2>2. CASE \E r \in Requests : ReceiveRequest(r)
    BY <2>2 DEF ReceiveRequest
  <2>3. CASE Attempt \/ Shaken
    BY <2>3 DEF Attempt, Shaken, AbandonConnect
  <2>4. CASE BeginExchange
    BY <2>4 DEF BeginExchange, BeginWrite
  <2>5. CASE WriteReturns \/ NeutralReturns
    BY <2>5 DEF WriteReturns, NeutralReturns, SettleFailedWrite
  <2>6. CASE BeginWait \/ ReplyReturns
    BY <2>6 DEF BeginWait, ReplyReturns
  <2>7. CASE CleanupFailed \/ LoseStream \/ Finish \/ CloseEnds
    BY <1>1, <2>7, LeavesEffect DEF Leaves, serialVars
  <2>8. CASE CloseBegins
    BY <2>8 DEF CloseBegins, BeginWrite
  <2>9. CASE Unwind
    BY <2>9 DEF Unwind
  <2> QED BY <1>4, <2>1, <2>2, <2>3, <2>4, <2>5, <2>6, <2>7, <2>8, <2>9 DEF LaneStep
<1> QED BY <1>2, <1>3, <1>4, StepCases

WireType == dev \in Devices /\ owed \in Seq(Replies) /\ rx \in Seq(Replies)
CountType == taken \in 0..FrameLen /\ faults \in 0..MaxFaults

LEMMA WireTypeNext ==
  ASSUME TypeOK, CallInv, TransferInv, AccountInv, Next
  PROVE  WireType' /\ CountType'
<1> USE DEF WireType, CountType
<1>1. call \in Calls /\ ret \in Results /\ irp \in Transfers /\ lane \in Lanes
      /\ dev \in Devices /\ inbox \in Seq(Requests) /\ owed \in Seq(Replies) /\ rx \in Seq(Replies)
  BY DEF TypeOK, CallType, StreamType, ClientType, LaneType
<1>2. /\ FrameLen \in Nat /\ FrameLen > 0 /\ MaxFaults \in Nat
      /\ taken \in 0..FrameLen /\ faults \in 0..MaxFaults
  BY StreamAssumption DEF StreamAssumption, TypeOK, StreamType
<1>3. call.sent \in Nat /\ irp.n \in Nat /\ call.frame \in Frames
  BY <1>1 DEF Calls, Transfers
<1>3a. << >> \in Seq(Replies) /\ (rx # << >> => Tail(rx) \in Seq(Replies))
  <2>1. << >> \in Seq(Replies)
    OBVIOUS
  <2>2. rx # << >> => Tail(rx) \in Seq(Replies)
    BY <1>1
  <2> QED BY <2>1, <2>2
<1>4. ASSUME UNCHANGED <<taken, faults, dev, owed, rx>> PROVE WireType' /\ CountType'
  BY <1>1, <1>2, <1>4
<1>5. FaultCounted => faults' \in 0..MaxFaults
  BY <1>2 DEF FaultCounted
<1>6. CASE ClientStep
  BY <1>4, <1>6, ClientsOnlyAsk DEF serialVars, device
<1>7. CASE StreamStep
  <2>1. CASE Entries
    <3>1. faults' \in 0..MaxFaults /\ rx' \in {rx, << >>} /\ taken' \in {taken, 0}
          /\ UNCHANGED <<dev, owed>>
      BY <1>2, <1>5, <2>1
      DEF Entries, Opens, OpenFails, WriteStarts, WriteFails, AckStarts, AckFails, device
    <3>2. rx' \in Seq(Replies)
      BY <1>1, <1>3a, <3>1
    <3>3. taken' \in 0..FrameLen
      BY <1>2, <3>1
    <3> QED BY <1>1, <3>1, <3>2, <3>3
  <2>2. CASE Starts \/ Cancels \/ Settles
    <3>1. faults' \in 0..MaxFaults /\ UNCHANGED <<dev, owed, rx, taken>>
      BY <1>2, <1>5, <2>2 DEF Starts, Cancels, Settles, device
    <3> QED BY <1>1, <1>2, <3>1
  <2>3. CASE Completes
    <3>1. faults' \in 0..MaxFaults /\ UNCHANGED <<dev, owed, taken>>
          /\ (rx' = rx \/ (rx # << >> /\ rx' = Tail(rx)))
      BY <1>5, <2>3 DEF Completes, device
    <3>2. rx' \in Seq(Replies)
      BY <1>1, <1>3a, <3>1
    <3> QED BY <1>1, <1>2, <3>1, <3>2
  <2>4. CASE TakesByte
    <3>1. taken' \in 0..FrameLen /\ rx' = rx
      BY <1>2, <1>3, <2>4 DEF TakesByte, AccountInv
    <3>2. Receive(call.frame, call.sent + irp.n + 1)
      BY <2>4 DEF TakesByte
    <3>3. PICK position \in Nat : position = call.sent + irp.n + 1
      BY <1>3
    <3>4. Buffers(call.frame, position) \/ Serves(call.frame, position)
          \/ Ignores(call.frame, position)
      BY <1>1, <1>2, <1>3, <3>2, <3>3, ReceiveEffect
    <3>5. dev' \in Devices /\ faults' \in 0..MaxFaults
      BY <1>2, <1>5, <3>4 DEF Buffers, Serves, Ignores, DeviceGoes
    <3>6. owed' = owed \/ \E reply \in Replies : owed' = Append(owed, reply)
      BY <3>4 DEF Buffers, Serves, Ignores
    <3>7. owed' \in Seq(Replies)
      BY <1>1, <3>6
    <3>8. rx' \in Seq(Replies)
      BY <1>1, <3>1
    <3> QED BY <3>1, <3>5, <3>7, <3>8
  <2>5. CASE DeviceReplies
    <3>1. owed # << >> /\ owed' = Tail(owed) /\ rx' \in {rx, Append(rx, Head(owed))}
          /\ UNCHANGED <<taken, dev, faults>>
      BY <2>5 DEF DeviceReplies
    <3>2. Head(owed) \in Replies /\ Tail(owed) \in Seq(Replies)
      BY <1>1, <3>1
    <3> QED BY <1>1, <1>2, <3>1, <3>2
  <2>6. CASE TimePasses
    BY <1>4, <2>6 DEF TimePasses, device
  <2> QED BY <1>7, <2>1, <2>2, <2>3, <2>4, <2>5, <2>6 DEF StreamStep, Completions
<1>8. CASE LaneStep
  <2>1. CASE Top \/ ReceiveClose
    BY <1>1, <1>4, <2>1, PassesEffect DEF Passes, serialVars, device
  <2>2. ASSUME NEW r \in Requests, ReceiveRequest(r) PROVE WireType' /\ CountType'
    BY <1>1, <1>2, <2>2, ReceiveRequestEffect
  <2>3. CASE Attempt \/ Shaken
    BY <1>4, <2>3 DEF Attempt, Shaken, device
  <2>4. CASE BeginExchange
    <3>1. taken' \in {taken, 0} /\ UNCHANGED <<dev, faults>>
          /\ (UNCHANGED <<owed, rx>> \/ (owed' = Stale(owed) /\ rx' = Stale(rx)))
      BY <2>4 DEF BeginExchange, BeginWrite
    <3> QED BY <1>1, <1>2, <3>1, StaleFields
  <2>5. CASE WriteReturns \/ NeutralReturns
    BY <1>4, <2>5 DEF WriteReturns, NeutralReturns, device
  <2>6. CASE BeginWait \/ ReplyReturns
    BY <1>4, <2>6 DEF BeginWait, ReplyReturns, device
  <2>7. CASE CleanupFailed \/ LoseStream \/ Finish \/ CloseEnds
    BY <1>1, <1>4, <2>7, LeavesEffect DEF Leaves, serialVars, device
  <2>8. CASE CloseBegins
    <3>1. taken' \in {taken, 0} /\ UNCHANGED <<dev, owed, rx, faults>>
      BY <2>8 DEF CloseBegins, BeginWrite, device
    <3> QED BY <1>1, <1>2, <3>1
  <2>9. CASE Unwind
    BY <1>4, <2>9 DEF Unwind, device
  <2> QED BY <1>8, <2>1, <2>2, <2>3, <2>4, <2>5, <2>6, <2>7, <2>8, <2>9 DEF LaneStep
<1> QED BY <1>6, <1>7, <1>8, StepCases

(* The count of active_write follows from the account of the payload.        *)
LEMMA StreamTypeNext ==
  ASSUME TypeOK, CallInv, TransferInv, AccountInv, Next, CallInv', AccountInv', CallType'
  PROVE  StreamType'
<1>1. FlagsKept /\ WireType' /\ CountType'
  BY FlagsStep, WireTypeNext
<1>2. FrameLen \in Nat /\ call'.sent \in Nat /\ ret'.n \in Nat
      /\ ret'.k \in {"none", "ok", "err"}
  BY StreamAssumption DEF StreamAssumption, CallType, Calls, Results
<1>3. active' \in 0..FrameLen
  <2>1. CASE lane'.pc \in {"writing", "neutral"} /\ ret'.k = "none"
    <3>1. call'.op = "write"
      BY <2>1 DEF CallInv, Serving, MethodOf
    <3> QED BY <1>2, <3>1 DEF AccountInv, CallInv
  <2>2. CASE lane'.pc \in {"writing", "neutral"} /\ ret'.k # "none"
    BY <1>2, <2>2 DEF AccountInv, Writing
  <2>3. CASE lane'.pc \notin {"writing", "neutral"}
    BY <1>2, <2>3 DEF AccountInv, Writing
  <2> QED BY <2>1, <2>2, <2>3
<1> QED BY <1>1, <1>3, ResidueNext DEF FlagsKept, WireType, CountType, StreamType, TypeOK

LEMMA ClientTypeNext == ASSUME TypeOK, SentInv, PlaceInv, TransferInv, Next PROVE ClientType'
<1> USE DEF ClientType
<1> DEFINE States == {"absent", "created", "running", "cancelling", "succeeded", "failed",
                      "cancelled"}
<1>1. /\ op \in [Requests -> States] /\ inbox \in Seq(Requests)
      /\ sub \in [Requests -> {"idle", "created", "sent", "refused"}]
      /\ closer \in {"idle", "sealed", "sent", "done"}
      /\ MaxCancels \in Nat /\ cancels \in 0..MaxCancels
  BY RequestAssumption DEF TypeOK, RequestAssumption
<1>2. call \in Calls /\ ret \in Results /\ lane \in Lanes /\ dev \in Devices
  BY DEF TypeOK, CallType, StreamType, LaneType
<1>3. ASSUME UNCHANGED clients PROVE ClientType'
  BY <1>1, <1>3 DEF clients
<1>4. ASSUME UNCHANGED <<sub, closer, cancels>>, inbox' \in Seq(Requests),
             op' \in [Requests -> States]
      PROVE  ClientType'
  BY <1>1, <1>4
<1>5. ASSUME NEW r \in Requests, NEW state \in States
      PROVE  [op EXCEPT ![r] = state] \in [Requests -> States]
  BY <1>1
<1>6. CASE ClientStep
  <2>1. CASE CancelResource \/ Join \/ Seal
    BY <1>1, <2>1 DEF CancelResource, Join, Seal
  <2>2. ASSUME NEW r \in Requests, Admit(r) PROVE ClientType'
    BY <1>1, <2>2 DEF Admit
  <2>3. ASSUME NEW r \in Requests, Cancel(r) PROVE ClientType'
    BY <1>1, <2>3 DEF Cancel
  <2>4. ASSUME NEW r \in Requests, Send(r) PROVE ClientType'
    BY <1>1, <2>4 DEF Send, FailedOrCancelled
  <2> QED BY <1>6, <2>1, <2>2, <2>3, <2>4 DEF ClientStep
<1>7. CASE StreamStep
  BY <1>3, <1>7 DEF StreamStep
<1>8. CASE LaneStep
  <2>1. CASE Top \/ ReceiveClose
    BY <1>2, <1>3, <2>1, PassesEffect DEF Passes
  <2>2. ASSUME NEW r \in Requests, ReceiveRequest(r) PROVE ClientType'
    <3>1. inbox' \in Seq(Requests) /\ UNCHANGED <<sub, closer, cancels>>
      BY <1>1, <2>2 DEF ReceiveRequest
    <3>2. PICK state \in {"cancelled", "failed", "running"} : op' = [op EXCEPT ![r] = state]
      BY <2>2 DEF ReceiveRequest, Settle
    <3> QED BY <1>4, <1>5, <3>1, <3>2
  <2>3. CASE Attempt \/ Shaken
    <3>1. lane.r \in Requests
      BY <2>3 DEF Attempt, Shaken, PlaceInv, Requests
    <3>2. UNCHANGED <<sub, inbox, closer, cancels>>
      BY <2>3 DEF Attempt, Shaken
    <3>3. op' = op \/ \E state \in {"cancelled", "failed", "succeeded"} :
                        op' = [op EXCEPT ![lane.r] = state]
      BY <1>2, <2>3, AttemptEffect, ShakenEffect
      DEF ShakeBegins, AbandonsConnect, Connected, TriesAgain
    <3> QED BY <1>1, <1>4, <1>5, <3>1, <3>2, <3>3
  <2>4. CASE BeginExchange \/ BeginWait
    BY <1>3, <2>4 DEF BeginExchange, BeginWait
  <2>5. CASE WriteReturns \/ NeutralReturns \/ ReplyReturns
    BY <1>3, <2>5 DEF WriteReturns, NeutralReturns, ReplyReturns
  <2>6. CASE CleanupFailed \/ LoseStream \/ Unwind
    BY <1>3, <2>6 DEF CleanupFailed, LoseStream, Unwind
  <2>7. CASE Finish
    <3>1. lane.r \in Requests /\ UNCHANGED <<sub, inbox, closer, cancels>>
      BY <2>7 DEF Finish, PlaceInv
    <3>2. PICK state \in {"cancelled", "failed", "succeeded", "cancelling"} :
            op' = [op EXCEPT ![lane.r] = state]
      BY <2>7 DEF Finish, Settle, FailedOrCancelled
    <3> QED BY <1>1, <1>4, <1>5, <3>1, <3>2
  <2>8. CASE CloseBegins
    <3>1. inbox' \in Seq(Requests) /\ UNCHANGED <<sub, closer, cancels>>
      BY <2>8 DEF CloseBegins
    <3>2. op' \in [Requests -> States]
      BY <1>1, <2>8 DEF CloseBegins
    <3> QED BY <1>4, <3>1, <3>2
  <2>9. CASE CloseEnds
    BY <1>1, <1>4, <2>9 DEF CloseEnds
  <2> QED BY <1>8, <2>1, <2>2, <2>3, <2>4, <2>5, <2>6, <2>7, <2>8, <2>9 DEF LaneStep
<1> QED BY <1>6, <1>7, <1>8, StepCases

LEMMA LaneTypeNext == ASSUME TypeOK, SentInv, PlaceInv, TransferInv, Next PROVE LaneType'
<1> USE DEF LaneType
<1> DEFINE States == {"disconnected", "connecting", "connected", "disconnecting", "closed"}
<1>1. call \in Calls /\ ret \in Results /\ lane \in Lanes /\ dev \in Devices
      /\ inbox \in Seq(Requests) /\ conn \in States /\ deferred \subseteq Requests
      /\ clean \in BOOLEAN /\ fooled \in {"no", "dirty", "clean"}
  BY DEF TypeOK, CallType, StreamType, ClientType
<1>2. ASSUME conn' \in States, lane' \in Lanes, UNCHANGED <<deferred, history>> PROVE LaneType'
  BY <1>1, <1>2 DEF history
<1>3. ASSUME NEW res, Outcomes(res) PROVE lane' \in Lanes
  BY <1>3 DEF Outcomes, RequestEnds, RequestCleansUp, RequestSends, LaneAt
<1>4. CASE ClientStep
  <2>1. conn' \in {conn, "disconnecting"} /\ UNCHANGED deferred
    BY <1>4 DEF ClientStep, CancelResource, Join, Seal, Send, Admit, Cancel
  <2> QED BY <1>1, <1>2, <1>4, <2>1, ClientsOnlyAsk
<1>5. CASE StreamStep
  BY <1>1, <1>2, <1>5 DEF StreamStep
<1>6. CASE LaneStep
  <2>1. CASE Top \/ ReceiveClose
    BY <1>1, <1>2, <2>1, PassesEffect DEF Passes, LaneAt
  <2>2. ASSUME NEW r \in Requests, ReceiveRequest(r) PROVE LaneType'
    <3>1. UNCHANGED deferred
      BY <2>2 DEF ReceiveRequest
    <3> QED BY <1>1, <2>2, <3>1, ReceiveRequestEffect
            DEF RequestBegins, RequestDropped, LaneAt, history
  <2>3. CASE Attempt \/ Shaken
    <3>1. UNCHANGED deferred
      BY <2>3 DEF Attempt, Shaken
    <3> QED BY <1>1, <1>2, <2>3, <3>1, AttemptEffect, ShakenEffect, RestFields
            DEF ShakeBegins, AbandonsConnect, Connected, TriesAgain, LaneAt
  <2>4. CASE BeginExchange
    <3>1. UNCHANGED <<deferred, history>>
      BY <2>4 DEF BeginExchange
    <3> QED BY <1>1, <1>2, <1>3, <2>4, <3>1, BeginExchangeEffect
            DEF ExchangeBegins, ExchangeStops, LaneAt
  <2>5. CASE WriteReturns
    <3>1. UNCHANGED <<deferred, history>> /\ conn' \in {conn, "disconnected"}
      BY <2>5 DEF WriteReturns, SettleFailedWrite
    <3> QED BY <1>1, <1>2, <1>3, <2>5, <3>1, WriteReturnsEffect
            DEF PayloadGoesOn, PayloadWritten, LaneAt
  <2>6. CASE NeutralReturns
    <3>1. UNCHANGED <<deferred, history>> /\ conn' \in {conn, "disconnected"}
      BY <2>6 DEF NeutralReturns, SettleFailedWrite
    <3> QED BY <1>1, <1>2, <2>6, <3>1, NeutralReturnsEffect
            DEF PayloadGoesOn, PayloadWritten, LaneAt
  <2>7. CASE BeginWait
    <3>1. UNCHANGED <<deferred, history>>
      BY <2>7 DEF BeginWait
    <3> QED BY <1>1, <1>2, <1>3, <2>7, <3>1, BeginWaitEffect DEF WaitBegins, LaneAt
  <2>8. CASE ReplyReturns
    <3>1. UNCHANGED deferred
      BY <2>8 DEF ReplyReturns
    <3>2. lane' \in Lanes /\ UNCHANGED <<conn, clean>>
      BY <1>1, <1>3, <2>8, ReplyReturnsEffect DEF Acknowledged, Unacknowledged
    <3>3. fooled' \in {"no", "dirty", "clean"}
      BY <1>1, <2>8, ReplyReturnsEffect DEF Acknowledged, Unacknowledged
    <3> QED BY <1>1, <3>1, <3>2, <3>3
  <2>9. CASE CleanupFailed \/ LoseStream \/ Finish \/ CloseEnds
    <3>1. conn' \in {conn, "disconnected", "closed"} /\ UNCHANGED history
      BY <2>9 DEF CleanupFailed, LoseStream, Disconnect, Finish, CloseEnds
    <3>2. lane' \in Lanes
      BY <1>1, <2>9, LeavesEffect, RestFields DEF Leaves, LaneAt
    <3>4. Finish => lane.r \in Requests
      BY DEF Finish, PlaceInv
    <3>5. deferred' \subseteq Requests
      BY <1>1, <2>9, <3>4 DEF CleanupFailed, LoseStream, Finish, CloseEnds
    <3> QED BY <1>1, <3>1, <3>2, <3>5 DEF history
  <2>10. CASE CloseBegins
    <3>1. UNCHANGED <<deferred, history>>
      BY <2>10 DEF CloseBegins
    <3> QED BY <1>1, <1>2, <2>10, <3>1, CloseBeginsEffect
            DEF NeutralBegins, NothingToClose, LaneAt
  <2>11. CASE Unwind
    <3>1. UNCHANGED <<conn, deferred, history>>
      BY <2>11 DEF Unwind
    <3> QED BY <1>1, <1>2, <2>11, <3>1, UnwindEffect DEF Unwinds, LaneAt
  <2> QED BY <1>6, <2>1, <2>2, <2>3, <2>4, <2>5, <2>6, <2>7, <2>8, <2>9, <2>10, <2>11 DEF LaneStep
<1> QED BY <1>4, <1>5, <1>6, StepCases

LEMMA DeviceInvNext ==
  ASSUME TypeOK, CallInv, TransferInv, AccountInv, DeviceInv, Next
  PROVE  DeviceInv'
<1>1. call \in Calls /\ ret \in Results /\ irp \in Transfers /\ lane \in Lanes
      /\ dev \in Devices /\ inbox \in Seq(Requests)
  BY DEF TypeOK, CallType, StreamType, ClientType, LaneType
<1>2. FrameLen \in Nat /\ FrameLen > 0 /\ active \in Nat /\ dev.got \in Nat /\ faults \in Nat
  BY <1>1, StreamAssumption DEF StreamAssumption, TypeOK, StreamType, Devices
<1>3. /\ call.sent \in Nat /\ irp.n \in Nat /\ ret.n \in Nat /\ call.frame \in Frames
      /\ call.dir \in {"read", "write"}
  BY <1>1 DEF Calls, Transfers, Results
<1>4. /\ call.at = "enter" \/ call.at = "transfer" \/ call.op = "none" => irp.n = 0
      /\ call.at = "transfer" \/ Owned \/ irp.st # "none" => port
      /\ call.op = "handshake" /\ call.at = "enter" => call.sent = 0 /\ call.dir = "write"
      /\ call.op = "handshake" => lane.pc = "shaking" /\ call.frame.kind = "hello"
      /\ call.op = "ack" => lane.pc = "waiting" /\ call.dir = "read"
      /\ call.op = "write" => active = call.sent /\ call.dir = "write"
      /\ lane.pc \notin {"writing", "neutral"} => active = 0
      /\ lane.pc \notin Serving => call.op = "none" /\ ret.k = "none"
      /\ ret.k # "none" => call.op = "none"
      /\ call.dir = "write" => call.sent + irp.n <= FrameLen
  BY DEF CallInv, TransferInv, AccountInv, Serving, MethodOf, Waiting, Writing, Owned
(* The first byte of a hello takes a residue away.                           *)
<1>0. CASE residue
  <2>1. CASE residue'
    BY <2>1 DEF DeviceInv
  <2>2. CASE ~residue'
    <3>1. TakesByte /\ call.op = "handshake" /\ call.sent + irp.n = 0 /\ UNCHANGED lane
      BY <1>0, <2>2, ResidueNext
    <3>2. PICK position \in Nat : position = call.sent + irp.n + 1
      BY <1>3
    <3>6. position = 1 /\ call.frame \in Frames
      BY <1>3, <3>1, <3>2
    <3>7. Buffers(call.frame, position) \/ Serves(call.frame, position)
           \/ Ignores(call.frame, position)
      BY <1>1, <1>2, <1>3, <3>1, <3>2, ReceiveEffect DEF TakesByte
    <3>3. call.frame.kind = "hello" /\ call'.op = "handshake" /\ call'.sent = 0 /\ irp'.n = 1
      BY <1>3, <1>4, <3>1 DEF TakesByte, TransferGoes
    <3>4. ~dev'.garbled /\ dev'.got = IF FrameLen = 1 THEN 0 ELSE 1
      BY <1>2, <3>6, <3>7, <3>3 DEF Buffers, Serves, Ignores, DeviceGoes, Garbled
    <3>5. call'.dir = "write" /\ Position' = 1
      BY <3>1, <3>3 DEF TakesByte, Position
    <3> QED BY <1>2, <3>3, <3>4, <3>5 DEF DeviceInv
  <2> QED BY <2>1, <2>2
<1> SUFFICES ASSUME ~residue PROVE DeviceInv'
  BY <1>0
<1> USE DEF DeviceInv
<1> DEFINE Keeps == dev'.got = dev.got /\ dev'.garbled = dev.garbled
           Reached(position) == dev.got = IF position = FrameLen THEN 0 ELSE position
<1>5. ASSUME Keeps, port' = FALSE PROVE DeviceInv'
  BY <1>5
<1>6. ASSUME Keeps, call'.op # "handshake", port' => port /\ Reached(Position') PROVE DeviceInv'
  BY <1>6
<1>7. ASSUME Keeps, call'.op = call.op, call'.dir = call.dir, call'.sent = call.sent,
             irp'.n = irp.n \/ call.op \notin {"handshake", "write"},
             UNCHANGED <<active, port>>
      PROVE  DeviceInv'
  BY <1>7 DEF Position
<1>8. call.op # "handshake" /\ port => Reached(Position)
  OBVIOUS
<1>9. CASE ClientStep
  BY <1>7, <1>9, ClientsOnlyAsk DEF serialVars, stream, device
<1>10. CASE StreamStep
  <2>1. CASE Opens
    BY <1>2, <1>4, <2>1 DEF Opens, CallGoes, device, Position
  <2>2. CASE OpenFails
    BY <1>5, <2>2 DEF OpenFails, HandshakeFails, CloseStream, device
  <2>3. CASE WriteStarts \/ AckStarts
    BY <1>7, <2>3 DEF WriteStarts, AckStarts, CallGoes, stream, device
  <2>4. CASE WriteFails
    <3>1. CASE WriteLost /\ Keeps
      BY <1>5, <3>1 DEF WriteLost, CloseStream
    <3>2. CASE Keeps /\ call.at = "enter" /\ \E res \in Results : WriteRefused(res)
      BY <1>4, <1>6, <1>8, <3>2, IdleFields DEF WriteRefused, Answers, stream, Position
    <3> QED BY <2>4, <3>1, <3>2 DEF WriteFails, device
  <2>5. CASE AckFails
    BY <1>6, <1>8, <2>5, IdleFields DEF AckFails, Answers, stream, device, Position
  <2>6. CASE Starts
    BY <1>4, <1>7, <2>6 DEF Starts, CallGoes, TransferGoes, stream, device
  <2>7. CASE Cancels
    BY <1>7, <2>7 DEF Cancels, CallGoes, TransferGoes, stream, device
  <2>8. CASE Completes
    <3>1. UNCHANGED <<call, stream, dev>>
      BY <2>8 DEF Completes
    <3>2. CASE call.op # "handshake" \/ call.dir = "write"
      BY <1>4, <1>7, <2>8, <3>1, <3>2 DEF Completes, TransferGoes, stream, device
    <3>3. CASE call.op = "handshake" /\ call.dir = "read"
      BY <3>1, <3>3 DEF stream, device
    <3> QED BY <3>2, <3>3, <1>3
  <2>9. CASE Settles
    <3>1. PICK res \in Results : Reported(res) /\ Settled(res)
      BY <2>9 DEF Settles
    <3>2. Keeps /\ irp'.n = 0 /\ res.n \in Nat
      BY <1>4, <2>9, <3>1, NoTransferFields DEF Settles, device, Results
    <3>3. port
      BY <1>4, <2>9 DEF Settles
    <3>4. res.k = "ok" /\ call.dir = "write" => res.n = irp.n /\ irp.n > 0
      BY <3>1 DEF Reported
    <3>5. CASE HandshakeFails \/ WriteLost
      BY <1>5, <3>2, <3>5 DEF HandshakeFails, WriteLost, CloseStream
    <3>6. CASE HandshakeWrites(res)
      <4>1. Position = call.sent + irp.n /\ Position' = Position /\ Position > 0
            /\ UNCHANGED <<port, active>> /\ call'.op = call.op /\ call'.dir = call.dir
        BY <1>3, <3>2, <3>4, <3>6 DEF HandshakeWrites, CallGoes, Position, stream
      <4> QED BY <3>2, <4>1
    <3>7. CASE HandshakeReads(res)
      <4>1. Position = FrameLen /\ call.dir = "write"
        BY <1>2, <1>3, <1>4, <3>4, <3>7 DEF HandshakeReads, Position
      <4>2. dev.got = 0
        BY <1>2, <3>3, <4>1
      <4> QED BY <3>2, <3>7, <4>2 DEF HandshakeReads, CallGoes
    <3>8. CASE HandshakeDone
      <4>1. dev.got = 0 /\ active = 0
        BY <1>4, <3>3, <3>8 DEF HandshakeDone
      <4>2. Position' = 0 /\ call'.op = "none"
        BY <3>8, <4>1, IdleFields DEF HandshakeDone, Answers, Position, stream
      <4> QED BY <1>2, <1>6, <3>2, <3>3, <4>1, <4>2
    <3>9. CASE WriteRefused(res)
      <4>1. irp.n = 0
        BY <3>1, <3>9 DEF WriteRefused, Reported, TransferInv
      <4>2. Position = 0 /\ Position' = 0 /\ call'.op = "none"
        BY <1>3, <1>4, <3>9, <4>1, IdleFields DEF WriteRefused, Answers, Position, stream
      <4> QED BY <1>6, <1>8, <3>2, <3>3, <3>9, <4>2 DEF WriteRefused
    <3>10. CASE WriteAdvances(res)
      <4>1. Position = call.sent + res.n /\ call'.op = "none"
        BY <1>4, <3>4, <3>10, IdleFields DEF WriteAdvances, Answers, Position
      <4>2. Position' = IF Position = FrameLen THEN 0 ELSE Position
        BY <3>10, <4>1 DEF WriteAdvances, Position
      <4>3. Reached(Position)
        BY <1>8, <3>3, <3>10 DEF WriteAdvances
      <4> QED BY <1>2, <1>6, <3>2, <3>3, <4>1, <4>2, <4>3
    <3>11. CASE AckReturns(res)
      BY <1>6, <1>8, <3>2, <3>3, <3>11, IdleFields DEF AckReturns, Answers, stream, Position
    <3> QED BY <3>1, <3>5, <3>6, <3>7, <3>8, <3>9, <3>10, <3>11 DEF Settled
  <2>10. CASE TakesByte
    <3>1. PICK position \in Nat : position = call.sent + irp.n + 1
      BY <1>3
    <3>2. Buffers(call.frame, position) \/ Serves(call.frame, position)
          \/ Ignores(call.frame, position)
      BY <1>1, <1>2, <1>3, <2>10, <3>1, ReceiveEffect DEF TakesByte
    <3>3. (dev'.garbled => Garbled(call.frame, position))
          /\ dev'.got = IF position = FrameLen THEN 0 ELSE position
      BY <3>2 DEF Buffers, Serves, Ignores, DeviceGoes
    <3>4. call.dir = "write" /\ call.op \in {"handshake", "write"} /\ port
          /\ UNCHANGED <<call, port, active>>
      BY <1>1, <1>4, <2>10 DEF TakesByte, Calls, stream, Owned, TransferInv, CallInv, Waiting
    <3>5. Position = call.sent + irp.n /\ Position' = position /\ Position < FrameLen
      BY <1>2, <1>3, <2>10, <3>1, <3>4 DEF TakesByte, TransferGoes, Position
    <3>6. ~Garbled(call.frame, position)
      BY <1>2, <1>4, <3>1, <3>4, <3>5 DEF Garbled
    <3> QED BY <3>3, <3>4, <3>5, <3>6
  <2>11. CASE DeviceReplies \/ TimePasses
    BY <1>7, <2>11 DEF DeviceReplies, TimePasses, stream, device
  <2> QED BY <1>10, <2>1, <2>2, <2>3, <2>4, <2>5, <2>6, <2>7, <2>8, <2>9, <2>10, <2>11
          DEF StreamStep, Entries, Completions
<1>11. CASE LaneStep
  <2>1. ASSUME Keeps, UNCHANGED <<call, irp, active, port>> PROVE DeviceInv'
    BY <1>7, <2>1
  <2>2. ASSUME Keeps, call' = call, irp' = irp,
               UNCHANGED stream \/ CloseStream
        PROVE  DeviceInv'
    BY <1>5, <1>7, <2>2 DEF stream, CloseStream
  <2>3. ASSUME NEW frame, PayloadBegins(frame), Keeps, UNCHANGED <<active, port, irp>>,
               active = 0, call.op = "none"
        PROVE  DeviceInv'
    <3>1. Position = 0 /\ Position' = 0 /\ call'.op = "write"
      BY <1>4, <2>3 DEF PayloadBegins, CallBegins, Position
    <3> QED BY <1>6, <1>8, <2>3, <3>1
  <2>4. ASSUME PayloadGoesOn, Keeps, UNCHANGED irp, ret.k # "none",
               lane.pc \in {"writing", "neutral"}
        PROVE  DeviceInv'
    <3>1. Position = active /\ Position' = ret.n /\ call'.op = "write" /\ port' = port
      BY <1>3, <1>4, <2>4 DEF PayloadGoesOn, CallBegins, Position, stream
    <3>2. ret.n = active
      BY <1>3, <1>2, <2>4 DEF PayloadGoesOn, AccountInv, Writing
    <3> QED BY <1>4, <1>6, <1>8, <2>4, <3>1, <3>2
  <2>5. CASE Top \/ ReceiveClose
    BY <1>1, <2>1, <2>5, PassesEffect DEF Passes, serialVars, stream, device
  <2>6. ASSUME NEW r \in Requests, ReceiveRequest(r) PROVE DeviceInv'
    BY <1>1, <2>1, <2>6, ReceiveRequestEffect DEF stream
  <2>7. CASE Attempt
    <3>1. CASE ShakeBegins /\ irp' = irp /\ Keeps /\ call.op = "none"
      <4>1. call'.op = "handshake" /\ call'.dir = "write" /\ Position' = 0
        BY <1>3, <1>4, <3>1 DEF ShakeBegins, CallBegins, Position
      <4> QED BY <3>1, <4>1
    <3>2. Keeps /\ irp' = irp /\ call.op = "none"
      BY <1>1, <1>4, <2>7, AttemptEffect DEF device, Serving
    <3> QED BY <1>1, <2>2, <2>7, <3>1, <3>2, AttemptEffect DEF AbandonsConnect
  <2>8. CASE Shaken
    BY <1>1, <2>2, <2>8, ShakenEffect DEF Connected, AbandonsConnect, TriesAgain, device
  <2>9. CASE BeginExchange
    <3>1. active = 0 /\ call.op = "none" /\ Keeps /\ UNCHANGED <<active, port, irp>>
      BY <1>1, <1>4, <2>9, BeginExchangeEffect DEF Serving
    <3> QED BY <1>1, <2>1, <2>3, <2>9, <3>1, BeginExchangeEffect DEF ExchangeBegins, ExchangeStops
  <2>10. CASE WriteReturns
    <3>1. Keeps /\ irp' = irp
      BY <1>1, <2>10, WriteReturnsEffect DEF device
    <3> QED BY <1>1, <2>2, <2>4, <2>10, <3>1, WriteReturnsEffect
            DEF PayloadWritten, PayloadFails, PayloadGoesOn
  <2>11. CASE BeginWait
    <3>1. Keeps /\ irp' = irp /\ UNCHANGED stream /\ call.op = "none" /\ active = 0
      BY <1>1, <1>4, <2>11, BeginWaitEffect DEF device, Serving
    <3>2. CASE WaitBegins
      <4>1. call'.op = "ack" /\ Position' = 0 /\ Position = 0
        BY <3>1, <3>2 DEF WaitBegins, CallBegins, Position, stream
      <4> QED BY <1>6, <1>8, <3>1, <4>1 DEF stream
    <3> QED BY <1>1, <2>2, <2>11, <3>1, <3>2, BeginWaitEffect
  <2>12. CASE ReplyReturns
    BY <1>1, <2>2, <2>12, ReplyReturnsEffect DEF device
  <2>13. CASE CleanupFailed \/ LoseStream \/ Finish \/ CloseEnds
    BY <1>1, <2>2, <2>13, LeavesEffect DEF Leaves, serialVars, device
  <2>14. CASE CloseBegins
    <3>1. active = 0 /\ call.op = "none" /\ Keeps /\ UNCHANGED <<active, port, irp>>
      BY <1>1, <1>4, <2>14, CloseBeginsEffect DEF Serving, device
    <3> QED BY <1>1, <2>1, <2>3, <2>14, <3>1, CloseBeginsEffect DEF NeutralBegins, NothingToClose
  <2>15. CASE NeutralReturns
    <3>1. Keeps /\ irp' = irp
      BY <1>1, <2>15, NeutralReturnsEffect DEF device
    <3> QED BY <1>1, <2>2, <2>4, <2>15, <3>1, NeutralReturnsEffect
            DEF PayloadWritten, PayloadFails, PayloadGoesOn
  <2>16. CASE Unwind
    BY <1>1, <1>5, <2>16, UnwindEffect DEF Unwinds, CloseStream, device
  <2> QED BY <1>11, <2>5, <2>6, <2>7, <2>8, <2>9, <2>10, <2>11, <2>12, <2>13, <2>14, <2>15, <2>16
          DEF LaneStep
<1> QED BY <1>9, <1>10, <1>11, StepCases

-----------------------------------------------------------------------------
(* Replies                                                                  *)

LEMMA ByteInvNext == ASSUME TypeOK, CallInv, TransferInv, ByteInv, Next PROVE ByteInv'
<1> USE DEF ByteInv
<1>1. call \in Calls /\ ret \in Results /\ irp \in Transfers /\ lane \in Lanes
      /\ dev \in Devices /\ inbox \in Seq(Requests)
  BY DEF TypeOK, CallType, StreamType, ClientType, LaneType
<1>2. irp.byte.byte # "none" => call.at \in Waiting /\ call.op # "none"
  BY DEF TransferInv, CallInv, Waiting
<1>3. NoTransfer.byte.byte = "none" /\ NoByte.byte = "none"
  BY NoTransferFields, NoByteFields
<1>4. ASSUME UNCHANGED irp, call.op = "none" \/ call'.dir = call.dir \/ irp.byte.byte = "none"
      PROVE  ByteInv'
  BY <1>2, <1>4
<1>5. CASE ClientStep
  BY <1>4, <1>5, ClientsOnlyAsk DEF serialVars
<1>6. CASE StreamStep
  <2>1. CASE Entries
    BY <1>2, <1>4, <2>1
    DEF Entries, Opens, OpenFails, WriteStarts, WriteFails, AckStarts, AckFails, Waiting
  <2>2. CASE Starts
    BY <1>3, <2>2 DEF Starts, TransferGoes
  <2>3. CASE Cancels
    BY <2>3 DEF Cancels, TransferGoes
  <2>4. CASE Settles
    <3>1. CASE irp' = NoTransfer
      BY <1>3, <3>1
    <3>2. CASE irp' = irp /\ call.at = "transfer"
      BY <1>2, <1>4, <3>2 DEF Waiting
    <3> QED BY <2>4, <3>1, <3>2 DEF Settles
  <2>5. CASE Completes
    BY <2>5 DEF Completes, TransferGoes, Owned
  <2>6. CASE TakesByte
    BY <2>6 DEF TakesByte, TransferGoes
  <2>7. CASE DeviceReplies \/ TimePasses
    BY <1>4, <2>7 DEF DeviceReplies, TimePasses
  <2> QED BY <1>6, <2>1, <2>2, <2>3, <2>4, <2>5, <2>6, <2>7 DEF StreamStep, Completions
<1>7. CASE LaneStep
  <2>1. ASSUME UNCHANGED irp, call.op = "none" PROVE ByteInv'
    BY <1>4, <2>1
  <2>2. lane.pc \notin Serving \/ ret.k # "none" => call.op = "none"
    BY DEF CallInv
  <2>3. CASE Top \/ ReceiveClose
    BY <1>1, <1>4, <2>3, PassesEffect DEF Passes, serialVars
  <2>4. ASSUME NEW r \in Requests, ReceiveRequest(r) PROVE ByteInv'
    BY <1>1, <1>4, <2>4, ReceiveRequestEffect
  <2>5. CASE Attempt
    BY <1>1, <2>1, <2>2, <2>5, AttemptEffect DEF Serving
  <2>6. CASE Shaken
    BY <1>1, <2>1, <2>2, <2>6, ShakenEffect
  <2>7. CASE BeginExchange
    BY <1>1, <2>1, <2>2, <2>7, BeginExchangeEffect DEF Serving
  <2>8. CASE WriteReturns \/ NeutralReturns
    <3>1. ret.k # "none"
      BY <2>8 DEF WriteReturns, NeutralReturns, Returned
    <3> QED BY <1>1, <2>1, <2>2, <2>8, <3>1, WriteReturnsEffect, NeutralReturnsEffect
  <2>9. CASE BeginWait
    BY <1>1, <2>1, <2>2, <2>9, BeginWaitEffect DEF Serving
  <2>10. CASE ReplyReturns
    BY <1>1, <2>1, <2>2, <2>10, ReplyReturnsEffect
  <2>11. CASE CleanupFailed \/ LoseStream \/ Finish \/ CloseEnds
    BY <1>1, <1>4, <2>11, LeavesEffect DEF Leaves, serialVars
  <2>12. CASE CloseBegins
    BY <1>1, <2>1, <2>2, <2>12, CloseBeginsEffect DEF Serving
  <2>13. CASE Unwind
    BY <1>1, <1>3, <2>13, UnwindEffect DEF Unwinds
  <2> QED BY <1>7, <2>3, <2>4, <2>5, <2>6, <2>7, <2>8, <2>9, <2>10, <2>11, <2>12, <2>13
          DEF LaneStep
<1> QED BY <1>5, <1>6, <1>7, StepCases

(* Outside the wait for a reply none is coming in.                           *)
LEMMA NothingIncoming ==
  ASSUME CallInv, ByteInv
  PROVE  /\ lane.pc \in Exchanging \ {"waiting"} => Incoming = NoByte
         /\ call.op = "ack" /\ irp.st # "done" => Incoming.byte = "none"
<1>1. lane.pc \in Exchanging \ {"waiting"} => call.op # "ack"
  BY DEF CallInv, Serving, MethodOf, Exchanging
<1> QED BY <1>1 DEF Incoming, ByteInv

(* What was coming in or was received may be lost.                           *)
LEMMA RepliesLost ==
  ASSUME ExpectInv, UNCHANGED <<owed, taken, clean>>, lane'.use = lane.use,
         lane.pc \in Exchanging, Sent => Sent',
         rx' \in {rx, << >>}, Incoming' = Incoming \/ Incoming'.byte = "none"
  PROVE  ExpectInv'
<1> SUFFICES ASSUME clean, lane'.pc \in Exchanging PROVE ExpectInv'
  BY DEF ExpectInv
<1>1. ASSUME lane.use = "main", MainReplies PROVE MainReplies'
  <2>1. CASE Incoming.byte = "none" /\ Empty
    BY <2>1 DEF MainReplies, Empty
  <2>2. CASE Sent /\ \E b \in Replies : b.own /\ b.byte = "ack" /\ UnderWay(b)
    <3>1. PICK b \in Replies : b.own /\ b.byte = "ack" /\ UnderWay(b)
      BY <2>2
    <3>2. UnderWay(b)' \/ (Incoming'.byte = "none" /\ Empty')
      BY <3>1 DEF UnderWay, Empty
    <3> QED BY <2>2, <3>1, <3>2 DEF MainReplies
  <2> QED BY <1>1, <2>1, <2>2 DEF MainReplies
<1>2. ASSUME lane.use = "retry", RetryReplies PROVE RetryReplies'
  BY <1>2 DEF RetryReplies, Empty
<1> QED BY <1>1, <1>2 DEF ExpectInv

(* A byte of the payload completes it and has the device answer.             *)
LEMMA ReplyOwed ==
  ASSUME TypeOK, CallInv, TransferInv, AccountInv, PlaceInv, ByteInv, ExpectInv,
         TakesByte, UNCHANGED <<lane, history>>
  PROVE  ExpectInv'
<1> SUFFICES ASSUME clean, lane.pc \in Exchanging PROVE ExpectInv'
  BY DEF ExpectInv, history
<1>1. call \in Calls /\ irp \in Transfers /\ dev \in Devices /\ faults \in Nat
      /\ owed \in Seq(Replies) /\ rx \in Seq(Replies) /\ FrameLen \in Nat /\ taken \in Nat
  BY StreamAssumption DEF StreamAssumption, TypeOK, CallType, StreamType
<1>2. /\ call.op = "write" /\ call.frame = lane.frame /\ taken = call.sent + irp.n
      /\ lane.pc = "writing"
  <2>1. call.op # "none" /\ call.op # "ack"
    BY DEF TakesByte, TransferInv, CallInv, Owned, Waiting
  <2> QED BY <1>1, <2>1 DEF CallInv, AccountInv, Serving, MethodOf, Exchanging, Calls
<1>3. call.frame \in Frames /\ call.sent \in Nat /\ irp.n \in Nat
  BY <1>1 DEF Calls, Transfers
<1>4. PICK position \in Nat : position = call.sent + irp.n + 1
  BY <1>3
<1>5. taken' = position /\ taken < FrameLen /\ ~Sent /\ UNCHANGED <<rx, call>>
  BY <1>1, <1>2, <1>3, <1>4 DEF TakesByte, Sent
<1>6. Incoming = NoByte /\ Incoming' = NoByte /\ NoByte.byte = "none"
  BY <1>2, <1>5, NothingIncoming, NoByteFields DEF Exchanging, Incoming
<1>7. Buffers(call.frame, position) \/ Serves(call.frame, position)
      \/ Ignores(call.frame, position)
  BY <1>1, <1>3, <1>4, ReceiveEffect DEF TakesByte
<1>8. (lane.use = "main" => Empty) /\ (lane.use = "retry" => RetryReplies)
  BY <1>2, <1>5 DEF ExpectInv, MainReplies, Exchanging
<1>9. CASE UNCHANGED owed
  <2>1. lane.use = "main" => MainReplies'
    BY <1>5, <1>6, <1>8, <1>9 DEF MainReplies, Empty
  <2>2. lane.use = "retry" => RetryReplies'
    BY <1>5, <1>6, <1>8, <1>9 DEF RetryReplies
  <2> QED BY <2>1, <2>2 DEF ExpectInv
<1>10. CASE owed' # owed
  <2>1. PICK reply \in Replies :
          /\ reply.own /\ owed' = Append(owed, reply) /\ position = FrameLen
          /\ reply.byte = (IF call.frame.kind \in {"hello", "reset"} THEN "ready" ELSE "ack")
    BY <1>7, <1>10 DEF Buffers, Serves, Ignores
  <2>2. Sent'
    BY <1>2, <1>5, <2>1 DEF Sent
  <2>3. ASSUME lane.use = "main" PROVE MainReplies'
    <3>1. reply.byte = "ack"
      BY <1>2, <2>1, <2>3 DEF PlaceInv, Exchanging
    <3>2. owed' = <<reply>> /\ rx' = << >>
      BY <1>5, <1>8, <2>1, <2>3 DEF Empty
    <3> QED BY <1>6, <2>1, <2>2, <3>1, <3>2 DEF MainReplies, UnderWay
  <2>4. ASSUME lane.use = "retry" PROVE RetryReplies'
    <3>1. /\ \A i \in DOMAIN owed : owed[i].byte # "ready"
          /\ \A i \in DOMAIN rx : rx[i].byte # "ready"
      BY <1>5, <1>8, <2>4 DEF RetryReplies
    <3>2. Len(owed') = Len(owed) + 1 /\ DOMAIN owed' = 1..Len(owed')
          /\ \A i \in DOMAIN owed' : owed'[i] = IF i = Len(owed') THEN reply ELSE owed[i]
      BY <1>1, <2>1
    <3>3. \A i \in DOMAIN owed' : i # Len(owed') => i \in DOMAIN owed
      BY <1>1, <3>2
    <3> QED BY <1>5, <1>6, <2>1, <2>2, <3>1, <3>2, <3>3 DEF RetryReplies
  <2> QED BY <2>3, <2>4 DEF ExpectInv
<1> QED BY <1>9, <1>10

(* A reply reaches the port, and is read there, in the order it was sent.    *)
LEMMA ReplyArrives ==
  ASSUME TypeOK, CallInv, ExpectInv, DeviceReplies, UNCHANGED <<lane, history>>
  PROVE  ExpectInv'
<1> SUFFICES ASSUME clean, lane.pc \in Exchanging PROVE ExpectInv'
  BY DEF ExpectInv, history
<1>1. owed \in Seq(Replies) /\ rx \in Seq(Replies)
  BY DEF TypeOK, StreamType
<1>2. /\ owed # << >> /\ owed' = Tail(owed) /\ rx' \in {rx, Append(rx, Head(owed))}
      /\ Incoming' = Incoming /\ Sent' = Sent
  BY DEF DeviceReplies, Incoming, Sent
<1>3. ASSUME lane.use = "main" PROVE MainReplies'
  <2>1. PICK b \in Replies : /\ Sent /\ b.own /\ b.byte = "ack" /\ Incoming.byte = "none"
                             /\ rx = << >> /\ owed = <<b>>
    BY <1>2, <1>3 DEF ExpectInv, MainReplies, UnderWay, Empty
  <2>2. owed' = << >> /\ rx' \in {<< >>, <<b>>}
    BY <1>2, <2>1
  <2> QED BY <1>2, <2>1, <2>2 DEF MainReplies, UnderWay, Empty
<1>4. ASSUME lane.use = "retry" PROVE RetryReplies'
  <2>1. RetryReplies
    BY <1>4 DEF ExpectInv
  <2>2. \A i \in DOMAIN rx : rx[i].byte # "ready"
    BY <1>2, <2>1 DEF RetryReplies
  <2>3. /\ Len(owed') = Len(owed) - 1 /\ Len(owed) \in Nat \ {0} /\ Head(owed) = owed[1]
        /\ DOMAIN owed' = 1..Len(owed') /\ DOMAIN owed = 1..Len(owed)
        /\ \A i \in DOMAIN owed' : owed'[i] = owed[i + 1] /\ i + 1 \in DOMAIN owed
    BY <1>1, <1>2
  <2>4. \A i \in DOMAIN owed' : owed'[i].byte = "ready" => Sent' /\ owed'[i].own /\ i = Len(owed')
    BY <1>2, <2>1, <2>3 DEF RetryReplies
  <2>5. Incoming'.byte # "ready"
    BY <1>2, <2>1 DEF RetryReplies, Empty
  <2>6. CASE rx' = rx
    BY <2>2, <2>4, <2>5, <2>6 DEF RetryReplies
  <2>7. CASE rx' = Append(rx, owed[1])
    <3>1. Len(rx') = Len(rx) + 1 /\ DOMAIN rx' = 1..Len(rx')
          /\ \A i \in DOMAIN rx' : rx'[i] = IF i = Len(rx') THEN owed[1] ELSE rx[i]
      BY <1>1, <2>3, <2>7
    <3>2. \A i \in DOMAIN rx' : i # Len(rx') => i \in DOMAIN rx
      BY <1>1, <3>1
    <3>3. owed[1].byte = "ready" => Sent' /\ owed[1].own /\ owed' = << >>
      <4>1. owed[1].byte = "ready" => Sent /\ owed[1].own /\ Len(owed) = 1
        BY <2>1, <2>3 DEF RetryReplies
      <4> QED BY <1>1, <1>2, <2>3, <4>1
    <3> QED BY <2>2, <2>4, <2>5, <3>1, <3>2, <3>3 DEF RetryReplies
  <2> QED BY <1>2, <2>3, <2>6, <2>7
<1> QED BY <1>3, <1>4 DEF ExpectInv

LEMMA ReplyRead ==
  ASSUME TypeOK, CallInv, TransferInv, ByteInv, ExpectInv, Completes, UNCHANGED <<lane, history>>
  PROVE  ExpectInv'
<1> SUFFICES ASSUME clean, lane.pc \in Exchanging PROVE ExpectInv'
  BY DEF ExpectInv, history
<1>1. owed \in Seq(Replies) /\ rx \in Seq(Replies) /\ call \in Calls
  BY DEF TypeOK, CallType, StreamType
<1>2. UNCHANGED <<owed, taken, clean, call, ret>> /\ Owned /\ Sent' = Sent
  BY DEF Completes, device, history, Sent
<1>3. CASE rx' = rx /\ irp'.byte = irp.byte
  <2>1. Incoming' = Incoming
    BY <1>2, <1>3 DEF Incoming
  <2> QED BY <1>2, <1>3, <2>1, RepliesLost
<1>4. CASE call.dir = "read" /\ rx # << >> /\ rx' = Tail(rx) /\ irp'.byte = Head(rx)
           /\ call.op = "ack"
  <2>1. Incoming' = Head(rx) /\ Incoming.byte = "none"
    BY <1>2, <1>4, NothingIncoming DEF Incoming, Owned
  <2>2. ASSUME lane.use = "main" PROVE MainReplies'
    <3>1. PICK b \in Replies : /\ Sent /\ b.own /\ b.byte = "ack"
                               /\ rx = <<b>> /\ owed = << >>
      BY <1>4, <2>1, <2>2 DEF ExpectInv, MainReplies, UnderWay, Empty
    <3>2. rx' = << >> /\ Incoming' = b
      BY <1>4, <2>1, <3>1
    <3> QED BY <1>2, <3>1, <3>2 DEF MainReplies, UnderWay, Empty
  <2>3. ASSUME lane.use = "retry" PROVE RetryReplies'
    <3>1. RetryReplies
      BY <2>3 DEF ExpectInv
    <3>2. /\ Len(rx') = Len(rx) - 1 /\ Len(rx) \in Nat \ {0} /\ Head(rx) = rx[1]
          /\ DOMAIN rx' = 1..Len(rx') /\ DOMAIN rx = 1..Len(rx)
          /\ \A i \in DOMAIN rx' : rx'[i] = rx[i + 1] /\ i + 1 \in DOMAIN rx
      BY <1>1, <1>4
    <3>3. \A i \in DOMAIN rx' :
            rx'[i].byte = "ready" => Sent' /\ rx'[i].own /\ i = Len(rx') /\ owed' = << >>
      BY <1>2, <3>1, <3>2 DEF RetryReplies
    <3>4. rx[1].byte = "ready" => rx[1].own /\ Empty'
      <4>1. rx[1].byte = "ready" => rx[1].own /\ Len(rx) = 1 /\ owed = << >>
        BY <3>1, <3>2 DEF RetryReplies
      <4> QED BY <1>1, <1>2, <1>4, <3>2, <4>1 DEF Empty
    <3> QED BY <1>2, <2>1, <3>1, <3>2, <3>3, <3>4 DEF RetryReplies
  <2> QED BY <2>2, <2>3 DEF ExpectInv
<1>5. CASE call.op # "ack"
  <2>1. Incoming' = Incoming /\ call.op # "handshake"
    BY <1>2, <1>5 DEF Incoming, CallInv, Serving, MethodOf, Exchanging
  <2>2. call.dir # "read"
    BY <1>1, <1>2, <1>5, <2>1 DEF CallInv, TransferInv, Calls, Owned, Waiting
  <2> QED BY <1>2, <1>3, <1>5, <2>1, <2>2, RepliesLost DEF Completes
<1> QED BY <1>1, <1>3, <1>4, <1>5 DEF Completes, TransferGoes

(* During an exchange the stream moves one reply on, has one owed, or at     *)
(* most loses what was received.                                             *)
Quiet ==
  /\ UNCHANGED <<owed, taken, dev>> /\ rx' \in {rx, << >>}
  /\ Incoming' = Incoming \/ Incoming'.byte = "none"

LEMMA RepliesStep ==
  ASSUME TypeOK, CallInv, TransferInv, ByteInv, StreamStep, lane.pc \in Exchanging
  PROVE  Quiet \/ TakesByte \/ DeviceReplies \/ Completes
<1>1. call \in Calls /\ ret \in Results /\ irp \in Transfers
  BY DEF TypeOK, CallType
<1>2. NoByte.byte = "none" /\ NoTransfer.byte = NoByte
  BY NoByteFields, NoTransferFields
<1>3. UNCHANGED lane /\ call.op # "handshake"
  BY DEF StreamStep, CallInv, Serving, MethodOf, Exchanging
<1> USE DEF Quiet
<1>4. CASE WriteStarts \/ AckStarts
  BY <1>3, <1>4 DEF WriteStarts, AckStarts, CallGoes, device, Incoming
<1>5. ASSUME call.op \in {"write", "ack"}, Answers("err"), UNCHANGED <<rx, owed, taken, dev>>
      PROVE  Quiet
  <2>1. Incoming' = NoByte
    BY <1>3, <1>5, IdleFields DEF Answers, Incoming
  <2> QED BY <1>2, <1>5, <2>1
<1>6. CASE WriteFails
  BY <1>5, <1>6 DEF WriteFails, WriteLost, WriteRefused, device
<1>7. CASE AckFails
  BY <1>5, <1>7 DEF AckFails, device
<1>8. CASE Starts
  <2>1. Incoming' = Incoming \/ Incoming'.byte = "none"
    BY <1>2, <1>3, <1>8 DEF Starts, CallGoes, TransferGoes, Incoming
  <2> QED BY <1>8, <2>1 DEF Starts, device
<1>9. CASE Cancels
  BY <1>3, <1>9 DEF Cancels, CallGoes, TransferGoes, device, Incoming
<1>10. CASE Settles
  <2>1. PICK res \in Results : Reported(res) /\ Settled(res)
    BY <1>10 DEF Settles
  <2>2. UNCHANGED <<rx, owed, taken, dev>> /\ (res.k = "ok" \/ res.k = "err")
    BY <1>10, <2>1 DEF Settles, device, Reported
  <2>3. CASE WriteLost \/ WriteRefused(res) \/ (AckReturns(res) /\ res.k = "err")
    BY <1>5, <2>2, <2>3 DEF WriteLost, WriteRefused, AckReturns
  <2>4. CASE WriteAdvances(res)
    <3>1. lane.pc = "writing"
      BY <2>4 DEF WriteAdvances, CallInv, Serving, MethodOf, Exchanging
    <3>2. Incoming' = NoByte
      BY <1>3, <2>4, <3>1, IdleFields DEF WriteAdvances, Answers, Incoming
    <3> QED BY <1>2, <2>2, <3>2
  <2>5. CASE AckReturns(res) /\ res.k = "ok"
    <3>1. call.dir = "read" /\ lane.pc = "waiting" /\ res.byte = irp.byte
      BY <2>1, <2>5 DEF AckReturns, CallInv, Serving, MethodOf, Reported
    <3>2. Incoming' = Incoming
      BY <1>3, <2>5, <3>1, IdleFields DEF AckReturns, Answers, Incoming
    <3> QED BY <2>2, <3>2
  <2> QED BY <1>3, <2>1, <2>2, <2>3, <2>4, <2>5
          DEF Settled, HandshakeFails, HandshakeWrites, HandshakeReads, HandshakeDone
<1>11. CASE TimePasses
  BY <1>3, <1>11 DEF TimePasses, device, Incoming
<1> QED BY <1>3, <1>4, <1>6, <1>7, <1>8, <1>9, <1>10, <1>11
        DEF StreamStep, Entries, Completions, Opens, OpenFails, HandshakeFails

LEMMA ExpectInvNext ==
  ASSUME TypeOK, CallInv, TransferInv, AccountInv, PlaceInv, ByteInv, ExpectInv, Next
  PROVE  ExpectInv'
<1>1. call \in Calls /\ ret \in Results /\ irp \in Transfers /\ lane \in Lanes
      /\ dev \in Devices /\ inbox \in Seq(Requests) /\ owed \in Seq(Replies) /\ rx \in Seq(Replies)
  BY DEF TypeOK, CallType, StreamType, ClientType, LaneType
<1>2. NoByte.byte = "none"
  BY NoByteFields
<1>3. ASSUME lane'.pc \notin Exchanging PROVE ExpectInv'
  BY <1>3 DEF ExpectInv
<1>4. ASSUME UNCHANGED <<owed, taken, clean, lane>>, rx' \in {rx, << >>},
             lane.pc \in Exchanging => Incoming' = Incoming \/ Incoming'.byte = "none"
      PROVE  ExpectInv'
  BY <1>3, <1>4, RepliesLost DEF Sent
<1>5. CASE ClientStep
  BY <1>4, <1>5, ClientsOnlyAsk DEF serialVars, device, history, Incoming
<1>6. CASE StreamStep
  <2>1. UNCHANGED <<lane, clean>> /\ UNCHANGED <<lane, history>>
    BY <1>6 DEF StreamStep, history
  <2>2. CASE lane.pc \notin Exchanging
    BY <1>3, <2>1, <2>2
  <2>3. CASE Quiet
    BY <1>4, <2>1, <2>3 DEF Quiet
  <2> QED BY <1>6, <2>1, <2>2, <2>3, RepliesStep, ReplyRead, ReplyOwed, ReplyArrives
<1>7. CASE LaneStep
  <2>1. ASSUME lane.pc \in Exchanging, lane'.pc \in Exchanging, lane'.use = lane.use,
               UNCHANGED <<owed, rx, taken, clean>>, lane'.pc # "exchange",
               Incoming' = NoByte
        PROVE  ExpectInv'
    BY <1>2, <2>1, RepliesLost DEF Sent
  <2>2. ASSUME NEW res, res # "ok", Outcomes(res), lane.pc \in Exchanging,
               UNCHANGED <<call, rx, owed, clean>>, call.op = "none"
        PROVE  ExpectInv'
    <3>1. CASE lane'.pc \notin Exchanging \/ lane'.use = "cleanup"
      BY <3>1 DEF ExpectInv
    <3>2. CASE lane.use = "main" /\ lane'.use = "retry" /\ lane'.pc = "exchange"
      <4>1. Incoming' = NoByte
        BY <2>2, <3>2 DEF Incoming
      <4>2. CASE clean
        <5>1. MainReplies
          BY <2>2, <3>2, <4>2 DEF ExpectInv
        <5>2. CASE Empty
          BY <1>2, <2>2, <3>2, <4>1, <5>2 DEF ExpectInv, RetryReplies, Empty
        <5>3. ASSUME NEW b \in Replies, b.byte = "ack", UnderWay(b) PROVE ExpectInv'
          <6>1. /\ \A i \in DOMAIN rx : rx[i].byte = "ack"
                /\ \A i \in DOMAIN owed : owed[i].byte = "ack"
            BY <5>3 DEF UnderWay, Empty
          <6> QED BY <1>2, <2>2, <3>2, <4>1, <6>1 DEF ExpectInv, RetryReplies
        <5> QED BY <5>1, <5>2, <5>3 DEF MainReplies
      <4> QED BY <2>2, <4>2 DEF ExpectInv
    <3> QED BY <2>2, <3>1, <3>2
            DEF Outcomes, RequestEnds, RequestCleansUp, RequestSends, LaneAt, Exchanging
  <2>3. lane.pc \notin Serving \/ ret.k # "none" => call.op = "none"
    BY DEF CallInv
  <2>4. \A error \in Errors : error # "ok"
    BY DEF Errors
  <2>5. CASE Top \/ ReceiveClose
    BY <1>1, <1>3, <2>5, PassesEffect DEF Passes, LaneAt, Exchanging
  <2>6. ASSUME NEW r \in Requests, ReceiveRequest(r) PROVE ExpectInv'
    <3>1. CASE RequestDropped(r)
      BY <1>3, <3>1 DEF RequestDropped, LaneAt, Exchanging
    <3>2. CASE RequestBegins(r)
      <4>1. Incoming' = NoByte
        BY <1>1, <2>3, <2>6, <3>2, ReceiveRequestEffect
        DEF RequestBegins, LaneAt, Incoming, Serving
      <4> QED BY <1>1, <1>2, <2>6, <3>2, <4>1, ReceiveRequestEffect
              DEF RequestBegins, ExpectInv, MainReplies, Empty
    <3> QED BY <1>1, <2>6, <3>1, <3>2, ReceiveRequestEffect
  <2>7. CASE Attempt
    BY <1>1, <1>3, <2>7, AttemptEffect, RestFields
    DEF ShakeBegins, AbandonsConnect, LaneAt, Exchanging
  <2>8. CASE Shaken
    BY <1>1, <1>3, <2>8, ShakenEffect, RestFields
    DEF Connected, AbandonsConnect, TriesAgain, LaneAt, Exchanging
  <2>9. CASE BeginExchange
    <3>1. CASE ExchangeStops
      BY <1>1, <2>2, <2>3, <2>9, <3>1, BeginExchangeEffect
      DEF ExchangeStops, Exchanging, Serving, history, BeginExchange
    <3>2. CASE ExchangeBegins
      <4>1. /\ Incoming' = NoByte /\ ~Sent /\ UNCHANGED history
            /\ lane.pc = "exchange" /\ lane'.pc = "writing" /\ lane'.use = lane.use
        BY <1>1, <2>9, <3>2, BeginExchangeEffect
        DEF ExchangeBegins, PayloadBegins, CallBegins, Incoming, LaneAt, Sent, BeginExchange
      <4>2. /\ owed' = Stale(owed) /\ rx' = Stale(rx)
            /\ Len(owed') = Len(owed) /\ Len(rx') = Len(rx)
            /\ DOMAIN owed' = DOMAIN owed /\ DOMAIN rx' = DOMAIN rx
            /\ \A i \in DOMAIN owed : owed'[i].byte = owed[i].byte
            /\ \A i \in DOMAIN rx : rx'[i].byte = rx[i].byte
            /\ Empty => Empty'
        <5>1. owed' = Stale(owed) /\ rx' = Stale(rx)
          BY <3>2 DEF ExchangeBegins
        <5>2. /\ owed' \in Seq(Replies) /\ Len(owed') = Len(owed)
              /\ \A i \in 1..Len(owed) : owed'[i].byte = owed[i].byte
              /\ owed = << >> => owed' = << >>
          BY <1>1, <5>1, StaleFields
        <5>3. /\ rx' \in Seq(Replies) /\ Len(rx') = Len(rx)
              /\ \A i \in 1..Len(rx) : rx'[i].byte = rx[i].byte
              /\ rx = << >> => rx' = << >>
          BY <1>1, <5>1, StaleFields
        <5>4. DOMAIN owed' = DOMAIN owed /\ DOMAIN owed = 1..Len(owed)
          BY <1>1, <5>2
        <5>5. DOMAIN rx' = DOMAIN rx /\ DOMAIN rx = 1..Len(rx)
          BY <1>1, <5>3
        <5> QED BY <5>1, <5>2, <5>3, <5>4, <5>5 DEF Empty
      <4>3. ASSUME clean, lane.use = "main" PROVE MainReplies'
        BY <1>2, <4>1, <4>2, <4>3 DEF ExpectInv, MainReplies, Exchanging
      <4>4. ASSUME clean, lane.use = "retry" PROVE RetryReplies'
        BY <1>2, <4>1, <4>2, <4>4 DEF ExpectInv, RetryReplies, Exchanging
      <4> QED BY <4>1, <4>3, <4>4 DEF ExpectInv, history
    <3> QED BY <1>1, <2>9, <3>1, <3>2, BeginExchangeEffect
  <2>10. CASE WriteReturns
    <3>1. /\ lane.pc = "writing" /\ UNCHANGED <<rx, owed, clean, taken>> /\ ret'.k = "none"
          /\ call.op = "none"
      BY <1>1, <2>3, <2>10, WriteReturnsEffect, NoResultFields
      DEF device, history, WriteReturns, Returned
    <3>2. CASE PayloadGoesOn
      <4>1. Incoming' = NoByte
        BY <3>1, <3>2 DEF PayloadGoesOn, CallBegins, Incoming
      <4> QED BY <2>1, <3>1, <3>2, <4>1 DEF PayloadGoesOn, Exchanging
    <3>3. CASE PayloadWritten("written")
      <4>1. Incoming' = NoByte
        BY <3>1, <3>3 DEF PayloadWritten, Incoming, LaneAt
      <4> QED BY <2>1, <3>1, <3>3, <4>1 DEF PayloadWritten, Exchanging, LaneAt
    <3>4. ASSUME NEW error \in Errors, PayloadFails /\ Outcomes(error) PROVE ExpectInv'
      BY <2>2, <2>4, <3>1, <3>4 DEF PayloadFails, Exchanging
    <3> QED BY <1>1, <2>10, <3>2, <3>3, <3>4, WriteReturnsEffect
  <2>11. CASE BeginWait
    <3>1. /\ lane.pc = "written" /\ UNCHANGED <<rx, owed, clean, taken, irp>> /\ call.op = "none"
          /\ irp.byte.byte = "none"
      BY <1>1, <2>3, <2>11, BeginWaitEffect
      DEF device, history, Serving, ByteInv, TransferInv, CallInv, Waiting
    <3>2. CASE WaitBegins
      <4>1. Incoming'.byte = "none"
        BY <3>1, <3>2 DEF WaitBegins, CallBegins, Incoming
      <4> QED BY <3>1, <3>2, <4>1, RepliesLost DEF WaitBegins, Exchanging, LaneAt, Sent
    <3>3. CASE Outcomes("cancelled") /\ call' = call
      BY <2>2, <3>1, <3>3 DEF Exchanging
    <3> QED BY <1>1, <2>11, <3>2, <3>3, BeginWaitEffect
  <2>12. CASE ReplyReturns
    <3>1. /\ lane.pc = "waiting" /\ UNCHANGED <<rx, owed, clean, taken, call>> /\ ret'.k = "none"
          /\ call.op = "none" /\ ret.k # "none"
      BY <1>1, <2>3, <2>12, ReplyReturnsEffect, NoResultFields DEF device
    <3>2. CASE Unacknowledged
      BY <2>2, <2>4, <3>1, <3>2 DEF Unacknowledged, Exchanging
    <3>3. CASE Acknowledged
      <4>1. Incoming = ret.byte /\ ret.byte.byte = Expected /\ Outcomes("ok") /\ Expected # "none"
        BY <3>1, <3>3 DEF Acknowledged, Incoming, Expected
      <4>2. CASE lane'.pc \notin Exchanging \/ lane'.use = "cleanup" \/ ~clean
        BY <3>1, <4>2 DEF ExpectInv
      <4>3. CASE lane'.use = "main" /\ lane'.pc = "exchange" /\ lane.use # "cleanup" /\ clean
        <5>1. Incoming' = NoByte
          BY <3>1, <4>3 DEF Incoming
        <5>2. lane.use = "retry" => Expected = "ready"
          BY <3>1 DEF PlaceInv, Exchanging, Expected
        <5>3. lane.use = "main" \/ lane.use = "retry"
          BY <1>1, <4>3 DEF Lanes
        <5>4. Empty
          BY <3>1, <4>1, <4>3, <5>2, <5>3
          DEF ExpectInv, MainReplies, RetryReplies, UnderWay, Exchanging
        <5> QED BY <1>2, <3>1, <4>3, <5>1, <5>4 DEF ExpectInv, MainReplies, Empty
      <4> QED BY <4>1, <4>2, <4>3
              DEF Outcomes, RequestEnds, RequestCleansUp, RequestSends, LaneAt, Exchanging
    <3> QED BY <1>1, <2>12, <3>2, <3>3, ReplyReturnsEffect
  <2>13. CASE CleanupFailed \/ LoseStream \/ Finish \/ CloseEnds
    BY <1>1, <1>3, <2>13, LeavesEffect, RestFields DEF Leaves, LaneAt, Exchanging
  <2>14. CASE CloseBegins
    BY <1>1, <1>3, <2>14, CloseBeginsEffect DEF NeutralBegins, NothingToClose, LaneAt, Exchanging
  <2>15. CASE NeutralReturns
    BY <1>1, <1>3, <2>15, NeutralReturnsEffect
    DEF PayloadGoesOn, PayloadWritten, LaneAt, Exchanging
  <2>16. CASE Unwind
    BY <1>1, <1>3, <2>16, UnwindEffect DEF Unwinds, LaneAt, Exchanging
  <2> QED BY <1>7, <2>5, <2>6, <2>7, <2>8, <2>9, <2>10, <2>11, <2>12, <2>13, <2>14, <2>15, <2>16
          DEF LaneStep
<1> QED BY <1>5, <1>6, <1>7, StepCases

(* Only a reply can complete an exchange, and by what is under way it is the *)
(* exchange's own.                                                           *)
LEMMA NeverFooled ==
  ASSUME TypeOK, CallInv, TransferInv, PlaceInv, ExpectInv, fooled # "clean", Next
  PROVE  fooled' # "clean"
<1>1. lane \in Lanes /\ ret \in Results /\ dev \in Devices /\ inbox \in Seq(Requests)
  BY DEF TypeOK, CallType, StreamType, ClientType, LaneType
<1>2. CASE ReplyReturns
  <2>1. lane.pc = "waiting" /\ ret.k # "none" /\ (Acknowledged \/ Unacknowledged)
    BY <1>1, <1>2, ReplyReturnsEffect
  <2>2. CASE Unacknowledged
    BY <2>2 DEF Unacknowledged
  <2>3. ASSUME Acknowledged, clean, lane.use # "cleanup" PROVE ret.byte.own
    <3>1. Incoming = ret.byte /\ ret.byte.byte = Expected /\ Expected # "none"
      BY <2>1, <2>3 DEF Acknowledged, Incoming, Expected, CallInv
    <3>2. lane.use = "retry" => Expected = "ready"
      BY <2>1 DEF PlaceInv, Exchanging, Expected
    <3>3. lane.use = "main" \/ lane.use = "retry"
      BY <1>1, <2>3 DEF Lanes
    <3> QED BY <2>1, <2>3, <3>1, <3>2, <3>3
            DEF ExpectInv, MainReplies, RetryReplies, UnderWay, Exchanging
  <2> QED BY <2>1, <2>2, <2>3 DEF Acknowledged
<1>3. CASE ClientStep \/ StreamStep
  BY <1>3, ClientsOnlyAsk DEF StreamStep, history
<1>4. CASE LaneStep /\ ~ReplyReturns
  BY <1>4
  DEF LaneStep, Top, ReceiveClose, ReceiveRequest, Attempt, Shaken, BeginExchange, WriteReturns,
      BeginWait, CleanupFailed, LoseStream, Finish, CloseBegins, NeutralReturns, CloseEnds, Unwind,
      history
<1> QED BY <1>2, <1>3, <1>4, StepCases
-----------------------------------------------------------------------------
(* Saves                                                                    *)

(* A first attempt never has a ready byte pending, and no acknowledgement    *)
(* before its payload is sent.                                               *)
LEMMA PendingBounds ==
  ASSUME ExpectInv, clean, lane.pc \in Exchanging, lane.use = "main"
  PROVE  ~Pending("ready") /\ (~Sent => ~Pending("ack"))
<1>1. ASSUME Incoming.byte = "none", Empty PROVE ~Pending("ready") /\ ~Pending("ack")
  BY <1>1 DEF Pending, Empty
<1>2. ASSUME NEW b \in Replies, b.byte = "ack", UnderWay(b) PROVE ~Pending("ready")
  BY <1>2 DEF Pending, UnderWay, Empty
<1> QED BY <1>1, <1>2 DEF ExpectInv, MainReplies

(* Nothing but the device adds a reply.                                      *)
LEMMA PendingShrinks ==
  ASSUME NEW byte, byte # "none", owed \in Seq(Replies), rx \in Seq(Replies),
         \/ owed' = owed /\ rx' \in {rx, << >>} /\ (Incoming' = Incoming \/ Incoming'.byte = "none")
         \/ DeviceReplies /\ Incoming' = Incoming
         \/ owed' = owed /\ rx # << >> /\ rx' = Tail(rx) /\ Incoming' = Head(rx)
  PROVE  Pending(byte)' => Pending(byte)
<1>1. CASE owed' = owed /\ rx' \in {rx, << >>} /\ (Incoming' = Incoming \/ Incoming'.byte = "none")
  BY <1>1 DEF Pending
<1>2. ASSUME NEW s \in Seq(Replies), s # << >>
      PROVE  /\ Head(s) = s[1] /\ 1 \in DOMAIN s
             /\ \A i \in DOMAIN Tail(s) : Tail(s)[i] = s[i + 1] /\ i + 1 \in DOMAIN s
  BY <1>2
<1>3. CASE DeviceReplies /\ Incoming' = Incoming
  <2>1. owed # << >> /\ owed' = Tail(owed) /\ rx' \in {rx, Append(rx, Head(owed))}
    BY <1>3 DEF DeviceReplies
  <2>2. \A i \in DOMAIN owed' : owed'[i] = owed[i + 1] /\ i + 1 \in DOMAIN owed
    BY <1>2, <2>1
  <2>3. Head(owed) = owed[1] /\ 1 \in DOMAIN owed
    BY <1>2, <2>1
  <2>4. \A i \in DOMAIN rx' : (i \in DOMAIN rx /\ rx'[i] = rx[i]) \/ rx'[i] = owed[1]
    <3>1. Head(owed) \in Replies
      BY <2>1
    <3> QED BY <2>1, <2>3, <3>1
  <2> QED BY <1>3, <2>2, <2>3, <2>4 DEF Pending
<1>4. CASE owed' = owed /\ rx # << >> /\ rx' = Tail(rx) /\ Incoming' = Head(rx)
  <2>1. \A i \in DOMAIN rx' : rx'[i] = rx[i + 1] /\ i + 1 \in DOMAIN rx
    BY <1>2, <1>4
  <2>2. Incoming' = rx[1] /\ 1 \in DOMAIN rx
    BY <1>2, <1>4
  <2> QED BY <1>4, <2>1, <2>2 DEF Pending
<1> QED BY <1>1, <1>3, <1>4

LEMMA SaveGoesOn ==
  ASSUME SaveInv, lane.pc \in Exchanging, lane'.pc \in Exchanging, lane'.r = lane.r,
         lane'.frame = lane.frame, lane'.use = lane.use, clean' = clean,
         dev'.header = dev.header, dev'.stored = dev.stored, Sent => Sent',
         Pending("ack")' => Pending("ack"), Pending("ready")' => Pending("ready")
  PROVE  SaveInv'
<1> SUFFICES ASSUME SaveUnderWay, lane.r \in Saves, clean PROVE SaveUnderWay'
  BY DEF SaveInv, Exchanging
<1> QED BY DEF SaveUnderWay

(* What a whole payload does to the save.                                    *)
LEMMA SaveReceived ==
  ASSUME TypeOK, CallInv, TransferInv, AccountInv, PlaceInv, ByteInv, ExpectInv, SaveInv,
         TakesByte, UNCHANGED <<lane, history>>, lane.pc \in Exchanging
  PROVE  SaveInv'
<1> SUFFICES ASSUME SaveUnderWay, lane.r \in Saves, clean PROVE SaveUnderWay'
  BY DEF SaveInv, Exchanging, history
<1>1. call \in Calls /\ irp \in Transfers /\ dev \in Devices /\ faults \in Nat /\ lane \in Lanes
      /\ owed \in Seq(Replies) /\ rx \in Seq(Replies) /\ FrameLen \in Nat /\ taken \in Nat
  BY StreamAssumption DEF StreamAssumption, TypeOK, CallType, StreamType, LaneType
<1>2. /\ call.op = "write" /\ call.frame = lane.frame /\ taken = call.sent + irp.n
      /\ lane.pc = "writing"
  <2>1. call.op # "none" /\ call.op # "ack"
    BY DEF TakesByte, TransferInv, CallInv, Owned, Waiting
  <2> QED BY <1>1, <2>1 DEF CallInv, AccountInv, Serving, MethodOf, Exchanging, Calls
<1>3. call.frame \in Frames /\ call.sent \in Nat /\ irp.n \in Nat
  BY <1>1 DEF Calls, Transfers
<1>4. PICK position \in Nat : position = call.sent + irp.n + 1
  BY <1>3
<1>5. ~Sent /\ UNCHANGED <<rx, call>>
  BY <1>1, <1>2, <1>3, <1>4 DEF TakesByte, Sent
<1>6. Incoming = NoByte /\ Incoming' = NoByte /\ NoByte.byte = "none"
  BY <1>2, <1>5, NothingIncoming, NoByteFields DEF Exchanging, Incoming
<1>7. Buffers(call.frame, position) \/ Serves(call.frame, position)
      \/ Ignores(call.frame, position)
  BY <1>1, <1>3, <1>4, ReceiveEffect DEF TakesByte
<1>8. CASE UNCHANGED owed /\ dev'.header = dev.header /\ dev'.stored = dev.stored
  <2>1. Pending("ack")' = Pending("ack") /\ Pending("ready")' = Pending("ready")
    BY <1>5, <1>6, <1>8 DEF Pending
  <2> QED BY <1>5, <1>8, <2>1 DEF SaveUnderWay
<1>9. CASE Serves(lane.frame, position)
  <2>1. dev'.header = HeaderAfter(lane.frame) /\ dev'.stored = StoredAfter(lane.frame)
    BY <1>9 DEF Serves, DeviceGoes
  <2>2. dev.stored \subseteq dev'.stored
    BY <2>1 DEF StoredAfter
  <2>3. lane.use = "main" => lane.frame.kind \in {"header", "chunk"}
    BY <1>2 DEF PlaceInv, Exchanging
  <2>4. lane.use # "main" => lane.frame.kind = "reset"
    BY <1>1, <1>2 DEF PlaceInv, Exchanging, Lanes
  <2>5. lane.frame.kind = "chunk" /\ lane.use = "main" =>
          dev'.header = 0 /\ lane.frame.chunk \in dev'.stored
    <3>1. ASSUME lane.frame.kind = "chunk", lane.use = "main"
          PROVE  dev.header = lane.frame.chunk /\ lane.frame.chunk # 0
      BY <1>5, <3>1 DEF SaveUnderWay
    <3> QED BY <2>1, <3>1 DEF HeaderAfter, StoredAfter
  <2>6. (lane.frame.kind = "header" => dev'.header = lane.frame.chunk)
        /\ (lane.frame.kind = "reset" => dev'.header = 0)
    BY <2>1 DEF HeaderAfter
  <2>7. Sent' \/ lane.frame.kind # "chunk"
    <3>1. taken' = position /\ position = FrameLen
      BY <1>1, <1>2, <1>3, <1>4, <1>9 DEF TakesByte, Serves
    <3> QED BY <1>2, <3>1 DEF Sent
  <2> QED BY <2>2, <2>3, <2>4, <2>5, <2>6, <2>7 DEF SaveUnderWay
<1> QED BY <1>2, <1>7, <1>8, <1>9 DEF Buffers, Ignores, DeviceGoes

(* Whoever takes a reply for the one that is expected has nothing else to    *)
(* read.                                                                     *)
LEMMA AcknowledgedAlone ==
  ASSUME TypeOK, CallInv, PlaceInv, ExpectInv, clean, ReplyReturns, Acknowledged,
         lane.use # "cleanup"
  PROVE  Empty /\ ret.byte.own
<1>1. lane \in Lanes /\ ret \in Results /\ lane.pc = "waiting" /\ ret.k # "none"
  BY DEF TypeOK, CallType, LaneType, ReplyReturns, Returned
<1>2. Incoming = ret.byte /\ ret.byte.byte = Expected /\ Expected # "none"
  BY <1>1 DEF Acknowledged, Incoming, Expected, CallInv
<1>3. lane.use = "retry" => Expected = "ready"
  BY <1>1 DEF PlaceInv, Exchanging, Expected
<1>4. lane.use = "main" \/ lane.use = "retry"
  BY <1>1 DEF Lanes
<1> QED BY <1>1, <1>2, <1>3, <1>4
        DEF ExpectInv, MainReplies, RetryReplies, UnderWay, Exchanging

LEMMA SaveInvNext ==
  ASSUME TypeOK, CallInv, TransferInv, AccountInv, PlaceInv, ByteInv, ExpectInv, SaveInv, Next
  PROVE  SaveInv'
<1>1. call \in Calls /\ ret \in Results /\ irp \in Transfers /\ lane \in Lanes
      /\ dev \in Devices /\ inbox \in Seq(Requests) /\ owed \in Seq(Replies) /\ rx \in Seq(Replies)
  BY DEF TypeOK, CallType, StreamType, ClientType, LaneType
<1>2. NoByte.byte = "none" /\ Chunks \in Nat \ {0} /\ FrameLen \in Nat \ {0}
  BY NoByteFields, RequestAssumption, StreamAssumption DEF RequestAssumption, StreamAssumption
<1>3. ASSUME lane'.pc \notin Exchanging \union {"finish"} PROVE SaveInv'
  BY <1>3 DEF SaveInv
<1>4. ASSUME UNCHANGED <<lane, clean, dev, port>>, lane.pc = "finish",
             ResourceCancelled => ResourceCancelled'
      PROVE  SaveInv'
  BY <1>4 DEF SaveInv, SaveOver, Exchanging
<1>5. CASE ClientStep
  <2>1. UNCHANGED <<serialVars, lane, history>>
    BY <1>5, ClientsOnlyAsk
  <2>2. ResourceCancelled => ResourceCancelled'
    BY <1>5 DEF ClientStep, CancelResource, Join, Seal, Send, Admit, Cancel, ResourceCancelled
  <2> QED BY <2>1, <2>2
          DEF serialVars, stream, device, history, SaveInv, SaveUnderWay, SaveOver, Pending,
              Incoming, Sent
<1>6. CASE StreamStep
  <2>1. UNCHANGED <<lane, clean>> /\ UNCHANGED <<lane, history>> /\ UNCHANGED closer
    BY <1>6 DEF StreamStep, history, clients
  <2>2. CASE lane.pc = "finish"
    <3>1. call.op = "none" /\ call.at = "idle" /\ irp.st = "none"
      BY <2>2 DEF CallInv, TransferInv, Serving, Waiting
    <3>2. UNCHANGED <<dev, port>>
      BY <1>6, <3>1
      DEF StreamStep, Entries, Completions, Opens, OpenFails, WriteStarts, WriteFails, AckStarts,
          AckFails, Starts, Cancels, Settles, Completes, TakesByte, DeviceReplies, TimePasses,
          Owned, stream
    <3> QED BY <1>4, <2>1, <2>2, <3>2 DEF ResourceCancelled
  <2>3. CASE lane.pc \in Exchanging /\ TakesByte
    BY <2>1, <2>3, SaveReceived
  <2>4. CASE lane.pc \in Exchanging /\ (Quiet \/ DeviceReplies \/ Completes)
    <3>1. dev' = dev /\ Sent' = Sent
      BY <2>1, <2>4 DEF Quiet, DeviceReplies, Completes, device, Sent
    <3>2. CASE Quiet
      BY <1>1, <2>1, <2>4, <3>1, <3>2, PendingShrinks, SaveGoesOn DEF Quiet
    <3>3. CASE DeviceReplies
      <4>1. Incoming' = Incoming
        BY <2>1, <3>3 DEF DeviceReplies, Incoming
      <4> QED BY <1>1, <2>1, <2>4, <3>1, <3>3, <4>1, PendingShrinks, SaveGoesOn
    <3>4. CASE Completes
      <4>1. UNCHANGED <<owed, call, ret>> /\ call.op # "none" /\ call.op # "handshake"
        BY <2>4, <3>4
        DEF Completes, device, Owned, TransferInv, CallInv, Waiting, Serving, MethodOf, Exchanging
      <4>2. call.op = "ack" => call.dir = "read"
        BY DEF CallInv
      <4>3. CASE rx' = rx /\ Incoming' = Incoming
        BY <1>1, <2>1, <2>4, <3>1, <4>1, <4>3, PendingShrinks, SaveGoesOn
      <4>4. CASE rx # << >> /\ rx' = Tail(rx) /\ Incoming' = Head(rx)
        BY <1>1, <2>1, <2>4, <3>1, <4>1, <4>4, PendingShrinks, SaveGoesOn
      <4>5. call.op # "ack" => call.op = "write" /\ call.dir = "write"
        BY <1>1, <4>1 DEF CallInv, Calls
      <4> QED BY <2>1, <3>4, <4>1, <4>2, <4>3, <4>4, <4>5 DEF Completes, TransferGoes, Incoming
    <3> QED BY <2>4, <3>2, <3>3, <3>4
  <2> QED BY <1>3, <1>6, <2>1, <2>2, <2>3, <2>4, RepliesStep
<1>7. CASE LaneStep
  <2>1. ASSUME lane.pc \in Exchanging, lane'.pc \in Exchanging, lane'.use = lane.use,
               lane'.r = lane.r, lane'.frame = lane.frame,
               UNCHANGED <<owed, rx, taken, clean, dev>>, lane'.pc # "exchange",
               Incoming'.byte = "none"
        PROVE  SaveInv'
    BY <1>1, <2>1, PendingShrinks, SaveGoesOn DEF Sent
  <2>2. ASSUME NEW res, res # "ok", Outcomes(res), lane.pc \in Exchanging,
               UNCHANGED <<call, rx, owed, clean, dev>>, call.op = "none"
        PROVE  SaveInv'
    <3>1. CASE lane'.pc \notin Exchanging \union {"finish"} \/ ~clean \/ lane.r \notin Saves
      BY <2>2, <3>1
      DEF SaveInv, Outcomes, RequestEnds, RequestCleansUp, RequestSends, LaneAt
    <3>2. CASE lane'.pc = "exchange" /\ lane.r \in Saves /\ clean
      <4>1. Incoming' = NoByte /\ SaveUnderWay
        BY <2>2, <3>2 DEF Incoming, SaveInv
      <4>2. Pending("ready")' => Pending("ready")
        BY <1>1, <1>2, <2>2, <4>1, PendingShrinks
      <4>3. lane.use = "main" => ~Pending("ready")
        BY <2>2, <3>2, PendingBounds
      <4>4. lane'.use # "main" /\ (lane'.use = "retry" => lane'.frame.chunk = lane.frame.chunk
                                                          /\ lane.use = "main")
        BY <2>2, <3>2 DEF Outcomes, RequestEnds, RequestCleansUp, RequestSends, LaneAt
      <4>5. lane'.use \in {"retry", "cleanup"} /\ lane'.pc = "exchange"
        BY <2>2, <3>2 DEF Outcomes, RequestEnds, RequestCleansUp, RequestSends, LaneAt
      <4> QED BY <2>2, <4>1, <4>2, <4>3, <4>4, <4>5 DEF SaveInv, SaveUnderWay
    <3> QED BY <2>2, <3>1, <3>2
            DEF Outcomes, RequestEnds, RequestCleansUp, RequestSends, LaneAt, Exchanging
  <2>3. lane.pc \notin Serving \/ ret.k # "none" => call.op = "none"
    BY DEF CallInv
  <2>4. \A error \in Errors : error # "ok"
    BY DEF Errors
  <2>5. CASE Top \/ ReceiveClose
    BY <1>1, <1>3, <2>5, PassesEffect DEF Passes, LaneAt, Exchanging
  <2>6. ASSUME NEW r \in Requests, ReceiveRequest(r) PROVE SaveInv'
    <3>1. CASE RequestDropped(r)
      BY <1>3, <3>1 DEF RequestDropped, LaneAt, Exchanging
    <3>2. CASE RequestBegins(r) /\ r \in Saves /\ clean'
      <4>1. Incoming' = NoByte /\ rx' = << >> /\ owed' = << >>
        BY <1>1, <2>3, <2>6, <3>2, ReceiveRequestEffect
        DEF RequestBegins, LaneAt, Incoming, Serving, ReceiveRequest
      <4>2. ~Pending("ack")'
        BY <1>2, <4>1 DEF Pending
      <4> QED BY <1>2, <3>2, <4>2 DEF RequestBegins, SaveInv, SaveUnderWay, LaneAt, Exchanging
    <3>3. CASE RequestBegins(r) /\ ~(r \in Saves /\ clean')
      BY <3>3 DEF RequestBegins, LaneAt, SaveInv
    <3> QED BY <1>1, <2>6, <3>1, <3>2, <3>3, ReceiveRequestEffect
  <2>7. CASE Attempt
    BY <1>1, <1>3, <2>7, AttemptEffect, RestFields
    DEF ShakeBegins, AbandonsConnect, LaneAt, Exchanging
  <2>8. CASE Shaken
    BY <1>1, <1>3, <2>8, ShakenEffect, RestFields
    DEF Connected, AbandonsConnect, TriesAgain, LaneAt, Exchanging
  <2>9. CASE BeginExchange
    <3>1. CASE ExchangeStops
      BY <1>1, <2>2, <2>3, <2>9, <3>1, BeginExchangeEffect
      DEF ExchangeStops, Exchanging, Serving, history, BeginExchange
    <3>2. CASE ExchangeBegins
      <4>1. /\ Incoming' = NoByte /\ ~Sent /\ clean' = clean /\ dev' = dev
            /\ lane.pc = "exchange" /\ lane'.pc = "writing" /\ lane'.use = lane.use
            /\ lane'.frame = lane.frame /\ lane'.r = lane.r
        BY <1>1, <2>9, <3>2, BeginExchangeEffect
        DEF ExchangeBegins, PayloadBegins, CallBegins, Incoming, LaneAt, Sent, BeginExchange,
            history
      <4>2. owed' = Stale(owed) /\ rx' = Stale(rx)
        BY <3>2 DEF ExchangeBegins
      <4>3. ASSUME NEW s \in Seq(Replies)
            PROVE  \A i \in DOMAIN Stale(s) : i \in DOMAIN s /\ Stale(s)[i].byte = s[i].byte
        <5>1. Stale(s) \in Seq(Replies) /\ Len(Stale(s)) = Len(s)
              /\ \A i \in 1..Len(s) : Stale(s)[i].byte = s[i].byte
          BY StaleFields
        <5>2. DOMAIN Stale(s) = 1..Len(s) /\ DOMAIN s = 1..Len(s)
          BY <5>1
        <5> QED BY <5>1, <5>2
      <4>4. (Pending("ack")' => Pending("ack")) /\ (Pending("ready")' => Pending("ready"))
        BY <1>1, <1>2, <4>1, <4>2, <4>3 DEF Pending
      <4> QED BY <4>1, <4>4, SaveGoesOn DEF Exchanging
    <3> QED BY <1>1, <2>9, <3>1, <3>2, BeginExchangeEffect
  <2>10. CASE WriteReturns
    <3>1. /\ lane.pc = "writing" /\ UNCHANGED <<rx, owed, clean, taken, dev>> /\ ret'.k = "none"
          /\ call.op = "none"
      BY <1>1, <2>3, <2>10, WriteReturnsEffect, NoResultFields
      DEF device, history, WriteReturns, Returned
    <3>2. CASE PayloadGoesOn
      <4>1. Incoming' = NoByte
        BY <3>1, <3>2 DEF PayloadGoesOn, CallBegins, Incoming
      <4> QED BY <1>2, <2>1, <3>1, <3>2, <4>1 DEF PayloadGoesOn, Exchanging
    <3>3. CASE PayloadWritten("written")
      <4>1. Incoming' = NoByte
        BY <3>1, <3>3 DEF PayloadWritten, Incoming, LaneAt
      <4> QED BY <1>2, <2>1, <3>1, <3>3, <4>1 DEF PayloadWritten, Exchanging, LaneAt
    <3>4. ASSUME NEW error \in Errors, PayloadFails /\ Outcomes(error) PROVE SaveInv'
      BY <2>2, <2>4, <3>1, <3>4 DEF PayloadFails, Exchanging
    <3> QED BY <1>1, <2>10, <3>2, <3>3, <3>4, WriteReturnsEffect
  <2>11. CASE BeginWait
    <3>1. /\ lane.pc = "written" /\ UNCHANGED <<rx, owed, clean, taken, irp, dev>>
          /\ call.op = "none" /\ irp.byte.byte = "none"
      BY <1>1, <2>3, <2>11, BeginWaitEffect
      DEF device, history, Serving, ByteInv, TransferInv, CallInv, Waiting
    <3>2. CASE WaitBegins
      <4>1. Incoming'.byte = "none"
        BY <3>1, <3>2 DEF WaitBegins, CallBegins, Incoming
      <4> QED BY <2>1, <3>1, <3>2, <4>1 DEF WaitBegins, Exchanging, LaneAt
    <3>3. CASE Outcomes("cancelled") /\ call' = call
      BY <2>2, <3>1, <3>3 DEF Exchanging
    <3> QED BY <1>1, <2>11, <3>2, <3>3, BeginWaitEffect
  <2>12. CASE ReplyReturns
    <3>1. /\ lane.pc = "waiting" /\ UNCHANGED <<rx, owed, clean, taken, call, dev, stream>>
          /\ ret'.k = "none" /\ call.op = "none" /\ ret.k # "none"
      BY <1>1, <2>3, <2>12, ReplyReturnsEffect, NoResultFields DEF device
    <3>2. CASE Unacknowledged
      BY <2>2, <2>4, <3>1, <3>2 DEF Unacknowledged, Exchanging
    <3>3. CASE Acknowledged
      <4>1. Incoming = ret.byte /\ ret.byte.byte = Expected /\ Outcomes("ok")
        BY <3>1, <3>3 DEF Acknowledged, Incoming, Expected
      <4>2. CASE lane'.pc \notin Exchanging \union {"finish"} \/ ~clean \/ lane.r \notin Saves
        BY <3>1, <4>1, <4>2
        DEF SaveInv, Outcomes, RequestEnds, RequestCleansUp, RequestSends, LaneAt
      <4>3. CASE lane.r \in Saves /\ clean
        <5>1. SaveUnderWay /\ Pending(Expected)
          BY <3>1, <4>1, <4>3 DEF SaveInv, Exchanging, Pending
        <5>2. CASE lane.use = "cleanup"
          <6>1. lane'.pc = "finish" /\ lane'.result # "ok" /\ lane'.r = lane.r
            BY <3>1, <4>1, <5>2
            DEF Outcomes, LaneAt, PlaceInv, Exchanging
          <6>2. dev.header = 0
            BY <3>1, <5>1, <5>2 DEF SaveUnderWay, Expected, PlaceInv, Exchanging
          <6> QED BY <3>1, <6>1, <6>2 DEF SaveInv, SaveOver, Exchanging
        <5>3. CASE lane.use # "cleanup" /\ lane'.pc = "exchange"
          <6>1. Empty /\ Incoming' = NoByte
            BY <2>12, <3>1, <3>3, <4>3, <5>3, AcknowledgedAlone DEF Incoming
          <6>2. ~Pending("ack")' /\ ~Pending("ready")' /\ ~Sent'
            BY <1>2, <3>1, <5>3, <6>1 DEF Pending, Empty, Sent
          <6>3. lane.frame.chunk \in 1..Chunks /\ 1..(lane.frame.chunk - 1) \subseteq dev.stored
            BY <5>1, <5>3 DEF SaveUnderWay
          <6>4. CASE lane.use = "retry" /\ RequestSends("main", "header", lane.frame.chunk)
            BY <3>1, <6>2, <6>3, <6>4 DEF RequestSends, SaveInv, SaveUnderWay, LaneAt
          <6>5. CASE /\ lane.use = "main" /\ lane.frame.kind = "header"
                     /\ RequestSends("main", "chunk", lane.frame.chunk)
            <7>1. dev.header = lane.frame.chunk
              BY <5>1, <6>5 DEF SaveUnderWay, Expected
            <7> QED BY <3>1, <6>2, <6>3, <6>5, <7>1 DEF RequestSends, SaveInv, SaveUnderWay, LaneAt
          <6>6. CASE /\ lane.use = "main" /\ lane.frame.kind = "chunk" /\ lane.frame.chunk < Chunks
                     /\ RequestSends("main", "header", lane.frame.chunk + 1)
            <7>1. lane.frame.chunk \in dev.stored
              BY <5>1, <6>6 DEF SaveUnderWay, Expected
            <7>2. 1..((lane.frame.chunk + 1) - 1) \subseteq dev.stored
                  /\ lane.frame.chunk + 1 \in 1..Chunks
              BY <1>2, <6>3, <6>6, <7>1
            <7> QED BY <3>1, <6>2, <6>6, <7>2 DEF RequestSends, SaveInv, SaveUnderWay, LaneAt
          <6>7. lane.use = "main" => lane.frame.kind \in {"header", "chunk"}
            BY <3>1, <4>3 DEF PlaceInv, Exchanging
          <6> QED BY <4>1, <4>3, <5>3, <6>4, <6>5, <6>6, <6>7
                  DEF Outcomes, RequestEnds, LaneAt
        <5>4. CASE lane.use # "cleanup" /\ lane'.pc = "finish"
          <6>1. /\ lane.use = "main" /\ lane.frame.kind # "header" /\ ~(lane.frame.chunk < Chunks)
                /\ RequestEnds("ok")
            BY <4>1, <4>3, <5>4 DEF Outcomes, RequestSends, LaneAt
          <6>2. lane.frame.kind = "chunk"
            BY <3>1, <4>3, <6>1 DEF PlaceInv, Exchanging
          <6>3. /\ lane.frame.chunk \in dev.stored /\ dev.header = 0
                /\ lane.frame.chunk \in 1..Chunks
                /\ 1..(lane.frame.chunk - 1) \subseteq dev.stored
            BY <5>1, <6>1, <6>2 DEF SaveUnderWay, Expected
          <6>4. dev.stored = 1..Chunks
            <7>1. lane.frame.chunk = Chunks
              BY <1>2, <6>1, <6>3
            <7>2. \A i \in 1..Chunks : i \in 1..(Chunks - 1) \/ i = Chunks
              BY <1>2
            <7>3. dev.stored \subseteq 1..Chunks
              BY <1>1 DEF Devices
            <7> QED BY <6>3, <7>1, <7>2, <7>3
          <6> QED BY <3>1, <6>1, <6>3, <6>4 DEF RequestEnds, SaveInv, SaveOver, LaneAt, Exchanging
        <5> QED BY <4>1, <4>2, <5>2, <5>3, <5>4
                DEF Outcomes, RequestEnds, RequestCleansUp, RequestSends, LaneAt
      <4> QED BY <4>2, <4>3
    <3> QED BY <1>1, <2>12, <3>2, <3>3, ReplyReturnsEffect
  <2>13. CASE CleanupFailed \/ LoseStream \/ Finish \/ CloseEnds
    <3>1. ASSUME lane.pc \in {"cleanupFailed", "disconnect"}, lane'.pc = "finish",
                 lane'.result = lane.result, ResourceCancelled' \/ ~port'
          PROVE  SaveInv'
      <4>1. lane'.result # "ok"
        BY <3>1 DEF PlaceInv
      <4> QED BY <3>1, <4>1 DEF SaveInv, SaveOver, Exchanging
    <3>2. ResourceCancelled /\ closer' = closer => ResourceCancelled'
      BY DEF ResourceCancelled
    <3> QED BY <1>1, <1>3, <2>13, <3>1, <3>2, LeavesEffect, RestFields
            DEF Leaves, LaneAt, Exchanging, CloseStream, clients
  <2>14. CASE CloseBegins
    BY <1>1, <1>3, <2>14, CloseBeginsEffect DEF NeutralBegins, NothingToClose, LaneAt, Exchanging
  <2>15. CASE NeutralReturns
    BY <1>1, <1>3, <2>15, NeutralReturnsEffect
    DEF PayloadGoesOn, PayloadWritten, LaneAt, Exchanging
  <2>16. CASE Unwind
    BY <1>1, <1>3, <2>16, UnwindEffect DEF Unwinds, LaneAt, Exchanging
  <2> QED BY <1>7, <2>5, <2>6, <2>7, <2>8, <2>9, <2>10, <2>11, <2>12, <2>13, <2>14, <2>15, <2>16
          DEF LaneStep
<1> QED BY <1>5, <1>6, <1>7, StepCases
-----------------------------------------------------------------------------
(* The invariant                                                            *)

StreamInv == CallInv /\ TransferInv /\ AccountInv /\ DeviceInv
Inv == TypeOK /\ StreamInv /\ RequestInv /\ ReplyInv /\ SaveInv

LEMMA InvInit == ASSUME Init PROVE Inv
<1> USE DEF Init, SerialInit
<1>1. FrameLen \in Nat \ {0} /\ MaxFaults \in Nat /\ MaxCancels \in Nat /\ Chunks \in Nat \ {0}
  BY StreamAssumption, RequestAssumption DEF StreamAssumption, RequestAssumption
<1>2. dev \in Devices /\ dev.got = 0 /\ dev.garbled = FALSE
  BY <1>1 DEF Devices
<1>3. /\ lane \in Lanes /\ lane.pc = "top" /\ lane.r = NoRequest /\ call \in Calls
      /\ call.op = "none" /\ call.at = "idle" /\ call.dir = "write" /\ call.sent = 0
      /\ irp \in Transfers /\ irp.st = "none" /\ irp.n = 0 /\ irp.byte.byte = "none"
      /\ ret \in Results /\ ret.k = "none"
  BY RestFields, IdleFields, NoTransferFields, NoResultFields, NoByteFields
<1>4. TypeOK
  <2>1. CallType /\ LaneType
    BY <1>3 DEF CallType, LaneType
  <2>2. StreamType
    <3>1. << >> \in Seq(Replies)
      OBVIOUS
    <3>2. 0 \in 0..FrameLen /\ 0 \in 0..MaxFaults
      BY <1>1
    <3> QED BY <1>2, <3>1, <3>2 DEF StreamType
  <2>3. ClientType
    BY <1>1 DEF ClientType
  <2> QED BY <2>1, <2>2, <2>3 DEF TypeOK
<1>5. StreamInv
  <2>1. CallInv
    BY <1>1, <1>3 DEF CallInv, Serving
  <2>2. TransferInv
    BY <1>1, <1>3 DEF TransferInv, Waiting
  <2>3. AccountInv
    BY <1>1, <1>3 DEF AccountInv, Writing
  <2>4. DeviceInv
    BY <1>2, <1>3 DEF DeviceInv
  <2> QED BY <2>1, <2>2, <2>3, <2>4 DEF StreamInv
<1>6. RequestInv
  <2>1. SentInv
    BY <1>3, RequestsHaveOneKind DEF SentInv, RequestsHaveOneKind
  <2>2. PlaceInv
    BY <1>3 DEF PlaceInv, Exchanging
  <2> QED BY <2>1, <2>2 DEF RequestInv
<1>7. ReplyInv /\ SaveInv
  BY <1>3 DEF ReplyInv, ByteInv, ExpectInv, SaveInv, Exchanging
<1> QED BY <1>4, <1>5, <1>6, <1>7 DEF Inv

LEMMA InvStep == ASSUME Inv, [Next]_vars PROVE Inv'
<1>1. CASE Next
  <2> USE <1>1 DEF Inv, StreamInv, RequestInv, ReplyInv
  <2>1. CallInv' /\ TransferInv' /\ AccountInv' /\ DeviceInv'
    BY CallInvNext, TransferInvNext, AccountInvNext, DeviceInvNext
  <2>2. SentInv' /\ PlaceInv'
    BY SentInvNext, PlaceInvNext
  <2>3. TypeOK'
    <3>1. CallType'
      BY CallTypeNext
    <3>2. StreamType'
      BY <2>1, <3>1, StreamTypeNext
    <3>3. ClientType' /\ LaneType'
      BY ClientTypeNext, LaneTypeNext
    <3> QED BY <3>1, <3>2, <3>3 DEF TypeOK
  <2>4. ByteInv' /\ ExpectInv' /\ fooled' # "clean" /\ SaveInv'
    BY ByteInvNext, ExpectInvNext, NeverFooled, SaveInvNext
  <2> QED BY <2>1, <2>2, <2>3, <2>4
<1>2. CASE UNCHANGED vars
  <2> USE <1>2 DEF vars, serialVars, stream, device, clients, history
  <2>1. TypeOK'
    BY DEF Inv, TypeOK, CallType, StreamType, ClientType, LaneType
  <2>2. StreamInv'
    BY DEF Inv, StreamInv, CallInv, TransferInv, AccountInv, DeviceInv, Position, Writing
  <2>3. RequestInv'
    BY DEF Inv, RequestInv, SentInv, PlaceInv
  <2>4. ReplyInv'
    BY DEF Inv, ReplyInv, ByteInv, ExpectInv, MainReplies, RetryReplies, UnderWay, Empty, Sent,
           Incoming
  <2>5. SaveInv'
    BY DEF Inv, SaveInv, SaveUnderWay, SaveOver, Pending, Sent, Incoming, ResourceCancelled
  <2> QED BY <2>1, <2>2, <2>3, <2>4, <2>5 DEF Inv
<1> QED BY <1>1, <1>2

(* In every behaviour the lane, the call it makes, the transfer of that      *)
(* call, the device and the requests fit together: one method at a time, a   *)
(* transfer only while its call waits for it, every byte of a payload        *)
(* counted once, and the replies and the save of the request under way.      *)
THEOREM Invariance == Spec => []Inv
<1>1. Init => Inv
  BY InvInit
<1>2. Inv /\ [Next]_vars => Inv'
  BY InvStep
<1> QED BY <1>1, <1>2, PTL DEF Spec

(* Every variable of the serial stream and of the lane keeps its type.       *)
THEOREM TypeCorrect == Spec => []TypeOK
<1>1. Inv => TypeOK
  BY DEF Inv
<1> QED BY <1>1, Invariance, PTL

(* WindowsByteIo::transfer lends the caller's buffer to the driver: as long  *)
(* as the driver owns a transfer, the method that started it has not         *)
(* returned, neither by a cancellation or a timeout nor by a panic.          *)
THEOREM BuffersOutliveTransfers == Spec => []NoOrphanTransfer
<1>1. Inv => NoOrphanTransfer
  <2> SUFFICES ASSUME Inv, Owned PROVE NoOrphanTransfer
    BY DEF NoOrphanTransfer
  <2>1. call.at \in Waiting
    BY DEF Inv, StreamInv, TransferInv, Owned
  <2>2. lane.pc \in Serving
    BY <2>1 DEF Inv, StreamInv, CallInv, Waiting
  <2> QED BY <2>1, <2>2 DEF NoOrphanTransfer, Waiting, Serving
<1> QED BY <1>1, Invariance, PTL

(* A payload settled as fully accepted was taken to its last byte. While no  *)
(* aborted write has left bytes with the device, which                       *)
(* settle_cancelled_completion never looks for, one settled as not delivered *)
(* on a stream that stays open was not taken at all, and the device never    *)
(* gets the start of a payload in the middle of another; the next hello      *)
(* makes this hold again.                                                    *)
THEOREM SettlementsAreTrue == Spec => []SettlementIsTruthful
<1>1. Inv => SettlementIsTruthful
  BY DEF Inv, StreamInv, AccountInv, DeviceInv, SettlementIsTruthful
<1> QED BY <1>1, Invariance, PTL

(* A request that began when nothing was owed is never completed by the      *)
(* reply to an earlier exchange, whatever timed out, was retried or reset    *)
(* in between.                                                               *)
THEOREM RepliesAreOwn == Spec => []OwnReplies
<1>1. Inv => OwnReplies
  BY DEF Inv, ReplyInv, OwnReplies
<1> QED BY <1>1, Invariance, PTL

(* A save that begins so and succeeds has every chunk stored, and whichever  *)
(* way it ends, the device has no save under way unless its stream is        *)
(* closed: handle_amiibo_save resets the device or loses the stream.         *)
THEOREM SavesAreWhole == Spec => NoHalfSave
<1> DEFINE Ends(r) == lane.r = r /\ clean /\ ~IsTerminal(r) /\ IsTerminal(r)'
           Whole(r) == /\ op'[r] = "succeeded" => dev'.stored = 1..Chunks
                       /\ dev'.header = 0 \/ ~port'
<1>1. ASSUME Inv, Next, NEW r \in Saves, Ends(r) PROVE Whole(r)
  <2>1. /\ r \in Requests /\ r \notin Connects /\ r # NoRequest /\ sub[r] = "sent" /\ SaveInv
        /\ op \in [Requests -> {"absent", "created", "running", "cancelling", "succeeded",
                                "failed", "cancelled"}]
        /\ PlaceInv /\ op'[r] # op[r]
    BY <1>1, RequestsHaveOneKind
    DEF RequestsHaveOneKind, Requests, Inv, RequestInv, SentInv, TypeOK, ClientType, IsTerminal
  <2>2. CASE Finish
    <3>1. SaveOver /\ UNCHANGED <<dev, port>>
      BY <1>1, <2>1, <2>2 DEF Finish, SaveInv, serialVars, stream, device
    <3>2. lane.result # "ok" => ~ResourceCancelled
      BY <1>1, <2>1, <2>2 DEF Finish, Settle, IsTerminal
    <3>3. op'[r] = "succeeded" => lane.result = "ok"
      BY <1>1, <2>1, <2>2 DEF Finish, Settle, FailedOrCancelled
    <3> QED BY <3>1, <3>2, <3>3 DEF SaveOver
  <2>3. CASE ReceiveClose \/ CloseBegins \/ CloseEnds
             \/ (\E other \in Requests : ReceiveRequest(other))
    BY <1>1, <2>1, <2>3 DEF PlaceInv, ReceiveClose, CloseBegins, CloseEnds, ReceiveRequest
  <2>4. CASE Attempt \/ Shaken
    BY <1>1, <2>1, <2>4 DEF PlaceInv, Attempt, Shaken
  <2>5. CASE \E other \in Requests : Admit(other) \/ Send(other) \/ Cancel(other)
    BY <1>1, <2>1, <2>5 DEF Admit, Send, Cancel, IsTerminal
  <2>6. CASE UNCHANGED op
    BY <2>1, <2>6
  <2> QED BY <1>1, <2>2, <2>3, <2>4, <2>5, <2>6
          DEF Next, Progress, Lane, Requesting, Stream, StreamFaults, Seal, CancelResource, Join,
              Top, BeginExchange, WriteReturns, BeginWait, ReplyReturns, CleanupFailed, LoseStream,
              NeutralReturns, Unwind, clients
<1>2. ASSUME Inv, UNCHANGED vars, NEW r \in Saves PROVE ~Ends(r)
  BY <1>2 DEF vars, clients, IsTerminal
<1>3. Inv /\ [Next]_vars => [\A r \in Saves : Ends(r) => Whole(r)]_vars
  BY <1>1, <1>2
<1> QED BY <1>3, Invariance, PTL DEF NoHalfSave, Spec

-----------------------------------------------------------------------------
(* Who waits for whom                                                       *)

(* The lane closes only after the resource was cancelled, which ends the     *)
(* admission of requests: the channel is empty for good from then on. The    *)
(* loop over the baud rates has an end.                                      *)
EndInv ==
  /\ lane.pc \in {"close", "neutral", "closing", "ended"} => ResourceCancelled
  /\ lane.pc \in {"neutral", "closing", "ended"} => inbox = << >>
  /\ closer = "done" => lane.pc \in {"ended", "panicked"}
  /\ deferred # {} => ResourceCancelled /\ lane.pc # "ended"
  /\ lane.pc = "shaking" => lane.tries < Bauds
  /\ lane.pc = "attempt" => lane.tries <= Bauds

(* Somebody has each request that was admitted and is not over: the thread   *)
(* that submits it, the channel, the lane, or close, which cancelled what it *)
(* took over.                                                                *)
Taken == lane.held \union deferred
KeptInv ==
  /\ lane.held # {} => lane.pc \in {"neutral", "closing", "panicked"}
  /\ \A r \in Taken : sub[r] = "sent" /\ (op[r] = "cancelling" \/ IsTerminal(r))
  /\ \A r \in Requests :
       \/ op[r] = "absent" \/ IsTerminal(r) \/ sub[r] = "created"
       \/ r \in ToSet(inbox) \/ r \in Taken \/ lane.r = r

WaitInv == EndInv /\ KeptInv

(* Whatever a request makes of an exchange, it stays the request served, and *)
(* close holds what it held.                                                 *)
LEMMA OutcomeKeeps ==
  ASSUME lane \in Lanes, NEW res \in Errors \union {"ok"}, Outcome(res)
  PROVE  /\ lane'.pc \in {"exchange", "finish", "cleanupFailed", "disconnect"}
         /\ lane'.r = lane.r /\ lane'.held = lane.held
<1>1. {"pc", "r", "held"} \subseteq DOMAIN lane
  BY DEF Lanes
<1>2. \A kind : /\ Frame(kind).pc = "exchange" /\ Frame(kind).r = lane.r
                /\ Frame(kind).held = lane.held /\ DOMAIN Frame(kind) = DOMAIN lane
  BY DEF Frame, Lanes
<1>3. \A x : /\ Ended(x).pc \in {"finish", "disconnect"} /\ Ended(x).r = lane.r
             /\ Ended(x).held = lane.held
             /\ Cleanup(x).pc = "exchange" /\ Cleanup(x).r = lane.r /\ Cleanup(x).held = lane.held
  BY DEF Ended, Cleanup, Lanes
<1>4. /\ NextChunk.pc \in {"exchange", "finish", "disconnect"} /\ NextChunk.r = lane.r
      /\ NextChunk.held = lane.held
      /\ Retry.pc = "exchange" /\ Retry.r = lane.r /\ Retry.held = lane.held
  <2>1. PICK l : l = Frame("header")
    OBVIOUS
  <2>2. l.pc = "exchange" /\ l.r = lane.r /\ l.held = lane.held
        /\ {"pc", "r", "held"} \subseteq DOMAIN l
    BY <1>1, <1>2, <2>1
  <2>3. PICK chunk : chunk = [l EXCEPT !.frame.chunk = @ + 1, !.tries = 0]
    OBVIOUS
  <2>4. chunk.pc = l.pc /\ chunk.r = l.r /\ chunk.held = l.held
    BY <2>2, <2>3
  <2>5. NextChunk.pc \in {"exchange", "finish", "disconnect"} /\ NextChunk.r = lane.r
        /\ NextChunk.held = lane.held
    <3>1. NextChunk = chunk \/ NextChunk = Ended("ok")
      BY <2>1, <2>3 DEF NextChunk
    <3>2. CASE NextChunk = chunk
      BY <2>2, <2>4, <3>2
    <3>3. CASE NextChunk = Ended("ok")
      BY <1>3, <3>3
    <3> QED BY <3>1, <3>2, <3>3
  <2>6. PICK q : q = Frame("reset")
    OBVIOUS
  <2>7. {"pc", "r", "held"} \subseteq DOMAIN q
    BY <1>1, <1>2, <2>6
  <2>8. Retry = [q EXCEPT !.tries = @ + 1, !.use = "retry"]
    BY <2>6 DEF Retry
  <2>9. Retry.pc = q.pc /\ Retry.r = q.r /\ Retry.held = q.held
    BY <2>7, <2>8
  <2> QED BY <1>2, <2>5, <2>6, <2>9
<1>5. CASE lane' = [lane EXCEPT !.pc = IF res = "ok" THEN "finish" ELSE "cleanupFailed"]
  BY <1>5 DEF Lanes
<1>6. CASE lane' = SaveFailure(res)
  BY <1>3, <1>6 DEF SaveFailure
<1>7. CASE lane' = SaveStep(res)
  BY <1>2, <1>3, <1>4, <1>7 DEF SaveStep, SaveFailure
<1>8. lane.use \in {"main", "retry", "cleanup"}
  BY DEF Lanes
<1> QED BY <1>2, <1>3, <1>5, <1>6, <1>7, <1>8 DEF Outcome, AfterExchange

(* A place of the lane is all that Goto changes. *)
LEMMA GotoKeeps ==
  ASSUME lane \in Lanes, NEW pc, Goto(pc)
  PROVE  /\ lane'.pc = pc /\ lane'.r = lane.r /\ lane'.held = lane.held
         /\ lane'.tries = lane.tries
  BY DEF Goto, Lanes

LEMMA RestKeeps == AtRest.held = {} /\ AtRest.tries = 0 /\ AtRest.pc = "top" /\ AtRest.r = NoRequest
  BY DEF AtRest

(* The steps that neither begin nor end a request, nor close the lane. *)
Between == {"top", "receive", "exchange", "writing", "written", "waiting", "cleanupFailed",
            "disconnect", "finish"}
Keeps ==
  /\ UNCHANGED <<op, sub, inbox, closer, deferred>> /\ lane'.r = lane.r /\ lane'.held = lane.held
  /\ \/ lane.pc \in Between /\ (lane'.pc \in Between \/ (lane'.pc = "close" /\ ResourceCancelled))
     \/ lane.pc = "neutral" /\ lane'.pc \in {"neutral", "closing"}
     \/ lane'.pc = "panicked"

LEMMA LaneKeeps ==
  ASSUME lane \in Lanes, ret \in Results,
         \/ Top \/ ReceiveClose \/ BeginExchange \/ WriteReturns \/ BeginWait \/ ReplyReturns
         \/ CleanupFailed \/ LoseStream \/ NeutralReturns \/ Unwind
  PROVE  Keeps
<1> USE DEF Keeps, Between, clients
<1>1. ASSUME NEW pc, Goto(pc)
      PROVE  lane'.pc = pc /\ lane'.r = lane.r /\ lane'.held = lane.held
  BY <1>1, GotoKeeps
<1>2. ASSUME NEW res \in Errors \union {"ok"}, Outcome(res)
      PROVE  /\ lane'.pc \in {"exchange", "finish", "cleanupFailed", "disconnect"}
             /\ lane'.r = lane.r /\ lane'.held = lane.held
  BY <1>2, OutcomeKeeps
<1>3. ret.err \in Errors \union {"ok"} /\ {"cancelled", "protocol"} \subseteq Errors
  BY DEF Results, Errors
<1>4. CASE Top \/ ReceiveClose
  BY <1>1, <1>4 DEF Top, ReceiveClose, ResourceCancelled
<1>5. CASE BeginExchange
  BY <1>1, <1>2, <1>3, <1>5 DEF BeginExchange
<1>6. CASE WriteReturns
  BY <1>1, <1>2, <1>3, <1>6 DEF WriteReturns
<1>7. CASE BeginWait
  BY <1>1, <1>2, <1>3, <1>7 DEF BeginWait
<1>8. CASE ReplyReturns
  BY <1>2, <1>3, <1>8 DEF ReplyReturns
<1>9. CASE CleanupFailed \/ LoseStream
  BY <1>1, <1>9 DEF CleanupFailed, LoseStream
<1>10. CASE NeutralReturns
  BY <1>1, <1>10 DEF NeutralReturns
<1>11. CASE Unwind
  BY <1>1, <1>11 DEF Unwind
<1> QED BY <1>4, <1>5, <1>6, <1>7, <1>8, <1>9, <1>10, <1>11

(* The request the lane serves is the one it took, and close takes over what *)
(* is in the channel.                                                        *)
LEMMA BeginsAndCloses ==
  ASSUME lane \in Lanes
  PROVE  /\ \A r \in Requests : ReceiveRequest(r) =>
              /\ lane'.pc \in {"top", "attempt", "exchange"}
              /\ lane'.pc = "attempt" => lane'.tries = 0
              /\ \/ lane'.r = lane.r /\ lane'.held = lane.held
                    /\ \E state \in {"cancelled", "failed"} : op' = [op EXCEPT ![r] = state]
                 \/ lane'.r = r /\ lane'.held = {} /\ ~Token(r)
                    /\ op' = [op EXCEPT ![r] = "running"]
         /\ CloseBegins =>
              /\ lane'.pc \in {"neutral", "closing"} /\ lane'.r = NoRequest
              /\ lane'.held = ToSet(inbox)
         /\ Shaken =>
              \/ lane' = AtRest /\ \E state \in {"cancelled", "succeeded"} :
                                      op' = [op EXCEPT ![lane.r] = state]
              \/ lane'.pc = "attempt" /\ lane'.tries = lane.tries + 1 /\ lane'.r = lane.r
                 /\ lane'.held = lane.held /\ op' = op
<1>1. ASSUME NEW r \in Requests, ReceiveRequest(r)
      PROVE  /\ lane'.pc \in {"top", "attempt", "exchange"}
             /\ lane'.pc = "attempt" => lane'.tries = 0
             /\ \/ lane'.r = lane.r /\ lane'.held = lane.held
                   /\ \E state \in {"cancelled", "failed"} : op' = [op EXCEPT ![r] = state]
                \/ lane'.r = r /\ lane'.held = {} /\ ~Token(r)
                   /\ op' = [op EXCEPT ![r] = "running"]
  <2>1. CASE Goto("top") /\ (Settle(r, "cancelled") \/ Settle(r, "failed"))
    <3>1. lane'.pc = "top" /\ lane'.r = lane.r /\ lane'.held = lane.held
      BY <2>1, GotoKeeps
    <3> QED BY <2>1, <3>1 DEF Settle
  <2>2. CASE /\ ~Token(r) /\ Settle(r, "running")
             /\ lane' = [AtRest EXCEPT !.r = r,
                  !.pc = IF r \in Connects THEN "attempt" ELSE "exchange",
                  !.frame = IF r \in Saves THEN [kind |-> "header", chunk |-> 1]
                            ELSE [kind |-> "plain", chunk |-> 0]]
    <3>1. lane'.pc \in {"attempt", "exchange"} /\ lane'.r = r /\ lane'.held = {}
          /\ lane'.tries = 0
      BY <2>2 DEF AtRest
    <3> QED BY <2>2, <3>1 DEF Settle
  <2> QED BY <1>1, <2>1, <2>2 DEF ReceiveRequest
<1>2. ASSUME CloseBegins
      PROVE  /\ lane'.pc \in {"neutral", "closing"} /\ lane'.r = NoRequest
             /\ lane'.held = ToSet(inbox)
  BY <1>2 DEF CloseBegins, AtRest
<1>3. ASSUME Shaken
      PROVE  \/ lane' = AtRest /\ \E state \in {"cancelled", "succeeded"} :
                                     op' = [op EXCEPT ![lane.r] = state]
             \/ lane'.pc = "attempt" /\ lane'.tries = lane.tries + 1 /\ lane'.r = lane.r
                /\ lane'.held = lane.held /\ op' = op
  <2>1. CASE Settle(lane.r, "succeeded") /\ lane' = AtRest
    BY <2>1 DEF Settle
  <2>2. CASE AbandonConnect("cancelled")
    BY <2>2 DEF AbandonConnect, Settle
  <2>3. CASE lane' = [lane EXCEPT !.pc = "attempt", !.tries = @ + 1] /\ op' = op
    BY <2>3 DEF Lanes
  <2> QED BY <1>3, <2>1, <2>2, <2>3 DEF Shaken
<1> QED BY <1>1, <1>2, <1>3

LEMMA EndInvNext == ASSUME TypeOK, TransferInv, EndInv, Next PROVE EndInv'
<1> USE DEF EndInv, ResourceCancelled
<1>1. lane \in Lanes /\ ret \in Results /\ lane.tries \in Nat /\ Bauds \in Nat \ {0}
      /\ inbox \in Seq(Requests)
  BY RequestAssumption DEF TypeOK, CallType, LaneType, ClientType, Lanes, RequestAssumption
<1>2. CASE ClientStep
  <2>1. UNCHANGED <<lane, deferred>>
    BY <1>2 DEF ClientStep, CancelResource, Join, Seal, Send, Admit, Cancel
  <2>2. CASE CancelResource \/ Join \/ Seal
    BY <2>1, <2>2 DEF CancelResource, Join, Seal
  <2>3. CASE \E r \in Requests : Admit(r) \/ Cancel(r)
    BY <2>1, <2>3 DEF Admit, Cancel
  <2>4. CASE \E r \in Requests : Send(r)
    BY <2>1, <2>4 DEF Send, Closing
  <2> QED BY <1>2, <2>2, <2>3, <2>4 DEF ClientStep
<1>3. CASE StreamStep
  BY <1>3 DEF StreamStep, clients
<1>4. CASE Keeps
  BY <1>4 DEF Keeps, Between
<1>5. CASE \E r \in Requests : ReceiveRequest(r)
  <2>1. lane.pc = "receive" /\ UNCHANGED <<closer, deferred>>
    BY <1>5 DEF ReceiveRequest
  <2>2. lane'.pc \in {"top", "attempt", "exchange"} /\ (lane'.pc = "attempt" => lane'.tries = 0)
    BY <1>1, <1>5, BeginsAndCloses
  <2> QED BY <1>1, <2>1, <2>2
<1>6. CASE Attempt
  <2>1. lane.pc = "attempt" /\ UNCHANGED <<inbox, closer, deferred>>
    BY <1>6 DEF Attempt
  <2>2. CASE lane.tries < Bauds /\ Goto("shaking")
    BY <1>1, <2>1, <2>2, GotoKeeps
  <2>3. CASE lane' = AtRest
    BY <2>1, <2>3, RestKeeps
  <2> QED BY <1>6, <2>2, <2>3 DEF Attempt, AbandonConnect
<1>7. CASE Shaken
  <2>1. lane.pc = "shaking" /\ UNCHANGED <<inbox, closer, deferred>>
    BY <1>7 DEF Shaken
  <2>2. CASE lane' = AtRest
    BY <2>1, <2>2, RestKeeps
  <2>3. CASE lane'.pc = "attempt" /\ lane'.tries = lane.tries + 1
    BY <1>1, <2>1, <2>3
  <2> QED BY <1>1, <1>7, <2>2, <2>3, BeginsAndCloses
<1>8. CASE Finish
  BY <1>8, RestKeeps DEF Finish
<1>9. CASE CloseBegins
  <2>1. lane.pc = "close" /\ inbox' = << >> /\ UNCHANGED <<closer, deferred>>
    BY <1>9 DEF CloseBegins
  <2>2. lane'.pc \in {"neutral", "closing"}
    BY <1>1, <1>9, BeginsAndCloses
  <2> QED BY <2>1, <2>2
<1>10. CASE CloseEnds
  <2>1. lane'.pc = "ended"
    BY <1>10 DEF CloseEnds, AtRest
  <2> QED BY <1>10, <2>1 DEF CloseEnds
<1> QED BY <1>1, <1>2, <1>3, <1>4, <1>5, <1>6, <1>7, <1>8, <1>9, <1>10, StepCases, LaneKeeps
        DEF LaneStep

LEMMA KeptInvNext ==
  ASSUME TypeOK, TransferInv, SentInv, PlaceInv, EndInv, KeptInv, Next PROVE KeptInv'
<1> USE DEF KeptInv, Taken, IsTerminal
<1>1. lane \in Lanes /\ ret \in Results /\ inbox \in Seq(Requests)
      /\ op \in [Requests -> {"absent", "created", "running", "cancelling", "succeeded", "failed",
                              "cancelled"}]
      /\ sub \in [Requests -> {"idle", "created", "sent", "refused"}]
      /\ NoRequest \notin Requests
      /\ lane.held \subseteq Requests /\ deferred \subseteq Requests
  BY RequestsHaveOneKind
  DEF TypeOK, CallType, LaneType, ClientType, Lanes, RequestsHaveOneKind
<1>2. ToSet(inbox) \subseteq Requests /\ \A r \in ToSet(inbox) : sub[r] = "sent"
  BY <1>1 DEF ToSet, SentInv
<1>3. CASE ClientStep
  <2>1. UNCHANGED <<lane, deferred>>
    BY <1>3 DEF ClientStep, CancelResource, Join, Seal, Send, Admit, Cancel
  <2>2. CASE CancelResource \/ Join \/ Seal
    BY <2>1, <2>2 DEF CancelResource, Join, Seal
  <2>3. ASSUME NEW r \in Requests, Admit(r) PROVE KeptInv'
    BY <1>1, <2>1, <2>3 DEF Admit
  <2>4. ASSUME NEW r \in Requests, Cancel(r) PROVE KeptInv'
    BY <1>1, <2>1, <2>4 DEF Cancel
  <2>5. ASSUME NEW r \in Requests, Send(r) PROVE KeptInv'
    <3>1. sub[r] = "created" /\ r \notin Taken
      BY <2>5 DEF Send
    <3>2. CASE sub' = [sub EXCEPT ![r] = "refused"] /\ op' = [op EXCEPT ![r] = FailedOrCancelled(r)]
               /\ UNCHANGED inbox
      BY <1>1, <2>1, <3>1, <3>2 DEF FailedOrCancelled
    <3>3. CASE sub' = [sub EXCEPT ![r] = "sent"] /\ inbox' = Append(inbox, r) /\ UNCHANGED op
      <4>1. ToSet(inbox') = ToSet(inbox) \union {r}
        <5>1. /\ Len(inbox') = Len(inbox) + 1 /\ inbox'[Len(inbox) + 1] = r
              /\ \A i \in 1..Len(inbox) : inbox'[i] = inbox[i]
          BY <1>1, <3>3
        <5>2. DOMAIN inbox = 1..Len(inbox) /\ DOMAIN inbox' = 1..Len(inbox')
              /\ Len(inbox) \in Nat
          BY <1>1, <3>3
        <5> QED BY <5>1, <5>2 DEF ToSet
      <4> QED BY <1>1, <2>1, <3>1, <3>3, <4>1
    <3> QED BY <2>5, <3>2, <3>3 DEF Send
  <2> QED BY <1>3, <2>2, <2>3, <2>4, <2>5 DEF ClientStep
<1>4. CASE StreamStep
  BY <1>4 DEF StreamStep, clients
<1>5. CASE Keeps
  BY <1>1, <1>5 DEF Keeps, Between
<1>6. ASSUME NEW r \in Requests, ReceiveRequest(r) PROVE KeptInv'
  <2>1. /\ lane.pc = "receive" /\ inbox # << >> /\ r = Head(inbox) /\ inbox' = Tail(inbox)
        /\ UNCHANGED <<sub, deferred>> /\ lane.r = NoRequest /\ lane.held = {}
    BY <1>6 DEF ReceiveRequest, PlaceInv
  <2>2. ToSet(inbox) \subseteq ToSet(inbox') \union {r}
    <3>1. /\ inbox[1] = r /\ Len(inbox') = Len(inbox) - 1
          /\ \A i \in 1..Len(inbox') : inbox'[i] = inbox[i + 1]
          /\ DOMAIN inbox = 1..Len(inbox) /\ DOMAIN inbox' = 1..Len(inbox') /\ Len(inbox) \in Nat
      BY <1>1, <2>1
    <3>2. ASSUME NEW i \in DOMAIN inbox, i # 1 PROVE inbox[i] \in ToSet(inbox')
      <4>1. i - 1 \in DOMAIN inbox' /\ inbox'[i - 1] = inbox[i]
        BY <3>1, <3>2
      <4> QED BY <4>1 DEF ToSet
    <3> QED BY <3>1, <3>2 DEF ToSet
  <2>3. CASE lane'.r = lane.r /\ lane'.held = lane.held
             /\ \E state \in {"cancelled", "failed"} : op' = [op EXCEPT ![r] = state]
    BY <1>1, <2>1, <2>2, <2>3
  <2>4. CASE lane'.r = r /\ lane'.held = {} /\ ~Token(r) /\ op' = [op EXCEPT ![r] = "running"]
    <3>1. deferred = {}
      BY <2>4 DEF EndInv, Token
    <3> QED BY <1>1, <2>1, <2>2, <2>4, <3>1
  <2> QED BY <1>1, <1>6, <2>3, <2>4, BeginsAndCloses
<1>7. CASE Attempt \/ Shaken
  <2>1. lane.pc \in {"attempt", "shaking"} /\ UNCHANGED <<sub, inbox, deferred>>
        /\ lane.r \in Requests /\ lane.held = {}
    BY <1>7 DEF Attempt, Shaken, PlaceInv, Requests
  <2>2. CASE lane' = AtRest /\ \E state \in {"cancelled", "failed", "succeeded"} :
                                  op' = [op EXCEPT ![lane.r] = state]
    BY <1>1, <2>1, <2>2, RestKeeps
  <2>3. CASE lane'.r = lane.r /\ lane'.held = lane.held /\ op' = op
    BY <2>1, <2>3
  <2>4. CASE Attempt
    <3>1. CASE Goto("shaking") /\ op' = op
      BY <1>1, <2>3, <3>1, GotoKeeps
    <3>2. CASE \E state \in {"cancelled", "failed"} : AbandonConnect(state)
      BY <2>2, <3>2 DEF AbandonConnect, Settle
    <3> QED BY <2>4, <3>1, <3>2 DEF Attempt, FailedOrCancelled
  <2> QED BY <1>1, <1>7, <2>2, <2>3, <2>4, BeginsAndCloses
<1>8. CASE Finish
  <2>1. /\ lane.pc = "finish" /\ lane' = AtRest /\ UNCHANGED <<sub, inbox>>
        /\ lane.r \in Requests /\ lane.held = {} /\ sub[lane.r] = "sent"
    BY <1>8 DEF Finish, PlaceInv, SentInv
  <2>2. CASE op' = [op EXCEPT ![lane.r] = "cancelling"] /\ deferred' = deferred \union {lane.r}
    BY <1>1, <2>1, <2>2, RestKeeps
  <2>3. CASE deferred' = deferred
             /\ \E state \in {"cancelled", "failed", "succeeded"} :
                  op' = [op EXCEPT ![lane.r] = state]
    BY <1>1, <2>1, <2>3, RestKeeps
  <2> QED BY <1>8, <2>2, <2>3 DEF Finish, Settle, FailedOrCancelled
<1>9. CASE CloseBegins
  <2>1. /\ lane.pc = "close" /\ inbox' = << >> /\ UNCHANGED <<sub, deferred>>
        /\ op' = [r \in Requests |-> IF r \in ToSet(inbox) /\ ~IsTerminal(r)
                                     THEN "cancelling" ELSE op[r]]
        /\ lane.r = NoRequest /\ lane.held = {}
    BY <1>9 DEF CloseBegins, PlaceInv
  <2>2. lane'.pc \in {"neutral", "closing"} /\ lane'.held = ToSet(inbox)
    BY <1>1, <1>9, BeginsAndCloses
  <2>3. \A r \in Requests : /\ r \in ToSet(inbox) => op'[r] = "cancelling" \/ IsTerminal(r)'
                            /\ r \notin ToSet(inbox) => op'[r] = op[r]
    BY <1>1, <2>1
  <2> QED BY <1>1, <1>2, <2>1, <2>2, <2>3
<1>10. CASE CloseEnds
  <2>1. /\ lane.pc = "closing" /\ UNCHANGED <<sub, inbox>> /\ deferred' = {}
        /\ lane'.held = {} /\ inbox = << >> /\ lane.r = NoRequest
        /\ op' = [r \in Requests |-> IF r \in Taken /\ op[r] = "cancelling"
                                     THEN "cancelled" ELSE op[r]]
    BY <1>10 DEF CloseEnds, AtRest, EndInv, PlaceInv
  <2>2. ToSet(inbox) = {}
    BY <2>1 DEF ToSet
  <2>3. \A r \in Requests : IF r \in Taken /\ op[r] = "cancelling" THEN op'[r] = "cancelled"
                                                                   ELSE op'[r] = op[r]
    BY <2>1
  <2> QED BY <1>1, <2>1, <2>2, <2>3
<1> QED BY <1>1, <1>3, <1>4, <1>5, <1>6, <1>7, <1>8, <1>9, <1>10, StepCases, LaneKeeps
        DEF LaneStep

(* Each request that was admitted and is not over is in somebody's hands:    *)
(* the submitting thread's, the channel's, the lane's or those of close;     *)
(* and a lane that closes has seen the last of its channel.                  *)
THEOREM WaitersHaveReasons == Spec => []WaitInv
<1>1. Init => WaitInv
  BY RestKeeps DEF Init, WaitInv, EndInv, KeptInv, Taken, RequestAssumption
<1>2. Inv /\ WaitInv /\ [Next]_vars => WaitInv'
  <2>1. ASSUME Inv, WaitInv, Next PROVE WaitInv'
    BY <2>1, EndInvNext, KeptInvNext DEF Inv, StreamInv, RequestInv, WaitInv
  <2>2. ASSUME WaitInv, UNCHANGED vars PROVE WaitInv'
    BY <2>2 DEF WaitInv, EndInv, KeptInv, Taken, IsTerminal, ResourceCancelled, vars, clients
  <2> QED BY <2>1, <2>2
<1> QED BY <1>1, <1>2, Invariance, PTL DEF Spec

(* A call of the transport under way can go on, or the driver can: a         *)
(* transfer that nothing completes is cancelled when its deadline passes.    *)
LEMMA CallsGoOn ==
  ASSUME Inv, call.at # "idle" PROVE CallMoves \/ DriverMoves \/ LaneMoves
<1>1. /\ call \in Calls /\ irp \in Transfers /\ call.sent \in Nat /\ irp.n \in Nat
      /\ call.sent < FrameLen /\ FrameLen \in Nat /\ MaxOwed \in Nat /\ owed \in Seq(Replies)
      /\ CallInv /\ TransferInv
  BY StreamAssumption
  DEF Inv, StreamInv, TypeOK, CallType, StreamType, Calls, Transfers, CallInv, StreamAssumption
<1>2. CASE call.at \in {"enter", "transfer"}
  BY <1>2 DEF CallMoves
<1>3. CASE call.at \in Waiting /\ irp.st \in {"done", "failed", "aborted"}
  BY <1>3 DEF CallMoves, Settling, Waiting
<1>4. CASE call.at = "wait" /\ irp.st = "pending"
  <2>1. CASE owed = << >> /\ ~late
    BY <1>1, <1>4, <2>1 DEF CallMoves
  <2>2. CASE late
    BY <1>4, <2>2 DEF CallMoves, Interrupted
  <2> QED BY <2>1, <2>2 DEF DriverMoves
<1>5. CASE irp.st = "cancelling"
  <2>1. CASE call.dir = "write"
    BY <1>1, <1>5, <2>1 DEF DriverMoves, Owned, Remaining
  <2>2. CASE call.dir = "read"
    BY <1>1, <1>5, <2>2 DEF DriverMoves, TransferInv
  <2> QED BY <1>1, <2>1, <2>2 DEF Calls
<1>6. call.at \in {"enter", "transfer"} \/ (call.at \in Waiting /\ irp.st # "none")
  BY <1>1 DEF Calls, TransferInv
<1>7. irp.st = "pending" => call.at = "wait"
  BY <1>1 DEF TransferInv
<1> QED BY <1>1, <1>2, <1>3, <1>4, <1>5, <1>6, <1>7 DEF Transfers

(* When nothing more can happen to a lane that did not panic, each request   *)
(* has its outcome and close has returned: what is queued, served, held or   *)
(* deferred when the session closes is settled, and nobody waits for a       *)
(* transfer that will not complete.                                          *)
THEOREM NobodyIsLeft == Spec => []NobodyIsStuck
<1>1. ASSUME Inv, WaitInv, lane.pc # "panicked", ~SomebodyMoves
      PROVE  /\ \A r \in Requests : op[r] = "absent" \/ IsTerminal(r)
             /\ closer \in {"idle", "done"}
  <2>1. /\ lane \in Lanes /\ ret \in Results /\ closer \in {"idle", "sealed", "sent", "done"}
        /\ NoRequest \notin Requests /\ EndInv /\ KeptInv /\ CallInv /\ PlaceInv /\ AccountInv
        /\ ret.k \in {"none", "ok", "err"}
    BY <1>1, RequestsHaveOneKind
    DEF Inv, StreamInv, RequestInv, WaitInv, TypeOK, CallType, LaneType, ClientType,
        RequestsHaveOneKind, Results
  <2>2. call.at = "idle" /\ ~LaneMoves /\ ~ClientMoves
    BY <1>1, CallsGoOn DEF SomebodyMoves
  <2>3. lane.pc \notin Serving
    <3>1. lane.pc \in Serving => ret.k # "none"
      BY <2>1, <2>2 DEF CallInv, MethodOf
    <3> QED BY <2>1, <2>2, <3>1 DEF LaneMoves, Serving, AccountInv, Writing
  <2>4. lane.pc \in {"receive", "ended"}
    BY <1>1, <2>1, <2>2, <2>3 DEF LaneMoves, Lanes, Serving, EndInv
  <2>5. inbox = << >> /\ lane.r = NoRequest
    BY <2>1, <2>2, <2>4 DEF LaneMoves, EndInv, PlaceInv
  <2>6. lane.pc = "receive" => closer = "idle"
    BY <2>1, <2>2, <2>5 DEF LaneMoves, ClientMoves, EndInv
  <2>7. lane.pc = "ended" => closer = "done"
    BY <2>1, <2>2 DEF ClientMoves, EndInv, ResourceCancelled
  <2>8. Taken = {} /\ ToSet(inbox) = {}
    BY <2>1, <2>4, <2>5, <2>6 DEF Taken, EndInv, KeptInv, ResourceCancelled, ToSet
  <2>9. \A r \in Requests : sub[r] # "created"
    BY <2>2 DEF ClientMoves
  <2> QED BY <2>1, <2>4, <2>5, <2>6, <2>7, <2>8, <2>9 DEF KeptInv
<1>2. Inv /\ WaitInv => NobodyIsStuck
  BY <1>1 DEF NobodyIsStuck
<1> QED BY <1>2, Invariance, WaitersHaveReasons, PTL

=============================================================================
