------------------------------ MODULE NvmeTcp ------------------------------
(***************************************************************************)
(* The NVMe/TCP initiator session (net/tcp/nvmetcp.c) with its             *)
(* DH-HMAC-CHAP sub-machine (net/tcp/nvmetcp_auth.c), the two sockets it   *)
(* drives, the block-device consumer above it and the target beyond it.    *)
(*                                                                         *)
(* host   is struct nvmetcp_session plus what its handlers touch directly: *)
(*        the sockets (window, transmit queue, PDU receive state) and the  *)
(*        consumer's pending request.  Every handler of the C code is an   *)
(*        operator from host records to host records; rc is its return.    *)
(* wire   is the byte stream from the target, per queue, as PDUs.          *)
(* seg    is the TCP segment (or TLS record) now being delivered: nothing  *)
(*        else runs until it has been consumed, as in the C callbacks.     *)
(* target and budget are the environment: the NVMe target, and how many    *)
(*        requests, allocation failures, window updates and faults remain. *)
(***************************************************************************)
EXTENDS Naturals, Sequences

CONSTANTS
  UseTls,       \* nvmetcp_use_tls(): the sockets run over the TLS 1.3 filter
  Secret,       \* the URI's secret: "absent", "good" or "bad" (unparsable)
  AuthModes,    \* how Connect may ask for authentication: "no","atr","status"
  Frags,        \* number of C2HData PDUs the target uses for one read
  Split,        \* queues on which a segment may end between data and its
                \* completion (nvmet sends the two together)
  Windows,      \* TCP send windows: 0 closed, 1 below an ICReq, 2 larger
  R2t,          \* the target may answer a write with R2T
  CidMod,       \* number of command identifiers (2^16 in the code)
  MaxWire,      \* PDUs in transit per queue and direction
  MaxRequests, MaxNoMem, MaxWindow, MaxFaults    \* initial budgets

ASSUME ConstantsOK ==
  /\ UseTls \in BOOLEAN /\ R2t \in BOOLEAN
  /\ Split \subseteq {"admin", "io"}
  /\ Secret \in {"absent", "good", "bad"}
  /\ AuthModes \subseteq {"no", "atr", "status"}
  /\ Frags \in Nat \ {0} /\ CidMod \in Nat \ {0}
  /\ Windows \subseteq 0..2
  /\ {MaxWire, MaxRequests, MaxNoMem, MaxWindow, MaxFaults} \subseteq Nat

VARIABLES host, wire, seg, target, budget
vars == <<host, wire, seg, target, budget>>

Queues == {"admin", "io"}
Phases == {"ICREQ", "CONNECT_ADMIN", "AUTH", "PROP_SET", "IDENTIFY_CTRL",
           "IDENTIFY_NS", "ICREQ_IO", "CONNECT_IO", "READY", "FAILED"}
AuthSteps == {"START", "COMPLETE_NEGOTIATE", "CHALLENGE", "COMPLETE_REPLY",
              "SUCCESS1"}
Codes == {"ok", "EAGAIN", "ENOMEM", "EPROTO", "EIO", "EPERM", "EACCES",
          "EINVAL", "ECONNRESET", "ECANCELED", "ETIMEDOUT"}
Cids == 0..(CidMod - 1)
NoCid == CidMod
CntlId == 1                       \* the controller the target assigns

\* What a receive buffer holds: the message or the block it was read from.
Data == [kind : {"none", "challenge", "success1", "failure1", "reply",
                 "ctrl", "ns", "block"}, id : Nat, frag : Nat]
Content(k) == [kind |-> k, id |-> 0, frag |-> 0]
Block(i, f) == [kind |-> "block", id |-> i, frag |-> f]
Buffers == [1..Frags -> Data]
Blank == [k \in 1..Frags |-> Content("none")]

\* PDUs from the host: a command and, for a block command, its request.
HostOps == {"icreq", "connect", "negotiate", "reply", "auth_receive",
            "prop_set", "identify_ctrl", "identify_ns", "read", "write",
            "h2cdata"}
HostPdus == [op : HostOps, cid : Cids, id : Nat]
\* PDUs from the target.  "atr" is success with the ATR bit in the result.
CtrlPdus ==
  [type : {"icresp", "response", "c2hdata", "r2t", "term"}, cid : Cids,
   status : {"ok", "atr", "authreq", "fail"}, data : Data, offset : Nat]
Junk == [type |-> "term", cid |-> 0, status |-> "ok",
         data |-> Content("none"), offset |-> 0]

Requests == [op : {"none", "capacity", "read", "write"}, id : Nat]
NoReq == [op |-> "none", id |-> 0]
Pipes == Seq(HostPdus)
Socks == [conn : {"closed", "syn", "open"}, win : 0..2,
          unacked : 0..CidMod, h2t : Pipes,
          rx : {"hdr", "part", "stuck"}, hdr : CtrlPdus]
Hosts ==
  [phase : Phases, cid : Cids, cntlid : Nat, tx_in_flight : BOOLEAN,
   running : BOOLEAN, closed : Codes \union {"open"}, failed : BOOLEAN,
   step : AuthSteps, completed : BOOLEAN, rx_complete : BOOLEAN,
   rx_cid : Cids, cmd_data_len : Nat, cmd_data_offset : Nat,
   cmd_buf : Buffers, cid_cqe : Cids,
   status_cqe : {"ok", "atr", "authreq", "fail"},
   block_data : BOOLEAN, block_writing : BOOLEAN, capacity_data : BOOLEAN,
   capacity : {"unknown", "ns"}, block_buffer : Buffers,
   req : Requests,
   res : [req : Requests, rc : Codes, buf : Buffers,
          cap : {"unknown", "ns"}],
   sock : [Queues -> Socks], rc : Codes]

Rc(h, code) == [h EXCEPT !.rc = code]

\* The PDU receive state of a queue: expecting a header (nvmetcp_rx_reset),
\* within a PDU, or left on a PDU whose processing failed.
Rx(h, q, x) == [h EXCEPT !.sock[q] = [h.sock[q] EXCEPT !.rx = x]]

-----------------------------------------------------------------------------
(* Completion towards the consumer, and closing the session.               *)

\* intf_restart ( &nvmetcp->data, rc ): a plugged consumer gets its answer.
IntfRestart(h, code) ==
  IF h.req.op = "none" THEN h
  ELSE [h EXCEPT !.req = NoReq,
                 !.res = [req |-> h.req, rc |-> code,
                          buf |-> h.block_buffer, cap |-> h.capacity]]

\* Mutant: a consumer with a pending block command is not told.
NvmetcpCloseSilent(h, code) ==
  LET reason == IF code = "ok" THEN "ECONNRESET" ELSE code
      r == IF h.capacity_data THEN IntfRestart(h, reason) ELSE h
  IN  [r EXCEPT !.capacity_data = FALSE, !.running = FALSE, !.closed = reason]

\* A deferred capacity request is failed, then intfs_shutdown tells whoever
\* is still plugged in.
NvmetcpClose(h, code) ==
  LET reason == IF code = "ok" THEN "ECONNRESET" ELSE code
  IN  [IntfRestart(h, reason) EXCEPT
         !.capacity_data = FALSE, !.running = FALSE, !.closed = reason]

-----------------------------------------------------------------------------
(* Transmission.  mem is "ok", or the allocation that fails in this call:  *)
(* "iob" (the transmit buffer) or "heap" (cryptography, socket).           *)

\* Mutant: the command is not recorded as being in flight.
TxPduForgets(h, q, pdu, need, mem) ==
  IF h.sock[q].win < need THEN Rc(h, "EAGAIN")
  ELSE IF mem = "iob" THEN Rc(h, "ENOMEM")
  ELSE [h EXCEPT !.rc = "ok", !.running = FALSE,
                 !.sock[q] = [h.sock[q] EXCEPT !.win = 0, !.unacked = pdu.cid,
                                !.h2t = Append(h.sock[q].h2t, pdu)]]

\* nvmetcp_tx_pdu and nvmetcp_tx_data differ in the window they require.
TxPdu(h, q, pdu, need, mem) ==
  IF h.sock[q].win < need THEN Rc(h, "EAGAIN")
  ELSE IF mem = "iob" THEN Rc(h, "ENOMEM")
  ELSE [h EXCEPT !.rc = "ok", !.tx_in_flight = TRUE, !.running = FALSE,
                 !.sock[q] = [h.sock[q] EXCEPT !.win = 0, !.unacked = pdu.cid,
                                !.h2t = Append(h.sock[q].h2t, pdu)]]

NextCid(h) == (h.cid + 1) % CidMod

\* ++cid in the caller, then nvmetcp_tx_command.
TxCommand(h, q, op, id, recv, mem) ==
  LET c == NextCid(h)
      t == TxPdu([h EXCEPT !.cid = c], q,
                 [op |-> op, cid |-> c, id |-> id], 1, mem)
  IN  IF t.rc # "ok" THEN t
      ELSE Rx([t EXCEPT !.cmd_data_len = recv, !.cmd_data_offset = 0],
              q, "hdr")

TxIcreq(h, q, mem) ==
  TxPdu(h, q, [op |-> "icreq", cid |-> h.cid, id |-> 0], 2, mem)
TxConnect(h, q, mem) ==
  TxCommand(h, q, "connect", IF q = "io" THEN h.cntlid ELSE 65535, 0, mem)
TxPropSet(h, mem) == TxCommand(h, "admin", "prop_set", 0, 0, mem)
TxIdentify(h, op, mem) == TxCommand(h, "admin", op, 0, 1, mem)

\* An R2T whose offset is not 0 stands for one beyond the block buffer.
TxH2cData(h, r2t, mem) ==
  IF r2t.offset > 0 THEN Rc(h, "EPROTO")
  ELSE TxPdu(h, "io", [op |-> "h2cdata", cid |-> r2t.cid, id |-> h.req.id],
             1, mem)

\* Mutant: resume although a command is in flight.
TxResumeUngated(h) == [h EXCEPT !.running = TRUE]

TxResume(h) == IF h.tx_in_flight THEN h ELSE [h EXCEPT !.running = TRUE]

\* A socket that cannot be opened (mem = "heap") leaves the phase alone.
OpenSocket(h, q, phase, mem) ==
  IF mem = "heap" THEN Rc(h, "ENOMEM")
  ELSE TxResume([h EXCEPT !.rc = "ok", !.phase = phase,
                          !.sock[q] = [h.sock[q] EXCEPT !.conn = "syn",
                                                        !.rx = "hdr"]])

-----------------------------------------------------------------------------
(* DH-HMAC-CHAP (nvmetcp_auth.c).                                          *)

\* Mutant: a failed send still advances the step.
AuthTxReceiveStepNoReset(h, next, mem) ==
  LET t == TxCommand(h, "admin", "auth_receive", 0, 1, mem)
  IN  [t EXCEPT !.step = next,
                !.rx_cid = IF t.rc = "ok" THEN t.cid ELSE h.rx_cid]

AuthTxReceiveStep(h, next, mem) ==
  LET t == TxCommand(h, "admin", "auth_receive", 0, 1, mem)
  IN  IF t.rc # "ok"
      THEN [t EXCEPT !.step = IF next = "CHALLENGE"
                              THEN "COMPLETE_NEGOTIATE"
                              ELSE "COMPLETE_REPLY"]
      ELSE [t EXCEPT !.step = next, !.rx_cid = t.cid]

\* The message in cmd_buf against the expected one.
AuthRxValidate(h, expected) ==
  IF h.cmd_buf[1].kind = "failure1" THEN "EACCES"
  ELSE IF h.cmd_buf[1].kind # expected THEN "EPROTO" ELSE "ok"

\* The reply is built in cmd_buf, over the challenge, before it is sent.
AuthTxReply(h, mem) ==
  IF Secret = "bad" THEN Rc(h, "EINVAL")
  ELSE IF mem = "heap" THEN Rc(h, "ENOMEM")
  ELSE TxCommand([h EXCEPT !.cmd_buf[1] = Content("reply")],
                 "admin", "reply", 0, 0, mem)

AuthRxChallenge(h, mem) ==
  LET v == AuthRxValidate(h, "challenge")
  IN  IF v # "ok" THEN Rc(h, v) ELSE AuthTxReply(h, mem)

AuthRxSuccess1(h) ==
  LET v == AuthRxValidate(h, "success1")
  IN  IF v # "ok" THEN Rc(h, v)
      ELSE [h EXCEPT !.rc = "ok", !.completed = TRUE]

\* Mutant: the data alone ends the authentication phase.
AuthTryCompleteEarly(h) ==
  IF h.completed THEN [h EXCEPT !.phase = "PROP_SET"] ELSE h

AuthTryComplete(h) ==
  IF h.completed /\ h.rx_complete THEN [h EXCEPT !.phase = "PROP_SET"] ELSE h

\* Mutant: authentication restarts after success1.
AuthStepRestart(h, mem, rng) ==
  CASE h.step = "START" ->
         TxCommand([h EXCEPT !.step = "COMPLETE_NEGOTIATE"],
                   "admin", "negotiate", 0, 0, mem)
    [] h.step = "COMPLETE_NEGOTIATE" /\ ~h.tx_in_flight ->
         AuthTxReceiveStep(h, "CHALLENGE", mem)
    [] h.step = "COMPLETE_REPLY" /\ ~h.tx_in_flight ->
         AuthTxReceiveStep(h, "SUCCESS1", mem)
    [] OTHER -> Rc(h, "ok")

\* rng: get_random_nz succeeds.  The step is advanced before the send.
AuthStep(h, mem, rng) ==
  CASE h.step = "START" /\ h.completed -> Rc(h, "ok")
    [] h.step = "START" /\ ~h.completed /\ ~rng -> Rc(h, "EIO")
    [] h.step = "START" /\ ~h.completed /\ rng ->
         TxCommand([h EXCEPT !.step = "COMPLETE_NEGOTIATE"],
                   "admin", "negotiate", 0, 0, mem)
    [] h.step = "COMPLETE_NEGOTIATE" /\ ~h.tx_in_flight ->
         AuthTxReceiveStep(h, "CHALLENGE", mem)
    [] h.step = "COMPLETE_REPLY" /\ ~h.tx_in_flight ->
         AuthTxReceiveStep(h, "SUCCESS1", mem)
    [] OTHER -> Rc(h, "ok")

AuthRxComplete(h, mem) ==
  CASE h.step = "COMPLETE_NEGOTIATE" -> AuthTxReceiveStep(h, "CHALLENGE", mem)
    [] h.step = "COMPLETE_REPLY" -> AuthTxReceiveStep(h, "SUCCESS1", mem)
    [] h.step = "CHALLENGE" -> Rc(h, "ok")
    [] h.step \in {"SUCCESS1", "START"} ->
         [h EXCEPT !.rc = "ok",
                   !.rx_complete = h.rx_complete \/ h.cid_cqe = h.rx_cid]

AuthRxData(h, mem) ==
  IF h.step = "CHALLENGE"
  THEN LET t == AuthRxChallenge(h, mem)
       IN  IF t.rc # "ok" THEN t ELSE [t EXCEPT !.step = "COMPLETE_REPLY"]
  ELSE IF h.step = "SUCCESS1"
  THEN LET t == AuthRxSuccess1(h)
       IN  IF t.rc # "ok" THEN t ELSE [t EXCEPT !.step = "START"]
  ELSE Rc(h, "EPROTO")

-----------------------------------------------------------------------------
(* Reception.                                                              *)

\* process_add
Add(h) == [h EXCEPT !.rc = "ok", !.running = TRUE]

AuthRequired(h) ==
  IF Secret = "absent" THEN Rc(h, "EPERM")
  ELSE Add([h EXCEPT !.phase = "AUTH"])

\* try_complete, then resume stepping if the AUTH phase is over.
AuthFinish(h) ==
  LET t == AuthTryComplete(h)
  IN  IF h.rc # "ok" THEN h ELSE IF t.phase # "AUTH" THEN Add(t) ELSE t

\* Mutant: a failed block command completes like a successful one.
RxFailureOk(h) ==
  CASE h.status_cqe = "authreq" /\ h.phase = "CONNECT_ADMIN" ->
         AuthRequired(h)
    [] h.phase # "AUTH" /\ h.block_data ->
         IntfRestart([h EXCEPT !.rc = "ok", !.block_data = FALSE], "ok")
    [] OTHER -> [h EXCEPT !.rc = "EIO", !.failed = TRUE]

\* Mutant: a failed setup command is not an error.
RxFailureIgnored(h) ==
  CASE h.status_cqe = "authreq" /\ h.phase = "CONNECT_ADMIN" ->
         AuthRequired(h)
    [] h.phase # "AUTH" /\ h.block_data ->
         IntfRestart([h EXCEPT !.rc = "ok", !.block_data = FALSE], "EIO")
    [] OTHER -> [h EXCEPT !.rc = "ok", !.failed = TRUE]

\* The status # 0 half of nvmetcp_rx_command.
RxFailure(h) ==
  CASE h.status_cqe = "authreq" /\ h.phase = "CONNECT_ADMIN" ->
         AuthRequired(h)
    [] h.phase # "AUTH" /\ h.block_data ->
         IntfRestart([h EXCEPT !.rc = "ok", !.block_data = FALSE], "EIO")
    [] OTHER -> [h EXCEPT !.rc = "EIO", !.failed = TRUE]

\* The status = 0 half, by phase.
RxSuccess(h, mem) ==
  CASE h.phase = "CONNECT_ADMIN" /\ h.status_cqe = "atr" ->
         AuthRequired([h EXCEPT !.cntlid = CntlId])
    [] h.phase = "CONNECT_ADMIN" /\ h.status_cqe = "ok" ->
         Add([h EXCEPT !.cntlid = CntlId, !.phase = "PROP_SET"])
    [] h.phase = "PROP_SET" -> Add([h EXCEPT !.phase = "IDENTIFY_CTRL"])
    [] h.phase = "IDENTIFY_CTRL" -> Add([h EXCEPT !.phase = "IDENTIFY_NS"])
    [] h.phase = "IDENTIFY_NS" -> OpenSocket(h, "io", "ICREQ_IO", mem)
    [] h.phase = "AUTH" -> AuthFinish(AuthRxComplete(h, mem))
    [] h.phase = "CONNECT_IO" ->
         LET r == [h EXCEPT !.rc = "ok", !.phase = "READY"]
         IN  IF h.capacity_data
             THEN IntfRestart([r EXCEPT !.capacity_data = FALSE], "ok") ELSE r
    [] h.phase = "READY" ->
         IF h.block_data
         THEN IntfRestart([h EXCEPT !.rc = "ok", !.block_data = FALSE], "ok")
         ELSE Rc(h, "ok")
    [] OTHER -> Rc(h, "EPROTO")

\* The completion just received is matched with no command identifier.
RxCommand(h, mem) ==
  LET i == [h EXCEPT !.tx_in_flight = FALSE]
  IN  IF h.status_cqe \in {"ok", "atr"} THEN RxSuccess(i, mem)
      ELSE RxFailure(i)

RxData(h, mem) ==
  LET i == [h EXCEPT !.tx_in_flight = FALSE, !.rc = "ok"]
  IN  CASE h.phase = "AUTH" -> AuthFinish(AuthRxData(i, mem))
        [] h.phase = "IDENTIFY_CTRL" -> i
        [] h.phase = "IDENTIFY_NS" ->
             IF h.cmd_buf[1].kind = "ns" THEN [i EXCEPT !.capacity = "ns"]
             ELSE Rc(i, "EPROTO")
        [] h.phase = "READY" ->
             IF h.block_data /\ ~h.block_writing
             THEN IntfRestart([i EXCEPT !.block_buffer = h.cmd_buf,
                                        !.block_data = FALSE], "ok")
             ELSE i
        [] OTHER -> Rc(i, "EPROTO")

\* nvmetcp_rx_header and nvmetcp_rx_pdu.  An ICResp with offset > 0 stands
\* for one of another protocol version.
RxPdu(h, q, mem) ==
  LET pdu == h.sock[q].hdr
  IN  CASE pdu.type = "icresp" ->
             IF pdu.offset > 0 THEN Rc(h, "EPROTO")
             ELSE Add([h EXCEPT !.phase = IF q = "io" THEN "CONNECT_IO"
                                          ELSE "CONNECT_ADMIN",
                                !.tx_in_flight = FALSE])
        [] pdu.type = "response" ->
             [h EXCEPT !.rc = "ok", !.cid_cqe = pdu.cid,
                       !.status_cqe = pdu.status]
        [] pdu.type = "c2hdata" ->
             IF pdu.offset # h.cmd_data_offset THEN Rc(h, "EPROTO")
             ELSE [h EXCEPT !.rc = "ok",
                            !.cmd_data_len = h.cmd_data_offset + 1]
        [] pdu.type = "r2t" -> TxH2cData(h, pdu, mem)
        [] OTHER -> Rc(h, "EPROTO")

\* An error leaves the PDU in rx: the next bytes complete it once more.
RxPduComplete(h, q, mem) ==
  LET pdu == h.sock[q].hdr
      t == CASE pdu.type \in {"icresp", "r2t"} -> Rc(h, "ok")
             [] pdu.type = "response" -> RxCommand(h, mem)
             [] pdu.type = "c2hdata" ->
                  IF h.cmd_data_offset < h.cmd_data_len THEN Rc(h, "ok")
                  ELSE RxData(h, mem)
             [] OTHER -> Rc(h, "EPROTO")
  IN  Rx(t, q, IF t.rc = "ok" THEN "hdr" ELSE "stuck")

\* One whole PDU through nvmetcp_socket_deliver.  The data of each PDU is
\* stored from the start of cmd_buf.
RxWhole(h, q, pdu, mem) ==
  LET t == RxPdu([h EXCEPT !.sock[q] = [h.sock[q] EXCEPT !.hdr = pdu]],
                 q, mem)
      d == IF pdu.type = "c2hdata"
           THEN [t EXCEPT !.cmd_buf[1] = pdu.data,
                          !.cmd_data_offset = t.cmd_data_offset + 1]
           ELSE t
  IN  IF t.rc # "ok" THEN Rx(t, q, "stuck")
      ELSE RxPduComplete(d, q, mem)

\* Bytes arriving after an error complete the old PDU first.
Unstick(h, q, mem) ==
  IF h.sock[q].rx = "stuck" THEN RxPduComplete(h, q, mem) ELSE Rc(h, "ok")

\* The last bytes of a PDU.  If its front half was received (half) but the
\* receive state was reset since, these bytes are taken for a header.
SocketDeliver(h, q, pdu, half, mem) ==
  LET u == Unstick(h, q, mem)
  IN  IF u.rc # "ok" THEN u
      ELSE RxWhole(u, q, IF half /\ u.sock[q].rx # "part" THEN Junk ELSE pdu,
                   mem)

\* The front half of a PDU at the end of a segment.
SocketDeliverPart(h, q, mem) ==
  LET u == Unstick(h, q, mem)
  IN  IF u.rc # "ok" THEN u ELSE Rx(u, q, "part")

-----------------------------------------------------------------------------
(* The session's process: nvmetcp_step.                                    *)

StepSend(h, mem, rng) ==
  CASE h.phase = "ICREQ" -> TxIcreq(h, "admin", mem)
    [] h.phase = "ICREQ_IO" -> TxIcreq(h, "io", mem)
    [] h.phase = "CONNECT_ADMIN" -> TxConnect(h, "admin", mem)
    [] h.phase = "PROP_SET" -> TxPropSet(h, mem)
    [] h.phase = "AUTH" -> AuthStep(h, mem, rng)
    [] h.phase = "IDENTIFY_CTRL" -> TxIdentify(h, "identify_ctrl", mem)
    [] h.phase = "IDENTIFY_NS" -> TxIdentify(h, "identify_ns", mem)
    [] h.phase = "CONNECT_IO" -> TxConnect(h, "io", mem)
    [] OTHER -> Rc(h, "ok")

\* Mutant: every error of a step is fatal.
NvmetcpStepFatal(h, mem, rng) ==
  LET t == StepSend(h, mem, rng)
  IN  IF t.rc = "ok" THEN t ELSE NvmetcpClose(t, t.rc)

NvmetcpStep(h, mem, rng) ==
  LET t == StepSend(h, mem, rng)
  IN  CASE t.rc = "ok" -> t
        [] t.rc = "EAGAIN" -> [t EXCEPT !.running = FALSE]
        [] t.rc = "ENOMEM" -> t
        [] OTHER -> NvmetcpClose(t, t.rc)

-----------------------------------------------------------------------------
(* The block interface.                                                    *)

\* Mutant: the capacity is returned before it is known.
BlockReadCapacityNow(h, req) == IntfRestart([h EXCEPT !.req = req], "ok")

BlockReadCapacity(h, req) ==
  LET p == [h EXCEPT !.req = req]
  IN  IF h.phase # "READY" THEN [p EXCEPT !.capacity_data = TRUE]
      ELSE IntfRestart(p, "ok")

\* Mutant: a command that could not be sent completes with success.
BlockRwUnsent(h, req, mem) ==
  LET t == TxCommand([h EXCEPT !.req = req, !.block_data = TRUE,
                               !.block_buffer = Blank,
                               !.block_writing = (req.op = "write")],
                     "io", req.op, req.id,
                     IF req.op = "write" THEN 0 ELSE 1, mem)
  IN  IF h.phase # "READY" \/ h.block_data THEN h
      ELSE IF t.rc # "ok"
      THEN IntfRestart([t EXCEPT !.block_data = FALSE], "ok")
      ELSE t

\* A rejected command returns its code to the consumer without a trace.
BlockRw(h, req, mem) ==
  LET refused == [h EXCEPT !.rc = "EAGAIN",
                    !.res = [req |-> req, rc |-> "EAGAIN",
                             buf |-> h.block_buffer, cap |-> h.capacity]]
      t == TxCommand([h EXCEPT !.req = req, !.block_data = TRUE,
                               !.block_buffer = Blank,
                               !.block_writing = (req.op = "write")],
                     "io", req.op, req.id,
                     IF req.op = "write" THEN 0 ELSE 1, mem)
  IN  IF h.phase # "READY" \/ h.block_data THEN refused
      ELSE IF t.rc # "ok"
      THEN IntfRestart([t EXCEPT !.block_data = FALSE], t.rc)
      ELSE t

NvmetcpCommandClose(h, code) ==
  LET r == IntfRestart(h, code)
  IN  IF h.block_data \/ h.capacity_data
      THEN NvmetcpClose([r EXCEPT !.block_data = FALSE,
                                  !.capacity_data = FALSE],
                        IF code = "ok" THEN "ECANCELED" ELSE code)
      ELSE r

-----------------------------------------------------------------------------
(* Initial state: nvmetcp_open has opened the admin socket.                *)

NewSock == [conn |-> "closed", win |-> 0, unacked |-> NoCid, h2t |-> <<>>,
            rx |-> "hdr", hdr |-> Junk]
Zalloc ==
  [phase |-> "ICREQ", cid |-> 0, cntlid |-> 0, tx_in_flight |-> FALSE,
   running |-> FALSE, closed |-> "open", failed |-> FALSE,
   step |-> "START", completed |-> FALSE, rx_complete |-> FALSE,
   rx_cid |-> 0, cmd_data_len |-> 0, cmd_data_offset |-> 0,
   cmd_buf |-> Blank, cid_cqe |-> 0, status_cqe |-> "ok",
   block_data |-> FALSE, block_writing |-> FALSE, capacity_data |-> FALSE,
   capacity |-> "unknown", block_buffer |-> Blank, req |-> NoReq,
   res |-> [req |-> NoReq, rc |-> "ok", buf |-> Blank, cap |-> "unknown"],
   sock |-> [q \in Queues |-> NewSock], rc |-> "ok"]
NvmetcpOpen == OpenSocket(Zalloc, "admin", "ICREQ", "ok")

\* The environment's state.
Streams == Seq(CtrlPdus)
Links == [pdus : Streams, half : BOOLEAN]
Segs == [on : BOOLEAN, q : Queues, n : Nat, tail : BOOLEAN, win : 0..2]
Targets ==
  [step : {"atr", "status", "negotiate", "challenge", "reply", "success1",
           "done"},
   enabled : BOOLEAN, seqerr : BOOLEAN, resent : BOOLEAN, cntlerr : BOOLEAN,
   seen : SUBSET (Queues \X HostOps), done : SUBSET Nat]
Budgets == [req : Nat, mem : Nat, win : Nat, fault : Nat]

Idle == [on |-> FALSE, q |-> "admin", n |-> 0, tail |-> FALSE, win |-> 0]
NewTarget ==
  [step |-> "idle", enabled |-> FALSE, seqerr |-> FALSE, resent |-> FALSE,
   cntlerr |-> FALSE, seen |-> {}, done |-> {}]

Init ==
  /\ host = NvmetcpOpen
  /\ wire = [q \in Queues |-> [pdus |-> <<>>, half |-> FALSE]]
  /\ seg = Idle
  /\ \E m \in AuthModes : target = [NewTarget EXCEPT !.step =
                                      IF m = "no" THEN "done" ELSE m]
  /\ budget = [req |-> MaxRequests, mem |-> MaxNoMem, win |-> MaxWindow,
               fault |-> MaxFaults]

-----------------------------------------------------------------------------
(* The target (external): nvmet answering the commands of one queue in     *)
(* order.  step is what its DH-HMAC-CHAP exchange expects next; "atr" and  *)
(* "status" are the two ways in which it may ask for one.                  *)

Response(c, s) == [type |-> "response", cid |-> c.cid, status |-> s,
                   data |-> Content("none"), offset |-> 0]
C2hData(c, d, o) == [type |-> "c2hdata", cid |-> c.cid, status |-> "ok",
                     data |-> d, offset |-> o]
Other(c, t) == [type |-> t, cid |-> c.cid, status |-> "ok",
                data |-> Content("none"), offset |-> 0]
DataThenResponse(c, k) == <<C2hData(c, Content(k), 0), Response(c, "ok")>>

\* Whether command c is in sequence for target state t.
InSequence(t, q, c) ==
  CASE c.op \in {"negotiate", "reply"} -> t.step = c.op
    [] c.op = "auth_receive" -> t.step \in {"challenge", "success1"}
    [] c.op = "prop_set" -> t.step = "done"
    [] c.op \in {"identify_ctrl", "identify_ns"} -> t.enabled
    [] c.op = "connect" /\ q = "io" -> t.enabled
    [] OTHER -> TRUE

\* The effect of an executed command on the target ...
Execute(t, q, c) ==
  CASE c.op = "connect" /\ q = "admin" ->
         [t EXCEPT !.step = IF t.step \in {"atr", "status"}
                            THEN "negotiate" ELSE t.step]
    [] c.op = "connect" /\ q = "io" ->
         [t EXCEPT !.cntlerr = t.cntlerr \/ c.id # CntlId]
    [] c.op = "negotiate" -> [t EXCEPT !.step = "challenge"]
    [] c.op = "reply" -> [t EXCEPT !.step = "success1"]
    [] c.op = "auth_receive" ->
         [t EXCEPT !.step = IF t.step = "challenge" THEN "reply" ELSE "done"]
    [] c.op = "prop_set" -> [t EXCEPT !.enabled = TRUE]
    [] c.op \in {"read", "h2cdata"} -> [t EXCEPT !.done = @ \union {c.id}]
    [] OTHER -> t

\* ... and the PDUs with which it answers.
Answer(t, q, c) ==
  CASE c.op = "icreq" -> <<Other(c, "icresp")>>
    [] c.op = "connect" /\ q = "admin" ->
         <<Response(c, IF t.step = "atr" THEN "atr"
                       ELSE IF t.step = "status" THEN "authreq" ELSE "ok")>>
    [] c.op = "connect" /\ q = "io" ->
         <<Response(c, IF c.id = CntlId THEN "ok" ELSE "fail")>>
    [] c.op = "auth_receive" -> DataThenResponse(c, t.step)
    [] c.op = "identify_ctrl" -> DataThenResponse(c, "ctrl")
    [] c.op = "identify_ns" -> DataThenResponse(c, "ns")
    [] c.op = "read" -> [k \in 1..Frags |-> C2hData(c, Block(c.id, k), k - 1)]
                          \o <<Response(c, "ok")>>
    [] OTHER -> <<Response(c, "ok")>>

\* A faulty answer: an error status, malformed contents, or a terminate PDU.
Faulty(c, out, fault) ==
  CASE fault = "status" -> <<Response(c, "fail")>>
    [] fault = "data" ->
         [i \in DOMAIN out |->
            CASE out[i].type = "c2hdata" ->
                   [out[i] EXCEPT !.data = Content("failure1")]
              [] out[i].type \in {"icresp", "r2t"} ->
                   [out[i] EXCEPT !.offset = 1]
              [] OTHER -> out[i]]
    [] fault = "term" -> <<Junk>>
    [] OTHER -> out

\* Commands that one session has reason to send only once per queue.
SetupOnce == {"icreq", "connect", "negotiate", "reply", "prop_set",
              "identify_ctrl", "identify_ns"}

TargetStep(q, fault, r2t) ==
  /\ host.closed = "open" /\ ~seg.on /\ host.sock[q].h2t # <<>>
  /\ Len(wire[q].pdus) < MaxWire
  /\ fault # "none" => budget.fault > 0
  /\ fault = "data" => Head(host.sock[q].h2t).op # "read"
  /\ LET c == Head(host.sock[q].h2t)
         t == [target EXCEPT !.seen = @ \union {<<q, c.op>>},
                             !.resent = @ \/ (c.op \in SetupOnce
                                               /\ <<q, c.op>> \in target.seen),
                             !.seqerr = @ \/ ~InSequence(target, q, c)]
         asks == c.op = "write" /\ r2t
         out == IF ~InSequence(target, q, c) THEN <<Response(c, "fail")>>
                ELSE IF asks THEN <<Other(c, "r2t")>>
                ELSE Answer(target, q, c)
     IN  /\ r2t => (c.op = "write" /\ R2t)
         /\ target' = IF InSequence(target, q, c) /\ fault \in {"none", "data"}
                         /\ ~asks
                      THEN Execute(t, q, IF c.op = "write"
                                         THEN [c EXCEPT !.op = "h2cdata"]
                                         ELSE c)
                      ELSE t
         /\ wire' = [wire EXCEPT ![q] =
                        [wire[q] EXCEPT !.pdus = @ \o Faulty(c, out, fault)]]
  /\ host' = [host EXCEPT !.sock[q] =
                [host.sock[q] EXCEPT !.h2t = Tail(host.sock[q].h2t)]]
  /\ budget' = IF fault = "none" THEN budget
               ELSE [budget EXCEPT !.fault = @ - 1]
  /\ UNCHANGED seg

-----------------------------------------------------------------------------
(* TCP (external).  A segment acknowledges first, then delivers its PDUs   *)
(* one by one, then reports a changed window.  One transmitted packet may  *)
(* be unacknowledged, and the window is zero until it is acknowledged.     *)
(* Over TLS a segment stands for one record: the filter reports the window *)
(* after each record, and a failed delivery closes the connection.         *)

Live == host.closed = "open" /\ ~seg.on
Mem == {"ok"} \union (IF budget.mem > 0 THEN {"iob", "heap"} ELSE {})
SpendMem(mem) == IF mem = "ok" THEN budget
                 ELSE [budget EXCEPT !.mem = @ - 1]

ConnectDone(q, w) ==
  /\ Live /\ host.sock[q].conn = "syn"
  /\ host' = TxResume([host EXCEPT !.sock[q] =
                       [host.sock[q] EXCEPT !.conn = "open", !.win = w]])
  /\ UNCHANGED <<wire, seg, target, budget>>

\* Replies to the unacknowledged packet carry its acknowledgement.
CarriesAck(q, k) ==
  \E i \in 1..k : wire[q].pdus[i].cid = host.sock[q].unacked

SegStart(q, n, tail, ack, w) ==
  /\ Live /\ host.sock[q].conn = "open"
  /\ tail => n < Len(wire[q].pdus) /\ (n > 0 \/ ~wire[q].half)
  /\ q \notin Split /\ n > 0 => wire[q].pdus[n].type # "c2hdata"
  /\ ack => host.sock[q].unacked # NoCid
  /\ CarriesAck(q, IF tail THEN n + 1 ELSE n) => ack
  /\ ack => Len(host.sock[q].h2t) <= MaxWire
  /\ LET u == IF ack THEN NoCid ELSE host.sock[q].unacked
         empty == n = 0 /\ ~tail /\ ~ack
         change == ~ack /\ w # host.sock[q].win
         spend == (empty /\ ~change) \/ (change /\ w < host.sock[q].win)
     IN  /\ IF u # NoCid THEN w = 0 ELSE w \in Windows
         /\ empty => change \/ UseTls
         /\ spend => budget.win > 0
         /\ host' = [host EXCEPT !.sock[q] =
                        [host.sock[q] EXCEPT !.unacked = u, !.win = w]]
         /\ budget' = IF spend THEN [budget EXCEPT !.win = @ - 1] ELSE budget
  /\ seg' = [on |-> TRUE, q |-> q, n |-> n, tail |-> tail,
             win |-> host.sock[q].win]
  /\ UNCHANGED <<wire, target>>

\* One PDU of the segment.  On an error the rest of the segment is lost.
SegPdu(mem) ==
  /\ seg.on /\ seg.n > 0
  /\ LET q == seg.q
         ps == wire[q].pdus
         t == SocketDeliver(host, q, ps[1], wire[q].half, mem)
     IN  IF t.rc = "ok"
         THEN /\ host' = t
              /\ wire' = [wire EXCEPT ![q] = [pdus |-> Tail(ps),
                                              half |-> FALSE]]
              /\ seg' = [seg EXCEPT !.n = @ - 1]
         ELSE /\ host' = IF UseTls THEN NvmetcpClose(t, t.rc) ELSE t
              /\ wire' = [wire EXCEPT ![q] =
                            [pdus |-> SubSeq(ps, seg.n + 1, Len(ps)),
                             half |-> seg.tail]]
              /\ seg' = IF UseTls THEN Idle
                        ELSE [seg EXCEPT !.n = 0, !.tail = FALSE]
  /\ budget' = SpendMem(mem)
  /\ UNCHANGED target

\* The front half of a further PDU, then the window notification.
SegEnd(mem) ==
  /\ seg.on /\ seg.n = 0
  /\ LET q == seg.q
         t == IF seg.tail THEN SocketDeliverPart(host, q, mem)
              ELSE Rc(host, "ok")
     IN  /\ host' = IF UseTls /\ t.rc # "ok" THEN NvmetcpClose(t, t.rc)
                    ELSE IF UseTls \/ t.sock[q].win # seg.win
                    THEN TxResume(t) ELSE t
         /\ wire' = [wire EXCEPT ![q] =
                        [wire[q] EXCEPT !.half = @ \/ seg.tail]]
  /\ seg' = Idle
  /\ budget' = SpendMem(mem)
  /\ UNCHANGED target

-----------------------------------------------------------------------------
(* The event loop and the consumer.                                        *)

Step(mem, rng) ==
  /\ Live /\ host.running
  /\ ~rng => budget.fault > 0
  /\ host' = NvmetcpStep(host, mem, rng)
  /\ budget' = [SpendMem(mem) EXCEPT !.fault = IF rng THEN @ ELSE @ - 1]
  /\ UNCHANGED <<wire, seg, target>>

Request(op) == [op |-> op, id |-> 1 + MaxRequests - budget.req]

\* The consumer has one request outstanding at a time.
Submit(op, mem) ==
  /\ Live /\ host.req = NoReq /\ budget.req > 0
  /\ host' = IF op = "capacity" THEN BlockReadCapacity(host, Request(op))
             ELSE BlockRw(host, Request(op), mem)
  /\ budget' = [SpendMem(mem) EXCEPT !.req = @ - 1]
  /\ UNCHANGED <<wire, seg, target>>

\* The consumer gives up (command timeout).
CommandClose ==
  /\ Live /\ host.req # NoReq /\ budget.fault > 0
  /\ host' = NvmetcpCommandClose(host, "ETIMEDOUT")
  /\ budget' = [budget EXCEPT !.fault = @ - 1]
  /\ UNCHANGED <<wire, seg, target>>

\* A socket or the control interface is closed from the other side.
Close(code) ==
  /\ Live /\ budget.fault > 0
  /\ host' = NvmetcpClose(host, code)
  /\ budget' = [budget EXCEPT !.fault = @ - 1]
  /\ UNCHANGED <<wire, seg, target>>

AnyStep == \E mem \in Mem, rng \in BOOLEAN : Step(mem, rng)
AnySegStart ==
  \E q \in Queues, tail \in BOOLEAN, ack \in BOOLEAN, w \in Windows \union {0} :
    \E n \in 0..Len(wire[q].pdus) : SegStart(q, n, tail, ack, w)
AnySegPdu == \E mem \in Mem : SegPdu(mem)
AnySegEnd == \E mem \in Mem : SegEnd(mem)
AnyConnectDone == \E q \in Queues, w \in Windows : ConnectDone(q, w)
AnyTargetStep ==
  \E q \in Queues, f \in {"none", "status", "data", "term"}, r \in BOOLEAN :
    TargetStep(q, f, r)
AnySubmit ==
  \E op \in {"capacity", "read", "write"}, mem \in Mem : Submit(op, mem)

Next == \/ AnyStep \/ AnySegStart \/ AnySegPdu \/ AnySegEnd
        \/ AnyConnectDone \/ AnyTargetStep \/ AnySubmit
        \/ CommandClose
        \/ \E code \in {"ok", "ETIMEDOUT"} : Close(code)

Spec == Init /\ [][Next]_vars

\* iPXE polls the network and steps every added process for ever; TCP
\* retransmits until acknowledged; the target answers what it receives.  The
\* callback that delivers a segment runs to its end: SegPdu and SegEnd are
\* enabled, and nothing else is, for as long as seg.on.
Fairness ==
  /\ []<>(~seg.on)
  /\ WF_vars(AnyStep) /\ WF_vars(AnySegStart)
  /\ WF_vars(AnyConnectDone) /\ WF_vars(AnyTargetStep)
FairSpec == Spec /\ Fairness

-----------------------------------------------------------------------------
(* Properties.                                                             *)

\* Every variable has its type: the session is a well-formed
\* struct nvmetcp_session and the environment a well-formed target and wire.
TypeOK ==
  /\ host \in Hosts /\ wire \in [Queues -> Links] /\ seg \in Segs
  /\ target \in Targets /\ budget \in Budgets

\* The process is never scheduled while a command is in flight: whichever of
\* completion, data, window change or step comes next, nvmetcp_step cannot
\* transmit behind an unanswered command.
NoStepInFlight == host.running => ~host.tx_in_flight

\* Once the success1 message has been validated the authentication machine
\* rests in START: no late completion, window retry or step sends another
\* authentication message (nvmetcp_auth_step's first guard).
NoRestartAfterSuccess == host.completed => host.step = "START"

\* The target never receives a command out of sequence: authentication
\* messages in order, Property Set after authentication, Identify and the
\* I/O Connect after Property Set (nvmetcp_tx_prop_set's comment).
NoSequenceError == ~target.seqerr

\* No setup command is sent twice on one queue (nvmetcp_tx_resume).
NoResend == ~target.resent

\* The I/O queue's Connect names the controller that the admin queue's
\* Connect created (nvmetcp_rx_command records it "for the I/O queue
\* connect").
IoConnectNamesController == ~target.cntlerr

\* A transfer that completes with success was carried out: a read returns
\* its own blocks, and a write has reached the target (nvmetcp_rx_command and
\* nvmetcp_rx_data complete whatever block command is pending).
GenuineTransfer ==
  host.res.rc = "ok" =>
    /\ host.res.req.op = "read" =>
         host.res.buf = [k \in 1..Frags |-> Block(host.res.req.id, k)]
    /\ host.res.req.op = "write" => host.res.req.id \in target.done

\* The capacity reported to the consumer is the one that Identify Namespace
\* returned, however early the consumer asked (nvmetcp_block_read_capacity).
GenuineCapacity ==
  host.res.rc = "ok" /\ host.res.req.op = "capacity" => host.res.cap = "ns"

\* A PDU whose front half was delivered is still being received: no
\* transmission (nvmetcp_tx_command resets rx) tears it apart.
RxInSync ==
  \A q \in Queues :
    host.closed = "open" /\ wire[q].half => host.sock[q].rx = "part"

\* A closed TCP window delays a session and never closes it.
TransientNeverFatal == host.closed # "EAGAIN"

\* A failed setup or authentication command closes the session once the
\* segment that reported it has been processed.
FailedSessionCloses == host.failed /\ ~seg.on => host.closed # "open"

\* Every request of the consumer is eventually answered.
RequestAnswered == host.req # NoReq ~> host.req = NoReq
=============================================================================
