--------------------------- MODULE NvmeTcpProofs ---------------------------
(***************************************************************************)
(* Proofs about the NVMe/TCP session, for every value of the constants and *)
(* every behaviour of the target.  The inductive invariant is TypeOK with  *)
(* Sane(host); each handler is shown to preserve Sane by a lemma of its    *)
(* own, in the order in which the handlers call each other.                *)
(***************************************************************************)
EXTENDS NvmeTcp, TLAPS

\* A well-formed session whose process is stopped while a command is in
\* flight and whose authentication machine rests once success1 is validated.
Sane(h) ==
  /\ h \in Hosts
  /\ h.running => ~h.tx_in_flight
  /\ h.completed => h.step = "START"

\* What no transmission changes.
SameAuth(t, h) ==
  /\ t.phase = h.phase /\ t.step = h.step
  /\ t.completed = h.completed /\ t.rx_complete = h.rx_complete

-----------------------------------------------------------------------------
(* Records.                                                                *)

\* Sending replaces the window, the unacknowledged packet and the queue.
LEMMA SockTx ==
  ASSUME NEW z \in Socks, NEW a \in Pipes, NEW c \in 0..CidMod,
         NEW w \in 0..2
  PROVE  [z EXCEPT !.win = w, !.unacked = c, !.h2t = a] \in Socks
  BY Zenon DEF Socks

\* Acknowledging or connecting replaces the window (TCP).
LEMMA SockWin ==
  ASSUME NEW z \in Socks, NEW c \in 0..CidMod, NEW w \in 0..2
  PROVE  /\ [z EXCEPT !.unacked = c, !.win = w] \in Socks
         /\ [z EXCEPT !.conn = "open", !.win = w] \in Socks
  BY Zenon DEF Socks

\* Opening a socket (nvmetcp_open_socket).
LEMMA SockOpen ==
  ASSUME NEW z \in Socks
  PROVE  [z EXCEPT !.conn = "syn", !.rx = "hdr"] \in Socks
  BY Zenon DEF Socks

\* The receive state takes any of its values.
LEMMA SockRx ==
  ASSUME NEW z \in Socks, NEW x \in {"hdr", "part", "stuck"}
  PROVE  [z EXCEPT !.rx = x] \in Socks
  BY DEF Socks

\* Resetting or advancing the PDU receive state (nvmetcp_rx_reset).
LEMMA RxSane ==
  ASSUME NEW h, Sane(h), NEW q \in Queues, NEW x \in {"hdr", "part", "stuck"}
  PROVE  LET t == Rx(h, q, x)
         IN  Sane(t) /\ SameAuth(t, h) /\ t.rc = h.rc
<1>1. [h.sock[q] EXCEPT !.rx = x] \in Socks
  BY Zenon, SockRx DEF Sane, Hosts
<1> DEFINE s == [h.sock[q] EXCEPT !.rx = x]
<1> HIDE DEF s
<1>2. LET t == [h EXCEPT !.sock[q] = s]
      IN  Sane(t) /\ SameAuth(t, h) /\ t.rc = h.rc
  BY <1>1 DEF Sane, SameAuth, Hosts, s
<1> QED BY <1>2 DEF Rx, s

\* Returning a code leaves the session alone.
LEMMA RcSane ==
  ASSUME NEW h, Sane(h), NEW c \in Codes
  PROVE  Sane(Rc(h, c)) /\ SameAuth(Rc(h, c), h) /\ Rc(h, c).rc = c
  BY DEF Sane, SameAuth, Rc, Hosts

-----------------------------------------------------------------------------
(* Transmission.                                                           *)

\* nvmetcp_tx_pdu stops the process whenever it puts a command in flight.
LEMMA TxPduSane ==
  ASSUME NEW h, Sane(h), NEW q \in Queues, NEW pdu \in HostPdus,
         NEW need, NEW mem
  PROVE  LET t == TxPdu(h, q, pdu, need, mem)
         IN  Sane(t) /\ SameAuth(t, h)
<1>1. pdu.cid \in 0..CidMod
  BY ConstantsOK DEF HostPdus, Cids
<1>2. h.sock[q] \in Socks
  BY DEF Hosts, Sane
<1>3. Append(h.sock[q].h2t, pdu) \in Seq(HostPdus)
  BY <1>2 DEF Socks, Pipes
<1> DEFINE s == [h.sock[q] EXCEPT !.win = 0, !.unacked = pdu.cid,
                   !.h2t = Append(h.sock[q].h2t, pdu)]
           t == [h EXCEPT !.rc = "ok", !.tx_in_flight = TRUE,
                          !.running = FALSE, !.sock[q] = s]
<1>4. s \in Socks
  <2>1. 0 \in 0..2
    OBVIOUS
  <2> QED BY <1>1, <1>2, <1>3, <2>1, SockTx, Zenon DEF Pipes
<1>5. Sane(t) /\ SameAuth(t, h)
  <2> HIDE DEF s
  <2> QED BY ZenonT(40), <1>4 DEF Hosts, Codes, Sane, SameAuth
<1>6. \A c \in {"EAGAIN", "ENOMEM"} : Sane(Rc(h, c)) /\ SameAuth(Rc(h, c), h)
  BY RcSane DEF Codes
<1> QED
  BY <1>5, <1>6 DEF TxPdu

\* nvmetcp_tx_command, whatever the outcome of the send.
LEMMA TxCommandSane ==
  ASSUME NEW h, Sane(h), NEW q \in Queues, NEW id \in Nat, NEW recv \in Nat,
         NEW mem,
         NEW op \in {"connect", "negotiate", "reply", "auth_receive",
                     "prop_set", "identify_ctrl", "identify_ns", "read",
                     "write"}
  PROVE  LET t == TxCommand(h, q, op, id, recv, mem)
         IN  Sane(t) /\ SameAuth(t, h)
<1> DEFINE c == NextCid(h)
           g == [h EXCEPT !.cid = c]
           pdu == [op |-> op, cid |-> c, id |-> id]
           t == TxPdu(g, q, pdu, 1, mem)
           u == [t EXCEPT !.cmd_data_len = recv, !.cmd_data_offset = 0]
<1>1. c \in Cids
  <2>1. h.cid \in Nat
    BY ConstantsOK DEF Sane, Hosts, Cids
  <2> QED BY <2>1, ConstantsOK DEF NextCid, Cids
<1>2. Sane(g) /\ SameAuth(g, h)
  <2> HIDE DEF c
  <2> QED BY <1>1 DEF Sane, SameAuth, Hosts
<1>3. pdu \in HostPdus
  <2> HIDE DEF c
  <2> QED BY <1>1 DEF HostPdus, HostOps
<1>4. Sane(t) /\ SameAuth(t, g)
  <2> HIDE DEF g, pdu
  <2> QED BY <1>2, <1>3, TxPduSane
<1>5. SameAuth(t, h)
  BY <1>2, <1>4 DEF SameAuth
<1>6. Sane(u) /\ SameAuth(u, h)
  <2> HIDE DEF t
  <2> QED BY ZenonT(40), <1>4, <1>5 DEF Sane, SameAuth, Hosts
<1>7. Sane(Rx(u, q, "hdr")) /\ SameAuth(Rx(u, q, "hdr"), h)
  <2> HIDE DEF u
  <2> QED BY <1>6, RxSane DEF SameAuth
<1> QED
  BY <1>4, <1>5, <1>7 DEF TxCommand

\* Each of the commands that nvmetcp_step sends.
LEMMA SendersSane ==
  ASSUME NEW h, Sane(h), NEW q \in Queues, NEW mem
  PROVE  /\ Sane(TxIcreq(h, q, mem)) /\ Sane(TxConnect(h, q, mem))
         /\ Sane(TxPropSet(h, mem))
         /\ \A op \in {"identify_ctrl", "identify_ns"} :
              Sane(TxIdentify(h, op, mem))
<1>1. Sane(TxIcreq(h, q, mem))
  <2>1. [op |-> "icreq", cid |-> h.cid, id |-> 0] \in HostPdus
    BY DEF Sane, Hosts, HostPdus, HostOps
  <2> QED BY <2>1, TxPduSane DEF TxIcreq
<1>2. Sane(TxConnect(h, q, mem))
  <2>1. (IF q = "io" THEN h.cntlid ELSE 65535) \in Nat
    BY DEF Sane, Hosts
  <2> QED BY <2>1, TxCommandSane DEF TxConnect
<1>3. Sane(TxPropSet(h, mem))
  BY TxCommandSane DEF TxPropSet, Queues
<1>4. ASSUME NEW op \in {"identify_ctrl", "identify_ns"}
      PROVE  Sane(TxIdentify(h, op, mem))
  BY TxCommandSane DEF TxIdentify, Queues
<1> QED BY <1>1, <1>2, <1>3, <1>4

\* nvmetcp_tx_h2cdata answers an R2T.
LEMMA TxH2cDataSane ==
  ASSUME NEW h, Sane(h), NEW r2t \in CtrlPdus, NEW mem
  PROVE  Sane(TxH2cData(h, r2t, mem))
<1>1. [op |-> "h2cdata", cid |-> r2t.cid, id |-> h.req.id] \in HostPdus
  BY DEF Sane, Hosts, Requests, HostPdus, HostOps, CtrlPdus
<1>2. Sane(Rc(h, "EPROTO"))
  BY RcSane DEF Codes
<1> QED BY <1>1, <1>2, TxPduSane DEF TxH2cData, Queues

\* nvmetcp_tx_resume and process_add start the process only when no command
\* is in flight.
LEMMA ResumeSane ==
  ASSUME NEW h, Sane(h)
  PROVE  /\ Sane(TxResume(h)) /\ SameAuth(TxResume(h), h)
         /\ ~h.tx_in_flight => Sane(Add(h)) /\ SameAuth(Add(h), h)
<1>1. CASE h.tx_in_flight
  BY <1>1 DEF Sane, SameAuth, TxResume
<1>2. CASE ~h.tx_in_flight
  <2>1. Sane(Add(h)) /\ SameAuth(Add(h), h)
    BY ZenonT(40), <1>2 DEF Sane, SameAuth, Add, Hosts, Codes
  <2>2. Sane([h EXCEPT !.running = TRUE])
        /\ SameAuth([h EXCEPT !.running = TRUE], h)
    BY Zenon, <1>2 DEF Sane, SameAuth, Hosts
  <2> QED BY <1>2, <2>1, <2>2 DEF TxResume
<1> QED BY <1>1, <1>2

\* nvmetcp_open_socket.
LEMMA OpenSocketSane ==
  ASSUME NEW h, Sane(h), NEW q \in Queues, NEW p \in Phases, NEW mem
  PROVE  Sane(OpenSocket(h, q, p, mem))
<1> DEFINE s == [h.sock[q] EXCEPT !.conn = "syn", !.rx = "hdr"]
           t == [h EXCEPT !.rc = "ok", !.phase = p, !.sock[q] = s]
<1>1. s \in Socks
  BY Zenon, SockOpen DEF Sane, Hosts
<1>2. Sane(t)
  <2> HIDE DEF s
  <2> QED BY ZenonT(40), <1>1 DEF Sane, Hosts, Codes
<1>3. Sane(TxResume(t))
  <2> HIDE DEF t
  <2> QED BY <1>2, ResumeSane
<1>4. Sane(Rc(h, "ENOMEM"))
  BY RcSane DEF Codes
<1> QED BY <1>3, <1>4 DEF OpenSocket

\* Answering the consumer (intf_restart) and nvmetcp_close.
LEMMA RestartSane ==
  ASSUME NEW h, Sane(h), NEW c \in Codes
  PROVE  /\ Sane(IntfRestart(h, c)) /\ SameAuth(IntfRestart(h, c), h)
         /\ IntfRestart(h, c).tx_in_flight = h.tx_in_flight
         /\ IntfRestart(h, c).rc = h.rc
<1> DEFINE res == [req |-> h.req, rc |-> c, buf |-> h.block_buffer,
                   cap |-> h.capacity]
           t == [h EXCEPT !.req = NoReq, !.res = res]
<1>1. res \in [req : Requests, rc : Codes, buf : Buffers,
              cap : {"unknown", "ns"}]
  BY DEF Sane, Hosts
<1>2. NoReq \in Requests
  BY DEF NoReq, Requests
<1>3. /\ Sane(t) /\ SameAuth(t, h)
      /\ t.tx_in_flight = h.tx_in_flight /\ t.rc = h.rc
  <2> HIDE DEF res
  <2> QED BY ZenonT(40), <1>1, <1>2 DEF Sane, SameAuth, Hosts
<1> QED BY <1>3 DEF IntfRestart, SameAuth

LEMMA CloseSane ==
  ASSUME NEW h, Sane(h), NEW c \in Codes
  PROVE  Sane(NvmetcpClose(h, c))
<1> DEFINE r == IF c = "ok" THEN "ECONNRESET" ELSE c
           t == IntfRestart(h, r)
<1>1. r \in Codes
  BY DEF Codes
<1>2. Sane(t)
  <2> HIDE DEF r
  <2> QED BY <1>1, RestartSane
<1>3. Sane([t EXCEPT !.capacity_data = FALSE, !.running = FALSE,
                     !.closed = r])
  <2> HIDE DEF t, r
  <2> QED BY ZenonT(40), <1>1, <1>2 DEF Sane, Hosts
<1> QED BY <1>3 DEF NvmetcpClose

-----------------------------------------------------------------------------
(* Authentication.                                                         *)

\* Storing a message at the start of cmd_buf.
LEMMA CmdBufType ==
  ASSUME NEW b \in Buffers, NEW d \in Data
  PROVE  [b EXCEPT ![1] = d] \in Buffers
  BY ConstantsOK DEF Buffers

\* Before success1 is validated an AuthReceive may be sent or retried
\* (nvmetcp_auth_tx_receive_step).
LEMMA AuthTxReceiveStepSane ==
  ASSUME NEW h, Sane(h), ~h.completed, NEW mem,
         NEW next \in {"CHALLENGE", "SUCCESS1"}
  PROVE  LET t == AuthTxReceiveStep(h, next, mem)
         IN  Sane(t) /\ t.phase = h.phase /\ ~t.completed
<1> DEFINE t == TxCommand(h, "admin", "auth_receive", 0, 1, mem)
<1>1. Sane(t) /\ SameAuth(t, h)
  BY TxCommandSane DEF Queues
<1> HIDE DEF t
<1>2. \A st \in AuthSteps :
        LET u == [t EXCEPT !.step = st]
        IN  Sane(u) /\ u.phase = h.phase /\ ~u.completed
  BY <1>1 DEF Sane, SameAuth, Hosts
<1>3. LET u == [t EXCEPT !.step = next, !.rx_cid = t.cid]
      IN  Sane(u) /\ u.phase = h.phase /\ ~u.completed
  BY ZenonT(40), <1>1 DEF Sane, SameAuth, Hosts, AuthSteps
<1> QED
  BY <1>2, <1>3 DEF AuthTxReceiveStep, t, AuthSteps

\* nvmetcp_auth_tx_reply, called for a valid challenge.
LEMMA AuthTxReplySane ==
  ASSUME NEW h, Sane(h), NEW mem
  PROVE  LET t == AuthTxReply(h, mem) IN Sane(t) /\ SameAuth(t, h)
<1> DEFINE b == [h.cmd_buf EXCEPT ![1] = Content("reply")]
           g == [h EXCEPT !.cmd_buf = b]
<1>1. b \in Buffers
  <2>1. Content("reply") \in Data
    BY DEF Content, Data
  <2> QED BY <2>1, CmdBufType DEF Sane, Hosts
<1>2. Sane(g) /\ SameAuth(g, h)
  <2> HIDE DEF b
  <2> QED BY <1>1 DEF Sane, SameAuth, Hosts
<1>3. g = [h EXCEPT !.cmd_buf[1] = Content("reply")]
  OBVIOUS
<1>4. LET t == TxCommand(g, "admin", "reply", 0, 0, mem)
      IN  Sane(t) /\ SameAuth(t, g)
  <2> HIDE DEF g
  <2> QED BY <1>2, TxCommandSane DEF Queues
<1>5. \A c \in {"EINVAL", "ENOMEM"} : Sane(Rc(h, c)) /\ SameAuth(Rc(h, c), h)
  BY RcSane DEF Codes
<1> HIDE DEF g
<1> QED
  BY <1>2, <1>3, <1>4, <1>5 DEF AuthTxReply, SameAuth

\* A message is rejected with one of two codes.
LEMMA ValidateType ==
  ASSUME NEW h, NEW e
  PROVE  AuthRxValidate(h, e) \in {"ok", "EACCES", "EPROTO"}
  BY DEF AuthRxValidate

\* Authentication data: the challenge answered, or success1 validated, which
\* returns the machine to START in the same call (nvmetcp_auth_rx_data).
LEMMA AuthRxDataSane ==
  ASSUME NEW h, Sane(h), ~h.tx_in_flight, NEW mem
  PROVE  LET t == AuthRxData(h, mem)
         IN  /\ Sane(t) /\ t.phase = h.phase
             /\ t.completed => ~t.tx_in_flight
<1>0. \A c \in Codes : /\ Sane(Rc(h, c)) /\ Rc(h, c).phase = h.phase
                       /\ ~Rc(h, c).tx_in_flight
  BY DEF Sane, Rc, Hosts
<1>1. CASE h.step = "CHALLENGE"
  <2> DEFINE t == AuthRxChallenge(h, mem)
  <2>1. ~h.completed
    BY <1>1 DEF Sane
  <2>2. Sane(t) /\ SameAuth(t, h)
    <3>1. \A c \in Codes : Sane(Rc(h, c)) /\ SameAuth(Rc(h, c), h)
      BY RcSane
    <3> QED BY <3>1, AuthTxReplySane, ValidateType
            DEF AuthRxChallenge, Codes
  <2> HIDE DEF t
  <2>3. LET u == [t EXCEPT !.step = "COMPLETE_REPLY"]
        IN  Sane(u) /\ u.phase = h.phase /\ ~u.completed
    BY <2>1, <2>2 DEF Sane, SameAuth, Hosts, AuthSteps
  <2> QED BY <1>1, <2>1, <2>2, <2>3 DEF AuthRxData, SameAuth, t
<1>2. CASE h.step = "SUCCESS1"
  <2> DEFINE u == [[h EXCEPT !.rc = "ok", !.completed = TRUE]
                     EXCEPT !.step = "START"]
  <2>1. Sane(u) /\ u.phase = h.phase /\ ~u.tx_in_flight
    <3>1. u = [h EXCEPT !.rc = "ok", !.completed = TRUE, !.step = "START"]
      BY DEF Sane, Hosts
    <3>2. "ok" \in Codes /\ "START" \in AuthSteps
      BY DEF Codes, AuthSteps
    <3> HIDE DEF u
    <3> QED BY ZenonT(40), <3>1, <3>2 DEF Sane, Hosts
  <2>2. AuthRxData(h, mem) = u \/ \E c \in Codes : AuthRxData(h, mem) = Rc(h, c)
    <3>1. [h EXCEPT !.rc = "ok", !.completed = TRUE].rc = "ok"
      BY DEF Sane, Hosts
    <3>2. \A c \in Codes : Rc(h, c).rc = c
      BY RcSane
    <3>3. {"ok", "EACCES", "EPROTO"} \subseteq Codes
      BY DEF Codes
    <3>4. CASE AuthRxValidate(h, "success1") = "ok"
      BY <1>2, <3>1, <3>4 DEF AuthRxData, AuthRxSuccess1
    <3>5. CASE AuthRxValidate(h, "success1") # "ok"
      BY <1>2, <3>2, <3>3, <3>5, ValidateType DEF AuthRxData, AuthRxSuccess1
    <3> QED BY <3>4, <3>5
  <2> HIDE DEF u
  <2> QED BY <1>0, <2>1, <2>2
<1>3. CASE h.step \notin {"CHALLENGE", "SUCCESS1"}
  BY <1>0, <1>3 DEF AuthRxData, Codes
<1> QED BY <1>1, <1>2, <1>3

\* The completion of an authentication command (nvmetcp_auth_rx_complete):
\* once success1 has been validated it transmits nothing.
LEMMA AuthRxCompleteSane ==
  ASSUME NEW h, Sane(h), ~h.tx_in_flight, NEW mem
  PROVE  LET t == AuthRxComplete(h, mem)
         IN  /\ Sane(t) /\ t.phase = h.phase
             /\ t.completed => ~t.tx_in_flight
<1>1. CASE h.step \in {"COMPLETE_NEGOTIATE", "COMPLETE_REPLY"}
  <2>1. ~h.completed
    BY <1>1 DEF Sane
  <2> QED BY <1>1, <2>1, AuthTxReceiveStepSane DEF AuthRxComplete
<1>2. CASE h.step = "CHALLENGE"
  BY <1>2 DEF AuthRxComplete, Rc, Sane, Hosts, Codes
<1>3. CASE h.step \in {"SUCCESS1", "START"}
  <2> DEFINE b == h.rx_complete \/ h.cid_cqe = h.rx_cid
  <2>1. b \in BOOLEAN
    BY DEF Sane, Hosts
  <2>2. AuthRxComplete(h, mem) = [h EXCEPT !.rc = "ok", !.rx_complete = b]
    BY <1>3 DEF AuthRxComplete
  <2> HIDE DEF b
  <2>3. "ok" \in Codes
    BY DEF Codes
  <2> DEFINE u == [h EXCEPT !.rc = "ok", !.rx_complete = b]
  <2>4. u \in Hosts
    BY Zenon, <2>1, <2>3 DEF Sane, Hosts
  <2>5. /\ u.phase = h.phase /\ ~u.tx_in_flight
        /\ u.completed => u.step = "START"
    BY DEF Sane, Hosts
  <2> HIDE DEF u
  <2>6. AuthRxComplete(h, mem) = u
    BY <2>2 DEF u
  <2> QED BY <2>4, <2>5, <2>6 DEF Sane
<1>4. h.step \in AuthSteps
  BY DEF Sane, Hosts
<1> QED BY <1>1, <1>2, <1>3, <1>4 DEF AuthSteps

\* The end of the authentication phase starts the process, and no command is
\* in flight then.
LEMMA AuthFinishSane ==
  ASSUME NEW h, Sane(h), h.phase = "AUTH", h.completed => ~h.tx_in_flight
  PROVE  Sane(AuthFinish(h))
<1>1. CASE h.completed /\ h.rx_complete
  <2> DEFINE t == [h EXCEPT !.phase = "PROP_SET"]
  <2>1. Sane(t) /\ ~t.tx_in_flight /\ AuthTryComplete(h) = t
    BY <1>1 DEF Sane, Hosts, Phases, AuthTryComplete
  <2> HIDE DEF t
  <2> QED BY <2>1, ResumeSane DEF AuthFinish
<1>2. CASE ~(h.completed /\ h.rx_complete)
  BY <1>2 DEF AuthFinish, AuthTryComplete
<1> QED BY <1>1, <1>2

\* nvmetcp_auth_step.
LEMMA AuthStepSane ==
  ASSUME NEW h, Sane(h), NEW mem, NEW rng \in BOOLEAN
  PROVE  Sane(AuthStep(h, mem, rng))
<1>0. \A c \in {"ok", "EIO"} : Sane(Rc(h, c))
  BY RcSane DEF Codes
<1>1. CASE h.step = "START" /\ ~h.completed /\ rng
  <2> DEFINE g == [h EXCEPT !.step = "COMPLETE_NEGOTIATE"]
  <2>1. Sane(g)
    BY <1>1 DEF Sane, Hosts, AuthSteps
  <2>2. AuthStep(h, mem, rng) = TxCommand(g, "admin", "negotiate", 0, 0, mem)
    BY <1>1 DEF AuthStep
  <2> HIDE DEF g
  <2> QED BY <2>1, <2>2, TxCommandSane DEF Queues
<1>2. CASE h.step \in {"COMPLETE_NEGOTIATE", "COMPLETE_REPLY"}
           /\ ~h.tx_in_flight
  <2>1. ~h.completed
    BY <1>2 DEF Sane
  <2> QED BY <1>2, <2>1, AuthTxReceiveStepSane DEF AuthStep
<1>3. CASE h.step = "START" /\ (h.completed \/ ~rng)
  BY <1>0, <1>3 DEF AuthStep
<1>4. CASE /\ h.step # "START"
           /\ h.step \in {"COMPLETE_NEGOTIATE", "COMPLETE_REPLY"}
                => h.tx_in_flight
  BY <1>0, <1>4 DEF AuthStep
<1> QED BY <1>1, <1>2, <1>3, <1>4

-----------------------------------------------------------------------------
(* Reception.                                                              *)

\* The values that the handlers assign.
LEMMA Values ==
  /\ {"ok", "EIO", "EPROTO", "EPERM", "EAGAIN", "ETIMEDOUT"} \subseteq Codes
  /\ {"AUTH", "PROP_SET", "IDENTIFY_CTRL", "IDENTIFY_NS", "ICREQ_IO", "READY",
      "CONNECT_IO", "CONNECT_ADMIN", "ICREQ"} \subseteq Phases
  /\ CntlId \in Nat /\ TRUE \in BOOLEAN /\ FALSE \in BOOLEAN
  /\ {"admin", "io"} \subseteq Queues
  BY DEF Codes, Phases, CntlId, Queues

\* nvmetcp_auth_required.
LEMMA AuthRequiredSane ==
  ASSUME NEW h, Sane(h), ~h.tx_in_flight
  PROVE  Sane(AuthRequired(h))
<1> DEFINE t == [h EXCEPT !.phase = "AUTH"]
<1>1. Sane(t) /\ ~t.tx_in_flight
  BY Values DEF Sane, Hosts
<1>2. Sane(Rc(h, "EPERM"))
  BY Values, RcSane
<1> HIDE DEF t
<1>3. Sane(Add(t))
  BY <1>1, ResumeSane
<1> QED BY <1>2, <1>3 DEF AuthRequired, t

\* The failure half of nvmetcp_rx_command.
LEMMA RxFailureSane ==
  ASSUME NEW h, Sane(h), ~h.tx_in_flight
  PROVE  Sane(RxFailure(h))
<1> DEFINE t == [h EXCEPT !.rc = "ok", !.block_data = FALSE]
           u == [h EXCEPT !.rc = "EIO", !.failed = TRUE]
<1>1. Sane(t)
  BY Zenon, Values DEF Sane, Hosts
<1>2. Sane(u)
  BY ZenonT(40), Values DEF Sane, Hosts
<1> HIDE DEF t, u
<1>3. Sane(IntfRestart(t, "EIO"))
  BY <1>1, Values, RestartSane
<1> QED BY <1>2, <1>3, AuthRequiredSane DEF RxFailure, t, u

\* The success half of nvmetcp_rx_command.
LEMMA RxSuccessSane ==
  ASSUME NEW h, Sane(h), ~h.tx_in_flight, NEW mem
  PROVE  Sane(RxSuccess(h, mem))
<1>1. CASE h.phase = "CONNECT_ADMIN" /\ h.status_cqe = "atr"
  <2> DEFINE t == [h EXCEPT !.cntlid = CntlId]
  <2>1. Sane(t) /\ ~t.tx_in_flight
    BY Values DEF Sane, Hosts
  <2>2. RxSuccess(h, mem) = AuthRequired(t)
    BY <1>1 DEF RxSuccess
  <2> HIDE DEF t
  <2> QED BY <2>1, <2>2, AuthRequiredSane
<1>2. CASE h.phase = "CONNECT_ADMIN" /\ h.status_cqe = "ok"
  <2> DEFINE t == [h EXCEPT !.cntlid = CntlId, !.phase = "PROP_SET"]
  <2>1. Sane(t) /\ ~t.tx_in_flight
    BY Zenon, Values DEF Sane, Hosts
  <2>2. RxSuccess(h, mem) = Add(t)
    BY <1>2 DEF RxSuccess
  <2> HIDE DEF t
  <2> QED BY <2>1, <2>2, ResumeSane
<1>3. CASE h.phase \in {"PROP_SET", "IDENTIFY_CTRL"}
  <2> DEFINE p == IF h.phase = "PROP_SET" THEN "IDENTIFY_CTRL"
                  ELSE "IDENTIFY_NS"
             t == [h EXCEPT !.phase = p]
  <2>1. p \in Phases
    BY Values
  <2>2. RxSuccess(h, mem) = Add(t)
    BY <1>3 DEF RxSuccess
  <2> HIDE DEF p
  <2>3. Sane(t) /\ ~t.tx_in_flight
    BY <2>1 DEF Sane, Hosts
  <2> HIDE DEF t
  <2> QED BY <2>2, <2>3, ResumeSane
<1>4. CASE h.phase = "IDENTIFY_NS"
  <2>1. RxSuccess(h, mem) = OpenSocket(h, "io", "ICREQ_IO", mem)
    BY <1>4 DEF RxSuccess
  <2> QED BY <2>1, Values, OpenSocketSane
<1>5. CASE h.phase = "AUTH"
  <2> DEFINE t == AuthRxComplete(h, mem)
  <2>1. Sane(t) /\ t.phase = "AUTH" /\ (t.completed => ~t.tx_in_flight)
    BY <1>5, AuthRxCompleteSane
  <2>2. RxSuccess(h, mem) = AuthFinish(t)
    BY <1>5 DEF RxSuccess
  <2> HIDE DEF t
  <2> QED BY <2>1, <2>2, AuthFinishSane
<1>6. CASE h.phase = "CONNECT_IO"
  <2> DEFINE r == [h EXCEPT !.rc = "ok", !.phase = "READY"]
             s == [r EXCEPT !.capacity_data = FALSE]
  <2>1. Sane(r)
    BY Zenon, Values DEF Sane, Hosts
  <2>2. RxSuccess(h, mem) = IntfRestart(s, "ok") \/ RxSuccess(h, mem) = r
    BY <1>6 DEF RxSuccess
  <2> HIDE DEF r
  <2>3. Sane(s)
    BY ZenonT(40), <2>1, Values DEF Sane, Hosts
  <2> HIDE DEF s
  <2> QED BY Zenon, <2>1, <2>2, <2>3, Values, RestartSane
<1>7. CASE h.phase = "READY"
  <2> DEFINE r == [h EXCEPT !.rc = "ok", !.block_data = FALSE]
  <2>1. Sane(r)
    BY Zenon, Values DEF Sane, Hosts
  <2>2. \/ RxSuccess(h, mem) = IntfRestart(r, "ok")
        \/ RxSuccess(h, mem) = Rc(h, "ok")
    BY <1>7 DEF RxSuccess
  <2> HIDE DEF r
  <2>3. Sane(IntfRestart(r, "ok")) /\ Sane(Rc(h, "ok"))
    BY <2>1, Values, RestartSane, RcSane
  <2> QED BY <2>2, <2>3
<1>8. CASE /\ h.phase \notin {"PROP_SET", "IDENTIFY_CTRL", "IDENTIFY_NS",
                              "AUTH", "CONNECT_IO", "READY"}
           /\ ~(h.phase = "CONNECT_ADMIN" /\ h.status_cqe \in {"ok", "atr"})
  <2>1. RxSuccess(h, mem) = Rc(h, "EPROTO")
    BY <1>8 DEF RxSuccess
  <2> QED BY <2>1, Values, RcSane
<1> QED BY <1>1, <1>2, <1>3, <1>4, <1>5, <1>6, <1>7, <1>8

\* nvmetcp_rx_command clears tx_in_flight before it looks at anything else.
LEMMA RxCommandSane ==
  ASSUME NEW h, Sane(h), NEW mem
  PROVE  Sane(RxCommand(h, mem))
<1> DEFINE i == [h EXCEPT !.tx_in_flight = FALSE]
<1>1. Sane(i) /\ ~i.tx_in_flight
  BY Zenon DEF Sane, Hosts
<1>2. RxCommand(h, mem) = RxSuccess(i, mem) \/ RxCommand(h, mem) = RxFailure(i)
  BY DEF RxCommand
<1> HIDE DEF i
<1> QED BY <1>1, <1>2, RxSuccessSane, RxFailureSane

\* nvmetcp_rx_data does so, too.
LEMMA RxDataSane ==
  ASSUME NEW h, Sane(h), NEW mem
  PROVE  Sane(RxData(h, mem))
<1> DEFINE i == [h EXCEPT !.tx_in_flight = FALSE, !.rc = "ok"]
           v == [i EXCEPT !.capacity = "ns"]
           w == [i EXCEPT !.block_buffer = h.cmd_buf, !.block_data = FALSE]
           t == AuthRxData(i, mem)
<1>1. Sane(i) /\ ~i.tx_in_flight /\ i.phase = h.phase /\ h.cmd_buf \in Buffers
  BY ZenonT(40), Values DEF Sane, Hosts
<1>2. \/ h.phase = "AUTH" /\ RxData(h, mem) = AuthFinish(t)
      \/ RxData(h, mem) = i \/ RxData(h, mem) = v
      \/ RxData(h, mem) = IntfRestart(w, "ok")
      \/ RxData(h, mem) = Rc(i, "EPROTO")
  BY DEF RxData
<1> HIDE DEF i
<1>3. Sane(v)
  BY <1>1 DEF Sane, Hosts
<1>4. Sane(w)
  BY ZenonT(40), <1>1 DEF Sane, Hosts
<1>5. Sane(IntfRestart(w, "ok")) /\ Sane(Rc(i, "EPROTO"))
  <2> HIDE DEF w
  <2> QED BY <1>1, <1>4, Values, RestartSane, RcSane
<1>6. /\ Sane(t) /\ t.phase = h.phase
      /\ t.completed => ~t.tx_in_flight
  BY <1>1, AuthRxDataSane
<1> HIDE DEF t, v, w
<1> QED BY <1>1, <1>2, <1>3, <1>5, <1>6, AuthFinishSane

\* The header of the PDU being received is a PDU.
LEMMA HdrType ==
  ASSUME NEW h, Sane(h), NEW q \in Queues
  PROVE  h.sock[q] \in Socks /\ h.sock[q].hdr \in CtrlPdus
<1>1. h.sock[q] \in Socks
  BY DEF Sane, Hosts
<1> QED BY <1>1 DEF Socks

\* nvmetcp_rx_pdu.
LEMMA RxPduSane ==
  ASSUME NEW h, Sane(h), NEW q \in Queues, NEW mem
  PROVE  Sane(RxPdu(h, q, mem))
<1> DEFINE pdu == h.sock[q].hdr
           p == IF q = "io" THEN "CONNECT_IO" ELSE "CONNECT_ADMIN"
           i == [h EXCEPT !.phase = p, !.tx_in_flight = FALSE]
           r == [h EXCEPT !.rc = "ok", !.cid_cqe = pdu.cid,
                          !.status_cqe = pdu.status]
           d == [h EXCEPT !.rc = "ok", !.cmd_data_len = h.cmd_data_offset + 1]
<1>1. pdu \in CtrlPdus
  BY HdrType
<1>2. \/ RxPdu(h, q, mem) = Rc(h, "EPROTO") \/ RxPdu(h, q, mem) = Add(i)
      \/ RxPdu(h, q, mem) = r \/ RxPdu(h, q, mem) = d
      \/ RxPdu(h, q, mem) = TxH2cData(h, pdu, mem)
  BY SMTT(40) DEF RxPdu
<1> HIDE DEF pdu
<1>3. p \in Phases
  BY Values
<1>4. Sane(Add(i))
  <2> HIDE DEF p
  <2>1. Sane(i) /\ ~i.tx_in_flight
    BY ZenonT(40), <1>3 DEF Sane, Hosts
  <2> HIDE DEF i
  <2> QED BY <2>1, ResumeSane
<1>5. Sane(r)
  <2>1. pdu.cid \in Cids /\ pdu.status \in {"ok", "atr", "authreq", "fail"}
    BY <1>1 DEF CtrlPdus
  <2> QED BY ZenonT(40), <2>1, Values DEF Sane, Hosts
<1>6. Sane(d)
  <2>1. h.cmd_data_offset + 1 \in Nat
    BY DEF Sane, Hosts
  <2> QED BY Zenon, <2>1, Values DEF Sane, Hosts
<1>7. Sane(Rc(h, "EPROTO"))
  BY Values, RcSane
<1>8. Sane(TxH2cData(h, pdu, mem))
  BY <1>1, TxH2cDataSane
<1> HIDE DEF i, r, d
<1> QED BY <1>2, <1>4, <1>5, <1>6, <1>7, <1>8

\* nvmetcp_rx_pdu_complete.
LEMMA RxPduCompleteSane ==
  ASSUME NEW h, Sane(h), NEW q \in Queues, NEW mem
  PROVE  Sane(RxPduComplete(h, q, mem))
<1> DEFINE u == CASE h.sock[q].hdr.type \in {"icresp", "r2t"} -> Rc(h, "ok")
                  [] h.sock[q].hdr.type = "response" -> RxCommand(h, mem)
                  [] h.sock[q].hdr.type = "c2hdata" ->
                       IF h.cmd_data_offset < h.cmd_data_len
                       THEN Rc(h, "ok") ELSE RxData(h, mem)
                  [] OTHER -> Rc(h, "EPROTO")
           y == IF u.rc = "ok" THEN "hdr" ELSE "stuck"
<1>1. RxPduComplete(h, q, mem) = Rx(u, q, y)
  BY DEF RxPduComplete
<1>2. Sane(u)
  <2>1. Sane(Rc(h, "ok")) /\ Sane(Rc(h, "EPROTO"))
    BY Values, RcSane
  <2>2. Sane(RxCommand(h, mem)) /\ Sane(RxData(h, mem))
    BY RxCommandSane, RxDataSane
  <2> QED BY <2>1, <2>2
<1>3. y \in {"hdr", "part", "stuck"}
  OBVIOUS
<1> HIDE DEF u, y
<1> QED BY SMTT(40), <1>1, <1>2, <1>3, RxSane

\* A whole PDU: header, data stored at the start of cmd_buf, completion.
LEMMA RxWholeSane ==
  ASSUME NEW h, Sane(h), NEW q \in Queues, NEW pdu \in CtrlPdus, NEW mem
  PROVE  Sane(RxWhole(h, q, pdu, mem))
<1> DEFINE s == [h.sock[q] EXCEPT !.hdr = pdu]
           g == [h EXCEPT !.sock[q] = s]
           t == RxPdu(g, q, mem)
           b == [t.cmd_buf EXCEPT ![1] = pdu.data]
           o == t.cmd_data_offset + 1
           d == [t EXCEPT !.cmd_buf = b, !.cmd_data_offset = o]
<1>1. s \in Socks
  BY HdrType DEF Socks
<1>2. Sane(g)
  <2> HIDE DEF s
  <2> QED BY <1>1 DEF Sane, Hosts
<1>3. Sane(t)
  <2> HIDE DEF g
  <2> QED BY <1>2, RxPduSane
<1> HIDE DEF t
<1>4. d = [t EXCEPT !.cmd_buf[1] = pdu.data,
                    !.cmd_data_offset = t.cmd_data_offset + 1]
  OBVIOUS
<1>5. Sane(d)
  <2>1. o \in Nat
    BY <1>3 DEF Sane, Hosts
  <2>2. b \in Buffers
    <3>1. pdu.data \in Data /\ t.cmd_buf \in Buffers
      BY <1>3 DEF CtrlPdus, Sane, Hosts
    <3> QED BY <3>1, CmdBufType
  <2> HIDE DEF b, o
  <2> QED BY ZenonT(40), <1>3, <2>1, <2>2 DEF Sane, Hosts
<1> HIDE DEF d
<1>6. Sane(Rx(t, q, "stuck"))
  BY <1>3, RxSane
<1>7. Sane(RxPduComplete(t, q, mem)) /\ Sane(RxPduComplete(d, q, mem))
  BY <1>3, <1>5, RxPduCompleteSane
<1> QED BY <1>4, <1>6, <1>7 DEF RxWhole, t

\* nvmetcp_socket_deliver, for a whole PDU and for the front half of one.
LEMMA SocketDeliverSane ==
  ASSUME NEW h, Sane(h), NEW q \in Queues, NEW pdu \in CtrlPdus, NEW half,
         NEW mem
  PROVE  /\ Sane(SocketDeliver(h, q, pdu, half, mem))
         /\ Sane(SocketDeliverPart(h, q, mem))
<1> DEFINE u == Unstick(h, q, mem)
           x == IF half /\ u.sock[q].rx # "part" THEN Junk ELSE pdu
<1>1. Sane(u)
  BY Zenon, RxPduCompleteSane, RcSane, Values DEF Unstick
<1> HIDE DEF u
<1>2. x \in CtrlPdus
  BY ConstantsOK DEF Junk, CtrlPdus, Cids, Content, Data
<1> HIDE DEF x
<1>3. Sane(RxWhole(u, q, x, mem))
  BY <1>1, <1>2, RxWholeSane
<1>4. Sane(Rx(u, q, "part"))
  BY <1>1, RxSane
<1> QED BY <1>1, <1>3, <1>4 DEF SocketDeliver, SocketDeliverPart, u, x

-----------------------------------------------------------------------------
(* The process, and the block interface.                                   *)

\* The command that nvmetcp_step sends in each phase.
LEMMA StepSendSane ==
  ASSUME NEW h, Sane(h), NEW mem, NEW rng \in BOOLEAN
  PROVE  Sane(StepSend(h, mem, rng))
<1>1. /\ Sane(TxIcreq(h, "admin", mem)) /\ Sane(TxIcreq(h, "io", mem))
      /\ Sane(TxConnect(h, "admin", mem)) /\ Sane(TxConnect(h, "io", mem))
      /\ Sane(TxPropSet(h, mem))
      /\ Sane(TxIdentify(h, "identify_ctrl", mem))
      /\ Sane(TxIdentify(h, "identify_ns", mem))
  BY Values, SendersSane
<1>2. Sane(AuthStep(h, mem, rng)) /\ Sane(Rc(h, "ok"))
  BY Values, AuthStepSane, RcSane
<1> QED BY <1>1, <1>2 DEF StepSend

\* nvmetcp_step.
LEMMA StepSane ==
  ASSUME NEW h, Sane(h), NEW mem, NEW rng \in BOOLEAN
  PROVE  Sane(NvmetcpStep(h, mem, rng))
<1> DEFINE t == StepSend(h, mem, rng)
<1>1. Sane(t)
  BY StepSendSane
<1> HIDE DEF t
<1>2. Sane([t EXCEPT !.running = FALSE])
  BY ZenonT(40), <1>1 DEF Sane, Hosts
<1>3. Sane(NvmetcpClose(t, t.rc))
  <2>1. t.rc \in Codes
    BY <1>1 DEF Sane, Hosts
  <2> QED BY <1>1, <2>1, CloseSane
<1> QED BY <1>1, <1>2, <1>3 DEF NvmetcpStep, t

\* nvmetcp_block_read_capacity.
LEMMA BlockReadCapacitySane ==
  ASSUME NEW h, Sane(h), NEW req \in Requests
  PROVE  Sane(BlockReadCapacity(h, req))
<1> DEFINE p == [h EXCEPT !.req = req]
<1>1. Sane(p)
  BY DEF Sane, Hosts
<1> HIDE DEF p
<1>2. Sane([p EXCEPT !.capacity_data = TRUE])
  BY ZenonT(40), <1>1 DEF Sane, Hosts
<1>3. Sane(IntfRestart(p, "ok"))
  BY <1>1, Values, RestartSane
<1> QED BY <1>2, <1>3 DEF BlockReadCapacity, p

\* nvmetcp_block_rw.
LEMMA BlockRwSane ==
  ASSUME NEW h, Sane(h), NEW req \in Requests, req.op \in {"read", "write"},
         NEW mem
  PROVE  Sane(BlockRw(h, req, mem))
<1> DEFINE res == [req |-> req, rc |-> "EAGAIN", buf |-> h.block_buffer,
                   cap |-> h.capacity]
           refused == [h EXCEPT !.rc = "EAGAIN", !.res = res]
           wr == (req.op = "write")
           len == IF req.op = "write" THEN 0 ELSE 1
           g == [h EXCEPT !.req = req, !.block_data = TRUE,
                          !.block_buffer = Blank, !.block_writing = wr]
           t == TxCommand(g, "io", req.op, req.id, len, mem)
<1>1. Sane(refused)
  <2>1. res \in [req : Requests, rc : Codes, buf : Buffers,
                cap : {"unknown", "ns"}]
    BY Values DEF Sane, Hosts
  <2> HIDE DEF res
  <2> QED BY Zenon, <2>1, Values DEF Sane, Hosts
<1>2. Sane(g)
  <2>1. Blank \in Buffers
    BY DEF Blank, Buffers, Content, Data
  <2>2. wr \in BOOLEAN
    OBVIOUS
  <2> HIDE DEF wr
  <2> QED BY ZenonT(40), <2>1, <2>2 DEF Sane, Hosts
<1>3. Sane(t)
  <2>1. req.id \in Nat /\ len \in Nat
    BY DEF Requests
  <2> HIDE DEF g, len
  <2> QED BY <1>2, <2>1, Values, TxCommandSane
<1>4. /\ BlockRw(h, req, mem) = refused \/ BlockRw(h, req, mem) = t
         \/ BlockRw(h, req, mem)
              = IntfRestart([t EXCEPT !.block_data = FALSE], t.rc)
  BY DEF BlockRw
<1> HIDE DEF t
<1>5. Sane(IntfRestart([t EXCEPT !.block_data = FALSE], t.rc))
  <2>1. Sane([t EXCEPT !.block_data = FALSE]) /\ t.rc \in Codes
    BY ZenonT(40), <1>3 DEF Sane, Hosts
  <2> QED BY <2>1, RestartSane
<1> HIDE DEF refused
<1> QED BY <1>1, <1>3, <1>4, <1>5

\* nvmetcp_command_close.
LEMMA CommandCloseSane ==
  ASSUME NEW h, Sane(h), NEW c \in Codes
  PROVE  Sane(NvmetcpCommandClose(h, c))
<1> DEFINE r == IntfRestart(h, c)
           s == [r EXCEPT !.block_data = FALSE, !.capacity_data = FALSE]
<1>1. Sane(r)
  BY RestartSane
<1> HIDE DEF r
<1>2. Sane(s)
  BY ZenonT(40), <1>1 DEF Sane, Hosts
<1> HIDE DEF s
<1> DEFINE e == IF c = "ok" THEN "ECANCELED" ELSE c
<1>3. e \in Codes
  BY DEF Codes
<1> HIDE DEF e
<1>4. Sane(NvmetcpClose(s, e))
  BY <1>2, <1>3, CloseSane
<1> QED BY <1>1, <1>4 DEF NvmetcpCommandClose, r, s, e

\* nvmetcp_open leaves a well-formed session behind.
LEMMA OpenSane == Sane(NvmetcpOpen)
<1>1. NewSock \in Socks
  <2>1. Junk \in CtrlPdus
    BY ConstantsOK DEF Junk, CtrlPdus, Cids, Content, Data
  <2>2. <<>> \in Pipes /\ NoCid \in 0..CidMod
    BY ConstantsOK DEF Pipes, NoCid
  <2> QED BY <2>1, <2>2 DEF NewSock, Socks
<1>2. Zalloc \in Hosts
  <2>1. Blank \in Buffers
    BY DEF Blank, Buffers, Content, Data
  <2>2. NoReq \in Requests
    BY DEF NoReq, Requests
  <2>3. 0 \in Cids
    BY ConstantsOK DEF Cids
  <2>4. [q \in Queues |-> NewSock] \in [Queues -> Socks]
    BY <1>1
  <2>5. "START" \in AuthSteps
    BY DEF AuthSteps
  <2> DEFINE so == [q \in Queues |-> NewSock]
             re == [req |-> NoReq, rc |-> "ok", buf |-> Blank,
                    cap |-> "unknown"]
  <2>6. re \in [req : Requests, rc : Codes, buf : Buffers,
               cap : {"unknown", "ns"}]
    BY <2>1, <2>2, Values
  <2> HIDE DEF so, re
  <2> QED BY <2>1, <2>2, <2>3, <2>4, <2>5, <2>6, Values
          DEF Zalloc, Hosts, so, re
<1>3. Sane(Zalloc)
  BY <1>2 DEF Sane, Zalloc
<1> QED BY <1>3, Values, OpenSocketSane DEF NvmetcpOpen

-----------------------------------------------------------------------------
(* The environment.                                                        *)

\* The target answers a command that is in sequence with well-formed PDUs.
LEMMA AnswerType ==
  ASSUME NEW t \in Targets, NEW q \in Queues, NEW c \in HostPdus,
         InSequence(t, q, c)
  PROVE  Answer(t, q, c) \in Streams
<1>0. c.cid \in Cids /\ c.id \in Nat
  BY DEF HostPdus
<1>1. \A s \in {"ok", "atr", "authreq", "fail"} : Response(c, s) \in CtrlPdus
  BY <1>0 DEF Response, CtrlPdus, Content, Data
<1>2. \A d \in Data, o \in Nat : C2hData(c, d, o) \in CtrlPdus
  BY <1>0 DEF C2hData, CtrlPdus
<1>3. Other(c, "icresp") \in CtrlPdus
  BY <1>0 DEF Other, CtrlPdus, Content, Data
<1>4. \A k \in {"challenge", "success1", "ctrl", "ns"} :
        DataThenResponse(c, k) \in Streams
  <2>1. \A k \in {"challenge", "success1", "ctrl", "ns"} : Content(k) \in Data
    BY DEF Content, Data
  <2>2. 0 \in Nat
    OBVIOUS
  <2> QED BY <1>1, <1>2, <2>1, <2>2 DEF DataThenResponse, Streams
<1>5. CASE c.op = "read"
  <2> DEFINE f == [k \in 1..Frags |-> C2hData(c, Block(c.id, k), k - 1)]
  <2>1. f \in Seq(CtrlPdus)
    <3>1. \A k \in 1..Frags : f[k] \in CtrlPdus
      <4>1. \A k \in 1..Frags : Block(c.id, k) \in Data /\ k - 1 \in Nat
        BY <1>0 DEF Block, Data
      <4> QED BY <1>2, <4>1
    <3>2. Frags \in Nat
      BY ConstantsOK
    <3> QED BY <3>1, <3>2
  <2>2. <<Response(c, "ok")>> \in Seq(CtrlPdus)
    BY <1>1
  <2>3. Answer(t, q, c) = f \o <<Response(c, "ok")>>
    BY Zenon, <1>5 DEF Answer
  <2> HIDE DEF f
  <2> QED BY <2>1, <2>2, <2>3 DEF Streams
<1>6. CASE c.op = "auth_receive"
  <2>1. t.step \in {"challenge", "success1"}
    BY <1>6 DEF InSequence
  <2>2. Answer(t, q, c) = DataThenResponse(c, t.step)
    BY <1>6 DEF Answer
  <2> QED BY <1>4, <2>1, <2>2
<1>7. CASE c.op \notin {"read", "auth_receive"}
  <2>1. <<Other(c, "icresp")>> \in Streams
    BY <1>3 DEF Streams
  <2>2. \A s \in {"ok", "atr", "authreq", "fail"} :
          <<Response(c, s)>> \in Streams
    BY <1>1 DEF Streams
  <2> QED BY <1>4, <1>7, <2>1, <2>2 DEF Answer
<1> QED BY <1>5, <1>6, <1>7

\* A fault replaces PDUs by PDUs.
LEMMA FaultyType ==
  ASSUME NEW c \in HostPdus, NEW out \in Streams, NEW fault
  PROVE  Faulty(c, out, fault) \in Streams
<1>1. <<Response(c, "fail")>> \in Streams
  <2>1. Response(c, "fail") \in CtrlPdus
    BY DEF Response, CtrlPdus, HostPdus, Content, Data
  <2> QED BY <2>1 DEF Streams
<1>2. <<Junk>> \in Streams
  <2>1. Junk \in CtrlPdus
    BY ConstantsOK DEF Junk, CtrlPdus, Cids, Content, Data
  <2> QED BY <2>1 DEF Streams
<1> DEFINE bad(i) == CASE out[i].type = "c2hdata" ->
                            [out[i] EXCEPT !.data = Content("failure1")]
                       [] out[i].type \in {"icresp", "r2t"} ->
                            [out[i] EXCEPT !.offset = 1]
                       [] OTHER -> out[i]
           f == [i \in DOMAIN out |-> bad(i)]
<1>3. f \in Streams
  <2>1. ASSUME NEW i \in DOMAIN out PROVE bad(i) \in CtrlPdus
    <3>1. out[i] \in CtrlPdus
      BY DEF Streams
    <3>2. Content("failure1") \in Data
      BY DEF Content, Data
    <3> QED BY <3>1, <3>2 DEF CtrlPdus
  <2>2. DOMAIN out = 1..Len(out) /\ Len(out) \in Nat
    BY DEF Streams
  <2> HIDE DEF bad
  <2> QED BY <2>1, <2>2 DEF Streams
<1> QED BY <1>1, <1>2, <1>3 DEF Faulty

\* Executing a command leaves a well-formed target.
LEMMA ExecuteType ==
  ASSUME NEW t \in Targets, NEW q \in Queues, NEW c \in HostPdus
  PROVE  Execute(t, q, c) \in Targets
<1>1. t.done \union {c.id} \in SUBSET Nat
  BY DEF Targets, HostPdus
<1>2. [t EXCEPT !.done = @ \union {c.id}] \in Targets
  BY <1>1 DEF Targets
<1>3. \A s \in {"negotiate", "challenge", "reply", "success1", "done"} :
        [t EXCEPT !.step = s] \in Targets
  BY DEF Targets
<1>4. [t EXCEPT !.enabled = TRUE] \in Targets
  BY Zenon DEF Targets
<1>5. [t EXCEPT !.cntlerr = t.cntlerr \/ c.id # CntlId] \in Targets
  BY Zenon DEF Targets
<1>6. t.step \in {"negotiate", "challenge", "reply", "success1", "done"}
        \/ t.step \in {"atr", "status"}
  BY DEF Targets
<1> QED BY <1>2, <1>3, <1>4, <1>5, <1>6 DEF Execute

-----------------------------------------------------------------------------
(* The inductive invariant.                                                *)

\* A segment being delivered holds no more PDUs than the stream, and the
\* consumer's budget only shrinks.
Inv ==
  /\ TypeOK /\ Sane(host)
  /\ seg.on => seg.n <= Len(wire[seg.q].pdus)
  /\ budget.req <= MaxRequests

\* The budget for allocation failures.
LEMMA SpendMemType ==
  ASSUME budget \in Budgets, NEW mem \in Mem
  PROVE  SpendMem(mem) \in Budgets /\ SpendMem(mem).req = budget.req
         /\ SpendMem(mem).fault = budget.fault
<1>1. mem = "ok" \/ budget.mem > 0
  BY DEF Mem
<1>2. CASE mem = "ok"
  BY <1>2 DEF SpendMem
<1>3. CASE mem # "ok"
  <2>1. budget.mem - 1 \in Nat
    BY <1>1, <1>3 DEF Budgets
  <2> QED BY <1>3, <2>1 DEF SpendMem, Budgets
<1> QED BY <1>2, <1>3

LEMMA InitInv == Init => Inv
<1> SUFFICES ASSUME Init PROVE Inv
  OBVIOUS
<1>1. Sane(host) /\ host \in Hosts
  BY OpenSane DEF Init, Sane
<1>2. wire \in [Queues -> Links]
  BY DEF Init, Links, Streams
<1>3. seg \in Segs /\ ~seg.on
  BY DEF Init, Idle, Segs, Queues
<1>4. target \in Targets
  <2>1. PICK m \in AuthModes :
          target = [NewTarget EXCEPT !.step = IF m = "no" THEN "done" ELSE m]
    BY DEF Init
  <2>2. (IF m = "no" THEN "done" ELSE m) \in {"done", "atr", "status"}
    BY ConstantsOK
  <2> QED BY Zenon, <2>1, <2>2 DEF NewTarget, Targets
<1>5. budget \in Budgets /\ budget.req <= MaxRequests
  BY ConstantsOK DEF Init, Budgets
<1> QED BY <1>1, <1>2, <1>3, <1>4, <1>5 DEF Inv, TypeOK

\* A step of the session's process.
LEMMA StepInv ==
  ASSUME Inv, NEW mem \in Mem, NEW rng \in BOOLEAN, Step(mem, rng)
  PROVE  Inv'
<1>1. Sane(host') /\ host' \in Hosts
  BY StepSane DEF Step, Inv, Sane
<1>2. budget' \in Budgets /\ budget'.req = budget.req
  <2> DEFINE b == SpendMem(mem)
             f == IF rng THEN b.fault ELSE b.fault - 1
  <2>1. b \in Budgets /\ b.req = budget.req /\ b.fault = budget.fault
    BY SpendMemType DEF Inv, TypeOK
  <2> HIDE DEF b
  <2>2. f \in Nat
    BY <2>1 DEF Step, Budgets
  <2>3. budget' = [b EXCEPT !.fault = f]
    BY <2>1 DEF Step, b, Budgets
  <2> HIDE DEF f
  <2> QED BY <2>1, <2>2, <2>3 DEF Budgets
<1> QED BY <1>1, <1>2 DEF Inv, TypeOK, Step

\* A request of the consumer.
LEMMA SubmitInv ==
  ASSUME Inv, NEW op \in {"capacity", "read", "write"}, NEW mem \in Mem,
         Submit(op, mem)
  PROVE  Inv'
<1>1. Request(op) \in Requests /\ Request(op).op = op
  BY SMTT(40), ConstantsOK DEF Inv, TypeOK, Budgets, Request, Requests
<1>2. Sane(host') /\ host' \in Hosts
  <2>1. CASE op = "capacity"
    BY <1>1, <2>1, BlockReadCapacitySane DEF Submit, Inv, Sane
  <2>2. CASE op # "capacity"
    BY <1>1, <2>2, BlockRwSane DEF Submit, Inv, Sane
  <2> QED BY <2>1, <2>2
<1>3. budget' \in Budgets /\ budget'.req <= MaxRequests
  <2> DEFINE b == SpendMem(mem)
  <2>1. b \in Budgets /\ b.req = budget.req
    BY SpendMemType DEF Inv, TypeOK
  <2> HIDE DEF b
  <2>2. b.req - 1 \in Nat /\ b.req - 1 <= MaxRequests
    BY SMTT(40), <2>1, ConstantsOK DEF Submit, Budgets, Inv
  <2>3. budget' = [b EXCEPT !.req = b.req - 1]
    BY <2>1 DEF Submit, b, Budgets
  <2> QED BY <2>1, <2>2, <2>3 DEF Budgets
<1> QED BY <1>2, <1>3 DEF Inv, TypeOK, Submit

\* The consumer gives up, or the other side closes.
LEMMA CloseInv ==
  ASSUME Inv, CommandClose \/ (\E code \in {"ok", "ETIMEDOUT"} : Close(code))
  PROVE  Inv'
<1>1. Sane(host') /\ host' \in Hosts
  <2>1. Sane(host) /\ {"ok", "ETIMEDOUT"} \subseteq Codes
    BY Values DEF Inv
  <2>2. /\ Sane(NvmetcpCommandClose(host, "ETIMEDOUT"))
        /\ \A c \in {"ok", "ETIMEDOUT"} : Sane(NvmetcpClose(host, c))
    BY <2>1, CommandCloseSane, CloseSane
  <2>3. Sane(host')
    BY <2>2 DEF CommandClose, Close
  <2> QED BY <2>3 DEF Sane
<1>2. budget' \in Budgets /\ budget'.req = budget.req
  BY DEF CommandClose, Close, Inv, TypeOK, Budgets
<1>3. UNCHANGED <<wire, seg, target>>
  BY DEF CommandClose, Close
<1> QED BY <1>1, <1>2, <1>3 DEF Inv, TypeOK

\* A TCP connection is established.
LEMMA ConnectInv ==
  ASSUME Inv, NEW q \in Queues, NEW w \in Windows, ConnectDone(q, w)
  PROVE  Inv'
<1> DEFINE s == [host.sock[q] EXCEPT !.conn = "open", !.win = w]
           h == [host EXCEPT !.sock[q] = s]
<1>1. s \in Socks
  <2>1. w \in 0..2 /\ 0 \in 0..CidMod
    BY ConstantsOK
  <2>2. host.sock[q] \in Socks
    BY HdrType DEF Inv
  <2> QED BY Zenon, <2>1, <2>2, SockWin
<1>2. Sane(h)
  <2> HIDE DEF s
  <2> QED BY <1>1 DEF Inv, Sane, Hosts
<1> HIDE DEF h
<1>3. Sane(TxResume(h))
  BY <1>2, ResumeSane
<1>4. host' = TxResume(h)
  BY DEF ConnectDone, h
<1>5. Sane(host') /\ host' \in Hosts
  BY <1>3, <1>4 DEF Sane
<1> QED BY <1>5 DEF Inv, TypeOK, ConnectDone

\* A segment arrives: acknowledgement and window first.
LEMMA SegStartInv ==
  ASSUME Inv, NEW q \in Queues, NEW tail \in BOOLEAN, NEW ack \in BOOLEAN,
         NEW w \in Windows \union {0}, NEW n \in 0..Len(wire[q].pdus),
         SegStart(q, n, tail, ack, w)
  PROVE  Inv'
<1> DEFINE u == IF ack THEN NoCid ELSE host.sock[q].unacked
           s == [host.sock[q] EXCEPT !.unacked = u, !.win = w]
<1>1. host.sock[q] \in Socks
  BY HdrType DEF Inv
<1>2. Sane(host') /\ host' \in Hosts
  <2>1. w \in 0..2 /\ u \in 0..CidMod
    BY <1>1, ConstantsOK DEF Socks, NoCid
  <2>2. s \in Socks
    <3> HIDE DEF u
    <3> QED BY Zenon, <1>1, <2>1, SockWin
  <2>3. host' = [host EXCEPT !.sock[q] = s]
    BY DEF SegStart
  <2> HIDE DEF s
  <2> QED BY <2>2, <2>3 DEF Inv, Sane, Hosts
<1>3. seg' \in Segs /\ seg'.n = n /\ seg'.q = q
  <2>1. n \in Nat
    OBVIOUS
  <2>2. host.sock[q].win \in 0..2
    BY <1>1 DEF Socks
  <2> QED BY <2>1, <2>2 DEF SegStart, Segs
<1>4. budget' \in Budgets /\ budget'.req = budget.req
  <2>1. \/ budget' = budget
        \/ budget.win > 0 /\ budget' = [budget EXCEPT !.win = @ - 1]
    BY DEF SegStart
  <2> QED BY <2>1 DEF Inv, TypeOK, Budgets
<1>5. UNCHANGED <<wire, target>>
  BY DEF SegStart
<1>6. n <= Len(wire[q].pdus)
  <2>1. Len(wire[q].pdus) \in Nat
    BY DEF Inv, TypeOK, Links, Streams
  <2> QED BY <2>1
<1> QED BY <1>2, <1>3, <1>4, <1>5, <1>6 DEF Inv, TypeOK

\* One PDU of the segment is delivered.
LEMMA SegPduInv ==
  ASSUME Inv, NEW mem \in Mem, SegPdu(mem)
  PROVE  Inv'
<1> DEFINE q == seg.q
           ps == wire[q].pdus
           t == SocketDeliver(host, q, ps[1], wire[q].half, mem)
<1>1. q \in Queues /\ ps \in Streams /\ seg.n \in Nat \ {0}
      /\ seg.n <= Len(ps) /\ seg \in Segs
  BY DEF SegPdu, Inv, TypeOK, Segs, Links
<1>2. ps[1] \in CtrlPdus /\ Len(ps) \in Nat \ {0}
  BY <1>1 DEF Streams
<1>3. Tail(ps) \in Streams /\ Len(Tail(ps)) = Len(ps) - 1
  BY <1>1, <1>2 DEF Streams
<1>4. SubSeq(ps, seg.n + 1, Len(ps)) \in Streams
  BY <1>1, <1>2 DEF Streams
<1>5. Sane(t)
  BY <1>1, <1>2, SocketDeliverSane DEF Inv
<1>6. budget' \in Budgets /\ budget'.req = budget.req /\ target' = target
  BY SpendMemType DEF SegPdu, Inv, TypeOK
<1>7. CASE t.rc = "ok"
  <2> DEFINE l == [pdus |-> Tail(ps), half |-> FALSE]
  <2>1. /\ host' = t /\ wire' = [wire EXCEPT ![q] = l]
        /\ seg' = [seg EXCEPT !.n = seg.n - 1]
    BY <1>1, <1>7 DEF SegPdu, Segs
  <2>2. l \in Links /\ l.pdus = Tail(ps)
    BY <1>3 DEF Links
  <2>3. seg' \in Segs /\ seg'.q = q /\ seg'.n = seg.n - 1
    BY <1>1, <2>1 DEF Segs
  <2>4. wire' \in [Queues -> Links] /\ wire'[q] = l
    <3> HIDE DEF l, q
    <3> QED BY <1>1, <2>1, <2>2 DEF Inv, TypeOK
  <2>5. seg'.n <= Len(wire'[seg'.q].pdus)
    BY SMTT(40), <1>1, <1>2, <1>3, <2>2, <2>3, <2>4
  <2>6. Sane(host') /\ host' \in Hosts
    BY SMTT(40), <1>5, <2>1 DEF Sane
  <2> QED BY <1>6, <2>3, <2>4, <2>5, <2>6 DEF Inv, TypeOK
<1>8. CASE t.rc # "ok"
  <2> DEFINE l == [pdus |-> SubSeq(ps, seg.n + 1, Len(ps)), half |-> seg.tail]
  <2>1. /\ host' = (IF UseTls THEN NvmetcpClose(t, t.rc) ELSE t)
        /\ wire' = [wire EXCEPT ![q] = l]
        /\ seg' = IF UseTls THEN Idle ELSE [seg EXCEPT !.n = 0, !.tail = FALSE]
    BY SMTT(40), <1>8 DEF SegPdu
  <2>2. l \in Links
    BY <1>1, <1>4 DEF Links, Segs
  <2>3. seg' \in Segs /\ seg'.n = 0
    <3>1. Idle \in Segs /\ Idle.n = 0
      BY DEF Segs, Idle, Queues
    <3>2. /\ [seg EXCEPT !.n = 0, !.tail = FALSE] \in Segs
          /\ [seg EXCEPT !.n = 0, !.tail = FALSE].n = 0
      BY Zenon, <1>1 DEF Segs
    <3> QED BY <2>1, <3>1, <3>2
  <2>4. wire' \in [Queues -> Links]
    <3> HIDE DEF l, q
    <3> QED BY <1>1, <2>1, <2>2 DEF Inv, TypeOK
  <2>5. seg'.n <= Len(wire'[seg'.q].pdus)
    <3>1. wire'[seg'.q].pdus \in Seq(CtrlPdus)
      BY <2>3, <2>4 DEF Segs, Links, Streams
    <3> QED BY <2>3, <3>1
  <2>6. Sane(host') /\ host' \in Hosts
    <3> HIDE DEF t
    <3>1. t.rc \in Codes
      BY <1>5 DEF Sane, Hosts
    <3> QED BY <1>5, <2>1, <3>1, CloseSane DEF Sane
  <2> QED BY <1>6, <2>3, <2>4, <2>5, <2>6 DEF Inv, TypeOK
<1> QED BY <1>7, <1>8

\* The end of the segment, and the window notification.
LEMMA SegEndInv ==
  ASSUME Inv, NEW mem \in Mem, SegEnd(mem)
  PROVE  Inv'
<1> DEFINE q == seg.q
           t == IF seg.tail THEN SocketDeliverPart(host, q, mem)
                ELSE Rc(host, "ok")
           l == [wire[q] EXCEPT !.half = @ \/ seg.tail]
<1>1. q \in Queues /\ seg \in Segs /\ wire[q] \in Links /\ Sane(host)
  BY DEF Inv, TypeOK, Segs
<1>2. Sane(t)
  <2>1. Junk \in CtrlPdus
    BY ConstantsOK DEF Junk, CtrlPdus, Cids, Content, Data
  <2>2. Sane(SocketDeliverPart(host, q, mem)) /\ Sane(Rc(host, "ok"))
    BY Zenon, <1>1, <2>1, SocketDeliverSane, RcSane, Values
  <2> QED BY <2>2
<1>3. /\ host' = t \/ host' = TxResume(t) \/ host' = NvmetcpClose(t, t.rc)
      /\ wire' = [wire EXCEPT ![q] = l] /\ seg' = Idle
  BY DEF SegEnd
<1>4. Sane(host') /\ host' \in Hosts
  <2> HIDE DEF t
  <2>1. t.rc \in Codes
    BY <1>2 DEF Sane, Hosts
  <2>2. Sane(TxResume(t)) /\ Sane(NvmetcpClose(t, t.rc))
    BY <1>2, <2>1, ResumeSane, CloseSane
  <2> QED BY <1>2, <1>3, <2>2 DEF Sane
<1>5. l \in Links
  BY <1>1 DEF Links, Segs
<1>6. wire' \in [Queues -> Links]
  <2> HIDE DEF l, q
  <2> QED BY <1>1, <1>3, <1>5 DEF Inv, TypeOK
<1>7. seg' \in Segs /\ ~seg'.on
  BY <1>3 DEF Idle, Segs, Queues
<1>8. budget' \in Budgets /\ budget'.req = budget.req /\ target' = target
  BY SpendMemType DEF SegEnd, Inv, TypeOK
<1> QED BY <1>4, <1>6, <1>7, <1>8 DEF Inv, TypeOK

\* The target answers a command.
LEMMA TargetInv ==
  ASSUME Inv, NEW q \in Queues, NEW fault, NEW r2t, TargetStep(q, fault, r2t)
  PROVE  Inv'
<1> DEFINE c == Head(host.sock[q].h2t)
           r == target.resent \/ (c.op \in SetupOnce
                                   /\ <<q, c.op>> \in target.seen)
           e == target.seqerr \/ ~InSequence(target, q, c)
           t == [target EXCEPT !.seen = target.seen \union {<<q, c.op>>},
                               !.resent = r, !.seqerr = e]
           asks == c.op = "write" /\ r2t
           out == IF ~InSequence(target, q, c) THEN <<Response(c, "fail")>>
                  ELSE IF asks THEN <<Other(c, "r2t")>>
                  ELSE Answer(target, q, c)
           x == IF c.op = "write" THEN [c EXCEPT !.op = "h2cdata"] ELSE c
           s == [host.sock[q] EXCEPT !.h2t = Tail(host.sock[q].h2t)]
           l == [wire[q] EXCEPT !.pdus = @ \o Faulty(c, out, fault)]
<1>1. host.sock[q] \in Socks /\ host.sock[q].h2t \in Pipes
  BY HdrType DEF Inv, Socks
<1>2. c \in HostPdus /\ Tail(host.sock[q].h2t) \in Pipes
  <2>1. host.sock[q].h2t # <<>>
    BY Zenon DEF TargetStep
  <2>2. \A p \in Seq(HostPdus) :
          p # <<>> => Head(p) \in HostPdus /\ Tail(p) \in Seq(HostPdus)
    OBVIOUS
  <2> QED BY <1>1, <2>1, <2>2, Zenon DEF Pipes
<1>3. Sane(host') /\ host' \in Hosts
  <2>1. s \in Socks
    BY Zenon, <1>1, <1>2 DEF Socks
  <2>2. host' = [host EXCEPT !.sock[q] = s]
    BY Zenon DEF TargetStep
  <2> HIDE DEF s
  <2> QED BY <2>1, <2>2 DEF Inv, Sane, Hosts
<1>4. target \in Targets /\ wire[q] \in Links
  BY DEF Inv, TypeOK
<1>5. t \in Targets
  <2>1. r \in BOOLEAN /\ e \in BOOLEAN
    BY <1>4 DEF Targets
  <2>2. target.seen \union {<<q, c.op>>} \in SUBSET (Queues \X HostOps)
    BY <1>2, <1>4 DEF HostPdus, Targets
  <2> HIDE DEF r, e, c
  <2> QED BY Zenon, <1>4, <2>1, <2>2 DEF Targets
<1>6. x \in HostPdus
  BY <1>2 DEF HostPdus, HostOps
<1>7. target' \in Targets
  <2>1. target' = t \/ target' = Execute(t, q, x)
    BY Zenon DEF TargetStep
  <2> HIDE DEF t, x
  <2> QED BY <1>5, <1>6, <2>1, ExecuteType
<1>8. out \in Streams
  <2>1. /\ Response(c, "fail") \in CtrlPdus /\ Other(c, "r2t") \in CtrlPdus
    BY <1>2 DEF Response, Other, CtrlPdus, HostPdus, Content, Data
  <2>2. <<Response(c, "fail")>> \in Streams /\ <<Other(c, "r2t")>> \in Streams
    BY <2>1 DEF Streams
  <2> HIDE DEF c
  <2> QED BY <1>2, <1>4, <2>2, AnswerType
<1>9. l \in Links
  <2>1. Faulty(c, out, fault) \in Streams
    <3> HIDE DEF c, out
    <3> QED BY <1>2, <1>8, FaultyType
  <2> HIDE DEF c, out
  <2>2. wire[q].pdus \o Faulty(c, out, fault) \in Streams
    BY <1>4, <2>1 DEF Links, Streams
  <2> QED BY Zenon, <1>4, <2>2 DEF Links
<1>10. wire' \in [Queues -> Links]
  <2>1. wire' = [wire EXCEPT ![q] = l]
    BY Zenon DEF TargetStep
  <2> HIDE DEF l
  <2> QED BY <1>9, <2>1 DEF Inv, TypeOK
<1>11. budget' \in Budgets /\ budget'.req = budget.req
  <2>1. \/ budget' = budget
        \/ budget.fault > 0 /\ budget' = [budget EXCEPT !.fault = @ - 1]
    BY Zenon DEF TargetStep
  <2> QED BY <2>1 DEF Inv, TypeOK, Budgets
<1>12. seg' = seg /\ ~seg.on
  BY Zenon DEF TargetStep
<1> QED BY <1>3, <1>7, <1>10, <1>11, <1>12 DEF Inv, TypeOK

\* Every step preserves the invariant.
LEMMA NextInv == Inv /\ [Next]_vars => Inv'
<1> SUFFICES ASSUME Inv, [Next]_vars PROVE Inv'
  OBVIOUS
<1>1. CASE AnyStep
  BY <1>1, StepInv DEF AnyStep
<1>2. CASE AnySegStart
  BY <1>2, SegStartInv DEF AnySegStart
<1>3. CASE AnySegPdu
  BY <1>3, SegPduInv DEF AnySegPdu
<1>4. CASE AnySegEnd
  BY <1>4, SegEndInv DEF AnySegEnd
<1>5. CASE AnyConnectDone
  BY <1>5, ConnectInv DEF AnyConnectDone
<1>6. CASE AnyTargetStep
  BY <1>6, TargetInv DEF AnyTargetStep
<1>7. CASE AnySubmit
  BY <1>7, SubmitInv DEF AnySubmit
<1>8. CASE CommandClose \/ (\E code \in {"ok", "ETIMEDOUT"} : Close(code))
  BY <1>8, CloseInv
<1>9. CASE UNCHANGED vars
  BY <1>9 DEF vars, Inv, TypeOK, Sane
<1> QED
  BY <1>1, <1>2, <1>3, <1>4, <1>5, <1>6, <1>7, <1>8, <1>9 DEF Next

-----------------------------------------------------------------------------
(* Closing, and what counts as failed.                                     *)

HostFields ==
  {"phase", "cid", "cntlid", "tx_in_flight", "running", "closed", "failed",
   "step", "completed", "rx_complete", "rx_cid", "cmd_data_len",
   "cmd_data_offset", "cmd_buf", "cid_cqe", "status_cqe", "block_data",
   "block_writing", "capacity_data", "capacity", "block_buffer", "req", "res",
   "sock", "rc"}
IsHost(h) == h = [f \in HostFields |-> h[f]]

\* No handler but nvmetcp_close closes the session, and none but the failure
\* half of nvmetcp_rx_command marks it as failed.
Calm(t, h) == IsHost(t) /\ t.closed = h.closed /\ t.failed = h.failed

\* A handler that marks the session as failed returns an error.
Honest(t, h) ==
  IsHost(t) /\ t.closed = h.closed /\ (t.failed = h.failed \/ t.rc # "ok")

LEMMA SaneIsHost ==
  ASSUME NEW h, Sane(h)
  PROVE  IsHost(h) /\ h.step \in AuthSteps /\ h.rc \in Codes
  BY DEF Sane, Hosts, IsHost, HostFields

\* Returning a code, the receive state, answering the consumer, resuming.
LEMMA RcCalm ==
  ASSUME NEW h, IsHost(h), NEW c
  PROVE  Calm(Rc(h, c), h) /\ Rc(h, c).rc = c
  BY Zenon DEF IsHost, HostFields, Calm, Rc

LEMMA RxCalm ==
  ASSUME NEW h, IsHost(h), NEW q, NEW x
  PROVE  Calm(Rx(h, q, x), h) /\ Rx(h, q, x).rc = h.rc
<1>1. PICK z : z = [h.sock[q] EXCEPT !.rx = x]
  BY Zenon
<1>2. PICK y : y = [h.sock EXCEPT ![q] = z]
  BY Zenon
<1>3. Rx(h, q, x) = [h EXCEPT !.sock = y]
  BY <1>1, <1>2 DEF Rx, IsHost, HostFields
<1> QED BY Zenon, <1>3 DEF IsHost, HostFields, Calm

LEMMA RestartCalm ==
  ASSUME NEW h, IsHost(h), NEW c
  PROVE  Calm(IntfRestart(h, c), h) /\ IntfRestart(h, c).rc = h.rc
<1>1. PICK r : r = [req |-> h.req, rc |-> c, buf |-> h.block_buffer,
                    cap |-> h.capacity]
  BY Zenon
<1>2. Calm([h EXCEPT !.req = NoReq, !.res = r], h)
      /\ [h EXCEPT !.req = NoReq, !.res = r].rc = h.rc
  BY Zenon DEF IsHost, HostFields, Calm
<1>3. Calm(h, h)
  BY Zenon DEF Calm
<1> QED BY <1>1, <1>2, <1>3 DEF IntfRestart

LEMMA ResumeCalm ==
  ASSUME NEW h, IsHost(h)
  PROVE  Calm(TxResume(h), h) /\ Calm(Add(h), h)
<1>1. Calm([h EXCEPT !.running = TRUE], h)
  BY Zenon DEF IsHost, HostFields, Calm
<1>2. Calm([h EXCEPT !.rc = "ok", !.running = TRUE], h) /\ Calm(h, h)
  BY Zenon DEF IsHost, HostFields, Calm
<1> QED BY Zenon, <1>1, <1>2 DEF TxResume, Add

\* nvmetcp_close closes with the code, or with a reset.
LEMMA CloseCode ==
  ASSUME NEW h, IsHost(h), NEW c
  PROVE  /\ IsHost(NvmetcpClose(h, c))
         /\ NvmetcpClose(h, c).closed = IF c = "ok" THEN "ECONNRESET" ELSE c
<1>1. PICK r : r = IF c = "ok" THEN "ECONNRESET" ELSE c
  BY Zenon
<1>2. PICK t : t = IntfRestart(h, r)
  BY Zenon
<1>3. IsHost(t)
  BY <1>2, RestartCalm DEF Calm
<1>4. NvmetcpClose(h, c) = [t EXCEPT !.capacity_data = FALSE,
                                     !.running = FALSE, !.closed = r]
  BY <1>1, <1>2 DEF NvmetcpClose
<1> QED BY Zenon, <1>1, <1>3, <1>4 DEF IsHost, HostFields

\* Transmission.
LEMMA TxPduCalm ==
  ASSUME NEW h, IsHost(h), NEW q, NEW pdu, NEW need, NEW mem
  PROVE  Calm(TxPdu(h, q, pdu, need, mem), h)
<1>1. PICK z : z = [h.sock[q] EXCEPT !.win = 0, !.unacked = pdu.cid,
                      !.h2t = Append(h.sock[q].h2t, pdu)]
  BY Zenon
<1>2. PICK y : y = [h.sock EXCEPT ![q] = z]
  BY Zenon
<1>3. PICK t : t = [h EXCEPT !.rc = "ok", !.tx_in_flight = TRUE,
                             !.running = FALSE, !.sock = y]
  BY Zenon
<1>4. Calm(t, h)
  BY Zenon, <1>3 DEF IsHost, HostFields, Calm
<1>5. Calm(Rc(h, "EAGAIN"), h) /\ Calm(Rc(h, "ENOMEM"), h)
  BY RcCalm
<1>6. t = [h EXCEPT !.rc = "ok", !.tx_in_flight = TRUE, !.running = FALSE,
                    !.sock[q] = z]
  BY <1>2, <1>3 DEF IsHost, HostFields
<1> QED BY <1>1, <1>4, <1>5, <1>6 DEF TxPdu

LEMMA TxCommandCalm ==
  ASSUME NEW h, IsHost(h), NEW q, NEW op, NEW id, NEW recv, NEW mem
  PROVE  Calm(TxCommand(h, q, op, id, recv, mem), h)
<1>1. PICK c : c = NextCid(h)
  BY Zenon
<1>2. PICK g : g = [h EXCEPT !.cid = c]
  BY Zenon
<1>3. Calm(g, h)
  BY Zenon, <1>2 DEF IsHost, HostFields, Calm
<1>4. PICK t : t = TxPdu(g, q, [op |-> op, cid |-> c, id |-> id], 1, mem)
  BY Zenon
<1>5. Calm(t, g)
  BY <1>3, <1>4, TxPduCalm DEF Calm
<1>6. PICK u : u = [t EXCEPT !.cmd_data_len = recv, !.cmd_data_offset = 0]
  BY Zenon
<1>7. Calm(u, t)
  BY Zenon, <1>5, <1>6 DEF IsHost, HostFields, Calm
<1>8. Calm(Rx(u, q, "hdr"), u)
  BY <1>7, RxCalm DEF Calm
<1>9. Calm(t, h) /\ Calm(Rx(u, q, "hdr"), h)
  BY Zenon, <1>3, <1>5, <1>7, <1>8 DEF Calm
<1> QED BY <1>1, <1>2, <1>4, <1>6, <1>9 DEF TxCommand

LEMMA SendersCalm ==
  ASSUME NEW h, IsHost(h), NEW q, NEW op, NEW pdu, NEW mem
  PROVE  /\ Calm(TxIcreq(h, q, mem), h) /\ Calm(TxConnect(h, q, mem), h)
         /\ Calm(TxPropSet(h, mem), h) /\ Calm(TxIdentify(h, op, mem), h)
         /\ Calm(TxH2cData(h, pdu, mem), h)
<1>1. Calm(TxIcreq(h, q, mem), h)
  BY TxPduCalm DEF TxIcreq
<1>2. Calm(TxConnect(h, q, mem), h)
  BY TxCommandCalm DEF TxConnect
<1>3. Calm(TxPropSet(h, mem), h) /\ Calm(TxIdentify(h, op, mem), h)
  BY TxCommandCalm DEF TxPropSet, TxIdentify
<1>4. Calm(TxH2cData(h, pdu, mem), h)
  <2>1. Calm(Rc(h, "EPROTO"), h)
    BY RcCalm
  <2>2. \A p : Calm(TxPdu(h, "io", p, 1, mem), h)
    BY TxPduCalm
  <2> QED BY Zenon, <2>1, <2>2 DEF TxH2cData
<1> QED BY <1>1, <1>2, <1>3, <1>4

LEMMA OpenSocketCalm ==
  ASSUME NEW h, IsHost(h), NEW q, NEW phase, NEW mem
  PROVE  Calm(OpenSocket(h, q, phase, mem), h)
<1>1. PICK z : z = [h.sock[q] EXCEPT !.conn = "syn", !.rx = "hdr"]
  BY Zenon
<1>2. PICK y : y = [h.sock EXCEPT ![q] = z]
  BY Zenon
<1>3. PICK t : t = [h EXCEPT !.rc = "ok", !.phase = phase, !.sock = y]
  BY Zenon
<1>4. Calm(t, h)
  BY Zenon, <1>3 DEF IsHost, HostFields, Calm
<1>5. t = [h EXCEPT !.rc = "ok", !.phase = phase, !.sock[q] = z]
  BY <1>2, <1>3 DEF IsHost, HostFields
<1>6. Calm(TxResume(t), t) /\ Calm(Rc(h, "ENOMEM"), h)
  BY <1>4, ResumeCalm, RcCalm DEF Calm
<1>7. Calm(TxResume(t), h)
  BY Zenon, <1>4, <1>6 DEF Calm
<1> QED BY <1>1, <1>5, <1>6, <1>7 DEF OpenSocket

\* Authentication.
LEMMA AuthTxReceiveStepCalm ==
  ASSUME NEW h, IsHost(h), NEW next, NEW mem
  PROVE  Calm(AuthTxReceiveStep(h, next, mem), h)
<1>1. PICK t : t = TxCommand(h, "admin", "auth_receive", 0, 1, mem)
  BY Zenon
<1>2. Calm(t, h)
  BY <1>1, TxCommandCalm
<1>3. \A s, c : Calm([t EXCEPT !.step = s], t)
                /\ Calm([t EXCEPT !.step = s, !.rx_cid = c], t)
  <2>1. \A s : Calm([t EXCEPT !.step = s], t)
    BY Zenon, <1>2 DEF IsHost, HostFields, Calm
  <2>2. ASSUME NEW s, NEW c PROVE Calm([t EXCEPT !.step = s, !.rx_cid = c], t)
    <3>1. PICK u : u = [t EXCEPT !.step = s, !.rx_cid = c]
      BY Zenon
    <3>2. Calm(u, t)
      BY Zenon, <1>2, <3>1 DEF IsHost, HostFields, Calm
    <3> QED BY Zenon, <3>1, <3>2
  <2> QED BY Zenon, <2>1, <2>2
<1>4. \A s, c : Calm([t EXCEPT !.step = s], h)
                /\ Calm([t EXCEPT !.step = s, !.rx_cid = c], h)
  BY Zenon, <1>2, <1>3 DEF Calm
<1> QED BY <1>1, <1>4 DEF AuthTxReceiveStep

LEMMA AuthTxReplyCalm ==
  ASSUME NEW h, IsHost(h), NEW mem
  PROVE  Calm(AuthTxReply(h, mem), h)
<1>1. PICK b : b = [h.cmd_buf EXCEPT ![1] = Content("reply")]
  BY Zenon
<1>2. PICK g : g = [h EXCEPT !.cmd_buf = b]
  BY Zenon
<1>3. g = [h EXCEPT !.cmd_buf[1] = Content("reply")]
  BY <1>1, <1>2 DEF IsHost, HostFields
<1>4. Calm(g, h)
  BY Zenon, <1>2 DEF IsHost, HostFields, Calm
<1>5. Calm(TxCommand(g, "admin", "reply", 0, 0, mem), g)
  BY <1>4, TxCommandCalm DEF Calm
<1>6. Calm(TxCommand(g, "admin", "reply", 0, 0, mem), h)
  BY Zenon, <1>4, <1>5 DEF Calm
<1>7. Calm(Rc(h, "EINVAL"), h) /\ Calm(Rc(h, "ENOMEM"), h)
  BY RcCalm
<1> QED BY <1>3, <1>6, <1>7 DEF AuthTxReply

LEMMA AuthRxDataCalm ==
  ASSUME NEW h, IsHost(h), NEW mem
  PROVE  Calm(AuthRxData(h, mem), h)
<1>1. \A c : Calm(Rc(h, c), h)
  BY RcCalm
<1>2. PICK t : t = AuthRxChallenge(h, mem)
  BY Zenon
<1>3. Calm(t, h)
  BY <1>1, <1>2, AuthTxReplyCalm DEF AuthRxChallenge
<1>4. Calm([t EXCEPT !.step = "COMPLETE_REPLY"], t)
  BY Zenon, <1>3 DEF IsHost, HostFields, Calm
<1>5. Calm([t EXCEPT !.step = "COMPLETE_REPLY"], h)
  BY Zenon, <1>3, <1>4 DEF Calm
<1>6. PICK u : u = AuthRxSuccess1(h)
  BY Zenon
<1>7. Calm(u, h)
  <2>1. Calm([h EXCEPT !.rc = "ok", !.completed = TRUE], h)
    BY Zenon DEF IsHost, HostFields, Calm
  <2> QED BY <1>1, <1>6, <2>1 DEF AuthRxSuccess1
<1>8. Calm([u EXCEPT !.step = "START"], u)
  BY Zenon, <1>7 DEF IsHost, HostFields, Calm
<1>9. Calm([u EXCEPT !.step = "START"], h)
  BY Zenon, <1>7, <1>8 DEF Calm
<1> QED BY <1>1, <1>2, <1>3, <1>5, <1>6, <1>7, <1>9 DEF AuthRxData

LEMMA AuthRxCompleteCalm ==
  ASSUME NEW h, IsHost(h), h.step \in AuthSteps, NEW mem
  PROVE  Calm(AuthRxComplete(h, mem), h)
<1>1. \A b : Calm([h EXCEPT !.rc = "ok", !.rx_complete = b], h)
  BY Zenon DEF IsHost, HostFields, Calm
<1>2. Calm(Rc(h, "ok"), h)
  BY RcCalm
<1>3. \A next : Calm(AuthTxReceiveStep(h, next, mem), h)
  BY AuthTxReceiveStepCalm
<1> QED BY <1>1, <1>2, <1>3 DEF AuthRxComplete, AuthSteps

LEMMA AuthFinishCalm ==
  ASSUME NEW h, IsHost(h)
  PROVE  Calm(AuthFinish(h), h)
<1>1. PICK t : t = AuthTryComplete(h)
  BY Zenon
<1>2. Calm(t, h)
  <2>1. Calm([h EXCEPT !.phase = "PROP_SET"], h) /\ Calm(h, h)
    BY Zenon DEF IsHost, HostFields, Calm
  <2> QED BY Zenon, <1>1, <2>1 DEF AuthTryComplete
<1>3. Calm(Add(t), t)
  BY <1>2, ResumeCalm DEF Calm
<1>4. Calm(Add(t), h) /\ Calm(h, h)
  BY Zenon, <1>2, <1>3 DEF Calm
<1> QED BY Zenon, <1>1, <1>2, <1>4 DEF AuthFinish

LEMMA AuthStepCalm ==
  ASSUME NEW h, IsHost(h), NEW mem, NEW rng
  PROVE  Calm(AuthStep(h, mem, rng), h)
<1>1. PICK g : g = [h EXCEPT !.step = "COMPLETE_NEGOTIATE"]
  BY Zenon
<1>2. Calm(g, h)
  BY Zenon, <1>1 DEF IsHost, HostFields, Calm
<1>3. Calm(TxCommand(g, "admin", "negotiate", 0, 0, mem), g)
  BY <1>2, TxCommandCalm DEF Calm
<1>4. Calm(TxCommand(g, "admin", "negotiate", 0, 0, mem), h)
  BY Zenon, <1>2, <1>3 DEF Calm
<1>5. \A next : Calm(AuthTxReceiveStep(h, next, mem), h)
  BY AuthTxReceiveStepCalm
<1>6. \A c : Calm(Rc(h, c), h)
  BY RcCalm
<1> QED BY <1>1, <1>4, <1>5, <1>6 DEF AuthStep

\* Reception.
LEMMA AuthRequiredCalm ==
  ASSUME NEW h, IsHost(h)
  PROVE  Calm(AuthRequired(h), h)
<1>1. PICK t : t = [h EXCEPT !.phase = "AUTH"]
  BY Zenon
<1>2. Calm(t, h)
  BY Zenon, <1>1 DEF IsHost, HostFields, Calm
<1>3. Calm(Add(t), t) /\ Calm(Rc(h, "EPERM"), h)
  BY <1>2, ResumeCalm, RcCalm DEF Calm
<1>4. Calm(Add(t), h)
  BY Zenon, <1>2, <1>3 DEF Calm
<1> QED BY <1>1, <1>3, <1>4 DEF AuthRequired

LEMMA RxFailureHonest ==
  ASSUME NEW h, IsHost(h)
  PROVE  Honest(RxFailure(h), h)
<1>1. PICK t : t = [h EXCEPT !.rc = "ok", !.block_data = FALSE]
  BY Zenon
<1>2. Calm(t, h)
  BY Zenon, <1>1 DEF IsHost, HostFields, Calm
<1>3. Calm(IntfRestart(t, "EIO"), t)
  BY <1>2, RestartCalm DEF Calm
<1>4. Honest(IntfRestart(t, "EIO"), h)
  BY Zenon, <1>2, <1>3 DEF Calm, Honest
<1>5. Honest([h EXCEPT !.rc = "EIO", !.failed = TRUE], h)
  BY DEF IsHost, HostFields, Honest
<1>6. Honest(AuthRequired(h), h)
  BY Zenon, AuthRequiredCalm DEF Calm, Honest
<1> QED BY <1>1, <1>4, <1>5, <1>6 DEF RxFailure

LEMMA RxSuccessCalm ==
  ASSUME NEW h, IsHost(h), h.step \in AuthSteps, NEW mem
  PROVE  Calm(RxSuccess(h, mem), h)
<1>1. /\ Calm([h EXCEPT !.cntlid = CntlId], h)
      /\ \A p : /\ Calm([h EXCEPT !.cntlid = CntlId, !.phase = p], h)
                /\ Calm([h EXCEPT !.phase = p], h)
                /\ Calm([h EXCEPT !.rc = "ok", !.phase = p], h)
      /\ Calm([h EXCEPT !.rc = "ok", !.block_data = FALSE], h)
  <2>1. Calm([h EXCEPT !.cntlid = CntlId], h)
    BY Zenon DEF IsHost, HostFields, Calm
  <2>2. \A p : Calm([h EXCEPT !.cntlid = CntlId, !.phase = p], h)
    BY Zenon DEF IsHost, HostFields, Calm
  <2>3. \A p : Calm([h EXCEPT !.phase = p], h)
    BY Zenon DEF IsHost, HostFields, Calm
  <2>4. \A p : Calm([h EXCEPT !.rc = "ok", !.phase = p], h)
    BY Zenon DEF IsHost, HostFields, Calm
  <2>5. Calm([h EXCEPT !.rc = "ok", !.block_data = FALSE], h)
    BY Zenon DEF IsHost, HostFields, Calm
  <2> QED BY Zenon, <2>1, <2>2, <2>3, <2>4, <2>5
<1>2. \A g : Calm(g, h) => /\ Calm(AuthRequired(g), h) /\ Calm(Add(g), h)
                           /\ Calm(IntfRestart(g, "ok"), h)
                           /\ Calm([g EXCEPT !.capacity_data = FALSE], h)
  <2> SUFFICES ASSUME NEW g, Calm(g, h)
               PROVE  /\ Calm(AuthRequired(g), h) /\ Calm(Add(g), h)
                      /\ Calm(IntfRestart(g, "ok"), h)
                      /\ Calm([g EXCEPT !.capacity_data = FALSE], h)
    BY Zenon
  <2>1. IsHost(g)
    BY Zenon DEF Calm
  <2>2. Calm(AuthRequired(g), g) /\ Calm(Add(g), g) /\ Calm(IntfRestart(g, "ok"), g)
    BY <2>1, AuthRequiredCalm, ResumeCalm, RestartCalm
  <2>3. Calm([g EXCEPT !.capacity_data = FALSE], g)
    BY Zenon, <2>1 DEF IsHost, HostFields, Calm
  <2> QED BY Zenon, <2>2, <2>3 DEF Calm
<1>3. CASE h.phase = "CONNECT_ADMIN"
  BY <1>1, <1>2, <1>3, RcCalm DEF RxSuccess
<1>4. CASE h.phase \in {"PROP_SET", "IDENTIFY_CTRL"}
  BY <1>1, <1>2, <1>4 DEF RxSuccess
<1>5. CASE h.phase = "IDENTIFY_NS"
  BY <1>5, OpenSocketCalm DEF RxSuccess
<1>6. CASE h.phase = "AUTH"
  <2>1. PICK t : t = AuthRxComplete(h, mem)
    BY Zenon
  <2>2. Calm(t, h)
    BY <2>1, AuthRxCompleteCalm
  <2>3. Calm(AuthFinish(t), t)
    BY <2>2, AuthFinishCalm DEF Calm
  <2>4. Calm(AuthFinish(t), h)
    BY Zenon, <2>2, <2>3 DEF Calm
  <2> QED BY <1>6, <2>1, <2>4 DEF RxSuccess
<1>7. CASE h.phase = "CONNECT_IO"
  <2>1. PICK r : r = [h EXCEPT !.rc = "ok", !.phase = "READY"]
    BY Zenon
  <2>2. Calm(r, h) /\ Calm(IntfRestart([r EXCEPT !.capacity_data = FALSE], "ok"), h)
    BY Zenon, <1>1, <1>2, <2>1
  <2> QED BY <1>7, <2>1, <2>2 DEF RxSuccess
<1>8. CASE h.phase = "READY"
  BY <1>1, <1>2, <1>8, RcCalm DEF RxSuccess
<1>9. CASE h.phase \notin {"CONNECT_ADMIN", "PROP_SET", "IDENTIFY_CTRL",
                           "IDENTIFY_NS", "AUTH", "CONNECT_IO", "READY"}
  BY <1>9, RcCalm DEF RxSuccess
<1> QED BY <1>3, <1>4, <1>5, <1>6, <1>7, <1>8, <1>9

LEMMA RxCommandHonest ==
  ASSUME NEW h, IsHost(h), h.step \in AuthSteps, NEW mem
  PROVE  Honest(RxCommand(h, mem), h)
<1>1. PICK i : i = [h EXCEPT !.tx_in_flight = FALSE]
  BY Zenon
<1>2. Calm(i, h) /\ i.step \in AuthSteps
  BY Zenon, <1>1 DEF IsHost, HostFields, Calm
<1>3. Calm(RxSuccess(i, mem), i) /\ Honest(RxFailure(i), i)
  BY <1>2, RxSuccessCalm, RxFailureHonest DEF Calm
<1>4. Honest(RxSuccess(i, mem), h) /\ Honest(RxFailure(i), h)
  BY Zenon, <1>2, <1>3 DEF Calm, Honest
<1> QED BY Zenon, <1>1, <1>4 DEF RxCommand

LEMMA RxDataCalm ==
  ASSUME NEW h, IsHost(h), NEW mem
  PROVE  Calm(RxData(h, mem), h)
<1>1. PICK i : i = [h EXCEPT !.tx_in_flight = FALSE, !.rc = "ok"]
  BY Zenon
<1>2. Calm(i, h)
  BY Zenon, <1>1 DEF IsHost, HostFields, Calm
<1>3. PICK t : t = AuthRxData(i, mem)
  BY Zenon
<1>4. Calm(t, i)
  BY <1>2, <1>3, AuthRxDataCalm DEF Calm
<1>5. Calm(AuthFinish(t), t)
  BY <1>4, AuthFinishCalm DEF Calm
<1>6. Calm(AuthFinish(t), h)
  BY Zenon, <1>2, <1>4, <1>5 DEF Calm
<1>7. PICK v, w : /\ v = [i EXCEPT !.capacity = "ns"]
                  /\ w = [i EXCEPT !.block_buffer = h.cmd_buf, !.block_data = FALSE]
  BY Zenon
<1>8. Calm(v, i) /\ Calm(w, i)
  BY Zenon, <1>2, <1>7 DEF IsHost, HostFields, Calm
<1>9. Calm(IntfRestart(w, "ok"), w) /\ Calm(Rc(i, "EPROTO"), i)
  BY <1>2, <1>8, RestartCalm, RcCalm DEF Calm
<1>10. Calm(v, h) /\ Calm(IntfRestart(w, "ok"), h) /\ Calm(Rc(i, "EPROTO"), h)
  BY Zenon, <1>2, <1>8, <1>9 DEF Calm
<1> QED BY <1>1, <1>2, <1>3, <1>6, <1>7, <1>10 DEF RxData

LEMMA RxPduCalm ==
  ASSUME NEW h, IsHost(h), NEW q, NEW mem
  PROVE  Calm(RxPdu(h, q, mem), h)
<1>1. \A p : Calm(Add([h EXCEPT !.phase = p, !.tx_in_flight = FALSE]), h)
  <2> SUFFICES ASSUME NEW p
               PROVE  Calm(Add([h EXCEPT !.phase = p, !.tx_in_flight = FALSE]), h)
    BY Zenon
  <2>1. PICK i : i = [h EXCEPT !.phase = p, !.tx_in_flight = FALSE]
    BY Zenon
  <2>2. Calm(i, h)
    BY Zenon, <2>1 DEF IsHost, HostFields, Calm
  <2>3. Calm(Add(i), i)
    BY <2>2, ResumeCalm DEF Calm
  <2> QED BY Zenon, <2>1, <2>2, <2>3 DEF Calm
<1>2. ASSUME NEW c, NEW s
      PROVE  Calm([h EXCEPT !.rc = "ok", !.cid_cqe = c, !.status_cqe = s], h)
  <2>1. PICK u : u = [h EXCEPT !.rc = "ok", !.cid_cqe = c, !.status_cqe = s]
    BY Zenon
  <2>2. Calm(u, h)
    BY Zenon, <2>1 DEF IsHost, HostFields, Calm
  <2> QED BY Zenon, <2>1, <2>2
<1>3. \A n : Calm([h EXCEPT !.rc = "ok", !.cmd_data_len = n], h)
  BY Zenon DEF IsHost, HostFields, Calm
<1>4. /\ Calm(Rc(h, "EPROTO"), h)
      /\ \A pdu : Calm(TxH2cData(h, pdu, mem), h)
  BY RcCalm, SendersCalm
<1> QED BY <1>1, <1>2, <1>3, <1>4 DEF RxPdu

LEMMA RxPduCompleteHonest ==
  ASSUME NEW h, IsHost(h), h.step \in AuthSteps, NEW q, NEW mem
  PROVE  Honest(RxPduComplete(h, q, mem), h)
<1>1. PICK t : t = CASE h.sock[q].hdr.type \in {"icresp", "r2t"} -> Rc(h, "ok")
                     [] h.sock[q].hdr.type = "response" -> RxCommand(h, mem)
                     [] h.sock[q].hdr.type = "c2hdata" ->
                          IF h.cmd_data_offset < h.cmd_data_len
                          THEN Rc(h, "ok") ELSE RxData(h, mem)
                     [] OTHER -> Rc(h, "EPROTO")
  BY Zenon
<1>2. Honest(t, h)
  <2>1. Honest(Rc(h, "ok"), h) /\ Honest(Rc(h, "EPROTO"), h)
    BY RcCalm DEF Calm, Honest
  <2>2. Honest(RxCommand(h, mem), h) /\ Honest(RxData(h, mem), h)
    BY RxCommandHonest, RxDataCalm DEF Calm, Honest
  <2> QED BY <1>1, <2>1, <2>2
<1>3. PICK x : x = IF t.rc = "ok" THEN "hdr" ELSE "stuck"
  BY Zenon
<1>4. RxPduComplete(h, q, mem) = Rx(t, q, x)
  BY Zenon, <1>1, <1>3 DEF RxPduComplete
<1>5. Calm(Rx(t, q, x), t) /\ Rx(t, q, x).rc = t.rc
  BY <1>2, RxCalm DEF Honest
<1> QED BY Zenon, <1>2, <1>4, <1>5 DEF Calm, Honest

LEMMA RxWholeHonest ==
  ASSUME NEW h, Sane(h), NEW q \in Queues, NEW pdu \in CtrlPdus, NEW mem
  PROVE  Honest(RxWhole(h, q, pdu, mem), h)
<1>1. PICK z : z = [h.sock[q] EXCEPT !.hdr = pdu]
  BY Zenon
<1>2. PICK y : y = [h.sock EXCEPT ![q] = z]
  BY Zenon
<1>3. PICK g : g = [h EXCEPT !.sock = y]
  BY Zenon
<1>4. IsHost(h)
  BY SaneIsHost
<1>5. g = [h EXCEPT !.sock[q] = z]
  BY <1>2, <1>3, <1>4 DEF IsHost, HostFields
<1>6. Calm(g, h)
  BY Zenon, <1>3, <1>4 DEF IsHost, HostFields, Calm
<1>7. Sane(g)
  <2>1. z \in Socks
    BY <1>1, HdrType DEF Socks
  <2> QED BY <1>5, <2>1 DEF Sane, Hosts
<1>8. PICK t : t = RxPdu(g, q, mem)
  BY Zenon
<1>9. Calm(t, h) /\ t.step \in AuthSteps
  <2>1. Calm(t, g)
    BY <1>6, <1>8, RxPduCalm DEF Calm
  <2>2. Sane(t)
    BY <1>7, <1>8, RxPduSane
  <2>3. t.step \in AuthSteps
    BY <2>2, SaneIsHost
  <2> QED BY Zenon, <1>6, <2>1, <2>3 DEF Calm
<1>10. PICK b, o : b = [t.cmd_buf EXCEPT ![1] = pdu.data] /\ o = t.cmd_data_offset + 1
  BY Zenon
<1>11. PICK d : d = [t EXCEPT !.cmd_buf = b, !.cmd_data_offset = o]
  BY Zenon
<1>12. Calm(d, h) /\ d.step \in AuthSteps
  BY Zenon, <1>9, <1>11 DEF IsHost, HostFields, Calm
<1>13. d = [t EXCEPT !.cmd_buf[1] = pdu.data,
                     !.cmd_data_offset = t.cmd_data_offset + 1]
  BY <1>9, <1>10, <1>11 DEF Calm, IsHost, HostFields
<1>14. Honest(RxPduComplete(t, q, mem), t) /\ Honest(RxPduComplete(d, q, mem), d)
  BY <1>9, <1>12, RxPduCompleteHonest DEF Calm
<1>15. Calm(Rx(t, q, "stuck"), t)
  BY <1>9, RxCalm DEF Calm
<1>16. /\ Honest(RxPduComplete(t, q, mem), h) /\ Honest(RxPduComplete(d, q, mem), h)
       /\ Honest(Rx(t, q, "stuck"), h)
  BY Zenon, <1>9, <1>12, <1>14, <1>15 DEF Calm, Honest
<1> QED BY <1>1, <1>5, <1>8, <1>13, <1>16 DEF RxWhole

\* Whatever arrives closes nothing by itself, and a failed command is
\* reported to whoever delivered it.
LEMMA SocketDeliverHonest ==
  ASSUME NEW h, Sane(h), NEW q \in Queues, NEW pdu \in CtrlPdus, NEW half, NEW mem
  PROVE  /\ Honest(SocketDeliver(h, q, pdu, half, mem), h)
         /\ Honest(SocketDeliverPart(h, q, mem), h)
<1>1. PICK u : u = Unstick(h, q, mem)
  BY Zenon
<1>2. Honest(u, h) /\ Sane(u)
  <2>1. IsHost(h) /\ h.step \in AuthSteps
    BY SaneIsHost
  <2>2. Honest(RxPduComplete(h, q, mem), h) /\ Calm(Rc(h, "ok"), h)
    BY <2>1, RxPduCompleteHonest, RcCalm
  <2>3. Sane(RxPduComplete(h, q, mem)) /\ Sane(Rc(h, "ok"))
    BY RxPduCompleteSane, RcSane, Values
  <2> QED BY Zenon, <1>1, <2>2, <2>3 DEF Unstick, Calm, Honest
<1>3. PICK x : x = IF half /\ u.sock[q].rx # "part" THEN Junk ELSE pdu
  BY Zenon
<1>4. x \in CtrlPdus
  BY <1>3, ConstantsOK DEF Junk, CtrlPdus, Cids, Content, Data
<1>5. Honest(RxWhole(u, q, x, mem), u)
  BY <1>2, <1>4, RxWholeHonest
<1>6. Calm(Rx(u, q, "part"), u)
  BY <1>2, RxCalm DEF Honest
<1>7. u.rc = "ok" => Honest(RxWhole(u, q, x, mem), h) /\ Honest(Rx(u, q, "part"), h)
  BY Zenon, <1>2, <1>5, <1>6 DEF Calm, Honest
<1> QED BY Zenon, <1>1, <1>2, <1>3, <1>7 DEF SocketDeliver, SocketDeliverPart

\* The process closes a session for no closed window, and the block interface
\* closes none.
LEMMA StepCalm ==
  ASSUME NEW h, Sane(h), NEW mem, NEW rng \in BOOLEAN, NEW t,
         t = NvmetcpStep(h, mem, rng)
  PROVE  Calm(t, h) \/ (IsHost(t) /\ t.closed \notin {"open", "EAGAIN"})
<1>1. PICK u : u = StepSend(h, mem, rng)
  BY Zenon
<1>2. IsHost(h)
  BY SaneIsHost
<1>3. Calm(u, h)
  <2>1. \A q, op : /\ Calm(TxIcreq(h, q, mem), h) /\ Calm(TxConnect(h, q, mem), h)
                   /\ Calm(TxPropSet(h, mem), h) /\ Calm(TxIdentify(h, op, mem), h)
    BY <1>2, SendersCalm
  <2>2. Calm(AuthStep(h, mem, rng), h) /\ Calm(Rc(h, "ok"), h)
    BY <1>2, AuthStepCalm, RcCalm
  <2> QED BY <1>1, <2>1, <2>2 DEF StepSend
<1>4. u.rc \in Codes
  BY <1>1, StepSendSane, SaneIsHost
<1>5. Calm([u EXCEPT !.running = FALSE], u)
  BY Zenon, <1>3 DEF IsHost, HostFields, Calm
<1>6. Calm([u EXCEPT !.running = FALSE], h)
  BY Zenon, <1>3, <1>5 DEF Calm
<1>7. /\ IsHost(NvmetcpClose(u, u.rc))
      /\ u.rc # "ok" => NvmetcpClose(u, u.rc).closed = u.rc
  BY <1>3, CloseCode DEF Calm
<1>8. \/ t = u \/ t = [u EXCEPT !.running = FALSE]
      \/ t = NvmetcpClose(u, u.rc) /\ u.rc \notin {"ok", "EAGAIN", "ENOMEM"}
  BY <1>1 DEF NvmetcpStep
<1> QED BY <1>3, <1>4, <1>6, <1>7, <1>8 DEF Codes

LEMMA BlockCalm ==
  ASSUME NEW h, IsHost(h), NEW req, NEW mem
  PROVE  Calm(BlockReadCapacity(h, req), h) /\ Calm(BlockRw(h, req, mem), h)
<1>1. Calm(BlockReadCapacity(h, req), h)
  <2>1. PICK p : p = [h EXCEPT !.req = req]
    BY Zenon
  <2>2. Calm(p, h)
    BY Zenon, <2>1 DEF IsHost, HostFields, Calm
  <2>3. Calm([p EXCEPT !.capacity_data = TRUE], p)
    BY Zenon, <2>2 DEF IsHost, HostFields, Calm
  <2>4. Calm(IntfRestart(p, "ok"), p)
    BY <2>2, RestartCalm DEF Calm
  <2>5. Calm([p EXCEPT !.capacity_data = TRUE], h) /\ Calm(IntfRestart(p, "ok"), h)
    BY Zenon, <2>2, <2>3, <2>4 DEF Calm
  <2> QED BY Zenon, <2>1, <2>5 DEF BlockReadCapacity
<1>2. PICK res, wr, len :
        /\ res = [req |-> req, rc |-> "EAGAIN", buf |-> h.block_buffer,
                  cap |-> h.capacity]
        /\ wr = (req.op = "write") /\ len = IF req.op = "write" THEN 0 ELSE 1
  BY Zenon
<1>3. Calm([h EXCEPT !.rc = "EAGAIN", !.res = res], h)
  BY Zenon DEF IsHost, HostFields, Calm
<1>4. PICK g : g = [h EXCEPT !.req = req, !.block_data = TRUE,
                             !.block_buffer = Blank, !.block_writing = wr]
  BY Zenon
<1>5. Calm(g, h)
  BY Zenon, <1>4 DEF IsHost, HostFields, Calm
<1>6. PICK t : t = TxCommand(g, "io", req.op, req.id, len, mem)
  BY Zenon
<1>7. Calm(t, g)
  BY <1>5, <1>6, TxCommandCalm DEF Calm
<1>8. PICK u : u = [t EXCEPT !.block_data = FALSE]
  BY Zenon
<1>9. Calm(u, t)
  BY Zenon, <1>7, <1>8 DEF IsHost, HostFields, Calm
<1>10. Calm(IntfRestart(u, t.rc), u)
  BY <1>9, RestartCalm DEF Calm
<1>11. Calm(t, h) /\ Calm(IntfRestart(u, t.rc), h)
  BY Zenon, <1>5, <1>7, <1>9, <1>10 DEF Calm
<1>12. Calm(BlockRw(h, req, mem), h)
  BY Zenon, <1>2, <1>3, <1>4, <1>6, <1>8, <1>11 DEF BlockRw
<1> QED BY <1>1, <1>12

LEMMA CommandCloseCode ==
  ASSUME NEW h, IsHost(h), NEW t, t = NvmetcpCommandClose(h, "ETIMEDOUT")
  PROVE  Calm(t, h) \/ (IsHost(t) /\ t.closed = "ETIMEDOUT")
<1>1. PICK r : r = IntfRestart(h, "ETIMEDOUT")
  BY Zenon
<1>2. Calm(r, h)
  BY <1>1, RestartCalm
<1>3. PICK s : s = [r EXCEPT !.block_data = FALSE, !.capacity_data = FALSE]
  BY Zenon
<1>4. IsHost(s)
  BY Zenon, <1>2, <1>3 DEF IsHost, HostFields, Calm
<1>5. /\ IsHost(NvmetcpClose(s, "ETIMEDOUT"))
      /\ NvmetcpClose(s, "ETIMEDOUT").closed = "ETIMEDOUT"
  BY <1>4, CloseCode
<1> QED BY <1>1, <1>2, <1>3, <1>5 DEF NvmetcpCommandClose

-----------------------------------------------------------------------------
(* The invariant of closing.                                               *)

\* A closed session receives nothing.  Over TLS a failed one is closed, since
\* the filter closes the connection whose delivery failed; over plain TCP no
\* closed window closes a session.
Told ==
  /\ host.closed # "open" => ~seg.on
  /\ UseTls => (host.failed => host.closed # "open")
  /\ ~UseTls => host.closed # "EAGAIN"

LEMMA InitTold == Init => Told
<1> SUFFICES ASSUME Init PROVE Told
  OBVIOUS
<1>1. IsHost(Zalloc) /\ Zalloc.closed = "open" /\ ~Zalloc.failed
  BY Zenon DEF Zalloc, IsHost, HostFields
<1>2. Calm(NvmetcpOpen, Zalloc)
  BY <1>1, OpenSocketCalm DEF NvmetcpOpen
<1>3. host = NvmetcpOpen /\ ~seg.on
  BY DEF Init, Idle
<1> QED BY <1>1, <1>2, <1>3 DEF Calm, Told

\* While nothing is being delivered a step keeps the invariant if it closes
\* the session with a code other than EAGAIN, or neither closes nor fails it.
LEMMA LiveTold ==
  ASSUME Told, ~seg.on, host.closed = "open",
         \/ Calm(host', host)
         \/ host'.closed \notin {"open", "EAGAIN"} /\ ~seg'.on
  PROVE  Told'
  BY DEF Told, Calm

LEMMA EventTold ==
  ASSUME Inv, Told,
         \/ AnyStep \/ AnySubmit \/ CommandClose
         \/ \E code \in {"ok", "ETIMEDOUT"} : Close(code)
  PROVE  Told'
<1>1. Sane(host) /\ IsHost(host)
  BY SaneIsHost DEF Inv
<1>2. ~seg.on /\ host.closed = "open" /\ seg' = seg
  BY DEF AnyStep, AnySubmit, CommandClose, Close, Step, Submit, Live
<1>3. CASE AnyStep
  BY <1>1, <1>2, <1>3, StepCalm, LiveTold DEF AnyStep, Step
<1>4. CASE AnySubmit
  BY <1>1, <1>2, <1>4, BlockCalm, LiveTold DEF AnySubmit, Submit
<1>5. CASE CommandClose
  BY <1>1, <1>2, <1>5, CommandCloseCode, LiveTold DEF CommandClose
<1>6. CASE \E code \in {"ok", "ETIMEDOUT"} : Close(code)
  BY <1>1, <1>2, <1>6, CloseCode, LiveTold DEF Close
<1> QED BY <1>3, <1>4, <1>5, <1>6

\* A new connection, the start of a segment and the target touch the sockets
\* alone.
LEMMA SocketTold ==
  ASSUME Inv, Told, AnyConnectDone \/ AnySegStart \/ AnyTargetStep
  PROVE  Told'
<1>1. IsHost(host)
  BY SaneIsHost DEF Inv
<1>2. \A q, z : Calm([host EXCEPT !.sock[q] = z], host)
                /\ Calm(TxResume([host EXCEPT !.sock[q] = z]), host)
  <2> SUFFICES ASSUME NEW q, NEW z
               PROVE  Calm([host EXCEPT !.sock[q] = z], host)
                      /\ Calm(TxResume([host EXCEPT !.sock[q] = z]), host)
    BY Zenon
  <2>1. PICK y : y = [host.sock EXCEPT ![q] = z]
    BY Zenon
  <2>2. PICK t : t = [host EXCEPT !.sock = y]
    BY Zenon
  <2>3. t = [host EXCEPT !.sock[q] = z]
    BY <1>1, <2>1, <2>2 DEF IsHost, HostFields
  <2>4. Calm(t, host)
    BY Zenon, <1>1, <2>2 DEF IsHost, HostFields, Calm
  <2>5. Calm(TxResume(t), t)
    BY <2>4, ResumeCalm DEF Calm
  <2> QED BY Zenon, <2>3, <2>4, <2>5 DEF Calm
<1>3. CASE AnyConnectDone
  <2>1. PICK q \in Queues, w \in Windows : ConnectDone(q, w)
    BY Zenon, <1>3 DEF AnyConnectDone
  <2>2. ~seg.on /\ host.closed = "open" /\ Calm(host', host)
    BY Zenon, <1>2, <2>1 DEF ConnectDone, Live
  <2> QED BY Zenon, <2>2, LiveTold
<1>4. CASE AnySegStart
  <2>1. PICK q, tail, ack, w, n :
          SegStart(q, n, tail, ack, w)
    BY Zenon, <1>4 DEF AnySegStart
  <2>2. ~seg.on /\ host.closed = "open" /\ Calm(host', host)
    BY Zenon, <1>2, <2>1 DEF SegStart, Live
  <2> QED BY Zenon, <2>2, LiveTold
<1>5. CASE AnyTargetStep
  <2>1. PICK q, f, r : TargetStep(q, f, r)
    BY Zenon, <1>5 DEF AnyTargetStep
  <2>2. ~seg.on /\ host.closed = "open" /\ Calm(host', host)
    BY Zenon, <1>2, <2>1 DEF TargetStep
  <2> QED BY Zenon, <2>2, LiveTold
<1> QED BY <1>3, <1>4, <1>5

\* What a delivery may leave behind: over TLS its error closes the session.
LEMMA DeliveredTold ==
  ASSUME Told, seg.on, NEW t, Honest(t, host), t.rc \in Codes,
         IF UseTls /\ t.rc # "ok"
         THEN host' = NvmetcpClose(t, t.rc) /\ ~seg'.on
         ELSE host' = t \/ host' = TxResume(t)
  PROVE  Told'
<1>1. host.closed = "open" /\ IsHost(t) /\ t.closed = "open"
  BY DEF Told, Honest
<1>2. CASE UseTls /\ t.rc # "ok"
  <2>1. host'.closed = t.rc /\ t.rc # "open" /\ ~seg'.on
    BY <1>1, <1>2, CloseCode DEF Codes
  <2> QED BY Zenon, <1>2, <2>1 DEF Told
<1>3. CASE ~(UseTls /\ t.rc # "ok")
  <2>1. Calm(host', t)
    <3>1. Calm(TxResume(t), t) /\ Calm(t, t)
      BY <1>1, ResumeCalm DEF Calm
    <3> QED BY <1>3, <3>1
  <2> QED BY <1>1, <1>3, <2>1 DEF Told, Calm, Honest
<1> QED BY <1>2, <1>3

LEMMA SegPduTold ==
  ASSUME Inv, Told, NEW mem \in Mem, SegPdu(mem)
  PROVE  Told'
<1>1. PICK q, ps : q = seg.q /\ ps = wire[q].pdus
  BY Zenon
<1>2. PICK t : t = SocketDeliver(host, q, ps[1], wire[q].half, mem)
  BY Zenon
<1>3. q \in Queues /\ ps[1] \in CtrlPdus /\ seg.on
  <2>1. q \in Queues /\ ps \in Streams /\ seg.n \in Nat \ {0} /\ seg.n <= Len(ps)
    BY <1>1 DEF SegPdu, Inv, TypeOK, Segs, Links
  <2> QED BY <2>1 DEF Streams, SegPdu
<1>4. Honest(t, host) /\ t.rc \in Codes
  <2>1. Sane(host)
    BY DEF Inv
  <2>2. Sane(t) /\ Honest(t, host)
    BY <1>2, <1>3, <2>1, SocketDeliverSane, SocketDeliverHonest
  <2> QED BY <2>2, SaneIsHost
<1>5. IF UseTls /\ t.rc # "ok"
      THEN host' = NvmetcpClose(t, t.rc) /\ ~seg'.on
      ELSE host' = t
  <2>1. CASE t.rc = "ok"
    BY <1>1, <1>2, <2>1 DEF SegPdu
  <2>2. CASE t.rc # "ok"
    BY <1>1, <1>2, <2>2 DEF SegPdu, Idle
  <2> QED BY <2>1, <2>2
<1> QED BY Zenon, <1>3, <1>4, <1>5, DeliveredTold

LEMMA SegEndTold ==
  ASSUME Inv, Told, NEW mem \in Mem, SegEnd(mem)
  PROVE  Told'
<1>1. PICK q : q = seg.q
  BY Zenon
<1>2. PICK t : t = IF seg.tail THEN SocketDeliverPart(host, q, mem)
                   ELSE Rc(host, "ok")
  BY Zenon
<1>3. Sane(host) /\ q \in Queues /\ seg.on
  BY <1>1 DEF Inv, TypeOK, Segs, SegEnd
<1>4. Honest(t, host) /\ t.rc \in Codes
  <2>1. Junk \in CtrlPdus
    BY ConstantsOK DEF Junk, CtrlPdus, Cids, Content, Data
  <2>2. /\ Sane(SocketDeliverPart(host, q, mem))
        /\ Honest(SocketDeliverPart(host, q, mem), host)
    BY <1>3, <2>1, SocketDeliverSane, SocketDeliverHonest
  <2>3. Sane(Rc(host, "ok")) /\ Calm(Rc(host, "ok"), host)
    BY <1>3, Values, RcSane, RcCalm, SaneIsHost
  <2>4. Sane(t) /\ Honest(t, host)
    BY Zenon, <1>2, <2>2, <2>3 DEF Calm, Honest
  <2> QED BY <2>4, SaneIsHost
<1>5. IF UseTls /\ t.rc # "ok"
      THEN host' = NvmetcpClose(t, t.rc) /\ ~seg'.on
      ELSE host' = t \/ host' = TxResume(t)
  BY <1>1, <1>2 DEF SegEnd, Idle
<1> QED BY Zenon, <1>3, <1>4, <1>5, DeliveredTold

LEMMA NextTold == Inv /\ Told /\ [Next]_vars => Told'
<1> SUFFICES ASSUME Inv, Told, [Next]_vars PROVE Told'
  OBVIOUS
<1>1. CASE AnySegPdu
  BY <1>1, SegPduTold DEF AnySegPdu
<1>2. CASE AnySegEnd
  BY <1>2, SegEndTold DEF AnySegEnd
<1>3. CASE UNCHANGED vars
  BY <1>3 DEF vars, Told
<1> QED
  BY <1>1, <1>2, <1>3, EventTold, SocketTold DEF Next

-----------------------------------------------------------------------------
(* The theorems.                                                           *)

\* The session and its environment stay well formed, whatever the target
\* sends: no handler of nvmetcp.c or nvmetcp_auth.c leaves a field outside
\* its range.
THEOREM TypeCorrect == Spec => []TypeOK
<1>1. Inv => TypeOK
  BY DEF Inv
<1> QED BY <1>1, InitInv, NextInv, PTL DEF Spec

\* nvmetcp_step is never scheduled while a command is in flight.
THEOREM StepNeverInFlight == Spec => []NoStepInFlight
<1>1. Inv => NoStepInFlight
  BY DEF Inv, Sane, NoStepInFlight
<1> QED BY <1>1, InitInv, NextInv, PTL DEF Spec

\* No authentication message follows a validated success1.
THEOREM AuthRestsAfterSuccess == Spec => []NoRestartAfterSuccess
<1>1. Inv => NoRestartAfterSuccess
  BY DEF Inv, Sane, NoRestartAfterSuccess
<1> QED BY <1>1, InitInv, NextInv, PTL DEF Spec

\* Over TLS a failed setup or authentication command closes the session with
\* the segment that reported it: nvmetcp_rx_command returns an error, and the
\* filter closes the connection whose delivery failed.
THEOREM FailureCloses ==
  ASSUME UseTls
  PROVE  Spec => []FailedSessionCloses
<1>1. Init => Inv /\ Told
  BY InitInv, InitTold
<1>2. Inv /\ Told /\ [Next]_vars => (Inv /\ Told)'
  BY NextInv, NextTold
<1>3. Inv /\ Told => FailedSessionCloses
  BY DEF Told, FailedSessionCloses
<1> QED BY <1>1, <1>2, <1>3, PTL DEF Spec

\* Over plain TCP a closed window never closes a session: nvmetcp_step takes
\* the process off the list and waits for the window to open, and the return
\* code of a delivery is ignored.
THEOREM WindowNeverCloses ==
  ASSUME ~UseTls
  PROVE  Spec => []TransientNeverFatal
<1>1. Init => Inv /\ Told
  BY InitInv, InitTold
<1>2. Inv /\ Told /\ [Next]_vars => (Inv /\ Told)'
  BY NextInv, NextTold
<1>3. Inv /\ Told => TransientNeverFatal
  BY DEF Told, TransientNeverFatal
<1> QED BY <1>1, <1>2, <1>3, PTL DEF Spec
=============================================================================
