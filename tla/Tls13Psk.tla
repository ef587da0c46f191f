------------------------------ MODULE Tls13Psk ------------------------------
(***************************************************************************)
(* The TLS 1.3 pre-shared key filter (net/tls13.c) between a consumer (the *)
(* NVMe/TCP session) and iPXE's TCP, with a conforming server beyond it.   *)
(*                                                                         *)
(* tls   is struct tls13_psk plus what its handlers touch directly: the    *)
(*       socket below (connected, segment unacknowledged), the records     *)
(*       handed to it, and the consumer above (scheduled, what it sent and *)
(*       received).  Every handler is an operator from such records to     *)
(*       such records; rc is its return.                                   *)
(* rx    says whether tls13_psk_rx() is running, and the window TCP saw    *)
(*       before the segment being delivered.                               *)
(* down  is the server's byte stream as whole records; net of its units    *)
(*       are still in the network and tls.rx_len of them in the receive    *)
(*       buffer.  A unit stands for a fixed number of bytes; a record's    *)
(*       header is in its first unit.                                      *)
(* srv and budget are the environment.                                     *)
(***************************************************************************)
EXTENDS Tls13KeySchedule

CONSTANTS
  MaxRecord,      \* size of the receive buffer, in units
  MaxSegment,     \* largest TCP payload, in units
  RecordLens,     \* lengths of the server's data records, in units
  ExtensionLens,  \* lengths of EncryptedExtensions, in bytes
  IdentityLens,   \* lengths of the PSK identity, in bytes
  ServerPsks,     \* keys the server may hold for the identity
  Selections,     \* what a ServerHello may choose: "psk","nopsk","tls12"
  MaxUp, MaxDown, \* messages each side wants to send
  MaxNoMem, MaxCloses

ASSUME ConstantsOK ==
  /\ {MaxRecord, MaxSegment} \subseteq Nat \ {0}
  /\ RecordLens \subseteq Nat \ {0}
  /\ ExtensionLens \subseteq Nat /\ IdentityLens \subseteq Nat
  /\ {MaxUp, MaxDown, MaxNoMem, MaxCloses} \subseteq Nat
  /\ Selections \subseteq {"psk", "nopsk", "tls12"}

VARIABLES tls, rx, down, net, srv, budget
vars == <<tls, rx, down, net, srv, budget>>

MaxClientHello == 512
TranscriptSize == 1024
Phases == {"CLIENT_HELLO", "SERVER_FLIGHT", "CLIENT_FINISHED", "DATA",
           "FAILED"}
Psk == "psk"

Msg(t, len) == [t |-> t, len |-> len, exts |-> {}, mac |-> << >>]
Body(msgs, n) == [msgs |-> msgs, n |-> n]
Cleartext(type, msgs, len) ==
  [type |-> type, len |-> len,
   frag |-> [key |-> << >>, nonce |-> << >>, type |-> type,
             data |-> Body(msgs, 0)]]
Ciphertext(frag, len) == [type |-> "data", len |-> len, frag |-> frag]

Rc(c, rc) == [c EXCEPT !.rc = rc]
CipherWindow(c) == c.conn /\ ~c.unacked

\* xfer_deliver() on the socket: TCP holds one unacknowledged segment.
TcpDeliver(c, r) == [c EXCEPT !.out = Append(@, r), !.unacked = TRUE]
\* xfer_window_changed() on the consumer: its process is scheduled.
WindowChanged(c) == [c EXCEPT !.awake = TRUE]

-----------------------------------------------------------------------------
SetKey(c, dir, secret) == [c EXCEPT ![dir].k = TrafficKey(secret)]

\* Mutant: the sequence number is left where it was.
CipherRecordStuck(c, type, body) ==
  [c EXCEPT !.txbuf = <<Ciphertext(Seal(c.tx.k, c.tx.seq, type, body), 1)>>,
            !.sealed = Append(@, <<c.tx.k.key, Nonce(c.tx.k.iv, c.tx.seq)>>)]

\* tls13_psk_cipher_record(), once its buffer is allocated.
CipherRecord(c, type, body) ==
  [c EXCEPT !.txbuf = <<Ciphertext(Seal(c.tx.k, c.tx.seq, type, body), 1)>>,
            !.sealed = Append(@, <<c.tx.k.key, Nonce(c.tx.k.iv, c.tx.seq)>>),
            !.tx.seq = @ + 1]

Fail(c) == IF c.phase = "FAILED" THEN c
           ELSE [c EXCEPT !.phase = "FAILED", !.plugged = FALSE]

\* tls13_psk_client_hello() and its caller: no hello, no connection.
SendClientHello(c, mem) ==
  LET len == ClientHello(MaxClientHello, c.idlen)
      binder == Binder(EarlySecret(Psk), "ext binder", <<"truncated">>)
      hello == [Msg("CH", len) EXCEPT !.mac = binder]
  IN IF ~mem \/ len = 0 \/ ~TranscriptFits(c.hs, len, TranscriptSize)
     THEN Fail(c)
     ELSE [c EXCEPT !.txbuf = <<Cleartext("handshake", <<hello>>, 1)>>,
                    !.hs = TranscriptUpdate(@, "CH", len),
                    !.phase = "SERVER_FLIGHT"]

SendFinished(c, mem) ==
  LET fin == [Msg("FIN", 36) EXCEPT
                !.mac = FinishedMac(c.sec.client_hs, c.hs.msgs)]
  IN IF ~mem THEN Fail(c) ELSE CipherRecord(c, "handshake", Body(<<fin>>, 0))

Build(c, mem) ==
  CASE c.txbuf = << >> /\ c.phase = "CLIENT_HELLO" -> SendClientHello(c, mem)
    [] c.txbuf = << >> /\ c.phase = "CLIENT_FINISHED" -> SendFinished(c, mem)
    [] OTHER -> c

\* Mutant: the sequence number carries over to the application key.
FlushKeepsSeq(c) ==
  LET d == TcpDeliver([c EXCEPT !.txbuf = << >>], c.txbuf[1])
  IN IF c.txbuf = << >> \/ ~CipherWindow(c) THEN c
     ELSE IF c.phase # "CLIENT_FINISHED" THEN d
     ELSE [SetKey(d, "tx", d.sec.client_ap) EXCEPT !.phase = "DATA"]

\* Completing the client's Finished switches to the application key.
Flush(c) ==
  LET d == TcpDeliver([c EXCEPT !.txbuf = << >>], c.txbuf[1])
  IN IF c.txbuf = << >> \/ ~CipherWindow(c) THEN c
     ELSE IF c.phase # "CLIENT_FINISHED" THEN d
     ELSE [SetKey(d, "tx", d.sec.client_ap) EXCEPT
             !.tx.seq = 0, !.phase = "DATA"]

\* Mutant: the consumer is told only when a record has been handed over.
TxQuiet(c, mem) ==
  LET b == Build(c, mem)
  IN IF c.phase = "FAILED" \/ b.phase = "FAILED" THEN b
     ELSE IF Flush(b).out # b.out THEN WindowChanged(Flush(b)) ELSE Flush(b)

Tx(c, mem) ==
  LET b == Build(c, mem)
  IN IF c.phase = "FAILED" THEN c
     ELSE IF b.phase = "FAILED" THEN b
     ELSE WindowChanged(Flush(b))
-----------------------------------------------------------------------------
\* Mutant: the transcript is appended to without looking at its size.
UpdateUnchecked(c, msg) ==
  [c EXCEPT !.hs = TranscriptUpdate(@, msg.t, msg.len), !.rc = "ok"]

Update(c, msg) ==
  IF TranscriptFits(c.hs, msg.len, TranscriptSize)
  THEN [c EXCEPT !.hs = TranscriptUpdate(@, msg.t, msg.len), !.rc = "ok"]
  ELSE Rc(c, "ENOSPC")

\* tls13_parse_server_hello(): an absent extension leaves its field clear.
ParseServerHello(msg) ==
  [version       |-> IF "supported_versions" \in msg.exts THEN 772 ELSE 0,
   has_key_share |-> "key_share" \in msg.exts,
   has_psk       |-> "pre_shared_key" \in msg.exts]

\* A ServerHello must be TLS 1.3 and must have selected the key.
ServerHello(c, msg) ==
  LET hello == ParseServerHello(msg)
      u == Update(c, msg)
      hs == HandshakeExchange(EarlySecret(Psk), "ck", "sk")
      chs == DeriveSecret(hs, "c hs traffic", u.hs.msgs)
      shs == DeriveSecret(hs, "s hs traffic", u.hs.msgs)
      s == [u EXCEPT !.sec.handshake = hs, !.sec.client_hs = chs,
                     !.sec.server_hs = shs]
      k == SetKey(SetKey(s, "tx", chs), "rx", shs)
  IN IF ~(hello.version = 772 /\ hello.has_key_share /\ hello.has_psk)
     THEN Rc(c, "EINVAL")
     ELSE IF u.rc # "ok" THEN u
     ELSE [k EXCEPT !.tx.seq = 0, !.rx.seq = 0]

\* Mutant: the receive sequence number carries over to the new key.
ServerFinishedSeq(c, msg) ==
  LET u == Update(c, msg)
      master == MasterSecret(c.sec.handshake)
      s == [u EXCEPT
              !.sec.client_ap = DeriveSecret(master, "c ap traffic", u.hs.msgs),
              !.sec.server_ap = DeriveSecret(master, "s ap traffic", u.hs.msgs)]
  IN IF msg.mac # FinishedMac(c.sec.server_hs, c.hs.msgs) THEN Rc(c, "EINVAL")
     ELSE IF u.rc # "ok" THEN u
     ELSE [SetKey(s, "rx", s.sec.server_ap) EXCEPT !.phase = "CLIENT_FINISHED"]

ServerFinished(c, msg) ==
  LET u == Update(c, msg)
      master == MasterSecret(c.sec.handshake)
      s == [u EXCEPT
              !.sec.client_ap = DeriveSecret(master, "c ap traffic", u.hs.msgs),
              !.sec.server_ap = DeriveSecret(master, "s ap traffic", u.hs.msgs)]
  IN IF msg.mac # FinishedMac(c.sec.server_hs, c.hs.msgs) THEN Rc(c, "EINVAL")
     ELSE IF u.rc # "ok" THEN u
     ELSE [SetKey(s, "rx", s.sec.server_ap) EXCEPT
             !.rx.seq = 0, !.phase = "CLIENT_FINISHED"]

HandshakeMsg(c, msg) ==
  IF c.rc # "ok" THEN c
  ELSE CASE msg.t = "SH" -> ServerHello(c, msg)
         [] msg.t = "EE" -> Update(c, msg)
         [] msg.t = "FIN" -> ServerFinished(c, msg)
         [] msg.t = "NST" -> c                     \* no resumption
         [] OTHER -> Rc(c, "EINVAL")

\* The server puts at most two messages into a record.
Handshake(c, msgs) ==
  LET one == HandshakeMsg(c, msgs[1])
      two == IF Len(msgs) < 2 THEN one ELSE HandshakeMsg(one, msgs[2])
  IN IF msgs = << >> THEN c ELSE two

\* tls13_psk_close(), from either neighbour.
PskClose(c) == [c EXCEPT !.phase = "FAILED", !.plugged = FALSE]

\* xfer_deliver() on the plaintext interface: the consumer takes the data,
\* refuses it, or closes the connection from inside its handler.
Deliver(c, n, mem, answer) ==
  CASE n = 0 -> c
    [] n # 0 /\ ~mem -> Rc(c, "ENOMEM")
    [] n # 0 /\ mem /\ ~c.plugged -> Rc(c, "EPIPE")
    [] n # 0 /\ mem /\ c.plugged /\ answer = "take" ->
         [c EXCEPT !.got = Append(@, n)]
    [] n # 0 /\ mem /\ c.plugged /\ answer = "refuse" -> Rc(c, "EINVAL")
    [] n # 0 /\ mem /\ c.plugged /\ answer = "close" -> PskClose(c)

Record(c, r, mem, answer) ==
  LET o == [c EXCEPT !.rx.seq = @ + 1]
  IN CASE r.type = "ccs" -> c
       [] r.type = "handshake" -> Handshake(c, r.frag.data.msgs)
       [] r.type = "alert" -> Rc(c, "EINVAL")
       [] r.type = "data" /\ ~Open(c.rx.k, c.rx.seq, r.frag) ->
            Rc(c, "EINVAL")
       [] r.type = "data" /\ Open(c.rx.k, c.rx.seq, r.frag) ->
            CASE r.frag.type = "handshake" -> Handshake(o, r.frag.data.msgs)
              [] r.frag.type = "data" -> Deliver(o, r.frag.data.n, mem, answer)
              [] r.frag.type = "alert" -> Rc(o, "EINVAL")

PlainstreamWindow(c) ==
  c.phase = "DATA" /\ c.txbuf = << >> /\ CipherWindow(c)

\* Mutant: a record that could not be allocated is reported as sent.
PlainstreamDeliverUnchecked(c, n, mem) ==
  IF c.phase # "DATA" THEN Rc(c, "EINVAL")
  ELSE IF ~mem THEN c
  ELSE Tx(CipherRecord(c, "data", Body(<< >>, n)), mem)

PlainstreamDeliver(c, n, mem) ==
  IF c.phase # "DATA" THEN Rc(c, "EINVAL")
  ELSE IF ~mem THEN Rc(c, "ENOMEM")
  ELSE Tx(CipherRecord(c, "data", Body(<< >>, n)), mem)
-----------------------------------------------------------------------------
NoSecrets == [handshake |-> << >>, client_hs |-> << >>, server_hs |-> << >>,
              client_ap |-> << >>, server_ap |-> << >>]
Fresh == [k |-> NoKey, seq |-> 0]

\* add_tls13_psk(), up to the opening of its socket.
Init ==
  \E id \in IdentityLens, psk \in ServerPsks :
    /\ tls = [phase |-> "CLIENT_HELLO", tx |-> Fresh, rx |-> Fresh,
              txbuf |-> << >>, rx_len |-> 0,
              hs |-> [msgs |-> << >>, len |-> 0], sec |-> NoSecrets,
              idlen |-> id, plugged |-> FALSE, conn |-> FALSE,
              unacked |-> FALSE, out |-> << >>, awake |-> FALSE,
              sealed |-> << >>, sent |-> 0, got |-> << >>, rc |-> "ok"]
    /\ rx = [busy |-> FALSE, window |-> FALSE]
    /\ down = << >> /\ net = 0
    /\ srv = [state |-> "start", psk |-> psk, hs |-> << >>, tx |-> Fresh,
              rx |-> Fresh, ap |-> << >>, got |-> << >>, sent |-> 0,
              cause |-> FALSE]
    /\ budget = [mem |-> MaxNoMem, close |-> MaxCloses]

Idle == ~rx.busy
\* An allocation may fail, and a neighbour may end the connection, while
\* the budget lasts.
Spend(mem, close) ==
  /\ mem \/ budget.mem > 0
  /\ close => budget.close > 0
  /\ budget' = [mem |-> IF mem THEN budget.mem ELSE budget.mem - 1,
                close |-> IF close THEN budget.close - 1 ELSE budget.close]
Memory(mem) == Spend(mem, FALSE)

\* The parent is attached and the handshake begins, on a socket that is not
\* connected yet.
AddTls13Psk(mem) ==
  /\ tls.phase = "CLIENT_HELLO" /\ Memory(mem)
  /\ tls' = Tx([tls EXCEPT !.plugged = TRUE], mem)
  /\ UNCHANGED <<rx, down, net, srv>>

\* The segment that completes the connection, or acknowledges the last one,
\* opens the window: TCP says so, and the filter transmits.
CipherstreamWindow(mem) ==
  /\ Idle /\ tls.plugged /\ Memory(mem)
  /\ ~tls.conn \/ tls.unacked
  /\ tls' = Tx([tls EXCEPT !.conn = TRUE, !.unacked = FALSE, !.rc = "ok"], mem)
  /\ UNCHANGED <<rx, down, net, srv>>

\* tls13_psk_cipherstream_deliver(): n units arrive, with or without an
\* acknowledgement; they must fit behind what is buffered already.
CipherstreamDeliver(n, ack) ==
  LET c == [tls EXCEPT !.unacked = @ /\ ~ack, !.rc = "ok"]
  IN /\ Idle /\ tls.plugged /\ n <= net /\ (ack => tls.unacked)
     /\ net' = net - n
     /\ IF c.rx_len + n > MaxRecord
        THEN tls' = Fail(Rc(c, "EINVAL")) /\ UNCHANGED rx
        ELSE /\ tls' = [c EXCEPT !.rx_len = @ + n]
             /\ rx' = [busy |-> TRUE, window |-> CipherWindow(tls)]
     /\ UNCHANGED <<down, srv, budget>>

\* One turn of tls13_psk_rx().
RxRecord(mem, answer) ==
  /\ rx.busy /\ tls.rx_len > 0 /\ Spend(mem, answer # "take")
  /\ LET r == Head(down)
         d == Record(tls, r, mem, answer)
     IN \/ /\ r.len > MaxRecord
           /\ tls' = Fail(Rc(tls, "EINVAL"))
           /\ rx' = [rx EXCEPT !.busy = FALSE] /\ UNCHANGED down
        \/ /\ r.len <= MaxRecord /\ tls.rx_len >= r.len /\ d.rc # "ok"
           /\ tls' = Fail(d)
           /\ rx' = [rx EXCEPT !.busy = FALSE] /\ UNCHANGED down
        \/ /\ r.len <= MaxRecord /\ tls.rx_len >= r.len /\ d.rc = "ok"
           /\ tls' = Tx([d EXCEPT !.rx_len = @ - r.len], mem)
           /\ down' = Tail(down) /\ UNCHANGED rx
  /\ UNCHANGED <<net, srv>>

\* The loop ends; TCP notifies only if its window has changed meanwhile.
RxDone(mem) ==
  /\ rx.busy /\ Memory(mem)
  /\ tls.rx_len > 0 => /\ Head(down).len <= MaxRecord
                       /\ tls.rx_len < Head(down).len
  /\ rx' = [rx EXCEPT !.busy = FALSE]
  /\ tls' = IF tls.plugged /\ CipherWindow(tls) # rx.window
            THEN Tx(tls, mem) ELSE tls
  /\ UNCHANGED <<down, net, srv>>

\* The consumer's process: it looks at the window before it transmits, and
\* sleeps until the next notification when there is none.
AppStep(mem) ==
  /\ Idle /\ tls.plugged /\ tls.awake /\ tls.sent < MaxUp
  /\ LET d == PlainstreamDeliver(Rc(tls, "ok"), tls.sent + 1, mem)
     IN \/ /\ ~PlainstreamWindow(tls) /\ UNCHANGED budget
           /\ tls' = [tls EXCEPT !.awake = FALSE]
        \/ /\ PlainstreamWindow(tls) /\ Memory(mem)
           /\ tls' = IF d.rc = "ok" THEN [d EXCEPT !.sent = @ + 1] ELSE d
  /\ UNCHANGED <<rx, down, net, srv>>

\* Either neighbour closes its side.
CloseConnection ==
  /\ Idle /\ tls.plugged /\ Spend(TRUE, TRUE)
  /\ tls' = PskClose(tls)
  /\ UNCHANGED <<rx, down, net, srv>>
-----------------------------------------------------------------------------
\* The server (external): it shares the key schedule, reads records in
\* order, and sends its flight in one encrypted record or in two.
SrvEmit(records, n) == down' = down \o records /\ net' = net + n
SrvRead == /\ tls.out # << >> /\ srv.state # "refused"
           /\ tls' = [tls EXCEPT !.out = Tail(@)]
           /\ UNCHANGED <<rx, budget>>

SrvExtensions(sel) ==
  CASE sel = "psk" -> {"supported_versions", "key_share", "pre_shared_key"}
    [] sel = "nopsk" -> {"supported_versions", "key_share"}
    [] sel = "tls12" -> {}

SrvHello(sel, elen, split, ccs) ==
  LET r == Head(tls.out)
      ch == r.frag.data.msgs[1]
      sh == [Msg("SH", 96) EXCEPT !.exts = SrvExtensions(sel)]
      hs == HandshakeExchange(EarlySecret(srv.psk), "sk", "ck")
      script == <<"CH", "SH">>
      shs == DeriveSecret(hs, "s hs traffic", script)
      chs == DeriveSecret(hs, "c hs traffic", script)
      ee == Msg("EE", elen)
      fin == [Msg("FIN", 36) EXCEPT
                !.mac = FinishedMac(shs, Append(script, "EE"))]
      key == TrafficKey(shs)
      flight == IF split
                THEN <<Ciphertext(Seal(key, 0, "handshake", Body(<<ee>>, 0)), 1),
                       Ciphertext(Seal(key, 1, "handshake", Body(<<fin>>, 0)), 1)>>
                ELSE <<Ciphertext(Seal(key, 0, "handshake",
                                       Body(<<ee, fin>>, 0)), 1)>>
      whole == script \o <<"EE", "FIN">>
      master == MasterSecret(hs)
      records == <<Cleartext("handshake", <<sh>>, 1)>>
                   \o (IF ccs THEN <<Cleartext("ccs", << >>, 1)>> ELSE << >>)
                   \o flight
  IN /\ srv.state = "start" /\ SrvRead
     /\ IF ch.mac # Binder(EarlySecret(srv.psk), "ext binder", <<"truncated">>)
        THEN /\ SrvEmit(<<Cleartext("alert", << >>, 1)>>, 1)
             /\ srv' = [srv EXCEPT !.state = "refused", !.cause = TRUE]
        ELSE /\ SrvEmit(records, Len(records))
             /\ srv' = [srv EXCEPT
                   !.state = "flight",
                   !.cause = sel # "psk" \/ ch.len + 96 + elen + 36
                                               > TranscriptSize,
                   !.hs = <<chs, whole>>,
                   !.rx = [k |-> TrafficKey(chs), seq |-> 0],
                   !.ap = DeriveSecret(master, "c ap traffic", whole),
                   !.tx = [k |-> TrafficKey(
                             DeriveSecret(master, "s ap traffic", whole)),
                           seq |-> 0]]

SrvFinished ==
  LET r == Head(tls.out)
      good == /\ Open(srv.rx.k, srv.rx.seq, r.frag)
              /\ r.frag.type = "handshake"
              /\ r.frag.data.msgs[1].mac = FinishedMac(srv.hs[1], srv.hs[2])
  IN /\ srv.state = "flight" /\ SrvRead
     /\ srv' = IF good
               THEN [srv EXCEPT !.state = "data",
                       !.rx = [k |-> TrafficKey(srv.ap), seq |-> 0]]
               ELSE [srv EXCEPT !.state = "bad"]
     /\ UNCHANGED <<down, net>>

SrvData ==
  LET r == Head(tls.out)
  IN /\ srv.state = "data" /\ SrvRead
     /\ srv' = IF Open(srv.rx.k, srv.rx.seq, r.frag)
               THEN [srv EXCEPT !.rx.seq = @ + 1,
                       !.got = Append(@, r.frag.data.n)]
               ELSE [srv EXCEPT !.state = "bad"]
     /\ UNCHANGED <<down, net>>

\* Data may follow the server's Finished at once.
SrvSend(len) ==
  /\ srv.state \in {"flight", "data"} /\ srv.sent < MaxDown
  /\ SrvEmit(<<Ciphertext(Seal(srv.tx.k, srv.tx.seq, "data",
                               Body(<< >>, srv.sent + 1)), len)>>, len)
  /\ srv' = [srv EXCEPT !.sent = @ + 1, !.tx.seq = @ + 1,
                        !.cause = @ \/ len > MaxRecord]
  /\ UNCHANGED <<tls, rx, budget>>

\* A session ticket or an empty record, once, and an alert that ends it all.
SrvOther(type) ==
  /\ srv.state = "data" /\ srv.tx.seq = srv.sent
  /\ SrvEmit(<<Ciphertext(
        Seal(srv.tx.k, srv.tx.seq, type,
             Body(IF type = "handshake" THEN <<Msg("NST", 200)>> ELSE << >>,
                  0)), 1)>>, 1)
  /\ srv' = [srv EXCEPT !.tx.seq = @ + 1,
                        !.state = IF type = "alert" THEN "refused" ELSE @,
                        !.cause = @ \/ type = "alert"]
  /\ UNCHANGED <<tls, rx, budget>>

Answers == {"take", "refuse", "close"}
Next ==
  \/ \E mem \in BOOLEAN :
       \/ AddTls13Psk(mem) \/ CipherstreamWindow(mem)
       \/ RxDone(mem) \/ AppStep(mem)
  \/ \E n \in 1..MaxSegment, ack \in BOOLEAN : CipherstreamDeliver(n, ack)
  \/ \E mem \in BOOLEAN, answer \in Answers : RxRecord(mem, answer)
  \/ CloseConnection
  \/ \E sel \in Selections, elen \in ExtensionLens, split, ccs \in BOOLEAN :
       SrvHello(sel, elen, split, ccs)
  \/ SrvFinished \/ SrvData
  \/ \E len \in RecordLens : SrvSend(len)
  \/ \E type \in {"handshake", "data", "alert"} : SrvOther(type)

Spec == Init /\ [][Next]_vars

\* Callbacks and processes run in turn, TCP retransmits until a segment is
\* acknowledged, and the server answers what it reads.
FairSpec ==
  /\ Spec
  /\ WF_vars(AddTls13Psk(TRUE)) /\ WF_vars(CipherstreamWindow(TRUE))
  /\ WF_vars(RxDone(TRUE)) /\ WF_vars(RxRecord(TRUE, "take"))
  /\ WF_vars(\E n \in 1..MaxSegment : CipherstreamDeliver(n, FALSE))
  /\ WF_vars(AppStep(TRUE))
  /\ WF_vars(SrvFinished) /\ WF_vars(SrvData)
  /\ WF_vars(\E sel \in Selections, elen \in ExtensionLens :
               SrvHello(sel, elen, FALSE, FALSE))
-----------------------------------------------------------------------------
\* The types of the connection: the receive buffer and the transcript of
\* struct tls13_psk stay within their sizes, at most one record is pending,
\* and the interfaces are attached exactly while the connection runs.
TypeOK ==
  /\ tls.phase \in Phases /\ tls.rx_len \in 0..MaxRecord
  /\ Len(tls.txbuf) \in 0..1 /\ tls.hs.len \in 0..TranscriptSize
  /\ {tls.tx.seq, tls.rx.seq, net} \subseteq Nat
  /\ tls.plugged <=> tls.phase \notin {"CLIENT_HELLO", "FAILED"}
  /\ srv.state \in {"start", "flight", "data", "bad", "refused"}

\* No two records are sealed under one key and nonce: every key change of
\* tls13_psk_server_hello(), tls13_psk_tx() and every count of
\* tls13_psk_cipher_record() together keep the counter fresh.
NonceFresh == \A i, j \in 1..Len(tls.sealed) :
                i # j => tls.sealed[i] # tls.sealed[j]

\* The server can open every record it reads: the client changes keys where
\* the server does, and no record is lost between its sealing and TCP.
PeerOpens == srv.state # "bad"

\* The connection fails only for a cause outside the filter: with memory to
\* spare, nobody closing it, a server that selects the key, and messages
\* and records within the sizes tls13.c names, it stays up.
Provoked == \/ budget.mem < MaxNoMem \/ budget.close < MaxCloses
            \/ srv.cause
            \/ ClientHello(MaxClientHello, tls.idlen) = 0
FailsForCause == tls.phase = "FAILED" => Provoked

\* Everything the consumer hands over while the connection lasts reaches
\* the server: no window notification that it waits for is missed.
AllSent == <>(tls.phase = "FAILED" \/ Len(srv.got) = MaxUp)

\* The filter implements an ordered stream in each direction, from what
\* tls13_psk_plainstream_deliver() accepts to what the server reads, and
\* from what the server seals to what tls13_psk_deliver() hands up.
Stream == INSTANCE SecureStream WITH
  offered <- [d \in {"up", "down"} |-> IF d = "up" THEN tls.sent ELSE srv.sent],
  taken <- [d \in {"up", "down"} |-> IF d = "up" THEN srv.got ELSE tls.got],
  open <- tls.phase # "FAILED"
StreamRefined == Stream!StreamSpec

\* The ClientHello lies within the buffer of TLS13_MAX_CLIENT_HELLO bytes
\* that tls13_psk_client_hello() reserves for it.
HelloInBuffer ==
  tls.phase = "SERVER_FLIGHT" /\ tls.txbuf # << >> =>
    tls.txbuf[1].frag.data.msgs[1].len <= MaxClientHello
=============================================================================
