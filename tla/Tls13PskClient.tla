--------------------------- MODULE Tls13PskClient ---------------------------
(***************************************************************************)
(* For the proofs about Tls13Psk: the inductive invariant, what the        *)
(* operators of the client do to a connection, and the way from record to  *)
(* record through the server's stream.                                     *)
(***************************************************************************)
EXTENDS Tls13Psk, Integers, TLAPS

-----------------------------------------------------------------------------
(* Sequences, whatever their elements *)

IsSeq(s) == \E S : s \in Seq(S)

LEMMA SeqLen ==
  ASSUME NEW s, IsSeq(s)
  PROVE  Len(s) \in Nat /\ (Len(s) = 0 <=> s = << >>) /\ DOMAIN s = 1..Len(s)
BY DEF IsSeq

LEMMA SeqAppend ==
  ASSUME NEW s, IsSeq(s), NEW e
  PROVE  /\ IsSeq(Append(s, e)) /\ Len(Append(s, e)) = Len(s) + 1
         /\ Append(s, e)[Len(s) + 1] = e
         /\ \A i \in 1..Len(s) : Append(s, e)[i] = s[i]
<1>1. PICK S : s \in Seq(S)
  BY DEF IsSeq
<1>2. s \in Seq(S \cup {e}) /\ e \in S \cup {e}
  BY <1>1
<1>3. Append(s, e) \in Seq(S \cup {e})
  BY <1>2
<1>4. QED
  BY <1>1, <1>2, <1>3 DEF IsSeq

LEMMA SeqConcat ==
  ASSUME NEW s, IsSeq(s), NEW t, IsSeq(t)
  PROVE  /\ IsSeq(s \o t) /\ Len(s \o t) = Len(s) + Len(t)
         /\ \A i \in 1..Len(s) : (s \o t)[i] = s[i]
         /\ \A i \in 1..Len(t) : (s \o t)[Len(s) + i] = t[i]
<1>1. PICK S, T : s \in Seq(S) /\ t \in Seq(T)
  BY DEF IsSeq
<1>2. s \in Seq(S \cup T) /\ t \in Seq(S \cup T)
  BY <1>1
<1>3. s \o t \in Seq(S \cup T)
  BY <1>2
<1>4. QED
  BY <1>1, <1>2, <1>3 DEF IsSeq

LEMMA SeqTail ==
  ASSUME NEW s, IsSeq(s), s # << >>
  PROVE  /\ IsSeq(Tail(s)) /\ Len(Tail(s)) = Len(s) - 1 /\ Len(s) \in Nat \ {0}
         /\ Head(s) = s[1] /\ \A i \in 1..Len(Tail(s)) : Tail(s)[i] = s[i + 1]
<1>1. PICK S : s \in Seq(S)
  BY DEF IsSeq
<1>2. QED
  BY <1>1 DEF IsSeq

LEMMA SeqSame ==
  ASSUME NEW s, IsSeq(s), NEW t, IsSeq(t), Len(s) = Len(t),
         \A i \in 1..Len(s) : s[i] = t[i]
  PROVE  s = t
<1>1. PICK S, T : s \in Seq(S) /\ t \in Seq(T)
  BY DEF IsSeq
<1>2. s \in Seq(S \cup T) /\ t \in Seq(S \cup T)
  BY <1>1
<1>3. QED
  BY <1>2

LEMMA SeqTuples ==
  /\ IsSeq(<< >>) /\ Len(<< >>) = 0
  /\ \A a : IsSeq(<<a>>) /\ Len(<<a>>) = 1 /\ <<a>>[1] = a
  /\ \A a, b : /\ IsSeq(<<a, b>>) /\ Len(<<a, b>>) = 2
               /\ <<a, b>>[1] = a /\ <<a, b>>[2] = b
<1>1. ASSUME NEW a PROVE IsSeq(<<a>>)
  <2>1. <<a>> \in Seq({a})
    OBVIOUS
  <2>2. QED
    BY Zenon, <2>1 DEF IsSeq
<1>2. ASSUME NEW a, NEW b PROVE IsSeq(<<a, b>>)
  <2>1. <<a, b>> \in Seq({a, b})
    OBVIOUS
  <2>2. QED
    BY Zenon, <2>1 DEF IsSeq
<1>3. IsSeq(<< >>)
  <2>1. << >> \in Seq({})
    OBVIOUS
  <2>2. QED
    BY <2>1 DEF IsSeq
<1>4. QED
  BY <1>1, <1>2, <1>3

-----------------------------------------------------------------------------
(***************************************************************************)
(* The secrets both ends derive when they hold one key, and the records    *)
(* that each sends under them.                                             *)
(***************************************************************************)
HsSecret == HandshakeExchange(EarlySecret(Psk), "ck", "sk")
Hellos == <<"CH", "SH">>
Flight == <<"CH", "SH", "EE">>
Whole == <<"CH", "SH", "EE", "FIN">>
ClientHs == DeriveSecret(HsSecret, "c hs traffic", Hellos)
ServerHs == DeriveSecret(HsSecret, "s hs traffic", Hellos)
ClientAp == DeriveSecret(MasterSecret(HsSecret), "c ap traffic", Whole)
ServerAp == DeriveSecret(MasterSecret(HsSecret), "s ap traffic", Whole)

HelloLen(id) == ClientHello(MaxClientHello, id)
HelloMac(psk) == Binder(EarlySecret(psk), "ext binder", <<"truncated">>)
HelloRec(id) ==
  Cleartext("handshake",
            <<[Msg("CH", HelloLen(id)) EXCEPT !.mac = HelloMac(Psk)]>>, 1)
ClientFin == [Msg("FIN", 36) EXCEPT !.mac = FinishedMac(ClientHs, Whole)]
FinRec == Ciphertext(Seal(TrafficKey(ClientHs), 0, "handshake",
                          Body(<<ClientFin>>, 0)), 1)
DataRec(q) == Ciphertext(Seal(TrafficKey(ClientAp), q, "data",
                              Body(<< >>, q + 1)), 1)
\* The k-th record that the client writes.
UpRec(id, k) == IF k = 1 THEN HelloRec(id)
                ELSE IF k = 2 THEN FinRec ELSE DataRec(k - 3)
\* The key and the nonce of the k-th record that the client seals.
SealedAs(k) ==
  IF k = 1 THEN <<TrafficKey(ClientHs).key, Nonce(TrafficKey(ClientHs).iv, 0)>>
  ELSE <<TrafficKey(ClientAp).key, Nonce(TrafficKey(ClientAp).iv, k - 2)>>

ShMsg(sel) == [Msg("SH", 96) EXCEPT !.exts = SrvExtensions(sel)]
ServerFin == [Msg("FIN", 36) EXCEPT
                !.mac = FinishedMac(ServerHs, Flight)]
Reply(sel) == Cleartext("handshake", <<ShMsg(sel)>>, 1)
Ccs == Cleartext("ccs", << >>, 1)
Alert == Cleartext("alert", << >>, 1)
FlightRec(q, msgs) ==
  Ciphertext(Seal(TrafficKey(ServerHs), q, "handshake", Body(msgs, 0)), 1)
AppRec(q, type, msgs, n, len) ==
  Ciphertext(Seal(TrafficKey(ServerAp), q, type, Body(msgs, n)), len)

(***************************************************************************)
(* A place in the server's stream: what is expected there, the server's    *)
(* sequence number, the messages and the units before it, and the length   *)
(* of the transcript.                                                      *)
(***************************************************************************)
Places == [at : {"hello", "flight", "fin", "data", "end"}, seq : Nat, n : Nat,
           off : Nat, len : Nat]
Room(p, len, cause) == p.len + len <= TranscriptSize \/ cause
To(p, at, len, off) == [at |-> at, seq |-> 0, n |-> p.n, off |-> p.off + off,
                        len |-> p.len + len]
Data(p, n, off) == [at |-> "data", seq |-> p.seq + 1, n |-> p.n + n,
                    off |-> p.off + off, len |-> p.len]

HelloMoves(p, r, q, cause) ==
  \/ \E sel \in Selections :
       /\ r = Reply(sel) /\ (sel = "psk" \/ cause)
       /\ Room(p, 96, cause) /\ q = To(p, "flight", 96, 1)
  \/ r = Alert /\ cause /\ q = To(p, "end", 0, 1)
FlightMoves(p, r, q, cause) ==
  \/ r = Ccs /\ q = To(p, "flight", 0, 1)
  \/ \E elen \in ExtensionLens :
       /\ Room(p, elen + 36, cause)
       /\ \/ /\ r = FlightRec(0, <<Msg("EE", elen)>>)
             /\ q = [To(p, "fin", elen, 1) EXCEPT !.seq = 1]
          \/ /\ r = FlightRec(0, <<Msg("EE", elen), ServerFin>>)
             /\ q = To(p, "data", elen + 36, 1)
FinMoves(p, r, q, cause) ==
  /\ r = FlightRec(1, <<ServerFin>>) /\ Room(p, 36, cause)
  /\ q = To(p, "data", 36, 1)
DataMoves(p, r, q, cause) ==
  \/ \E len \in RecordLens :
       /\ r = AppRec(p.seq, "data", << >>, p.n + 1, len)
       /\ len <= MaxRecord \/ cause
       /\ q = Data(p, 1, len)
  \/ r = AppRec(p.seq, "handshake", <<Msg("NST", 200)>>, 0, 1) /\ q = Data(p, 0, 1)
  \/ r = AppRec(p.seq, "data", << >>, 0, 1) /\ q = Data(p, 0, 1)
  \/ r = AppRec(p.seq, "alert", << >>, 0, 1) /\ cause /\ q = To(p, "end", 0, 1)
\* Record r leads from place p to place q.
Moves(p, r, q, cause) ==
  \/ p.at = "hello" /\ HelloMoves(p, r, q, cause)
  \/ p.at = "flight" /\ FlightMoves(p, r, q, cause)
  \/ p.at = "fin" /\ FinMoves(p, r, q, cause)
  \/ p.at = "data" /\ DataMoves(p, r, q, cause)

\* The client stands at place p.
HasHsKeys(c) ==
  /\ c.tx = [k |-> TrafficKey(ClientHs), seq |-> 0]
  /\ c.rx.k = TrafficKey(ServerHs)
  /\ c.sec.handshake = HsSecret /\ c.sec.client_hs = ClientHs
  /\ c.sec.server_hs = ServerHs
Reads(c, p) ==
  /\ c.phase # "FAILED" => Len(c.got) = p.n
  /\ \/ /\ p.at = "hello" /\ p.len = HelloLen(c.idlen)
        /\ \/ c.phase = "CLIENT_HELLO"
           \/ c.phase = "SERVER_FLIGHT" /\ c.hs = [msgs |-> <<"CH">>, len |-> p.len]
     \/ /\ p.at = "flight" /\ c.phase = "SERVER_FLIGHT" /\ HasHsKeys(c)
        /\ c.hs = [msgs |-> Hellos, len |-> p.len] /\ c.rx.seq = 0
     \/ /\ p.at = "fin" /\ c.phase = "SERVER_FLIGHT" /\ HasHsKeys(c)
        /\ c.hs = [msgs |-> Flight, len |-> p.len] /\ c.rx.seq = 1
     \/ /\ p.at = "data" /\ c.phase \in {"CLIENT_FINISHED", "DATA", "FAILED"}
        /\ c.rx = [k |-> TrafficKey(ServerAp), seq |-> p.seq]
\* The server stands at place p.
Writes(s, p) ==
  /\ s.state = "start" => p.at = "hello" /\ p.n = 0
  /\ s.state \in {"flight", "data"} =>
       p.at = "data" /\ p.seq = s.tx.seq /\ p.n = s.sent

\* pos gives the place before each of the records in down, and after all.
Route(pos, c, busy, ds, un, s) ==
  /\ pos \in [1..(Len(ds) + 1) -> Places]
  /\ \A i \in 1..(Len(ds) + 1) : pos[i].n <= s.sent
  /\ \A i \in 1..Len(ds) : Moves(pos[i], ds[i], pos[i + 1], s.cause)
  /\ Reads(c, pos[1]) /\ Writes(s, pos[Len(ds) + 1])
  /\ pos[1].off + c.rx_len + un = pos[Len(ds) + 1].off
  /\ busy \/ c.rx_len = 0 \/ c.rx_len < ds[1].len
(***************************************************************************)
(* What else holds of a connection c and of a server s.                    *)
(***************************************************************************)
Fields == {"phase", "tx", "rx", "txbuf", "rx_len", "hs", "sec", "idlen",
           "plugged", "conn", "unacked", "out", "awake", "sealed", "sent",
           "got", "rc"}
Secrets == {"handshake", "client_hs", "server_hs", "client_ap", "server_ap"}
IsConn(c) ==
  /\ c = [f \in Fields |-> c[f]]
  /\ c.tx = [k |-> c.tx.k, seq |-> c.tx.seq]
  /\ c.rx = [k |-> c.rx.k, seq |-> c.rx.seq]
  /\ c.hs = [msgs |-> c.hs.msgs, len |-> c.hs.len]
  /\ c.sec = [f \in Secrets |-> c.sec[f]]
ConnOK(c) ==
  /\ IsConn(c) /\ c.phase \in Phases /\ c.rx_len \in 0..MaxRecord
  /\ c.hs.len \in 0..TranscriptSize /\ c.tx.seq \in Nat /\ c.rx.seq \in Nat
  /\ c.sent \in Nat /\ c.idlen \in Nat
  /\ c.plugged <=> c.phase \notin {"CLIENT_HELLO", "FAILED"}
  /\ IsSeq(c.out) /\ IsSeq(c.got) /\ IsSeq(c.sealed)
  /\ c.txbuf \in {<< >>, <<HelloRec(c.idlen)>>, <<FinRec>>}
  /\ \A i \in 1..Len(c.sealed) : c.sealed[i] = SealedAs(i)

\* What the client has built and sealed by phase; due says that its Finished
\* is still to be built.
Sends(c, due) ==
  /\ c.phase = "CLIENT_HELLO" =>
       /\ c.txbuf = << >> /\ c.sealed = << >> /\ c.sent = 0
       /\ c.hs = [msgs |-> << >>, len |-> 0]
  /\ c.phase = "SERVER_FLIGHT" =>
       /\ c.txbuf \in {<< >>, <<HelloRec(c.idlen)>>}
       /\ c.sealed = << >> /\ c.sent = 0
  /\ c.phase = "CLIENT_FINISHED" =>
       /\ c.sent = 0 /\ c.sec.client_ap = ClientAp
       /\ IF due
          THEN /\ c.txbuf = << >> /\ c.sealed = << >>
               /\ c.tx = [k |-> TrafficKey(ClientHs), seq |-> 0]
               /\ c.sec.client_hs = ClientHs /\ c.hs.msgs = Whole
          ELSE c.txbuf = <<FinRec>> /\ Len(c.sealed) = 1
  /\ c.phase = "DATA" =>
       /\ c.txbuf = << >> /\ Len(c.sealed) = c.sent + 1
       /\ c.tx = [k |-> TrafficKey(ClientAp), seq |-> c.sent]

\* The records that the client has handed to TCP.
Written(c) == CASE c.phase = "CLIENT_HELLO" -> 0
                [] c.phase = "SERVER_FLIGHT" -> IF c.txbuf = << >> THEN 1 ELSE 0
                [] c.phase = "CLIENT_FINISHED" -> 1
                [] c.phase = "DATA" -> 2 + c.sent
\* The records that the server has read.
Base(s) == CASE s.state = "start" -> 0
             [] s.state = "flight" -> 1
             [] s.state = "data" -> 2 + Len(s.got)
\* Between the two, the records are those of the client, in order.
Up(c, s) ==
  s.state # "refused" =>
    /\ \A i \in 1..Len(c.out) : c.out[i] = UpRec(c.idlen, Base(s) + i)
    /\ Base(s) + Len(c.out) <= 2 + c.sent
    /\ c.phase # "FAILED" => Base(s) + Len(c.out) = Written(c)

ServerFields == {"state", "psk", "hs", "tx", "rx", "ap", "got", "sent", "cause"}
ServerOK(s) ==
  /\ s = [f \in ServerFields |-> s[f]]
  /\ s.tx = [k |-> s.tx.k, seq |-> s.tx.seq]
  /\ s.rx = [k |-> s.rx.k, seq |-> s.rx.seq]
  /\ s.state \in {"start", "flight", "data", "refused"}
  /\ s.sent \in Nat /\ s.tx.seq \in Nat /\ IsSeq(s.got)
  /\ s.state = "start" => s.sent = 0 /\ s.got = << >> /\ ~s.cause
  /\ s.state \in {"flight", "data"} =>
       s.ap = ClientAp /\ s.tx.k = TrafficKey(ServerAp)
  /\ s.state = "flight" =>
       /\ s.hs = <<ClientHs, Whole>> /\ s.got = << >>
       /\ s.rx = [k |-> TrafficKey(ClientHs), seq |-> 0]
  /\ s.state = "data" => s.rx = [k |-> TrafficKey(ClientAp), seq |-> Len(s.got)]
\* A server that has answered has read the ClientHello.
Answered(c, s) ==
  s.state # "start" => /\ c.phase # "CLIENT_HELLO"
                       /\ c.phase = "SERVER_FLIGHT" => c.txbuf = << >>
Running(c, r) ==
  /\ r = [busy |-> r.busy, window |-> r.window] /\ r.busy \in BOOLEAN
  /\ r.busy => c.rc = "ok" /\ c.phase # "CLIENT_HELLO"
Connected(c, r) == c.phase # "FAILED" \/ r.busy

\* Every record leaves room in the receive buffer for the segment that ends
\* it: tls13_psk_cipherstream_deliver() refuses what does not fit.
SegmentsFit == \A len \in RecordLens \cup {1} :
                 len <= MaxRecord => len + MaxSegment - 1 <= MaxRecord

Budgets == [mem : 0..MaxNoMem, close : 0..MaxCloses]
\* The inductive invariant.
Inv ==
  /\ ConnOK(tls) /\ Sends(tls, FALSE) /\ Running(tls, rx)
  /\ ServerOK(srv) /\ Up(tls, srv) /\ Answered(tls, srv)
  /\ IsSeq(down) /\ (srv.state = "start" => down = << >>)
  /\ net \in Nat /\ budget \in Budgets
  /\ Connected(tls, rx) => \E pos : Route(pos, tls, rx.busy, down, net, srv)
  /\ SegmentsFit => FailsForCause

-----------------------------------------------------------------------------
(* What each operator on connections changes *)

Keeps(c, d, F) == \A f \in Fields \ F : d[f] = c[f]

LEMMA RcFields ==
  ASSUME NEW c, IsConn(c), NEW rc, NEW d, d = Rc(c, rc)
  PROVE  IsConn(d) /\ Keeps(c, d, {"rc"}) /\ d.rc = rc
<1>1. d = [f \in Fields |-> d[f]] /\ Keeps(c, d, {"rc"}) /\ d.rc = rc
  BY SMTT(40) DEF IsConn, Fields, Rc, Keeps
<1>2. d.tx = c.tx /\ d.rx = c.rx /\ d.hs = c.hs /\ d.sec = c.sec
  BY Zenon, <1>1 DEF Keeps, Fields
<1>3. QED
  BY Zenon, <1>1, <1>2 DEF IsConn

LEMMA FailFields ==
  ASSUME NEW c, IsConn(c), NEW d, d = Fail(c)
  PROVE  /\ IsConn(d) /\ Keeps(c, d, {"phase", "plugged"}) /\ d.phase = "FAILED"
         /\ c.phase # "FAILED" => d.plugged = FALSE
         /\ c.phase = "FAILED" => d = c
<1>1. CASE c.phase = "FAILED"
  BY <1>1 DEF Fail, Keeps
<1>2. CASE c.phase # "FAILED"
  <2>1. /\ d = [f \in Fields |-> d[f]] /\ Keeps(c, d, {"phase", "plugged"})
        /\ d.phase = "FAILED" /\ d.plugged = FALSE
    BY Zenon, <1>2 DEF IsConn, Fields, Fail, Keeps
  <2>2. d.tx = c.tx /\ d.rx = c.rx /\ d.hs = c.hs /\ d.sec = c.sec
    BY Zenon, <2>1 DEF Keeps, Fields
  <2>3. QED
    BY Zenon, <2>1, <2>2, <1>2 DEF IsConn
<1>3. QED
  BY Zenon, <1>1, <1>2

LEMMA CipherRecordFields ==
  ASSUME NEW c, IsConn(c), NEW type, NEW body, NEW d,
         d = CipherRecord(c, type, body)
  PROVE  /\ IsConn(d) /\ Keeps(c, d, {"tx", "sealed", "txbuf"})
         /\ d.tx = [k |-> c.tx.k, seq |-> c.tx.seq + 1]
         /\ d.txbuf = <<Ciphertext(Seal(c.tx.k, c.tx.seq, type, body), 1)>>
         /\ d.sealed = Append(c.sealed, <<c.tx.k.key, Nonce(c.tx.k.iv, c.tx.seq)>>)
<1>1. d = [f \in Fields |-> d[f]] /\ Keeps(c, d, {"tx", "sealed", "txbuf"})
  BY Zenon DEF IsConn, Fields, CipherRecord, Keeps
<1>2. d.tx = [k |-> c.tx.k, seq |-> c.tx.seq + 1]
  BY DEF IsConn, Fields, CipherRecord
<1>3. d.txbuf = <<Ciphertext(Seal(c.tx.k, c.tx.seq, type, body), 1)>>
  BY DEF IsConn, Fields, CipherRecord
<1>4. d.sealed = Append(c.sealed, <<c.tx.k.key, Nonce(c.tx.k.iv, c.tx.seq)>>)
  BY DEF IsConn, Fields, CipherRecord
<1>5. d.rx = c.rx /\ d.hs = c.hs /\ d.sec = c.sec
  BY <1>1 DEF Keeps, Fields
<1>6. IsConn(d)
  BY <1>1, <1>2, <1>5 DEF IsConn
<1>7. QED
  BY Zenon, <1>1, <1>2, <1>3, <1>4, <1>6

\* A record is handed to TCP and leaves the transmit buffer.
Handed(c) == TcpDeliver([c EXCEPT !.txbuf = << >>], c.txbuf[1])

LEMMA HandedFields ==
  ASSUME NEW c, IsConn(c), NEW d, d = Handed(c)
  PROVE  /\ IsConn(d) /\ Keeps(c, d, {"txbuf", "out", "unacked"})
         /\ d.txbuf = << >> /\ d.out = Append(c.out, c.txbuf[1])
<1>1. /\ d = [f \in Fields |-> d[f]] /\ Keeps(c, d, {"txbuf", "out", "unacked"})
      /\ d.txbuf = << >> /\ d.out = Append(c.out, c.txbuf[1])
  BY Zenon DEF IsConn, Fields, Handed, TcpDeliver, Keeps
<1>2. d.tx = c.tx /\ d.rx = c.rx /\ d.hs = c.hs /\ d.sec = c.sec
  BY Zenon, <1>1 DEF Keeps, Fields
<1>3. QED
  BY SMTT(40), <1>1, <1>2 DEF IsConn

LEMMA SwitchFields ==
  ASSUME NEW c, IsConn(c), NEW d,
         d = [SetKey(c, "tx", c.sec.client_ap) EXCEPT !.tx.seq = 0, !.phase = "DATA"]
  PROVE  /\ IsConn(d) /\ Keeps(c, d, {"tx", "phase"}) /\ d.phase = "DATA"
         /\ d.tx = [k |-> TrafficKey(c.sec.client_ap), seq |-> 0]
<1>1. d = [f \in Fields |-> d[f]] /\ Keeps(c, d, {"tx", "phase"})
  BY Zenon DEF IsConn, Fields, SetKey, Keeps
<1>2. d.phase = "DATA"
  BY Zenon DEF IsConn, Fields, SetKey
<1>3. d.tx = [k |-> TrafficKey(c.sec.client_ap), seq |-> 0]
  BY Zenon DEF IsConn, Fields, SetKey
<1>4. d.rx = c.rx /\ d.hs = c.hs /\ d.sec = c.sec
  BY Zenon, <1>1 DEF Keeps, Fields
<1>5. QED
  BY Zenon, <1>1, <1>2, <1>3, <1>4 DEF IsConn

LEMMA UpdateFields ==
  ASSUME NEW c, IsConn(c), NEW msg, NEW d, d = Update(c, msg)
  PROVE  \/ /\ c.hs.len + msg.len <= TranscriptSize
            /\ IsConn(d) /\ Keeps(c, d, {"hs", "rc"}) /\ d.rc = "ok"
            /\ d.hs = [msgs |-> Append(c.hs.msgs, msg.t), len |-> c.hs.len + msg.len]
         \/ ~(c.hs.len + msg.len <= TranscriptSize) /\ d = Rc(c, "ENOSPC")
<1>1. CASE c.hs.len + msg.len <= TranscriptSize
  <2>1. d = [c EXCEPT !.hs = TranscriptUpdate(@, msg.t, msg.len), !.rc = "ok"]
    BY <1>1 DEF Update, TranscriptFits
  <2>2. /\ d = [f \in Fields |-> d[f]] /\ Keeps(c, d, {"hs", "rc"}) /\ d.rc = "ok"
        /\ d.hs = [msgs |-> Append(c.hs.msgs, msg.t), len |-> c.hs.len + msg.len]
    BY Zenon, <2>1 DEF IsConn, Fields, Keeps, TranscriptUpdate
  <2>3. d.tx = c.tx /\ d.rx = c.rx /\ d.sec = c.sec
    BY Zenon, <2>2 DEF Keeps, Fields
  <2>4. IsConn(d)
    BY <2>2, <2>3 DEF IsConn
  <2>5. QED
    BY <1>1, <2>2, <2>4
<1>2. CASE ~(c.hs.len + msg.len <= TranscriptSize)
  BY <1>2 DEF Update, TranscriptFits
<1>3. QED
  BY <1>1, <1>2

-----------------------------------------------------------------------------
(* The transmit path *)

LEMMA BaseNat ==
  ASSUME NEW s, ServerOK(s), s.state # "refused"
  PROVE  Base(s) \in Nat
<1>1. Len(s.got) \in Nat
  BY SeqLen DEF ServerOK
<1>2. QED
  BY <1>1 DEF ServerOK, Base

LEMMA OneMore ==
  ASSUME NEW a \in Nat, NEW b \in Nat, NEW w, a + b = w
  PROVE  a + (b + 1) = w + 1
OBVIOUS

\* One more record, the next one, is handed over.
LEMMA UpAppend ==
  ASSUME NEW c, NEW d, NEW s, NEW r, NEW w \in Nat, ServerOK(s), Up(c, s),
         IsSeq(c.out), c.sent \in Nat, c.phase # "FAILED", Written(c) = w,
         Written(d) = w + 1, w + 1 <= 2 + d.sent, d.idlen = c.idlen,
         d.out = Append(c.out, r), r = UpRec(c.idlen, w + 1)
  PROVE  Up(d, s)
<1> SUFFICES ASSUME s.state # "refused" PROVE Up(d, s)
  BY SMTT(40) DEF Up
<1>1. Base(s) \in Nat /\ Len(c.out) \in Nat
  BY BaseNat, SeqLen
<1>2. Base(s) + Len(c.out) = w
  BY DEF Up
<1>3. /\ Len(d.out) = Len(c.out) + 1 /\ d.out[Len(c.out) + 1] = r
      /\ \A i \in 1..Len(c.out) : d.out[i] = c.out[i]
  BY SeqAppend
<1>4. \A i \in 1..Len(c.out) : c.out[i] = UpRec(c.idlen, Base(s) + i)
  BY DEF Up
<1>5. ASSUME NEW i \in 1..Len(d.out)
      PROVE  d.out[i] = UpRec(d.idlen, Base(s) + i)
  <2>1. CASE i \in 1..Len(c.out)
    BY SMTT(40), <2>1, <1>3, <1>4
  <2>2. CASE i = Len(c.out) + 1
    <3>1. Base(s) + i = w + 1
      BY <2>2, <1>1, <1>2, OneMore
    <3>2. QED
      BY <2>2, <3>1, <1>3
  <2>3. QED
    BY SMTT(40), <2>1, <2>2, <1>1, <1>3
<1>6. Base(s) + Len(d.out) = w + 1
  BY SMTT(40), <1>1, <1>2, <1>3, OneMore
<1>7. QED
  BY SMTT(40), <1>5, <1>6 DEF Up

\* Nothing that the server reads has changed.
LEMMA UpSame ==
  ASSUME NEW c, NEW d, NEW s, Up(c, s), d.idlen = c.idlen, d.out = c.out,
         d.sent = c.sent, d.phase # "FAILED" => c.phase # "FAILED",
         d.phase # "FAILED" => Written(d) = Written(c)
  PROVE  Up(d, s)
BY DEF Up

LEMMA HandedOK ==
  ASSUME NEW c, NEW s, NEW d, ConnOK(c), ServerOK(s), Up(c, s), d = Handed(c),
         Sends(c, FALSE), c.phase = "SERVER_FLIGHT", c.txbuf # << >>
  PROVE  /\ ConnOK(d) /\ Sends(d, FALSE) /\ Up(d, s)
         /\ Keeps(c, d, {"txbuf", "out", "unacked"}) /\ d.txbuf = << >>
<1>1. /\ IsConn(d) /\ Keeps(c, d, {"txbuf", "out", "unacked"})
      /\ d.txbuf = << >> /\ d.out = Append(c.out, c.txbuf[1])
  BY SMTT(40), HandedFields DEF ConnOK
<1>2. /\ d.phase = c.phase /\ d.rx_len = c.rx_len /\ d.hs = c.hs /\ d.tx = c.tx
      /\ d.rx = c.rx /\ d.sent = c.sent /\ d.idlen = c.idlen
      /\ d.plugged = c.plugged /\ d.got = c.got /\ d.sealed = c.sealed
  BY <1>1 DEF Keeps, Fields
<1>3. c.txbuf = <<HelloRec(c.idlen)>> /\ c.sent = 0 /\ c.sealed = << >>
  BY DEF Sends
<1>4. Written(c) = 0 /\ Written(d) = 0 + 1
  BY <1>1, <1>2, <1>3 DEF Written
<1>5. c.txbuf[1] = UpRec(c.idlen, 0 + 1)
  BY <1>3 DEF UpRec
<1>6. Up(d, s)
  <2>1. 0 + 1 <= 2 + d.sent /\ c.phase # "FAILED"
    BY <1>2, <1>3
  <2>2. IsSeq(c.out) /\ c.sent \in Nat
    BY DEF ConnOK
  <2>3. QED
    BY <1>1, <1>2, <1>4, <1>5, <2>1, <2>2, UpAppend
<1>7. IsSeq(d.out)
  BY <1>1, SeqAppend DEF ConnOK
<1>8. ConnOK(d)
  BY <1>1, <1>2, <1>7 DEF ConnOK
<1>9. Sends(d, FALSE)
  BY <1>1, <1>2, <1>3 DEF Sends
<1>10. QED
  BY Zenon, <1>1, <1>6, <1>8, <1>9

LEMMA SwitchOK ==
  ASSUME NEW c, NEW s, NEW d, ConnOK(c), ServerOK(s), Up(c, s),
         Sends(c, FALSE), c.phase = "CLIENT_FINISHED", IsConn(d),
         Keeps(c, d, {"txbuf", "out", "unacked", "tx", "phase"}),
         d.phase = "DATA", d.txbuf = << >>, d.out = Append(c.out, c.txbuf[1]),
         d.tx = [k |-> TrafficKey(c.sec.client_ap), seq |-> 0]
  PROVE  ConnOK(d) /\ Sends(d, FALSE) /\ Up(d, s)
<1>4. /\ d.rx_len = c.rx_len /\ d.hs = c.hs /\ d.sec = c.sec
      /\ d.rx = c.rx /\ d.sent = c.sent /\ d.idlen = c.idlen
      /\ d.plugged = c.plugged /\ d.got = c.got /\ d.sealed = c.sealed
  BY DEF Keeps, Fields
<1>6. /\ c.txbuf = <<FinRec>> /\ c.sent = 0 /\ c.sec.client_ap = ClientAp
      /\ Len(c.sealed) = 1
  BY DEF Sends
<1>7. Written(c) = 1 /\ Written(d) = 1 + 1
  BY <1>4, <1>6 DEF Written
<1>8. c.txbuf[1] = UpRec(c.idlen, 1 + 1)
  BY <1>6 DEF UpRec
<1>9. Up(d, s)
  <2>1. 1 + 1 <= 2 + d.sent /\ c.phase # "FAILED"
    BY <1>4, <1>6
  <2>2. IsSeq(c.out) /\ c.sent \in Nat
    BY DEF ConnOK
  <2>3. QED
    BY <1>4, <1>7, <1>8, <2>1, <2>2, UpAppend
<1>10. IsSeq(d.out)
  BY SeqAppend DEF ConnOK
<1>11. ConnOK(d)
  BY <1>4, <1>10 DEF ConnOK, Phases
<1>12. Sends(d, FALSE)
  BY <1>4, <1>6 DEF Sends
<1>13. QED
  BY Zenon, <1>9, <1>11, <1>12

LEMMA FlushOK ==
  ASSUME NEW c, NEW s, NEW d, ConnOK(c), ServerOK(s), Up(c, s), Sends(c, FALSE),
         c.phase # "FAILED", d = Flush(c)
  PROVE  /\ ConnOK(d) /\ Sends(d, FALSE) /\ Up(d, s)
         /\ Keeps(c, d, {"txbuf", "out", "unacked", "tx", "phase"})
         /\ \/ d.phase = c.phase /\ d.tx = c.tx
            \/ c.phase = "CLIENT_FINISHED" /\ d.phase = "DATA"
         /\ c.txbuf = << >> => d = c
<1>1. CASE c.txbuf = << >> \/ ~CipherWindow(c)
  <2>1. d = c
    BY <1>1 DEF Flush
  <2>2. QED
    BY Zenon, <2>1 DEF Keeps
<1>2. CASE ~(c.txbuf = << >> \/ ~CipherWindow(c)) /\ c.phase # "CLIENT_FINISHED"
  <2>1. d = Handed(c)
    BY <1>2 DEF Flush, Handed
  <2>2. c.phase = "SERVER_FLIGHT"
    BY <1>2 DEF ConnOK, Phases, Sends
  <2>3. /\ ConnOK(d) /\ Sends(d, FALSE) /\ Up(d, s)
        /\ Keeps(c, d, {"txbuf", "out", "unacked"})
    BY Zenon, <2>1, <2>2, <1>2, HandedOK
  <2>4. d.phase = c.phase /\ d.tx = c.tx
    BY <2>3 DEF Keeps, Fields
  <2>5. QED
    BY Zenon, <2>3, <2>4, <1>2 DEF Keeps
<1>3. CASE ~(c.txbuf = << >> \/ ~CipherWindow(c)) /\ c.phase = "CLIENT_FINISHED"
  <2> DEFINE e == Handed(c)
  <2>1. d = [SetKey(e, "tx", e.sec.client_ap) EXCEPT !.tx.seq = 0, !.phase = "DATA"]
    BY <1>3 DEF Flush, Handed
  <2>2. /\ IsConn(e) /\ Keeps(c, e, {"txbuf", "out", "unacked"})
        /\ e.txbuf = << >> /\ e.out = Append(c.out, c.txbuf[1])
    BY HandedFields DEF ConnOK
  <2> HIDE DEF e
  <2>3. /\ IsConn(d) /\ Keeps(e, d, {"tx", "phase"}) /\ d.phase = "DATA"
        /\ d.tx = [k |-> TrafficKey(e.sec.client_ap), seq |-> 0]
    BY Zenon, <2>1, <2>2, SwitchFields
  <2>4. Keeps(c, d, {"txbuf", "out", "unacked", "tx", "phase"})
    BY <2>2, <2>3 DEF Keeps
  <2>5. d.txbuf = << >> /\ d.out = Append(c.out, c.txbuf[1]) /\ e.sec = c.sec
    BY <2>2, <2>3 DEF Keeps, Fields
  <2>6. ConnOK(d) /\ Sends(d, FALSE) /\ Up(d, s)
    BY Zenon, <1>3, <2>3, <2>4, <2>5, SwitchOK
  <2>7. QED
    BY Zenon, <1>3, <2>3, <2>4, <2>6
<1>4. QED
  BY Zenon, <1>1, <1>2, <1>3

LEMMA FinishedFields ==
  ASSUME NEW c, NEW d, IsConn(c), c.sec.client_hs = ClientHs, c.hs.msgs = Whole,
         c.tx.k = TrafficKey(ClientHs), c.tx.seq = 0, NEW mem, mem,
         d = SendFinished(c, mem)
  PROVE  /\ IsConn(d) /\ Keeps(c, d, {"tx", "sealed", "txbuf"})
         /\ d.tx.seq = 1 /\ d.txbuf = <<FinRec>>
         /\ d.sealed = Append(c.sealed, SealedAs(1))
<1> DEFINE body == Body(<<ClientFin>>, 0)
<1>1. SendFinished(c, mem) = CipherRecord(c, "handshake", body)
  BY DEF SendFinished, ClientFin
<1> HIDE DEF body
<1>2. PICK e : e = CipherRecord(c, "handshake", body)
  BY Zenon
<1>3. /\ IsConn(e) /\ Keeps(c, e, {"tx", "sealed", "txbuf"})
      /\ e.tx = [k |-> c.tx.k, seq |-> c.tx.seq + 1]
      /\ e.txbuf = <<Ciphertext(Seal(c.tx.k, c.tx.seq, "handshake", body), 1)>>
      /\ e.sealed = Append(c.sealed, <<c.tx.k.key, Nonce(c.tx.k.iv, c.tx.seq)>>)
  BY SMTT(40), <1>2, CipherRecordFields
<1>4. e.tx.seq = 1 /\ e.txbuf = <<FinRec>>
  BY <1>3 DEF FinRec, body
<1>5. e.sealed = Append(c.sealed, SealedAs(1))
  BY <1>3 DEF SealedAs
<1>6. d = e
  BY Zenon, <1>1, <1>2
<1>7. QED
  BY Zenon, <1>3, <1>4, <1>5, <1>6

LEMMA FinishedOK ==
  ASSUME NEW c, NEW s, NEW d, ConnOK(c), Up(c, s), Sends(c, TRUE),
         c.phase = "CLIENT_FINISHED", IsConn(d),
         Keeps(c, d, {"tx", "sealed", "txbuf"}), d.tx.seq = 1,
         d.txbuf = <<FinRec>>, d.sealed = Append(c.sealed, SealedAs(1))
  PROVE  ConnOK(d) /\ Sends(d, FALSE) /\ Up(d, s)
<1>1. c.sealed = << >> /\ c.sent = 0 /\ c.sec.client_ap = ClientAp
  BY DEF Sends
<1>8. /\ d.rx_len = c.rx_len /\ d.hs = c.hs /\ d.sec = c.sec /\ d.phase = c.phase
      /\ d.rx = c.rx /\ d.sent = c.sent /\ d.idlen = c.idlen /\ d.out = c.out
      /\ d.plugged = c.plugged /\ d.got = c.got
  BY DEF Keeps, Fields
<1>9. IsSeq(d.sealed) /\ Len(d.sealed) = 1 /\ d.sealed[1] = SealedAs(1)
  <2>1. d.sealed = <<SealedAs(1)>>
    BY <1>1
  <2>2. QED
    BY Zenon, <2>1, SeqTuples
<1>10. \A i \in 1..Len(d.sealed) : d.sealed[i] = SealedAs(i)
  BY <1>9
<1>11. ConnOK(d)
  BY <1>8, <1>9, <1>10 DEF ConnOK
<1>12. Sends(d, FALSE)
  BY SMTT(40), <1>1, <1>8, <1>9 DEF Sends
<1>13. Up(d, s)
  BY <1>8, UpSame DEF Written
<1>14. QED
  BY Zenon, <1>11, <1>12, <1>13

LEMMA FailOK ==
  ASSUME NEW c, NEW s, NEW d, ConnOK(c), Up(c, s), d = Fail(c)
  PROVE  ConnOK(d) /\ Sends(d, FALSE) /\ Up(d, s)
<1>1. /\ IsConn(d) /\ Keeps(c, d, {"phase", "plugged"}) /\ d.phase = "FAILED"
      /\ c.phase # "FAILED" => d.plugged = FALSE
      /\ c.phase = "FAILED" => d = c
  BY Zenon, FailFields DEF ConnOK
<1>2. /\ d.rx_len = c.rx_len /\ d.hs = c.hs /\ d.tx = c.tx /\ d.txbuf = c.txbuf
      /\ d.rx = c.rx /\ d.sent = c.sent /\ d.idlen = c.idlen /\ d.out = c.out
      /\ d.got = c.got /\ d.sealed = c.sealed
  BY <1>1 DEF Keeps, Fields
<1>3. ConnOK(d)
  <2>1. CASE c.phase = "FAILED"
    BY <1>1, <2>1
  <2>2. CASE c.phase # "FAILED"
    BY SMTT(40), <1>1, <1>2, <2>2 DEF ConnOK, Phases
  <2>3. QED
    BY <2>1, <2>2
<1>4. Sends(d, FALSE)
  BY <1>1 DEF Sends
<1>5. Up(d, s)
  BY <1>1, <1>2, UpSame
<1>6. QED
  BY Zenon, <1>3, <1>4, <1>5

\* What a field outside the invariants does not matter to.
LEMMA QuietOK ==
  ASSUME NEW c, NEW s, NEW d, NEW due, ConnOK(c), Up(c, s), Sends(c, due),
         IsConn(d), Keeps(c, d, {"awake", "conn", "unacked", "rc"})
  PROVE  ConnOK(d) /\ Sends(d, due) /\ Up(d, s)
<1>1. /\ d.rx_len = c.rx_len /\ d.hs = c.hs /\ d.tx = c.tx /\ d.txbuf = c.txbuf
      /\ d.rx = c.rx /\ d.sent = c.sent /\ d.idlen = c.idlen /\ d.out = c.out
      /\ d.got = c.got /\ d.sealed = c.sealed /\ d.phase = c.phase
      /\ d.plugged = c.plugged /\ d.sec = c.sec
  BY DEF Keeps, Fields
<1>2. ConnOK(d)
  BY SMTT(40), <1>1 DEF ConnOK
<1>3. Sends(d, due)
  BY SMTT(40), <1>1 DEF Sends
<1>4. Up(d, s)
  BY Zenon, <1>1, UpSame DEF Written
<1>5. QED
  BY <1>2, <1>3, <1>4

LEMMA WindowChangedFields ==
  ASSUME NEW c, IsConn(c), NEW d, d = WindowChanged(c)
  PROVE  IsConn(d) /\ Keeps(c, d, {"awake"})
<1>1. d = [f \in Fields |-> d[f]] /\ Keeps(c, d, {"awake"})
  BY Zenon DEF IsConn, Fields, WindowChanged, Keeps
<1>2. QED
  BY Zenon, <1>1 DEF IsConn, Fields, Keeps

TxFields == {"tx", "txbuf", "out", "unacked", "awake", "phase", "plugged", "sealed"}
LEMMA TxOK ==
  ASSUME NEW c, NEW s, NEW d, NEW due, NEW mem, ConnOK(c), ServerOK(s), Up(c, s),
         Sends(c, due), due \in BOOLEAN, c.phase # "CLIENT_HELLO", d = Tx(c, mem)
  PROVE  /\ ConnOK(d) /\ Sends(d, FALSE) /\ Up(d, s)
         /\ Keeps(c, d, TxFields)
         /\ d.phase = "FAILED" => \/ c.phase = "FAILED"
                                  \/ c.phase = "CLIENT_FINISHED" /\ ~mem
         /\ c.phase = "FAILED" => d = c
         /\ c.phase = "SERVER_FLIGHT" =>
              /\ d.phase = "SERVER_FLIGHT" /\ d.tx = c.tx
              /\ c.txbuf = << >> => d.txbuf = << >>
         /\ c.phase \in {"CLIENT_FINISHED", "DATA"} =>
              d.phase \in {"CLIENT_FINISHED", "DATA", "FAILED"}
<1>1. CASE c.phase = "FAILED"
  <2>1. d = c
    BY <1>1 DEF Tx
  <2>2. Sends(d, FALSE)
    BY <2>1, <1>1 DEF Sends
  <2>3. QED
    BY Zenon, <2>1, <2>2, <1>1 DEF Keeps
<1>2. CASE c.phase = "CLIENT_FINISHED" /\ c.txbuf = << >> /\ ~mem
  <2>1. Build(c, mem) = Fail(c)
    BY <1>2 DEF Build, SendFinished
  <2>2. Fail(c).phase = "FAILED" /\ Keeps(c, Fail(c), {"phase", "plugged"})
    BY Zenon, FailFields DEF ConnOK
  <2>3. d = Fail(c)
    BY <1>2, <2>1, <2>2 DEF Tx
  <2>4. ConnOK(d) /\ Sends(d, FALSE) /\ Up(d, s)
    BY Zenon, <2>3, FailOK
  <2>5. Keeps(c, d, TxFields)
    BY <2>2, <2>3 DEF Keeps, TxFields
  <2>6. QED
    BY Zenon, <2>2, <2>3, <2>4, <2>5, <1>2
<1>3. CASE c.phase # "FAILED" /\ ~(c.phase = "CLIENT_FINISHED" /\ c.txbuf = << >> /\ ~mem)
  <2> DEFINE b == Build(c, mem)
             e == Flush(b)
  <2>1. /\ ConnOK(b) /\ Sends(b, FALSE) /\ Up(b, s) /\ b.phase = c.phase
        /\ Keeps(c, b, {"tx", "sealed", "txbuf"})
        /\ c.phase = "SERVER_FLIGHT" => b = c
    <3>1. CASE c.phase = "CLIENT_FINISHED" /\ c.txbuf = << >>
      <4>1. b = SendFinished(c, mem) /\ mem
        BY <1>3, <3>1 DEF Build, SendFinished
      <4>2. Sends(c, TRUE)
        BY SMTT(40), <3>1, SeqTuples DEF Sends
      <4> HIDE DEF b
      <4>3. /\ ConnOK(b) /\ Sends(b, FALSE) /\ Up(b, s)
            /\ Keeps(c, b, {"tx", "sealed", "txbuf"})
        <5>1. /\ IsConn(c) /\ c.sec.client_hs = ClientHs /\ c.hs.msgs = Whole
              /\ c.tx.k = TrafficKey(ClientHs) /\ c.tx.seq = 0
          BY SMTT(40), <4>2, <3>1 DEF Sends, ConnOK
        <5>2. /\ IsConn(b) /\ Keeps(c, b, {"tx", "sealed", "txbuf"})
              /\ b.tx.seq = 1 /\ b.txbuf = <<FinRec>>
              /\ b.sealed = Append(c.sealed, SealedAs(1))
          BY Zenon, <5>1, <4>1, FinishedFields
        <5>3. QED
          BY Zenon, <5>2, <4>2, <3>1, FinishedOK
      <4>4. b.phase = c.phase
        BY <4>3 DEF Keeps, Fields
      <4>5. QED
        BY Zenon, <4>3, <4>4, <3>1
    <3>2. CASE ~(c.phase = "CLIENT_FINISHED" /\ c.txbuf = << >>)
      <4>1. b = c
        BY <3>2, <1>3 DEF Build
      <4>2. Sends(c, FALSE)
        BY SMTT(40), <3>2, <1>3 DEF Sends
      <4>3. QED
        BY Zenon, <4>1, <4>2 DEF Keeps
    <3>3. QED
      BY Zenon, <3>1, <3>2
  <2>2. d = WindowChanged(e)
    BY <1>3, <2>1 DEF Tx
  <2> HIDE DEF b
  <2>3. /\ ConnOK(e) /\ Sends(e, FALSE) /\ Up(e, s)
        /\ Keeps(b, e, {"txbuf", "out", "unacked", "tx", "phase"})
        /\ \/ e.phase = b.phase /\ e.tx = b.tx
           \/ b.phase = "CLIENT_FINISHED" /\ e.phase = "DATA"
        /\ b.txbuf = << >> => e = b
    BY Zenon, <2>1, <1>3, FlushOK
  <2> HIDE DEF e
  <2>4. IsConn(d) /\ Keeps(e, d, {"awake"})
    BY SMTT(40), <2>2, <2>3, WindowChangedFields DEF ConnOK
  <2>5. ConnOK(d) /\ Sends(d, FALSE) /\ Up(d, s)
    <3>1. Keeps(e, d, {"awake", "conn", "unacked", "rc"})
      BY SMTT(40), <2>4 DEF Keeps
    <3>2. QED
      BY Zenon, <2>3, <2>4, <3>1, QuietOK
  <2>6. d.phase = e.phase /\ d.tx = e.tx /\ d.txbuf = e.txbuf
    BY <2>4 DEF Keeps, Fields
  <2>7. Keeps(c, d, TxFields)
    BY SMTT(40), <2>1, <2>3, <2>4 DEF Keeps, TxFields
  <2>8. d.phase # "FAILED"
    BY SMTT(40), <2>6, <2>3, <2>1, <1>3
  <2>9. c.phase = "SERVER_FLIGHT" =>
          /\ d.phase = "SERVER_FLIGHT" /\ d.tx = c.tx
          /\ c.txbuf = << >> => d.txbuf = << >>
    BY SMTT(40), <2>1, <2>3, <2>6
  <2>10. c.phase \in {"CLIENT_FINISHED", "DATA"} =>
          d.phase \in {"CLIENT_FINISHED", "DATA", "FAILED"}
    BY SMTT(40), <2>1, <2>3, <2>6
  <2>11. QED
    BY Zenon, <2>5, <2>7, <2>8, <2>9, <2>10, <1>3
<1>4. QED
  BY Zenon, <1>1, <1>2, <1>3

-----------------------------------------------------------------------------
(* The handshake messages *)

LEMMA AppendIs ==
  ASSUME NEW S, NEW s \in Seq(S), NEW e \in S, NEW t \in Seq(S),
         Len(t) = Len(s) + 1, t[Len(t)] = e, \A i \in 1..Len(s) : t[i] = s[i]
  PROVE  Append(s, e) = t
<1>1. /\ Append(s, e) \in Seq(S) /\ Len(Append(s, e)) = Len(s) + 1
      /\ Append(s, e)[Len(s) + 1] = e
      /\ \A i \in 1..Len(s) : Append(s, e)[i] = s[i]
  OBVIOUS
<1>2. \A i \in 1..(Len(s) + 1) : Append(s, e)[i] = t[i]
  BY <1>1
<1>3. QED
  BY <1>1, <1>2

LEMMA TranscriptSteps ==
  /\ Append(<< >>, "CH") = <<"CH">> /\ Append(<<"CH">>, "SH") = Hellos
  /\ Append(Hellos, "EE") = Flight /\ Append(Flight, "FIN") = Whole
<1> DEFINE S == {"CH", "SH", "EE", "FIN"}
           T == <<"CH">>
<1>1. Append(<< >>, "CH") = T
  OBVIOUS
<1>2. /\ T \in Seq(S) /\ Hellos \in Seq(S) /\ Flight \in Seq(S) /\ Whole \in Seq(S)
      /\ "SH" \in S /\ "EE" \in S /\ "FIN" \in S
  BY DEF Hellos, Flight, Whole
<1>3. /\ Len(Hellos) = Len(T) + 1 /\ Hellos[Len(Hellos)] = "SH"
      /\ \A i \in 1..Len(T) : Hellos[i] = T[i]
  BY DEF Hellos
<1>4. /\ Len(Flight) = Len(Hellos) + 1 /\ Flight[Len(Flight)] = "EE"
      /\ \A i \in 1..Len(Hellos) : Flight[i] = Hellos[i]
  BY DEF Hellos, Flight
<1>5. /\ Len(Whole) = Len(Flight) + 1 /\ Whole[Len(Whole)] = "FIN"
      /\ \A i \in 1..Len(Flight) : Whole[i] = Flight[i]
  BY DEF Flight, Whole
<1> HIDE DEF S, T
<1>6. Append(T, "SH") = Hellos
  BY <1>2, <1>3, AppendIs
<1>7. Append(Hellos, "EE") = Flight
  BY <1>2, <1>4, AppendIs
<1>8. Append(Flight, "FIN") = Whole
  BY <1>2, <1>5, AppendIs
<1>9. QED
  BY <1>1, <1>6, <1>7, <1>8 DEF T

\* The assignments of tls13_psk_server_hello() and tls13_psk_server_finished().
HsSecretsSet(c, hs, chs, shs) ==
  [c EXCEPT !.sec.handshake = hs, !.sec.client_hs = chs, !.sec.server_hs = shs]
HsKeysSet(c, chs, shs) ==
  [SetKey(SetKey(c, "tx", chs), "rx", shs) EXCEPT !.tx.seq = 0, !.rx.seq = 0]
ApSecretsSet(c, cap, sap) ==
  [c EXCEPT !.sec.client_ap = cap, !.sec.server_ap = sap]
ApKeySet(c) ==
  [SetKey(c, "rx", c.sec.server_ap) EXCEPT !.rx.seq = 0, !.phase = "CLIENT_FINISHED"]

LEMMA HsSecretFields ==
  ASSUME NEW c, IsConn(c), NEW hs, NEW chs, NEW shs, NEW d,
         d = HsSecretsSet(c, hs, chs, shs)
  PROVE  /\ IsConn(d) /\ Keeps(c, d, {"sec"}) /\ d.sec.handshake = hs
         /\ d.sec.client_hs = chs /\ d.sec.server_hs = shs
<1>1. d = [f \in Fields |-> d[f]] /\ Keeps(c, d, {"sec"})
  BY Zenon DEF IsConn, Fields, Keeps, HsSecretsSet
<1>2. d.sec = [f \in Secrets |-> d.sec[f]]
  BY Zenon DEF IsConn, Fields, Secrets, HsSecretsSet
<1>3. d.sec.handshake = hs /\ d.sec.client_hs = chs /\ d.sec.server_hs = shs
  BY Zenon DEF IsConn, Fields, Secrets, HsSecretsSet
<1>4. d.tx = c.tx /\ d.rx = c.rx /\ d.hs = c.hs
  BY <1>1 DEF Keeps, Fields
<1>5. QED
  BY SMTT(40), <1>1, <1>2, <1>3, <1>4 DEF IsConn

LEMMA HsKeyFields ==
  ASSUME NEW c, IsConn(c), NEW chs, NEW shs, NEW d,
         d = HsKeysSet(c, chs, shs)
  PROVE  /\ IsConn(d) /\ Keeps(c, d, {"tx", "rx"})
         /\ d.tx = [k |-> TrafficKey(chs), seq |-> 0]
         /\ d.rx = [k |-> TrafficKey(shs), seq |-> 0]
<1>1. d = [f \in Fields |-> d[f]] /\ Keeps(c, d, {"tx", "rx"})
  BY Zenon DEF IsConn, Fields, Keeps, SetKey, HsKeysSet
<1>2. d.tx = [k |-> TrafficKey(chs), seq |-> 0]
  BY Zenon DEF IsConn, Fields, SetKey, HsKeysSet
<1>3. d.rx = [k |-> TrafficKey(shs), seq |-> 0]
  BY Zenon DEF IsConn, Fields, SetKey, HsKeysSet
<1>4. d.sec = c.sec /\ d.hs = c.hs
  BY SMTT(40), <1>1 DEF Keeps, Fields
<1>5. QED
  BY SMTT(40), <1>1, <1>2, <1>3, <1>4 DEF IsConn

LEMMA ApSecretFields ==
  ASSUME NEW c, IsConn(c), NEW cap, NEW sap, NEW d,
         d = ApSecretsSet(c, cap, sap)
  PROVE  /\ IsConn(d) /\ Keeps(c, d, {"sec"}) /\ d.sec.client_ap = cap
         /\ d.sec.server_ap = sap /\ d.sec.client_hs = c.sec.client_hs
<1>1. d = [f \in Fields |-> d[f]] /\ Keeps(c, d, {"sec"})
  BY Zenon DEF IsConn, Fields, Keeps, ApSecretsSet
<1>2. d.sec = [f \in Secrets |-> d.sec[f]]
  BY Zenon DEF IsConn, Fields, Secrets, ApSecretsSet
<1>3. /\ d.sec.client_ap = cap /\ d.sec.server_ap = sap
      /\ d.sec.client_hs = c.sec.client_hs
  BY Zenon DEF IsConn, Fields, Secrets, ApSecretsSet
<1>4. d.tx = c.tx /\ d.rx = c.rx /\ d.hs = c.hs
  BY <1>1 DEF Keeps, Fields
<1>5. QED
  BY SMTT(40), <1>1, <1>2, <1>3, <1>4 DEF IsConn

LEMMA ApKeyFields ==
  ASSUME NEW c, IsConn(c), NEW d,
         d = ApKeySet(c)
  PROVE  /\ IsConn(d) /\ Keeps(c, d, {"rx", "phase"})
         /\ d.phase = "CLIENT_FINISHED"
         /\ d.rx = [k |-> TrafficKey(c.sec.server_ap), seq |-> 0]
<1>1. /\ d = [f \in Fields |-> d[f]] /\ Keeps(c, d, {"rx", "phase"})
      /\ d.phase = "CLIENT_FINISHED"
  BY Zenon DEF IsConn, Fields, Keeps, SetKey, ApKeySet
<1>2. d.rx = [k |-> TrafficKey(c.sec.server_ap), seq |-> 0]
  BY Zenon DEF IsConn, Fields, SetKey, ApKeySet
<1>3. d.sec = c.sec /\ d.hs = c.hs /\ d.tx = c.tx
  BY <1>1 DEF Keeps, Fields
<1>4. QED
  BY SMTT(40), <1>1, <1>2, <1>3 DEF IsConn

\* A handler that stops the connection has changed nothing that outlives it.
Refused(c, d) ==
  /\ d.rc # "ok" /\ IsConn(d) /\ Keeps(c, d, {"rc", "hs", "rx"})
  /\ d.hs.len \in 0..TranscriptSize /\ d.rx.seq \in Nat

LEMMA RcRefused ==
  ASSUME NEW c, IsConn(c), c.hs.len \in 0..TranscriptSize, c.rx.seq \in Nat,
         NEW rc, rc # "ok", NEW d, d = Rc(c, rc)
  PROVE  Refused(c, d)
<1>1. IsConn(d) /\ Keeps(c, d, {"rc"}) /\ d.rc = rc
  BY RcFields
<1>2. d.hs = c.hs /\ d.rx = c.rx
  BY <1>1 DEF Keeps, Fields
<1>3. QED
  BY <1>1, <1>2 DEF Refused, Keeps

LEMMA ShOK ==
  ASSUME NEW c, IsConn(c), c.rc = "ok", c.hs.msgs = <<"CH">>,
         c.hs.len \in 0..TranscriptSize, c.rx.seq \in Nat, NEW sel \in Selections
  PROVE  \E d : /\ d = HandshakeMsg(c, ShMsg(sel))
                /\ \/ /\ Refused(c, d)
                      /\ sel # "psk" \/ ~(c.hs.len + 96 <= TranscriptSize)
                   \/ /\ sel = "psk" /\ c.hs.len + 96 <= TranscriptSize
                      /\ IsConn(d) /\ d.rc = "ok" /\ HasHsKeys(d) /\ d.rx.seq = 0
                      /\ Keeps(c, d, {"hs", "rc", "sec", "tx", "rx"})
                      /\ d.hs = [msgs |-> Hellos, len |-> c.hs.len + 96]
<1> DEFINE msg == ShMsg(sel)
<1>1. msg.t = "SH" /\ msg.len = 96 /\ msg.exts = SrvExtensions(sel)
  BY DEF ShMsg, Msg
<1> HIDE DEF msg
<1>2. HandshakeMsg(c, msg) = ServerHello(c, msg)
  BY <1>1 DEF HandshakeMsg
<1>3. CASE sel # "psk"
  <2>1. sel \in {"nopsk", "tls12"}
    BY <1>3, ConstantsOK
  <2>2. "pre_shared_key" \notin SrvExtensions(sel)
    BY <2>1 DEF SrvExtensions
  <2>3. ServerHello(c, msg) = Rc(c, "EINVAL")
    BY ZenonT(40), <2>2, <1>1 DEF ServerHello, ParseServerHello
  <2>4. QED
    BY SMTT(40), <2>3, <1>2, <1>3, RcRefused DEF msg
<1>4. CASE sel = "psk"
  <2> DEFINE u == Update(c, msg)
             v == HsSecretsSet(u, HsSecret, ClientHs, ServerHs)
             d == HsKeysSet(v, ClientHs, ServerHs)
  <2>1. /\ "supported_versions" \in msg.exts /\ "key_share" \in msg.exts
        /\ "pre_shared_key" \in msg.exts
    BY <1>1, <1>4 DEF SrvExtensions
  <2>2. CASE ~(c.hs.len + 96 <= TranscriptSize)
    <3>1. u = Rc(c, "ENOSPC")
      BY <1>1, <2>2 DEF Update, TranscriptFits
    <3>2. u.rc = "ENOSPC"
      BY SMTT(40), <3>1, RcFields
    <3>3. ServerHello(c, msg) = u
      BY ZenonT(40), <2>1, <3>2 DEF ServerHello, ParseServerHello
    <3>4. QED
      BY SMTT(40), <3>1, <3>3, <1>2, <2>2, RcRefused DEF msg
  <2>3. CASE c.hs.len + 96 <= TranscriptSize
    <3>0. u = Update(c, msg)
      BY SMTT(40)
    <3> HIDE DEF u, v, d
    <3>1. /\ IsConn(u) /\ Keeps(c, u, {"hs", "rc"}) /\ u.rc = "ok"
          /\ u.hs = [msgs |-> Append(c.hs.msgs, "SH"), len |-> c.hs.len + 96]
      <4>1. c.hs.len + msg.len <= TranscriptSize
        BY <1>1, <2>3
      <4>2. /\ IsConn(u) /\ Keeps(c, u, {"hs", "rc"}) /\ u.rc = "ok"
            /\ u.hs = [msgs |-> Append(c.hs.msgs, msg.t), len |-> c.hs.len + msg.len]
        BY Zenon, <3>0, <4>1, UpdateFields
      <4>3. QED
        BY <4>2, <1>1
    <3>2. u.hs = [msgs |-> Hellos, len |-> c.hs.len + 96]
      BY Zenon, <3>1, TranscriptSteps
    <3>3. u.hs.msgs = Hellos
      BY SMTT(40), <3>2
    <3>4. ServerHello(c, msg) = d
      BY ZenonT(40), <2>1, <3>1, <3>3
         DEF ServerHello, ParseServerHello, HsSecret, ClientHs, ServerHs,
             HsSecretsSet, HsKeysSet, u, v, d
    <3>5. /\ IsConn(v) /\ Keeps(u, v, {"sec"}) /\ v.sec.handshake = HsSecret
          /\ v.sec.client_hs = ClientHs /\ v.sec.server_hs = ServerHs
      BY SMTT(40), <3>1, HsSecretFields DEF v
    <3>6. /\ IsConn(d) /\ Keeps(v, d, {"tx", "rx"})
          /\ d.tx = [k |-> TrafficKey(ClientHs), seq |-> 0]
          /\ d.rx = [k |-> TrafficKey(ServerHs), seq |-> 0]
      BY SMTT(40), <3>5, HsKeyFields DEF d
    <3>7. Keeps(c, d, {"hs", "rc", "sec", "tx", "rx"})
      BY SMTT(40), <3>1, <3>5, <3>6 DEF Keeps
    <3>8. d.rc = u.rc /\ d.hs = u.hs /\ d.sec = v.sec
      BY SMTT(40), <3>5, <3>6 DEF Keeps, Fields
    <3>9. HasHsKeys(d) /\ d.rx.seq = 0
      BY SMTT(40), <3>5, <3>6, <3>8 DEF HasHsKeys
    <3>10. QED
      BY SMTT(40), <1>2, <1>4, <2>3, <3>1, <3>2, <3>4, <3>6, <3>7, <3>8, <3>9 DEF msg
  <2>4. QED
    BY SMTT(40), <2>2, <2>3
<1>5. QED
  BY SMTT(40), <1>3, <1>4

LEMMA EeOK ==
  ASSUME NEW c, IsConn(c), c.rc = "ok", c.hs.msgs = Hellos,
         c.hs.len \in 0..TranscriptSize, c.rx.seq \in Nat, NEW elen \in Nat
  PROVE  \E d : /\ d = HandshakeMsg(c, Msg("EE", elen))
                /\ \/ Refused(c, d) /\ ~(c.hs.len + elen <= TranscriptSize)
                   \/ /\ c.hs.len + elen <= TranscriptSize
                      /\ IsConn(d) /\ d.rc = "ok" /\ Keeps(c, d, {"hs", "rc"})
                      /\ d.hs = [msgs |-> Flight, len |-> c.hs.len + elen]
<1> DEFINE msg == Msg("EE", elen)
<1>1. msg.t = "EE" /\ msg.len = elen
  BY SMTT(40) DEF Msg
<1> HIDE DEF msg
<1>2. HandshakeMsg(c, msg) = Update(c, msg)
  BY <1>1 DEF HandshakeMsg
<1> DEFINE d == Update(c, msg)
<1>3. \/ /\ c.hs.len + elen <= TranscriptSize
         /\ IsConn(d) /\ Keeps(c, d, {"hs", "rc"}) /\ d.rc = "ok"
         /\ d.hs = [msgs |-> Append(c.hs.msgs, "EE"), len |-> c.hs.len + elen]
      \/ ~(c.hs.len + elen <= TranscriptSize) /\ d = Rc(c, "ENOSPC")
  BY Zenon, <1>1, UpdateFields
<1> HIDE DEF d
<1>4. QED
  BY Zenon, <1>2, <1>3, RcRefused, TranscriptSteps DEF msg, d

LEMMA FinOK ==
  ASSUME NEW c, IsConn(c), c.rc = "ok", c.hs.msgs = Flight,
         c.hs.len \in 0..TranscriptSize, c.rx.seq \in Nat,
         c.sec.handshake = HsSecret, c.sec.server_hs = ServerHs
  PROVE  \E d : /\ d = HandshakeMsg(c, ServerFin)
                /\ \/ Refused(c, d) /\ ~(c.hs.len + 36 <= TranscriptSize)
                   \/ /\ c.hs.len + 36 <= TranscriptSize
                      /\ IsConn(d) /\ d.rc = "ok" /\ d.phase = "CLIENT_FINISHED"
                      /\ Keeps(c, d, {"hs", "rc", "sec", "rx", "phase"})
                      /\ d.hs = [msgs |-> Whole, len |-> c.hs.len + 36]
                      /\ d.rx = [k |-> TrafficKey(ServerAp), seq |-> 0]
                      /\ d.sec.client_ap = ClientAp
                      /\ d.sec.client_hs = c.sec.client_hs
<1> DEFINE msg == ServerFin
<1>1. /\ msg.t = "FIN" /\ msg.len = 36
      /\ msg.mac = FinishedMac(c.sec.server_hs, c.hs.msgs)
  BY DEF ServerFin, Msg
<1> HIDE DEF msg
<1>2. HandshakeMsg(c, msg) = ServerFinished(c, msg)
  BY <1>1 DEF HandshakeMsg
<1> DEFINE u == Update(c, msg)
           v == ApSecretsSet(u, ClientAp, ServerAp)
           d == ApKeySet(v)
<1>3. CASE ~(c.hs.len + 36 <= TranscriptSize)
  <2>1. u = Rc(c, "ENOSPC")
    BY SMTT(40), <1>1, <1>3 DEF Update, TranscriptFits
  <2>2. u.rc = "ENOSPC"
    BY SMTT(40), <2>1, RcFields
  <2>3. ServerFinished(c, msg) = u
    BY <1>1, <2>2 DEF ServerFinished
  <2>4. QED
    BY SMTT(40), <2>1, <2>3, <1>2, <1>3, RcRefused DEF msg
<1>4. CASE c.hs.len + 36 <= TranscriptSize
  <2>0. u = Update(c, msg)
    BY Zenon
  <2> HIDE DEF u, v, d
  <2>1. /\ IsConn(u) /\ Keeps(c, u, {"hs", "rc"}) /\ u.rc = "ok"
        /\ u.hs = [msgs |-> Append(c.hs.msgs, "FIN"), len |-> c.hs.len + 36]
    <3>1. c.hs.len + msg.len <= TranscriptSize
      BY SMTT(40), <1>1, <1>4
    <3>2. /\ IsConn(u) /\ Keeps(c, u, {"hs", "rc"}) /\ u.rc = "ok"
          /\ u.hs = [msgs |-> Append(c.hs.msgs, msg.t), len |-> c.hs.len + msg.len]
      BY SMTT(40), <2>0, <3>1, UpdateFields
    <3>3. QED
      BY Zenon, <3>2, <1>1
  <2>2. u.hs = [msgs |-> Whole, len |-> c.hs.len + 36]
    BY Zenon, <2>1, TranscriptSteps
  <2>3. u.hs.msgs = Whole
    BY <2>2
  <2>4. ServerFinished(c, msg) = d
    BY Zenon, <1>1, <2>1, <2>3
       DEF ServerFinished, ClientAp, ServerAp, ApSecretsSet, ApKeySet, u, v, d
  <2>5. u.sec = c.sec
    BY SMTT(40), <2>1 DEF Keeps, Fields
  <2>6. /\ IsConn(v) /\ Keeps(u, v, {"sec"}) /\ v.sec.client_ap = ClientAp
        /\ v.sec.server_ap = ServerAp /\ v.sec.client_hs = u.sec.client_hs
    BY SMTT(40), <2>1, ApSecretFields DEF v
  <2>7. /\ IsConn(d) /\ Keeps(v, d, {"rx", "phase"})
        /\ d.phase = "CLIENT_FINISHED"
        /\ d.rx = [k |-> TrafficKey(v.sec.server_ap), seq |-> 0]
    BY SMTT(40), <2>6, ApKeyFields DEF d
  <2>8. Keeps(c, d, {"hs", "rc", "sec", "rx", "phase"})
    BY SMTT(40), <2>1, <2>6, <2>7 DEF Keeps
  <2>9. d.rc = u.rc /\ d.hs = u.hs /\ d.sec = v.sec
    BY SMTT(40), <2>6, <2>7 DEF Keeps, Fields
  <2>10. QED
    BY SMTT(40), <1>2, <1>4, <2>1, <2>2, <2>4, <2>5, <2>6, <2>7, <2>8, <2>9 DEF msg
<1>5. QED
  BY SMTT(40), <1>3, <1>4

-----------------------------------------------------------------------------
(* The way through the server's stream *)

LEMMA MovesLen ==
  ASSUME NEW p \in Places, NEW r, NEW q \in Places, NEW cause, Moves(p, r, q, cause)
  PROVE  /\ r.len \in RecordLens \cup {1} /\ r.len \in Nat \ {0}
         /\ q.off = p.off + r.len /\ (r.len <= MaxRecord \/ cause)
<1> DEFINE Right == /\ r.len \in RecordLens \cup {1} /\ r.len \in Nat \ {0}
                    /\ q.off = p.off + r.len /\ (r.len <= MaxRecord \/ cause)
<1>1. ASSUME r.len = 1, q.off = p.off + 1 PROVE Right
  BY <1>1, ConstantsOK
<1>2. CASE p.at = "hello" /\ HelloMoves(p, r, q, cause)
  <2>1. r.len = 1 /\ q.off = p.off + 1
    <3>1. ASSUME NEW sel, r = Reply(sel), q = To(p, "flight", 96, 1) PROVE r.len = 1 /\ q.off = p.off + 1
      BY <3>1 DEF Reply, Cleartext, To
    <3>2. ASSUME r = Alert, q = To(p, "end", 0, 1) PROVE r.len = 1 /\ q.off = p.off + 1
      BY <3>2 DEF Alert, Cleartext, To
    <3>3. QED
      BY Zenon, <1>2, <3>1, <3>2 DEF HelloMoves
  <2>2. QED
    BY <2>1, <1>1
<1>3. CASE p.at = "flight" /\ FlightMoves(p, r, q, cause)
  <2>1. r.len = 1 /\ q.off = p.off + 1
    <3>1. CASE r = Ccs /\ q = To(p, "flight", 0, 1)
      BY SMTT(40), <3>1 DEF Ccs, Cleartext, To
    <3>2. ASSUME NEW elen, NEW msgs, r = FlightRec(0, msgs),
                 q = [To(p, "fin", elen, 1) EXCEPT !.seq = 1]
          PROVE  r.len = 1 /\ q.off = p.off + 1
      BY <3>2 DEF FlightRec, Ciphertext, To
    <3>3. ASSUME NEW len, NEW msgs, r = FlightRec(0, msgs), q = To(p, "data", len, 1)
          PROVE  r.len = 1 /\ q.off = p.off + 1
      BY <3>3 DEF FlightRec, Ciphertext, To
    <3>4. QED
      BY Zenon, <1>3, <3>1, <3>2, <3>3 DEF FlightMoves
  <2>2. QED
    BY <2>1, <1>1
<1>4. CASE p.at = "fin" /\ FinMoves(p, r, q, cause)
  <2>1. r.len = 1 /\ q.off = p.off + 1
    BY <1>4 DEF FinMoves, FlightRec, Ciphertext, To
  <2>2. QED
    BY <2>1, <1>1
<1>5. CASE p.at = "data" /\ DataMoves(p, r, q, cause)
  <2>1. ASSUME NEW len \in RecordLens, len <= MaxRecord \/ cause, q = Data(p, 1, len),
               r = AppRec(p.seq, "data", << >>, p.n + 1, len)
        PROVE  Right
    <3>1. r.len = len /\ q.off = p.off + len
      BY SMTT(40), <2>1 DEF AppRec, Ciphertext, Data
    <3>2. len \in Nat \ {0}
      BY ConstantsOK
    <3>3. QED
      BY SMTT(40), <2>1, <3>1, <3>2
  <2>2. CASE \/ /\ r = AppRec(p.seq, "handshake", <<Msg("NST", 200)>>, 0, 1)
                /\ q = Data(p, 0, 1)
             \/ r = AppRec(p.seq, "data", << >>, 0, 1) /\ q = Data(p, 0, 1)
             \/ r = AppRec(p.seq, "alert", << >>, 0, 1) /\ q = To(p, "end", 0, 1)
    <3>1. r.len = 1 /\ q.off = p.off + 1
      BY <2>2 DEF AppRec, Ciphertext, Data, To
    <3>2. QED
      BY <3>1, <1>1
  <2>3. QED
    BY Zenon, <1>5, <2>1, <2>2 DEF DataMoves
<1>6. QED
  BY Zenon, <1>2, <1>3, <1>4, <1>5 DEF Moves

LEMMA MovesCause ==
  ASSUME NEW p, NEW r, NEW q, NEW cause, NEW more, Moves(p, r, q, cause),
         cause => more
  PROVE  Moves(p, r, q, more)
<1>1. HelloMoves(p, r, q, cause) => HelloMoves(p, r, q, more)
  BY Zenon DEF HelloMoves, Room
<1>2. FlightMoves(p, r, q, cause) => FlightMoves(p, r, q, more)
  BY Zenon DEF FlightMoves, Room
<1>3. FinMoves(p, r, q, cause) => FinMoves(p, r, q, more)
  BY Zenon DEF FinMoves, Room
<1>4. DataMoves(p, r, q, cause) => DataMoves(p, r, q, more)
  BY Zenon DEF DataMoves
<1>5. QED
  BY Zenon, <1>1, <1>2, <1>3, <1>4 DEF Moves

\* A route, but for the server at its end.
Path(pos, c, busy, ds, un, cause, sent) ==
  /\ pos \in [1..(Len(ds) + 1) -> Places]
  /\ \A i \in 1..(Len(ds) + 1) : pos[i].n <= sent
  /\ \A i \in 1..Len(ds) : Moves(pos[i], ds[i], pos[i + 1], cause)
  /\ Reads(c, pos[1])
  /\ pos[1].off + c.rx_len + un = pos[Len(ds) + 1].off
  /\ busy \/ c.rx_len = 0 \/ c.rx_len < ds[1].len

LEMMA RouteIsPath ==
  ASSUME NEW pos, NEW c, NEW busy, NEW ds, NEW un, NEW s
  PROVE  Route(pos, c, busy, ds, un, s) <=>
           /\ Path(pos, c, busy, ds, un, s.cause, s.sent)
           /\ Writes(s, pos[Len(ds) + 1])
BY Zenon DEF Route, Path

\* The server's causes and messages only become more.
LEMMA PathMore ==
  ASSUME NEW pos, NEW c, NEW busy, NEW ds, NEW un, NEW cause, NEW more,
         NEW sent \in Nat, NEW sent2 \in Nat, IsSeq(ds), sent <= sent2,
         cause => more, Path(pos, c, busy, ds, un, cause, sent)
  PROVE  Path(pos, c, busy, ds, un, more, sent2)
<1>1. \A i \in 1..Len(ds) : Moves(pos[i], ds[i], pos[i + 1], more)
  BY MovesCause DEF Path
<1>2. ASSUME NEW i \in 1..(Len(ds) + 1) PROVE pos[i].n <= sent2
  <2>1. pos[i] \in Places /\ pos[i].n <= sent
    BY DEF Path
  <2>2. pos[i].n \in Nat
    BY <2>1 DEF Places
  <2>3. QED
    BY <2>1, <2>2
<1>3. QED
  BY Zenon, <1>1, <1>2 DEF Path

\* The server sends one more record.
Pushed(pos, c, busy, ds, un, cause, sent, r, q) ==
  /\ un \in Nat /\ sent \in Nat /\ IsSeq(ds) /\ c.rx_len \in Nat /\ q \in Places
  /\ Path(pos, c, busy, ds, un, cause, sent)
  /\ Moves(pos[Len(ds) + 1], r, q, cause) /\ q.n <= sent
Longer(c, busy, ds, un, cause, sent, r, q) ==
  \E new : /\ Path(new, c, busy, Append(ds, r), un + r.len, cause, sent)
           /\ new[Len(ds) + 2] = q
LEMMA PathAppend ==
  ASSUME NEW pos, NEW c, NEW busy, NEW ds, NEW un, NEW cause, NEW sent, NEW r, NEW q,
         Pushed(pos, c, busy, ds, un, cause, sent, r, q)
  PROVE  Longer(c, busy, ds, un, cause, sent, r, q)
<1>0. /\ un \in Nat /\ sent \in Nat /\ IsSeq(ds) /\ c.rx_len \in Nat /\ q \in Places
      /\ Path(pos, c, busy, ds, un, cause, sent)
      /\ Moves(pos[Len(ds) + 1], r, q, cause) /\ q.n <= sent
  BY DEF Pushed
<1> DEFINE L == Len(ds)
           es == Append(ds, r)
           new == [i \in 1..(L + 2) |-> IF i = L + 2 THEN q ELSE pos[i]]
<1>1. L \in Nat /\ Len(es) = L + 1 /\ es[L + 1] = r
  BY <1>0, SeqLen, SeqAppend
<1>2. \A i \in 1..L : es[i] = ds[i]
  BY <1>0, SeqAppend
<1>3. pos \in [1..(L + 1) -> Places]
  BY <1>0 DEF Path
<1>4. Len(es) + 1 = L + 2 /\ L + 2 \in 1..(L + 2) /\ 1..(Len(es) + 1) = 1..(L + 2)
  BY <1>1
<1> HIDE DEF L, es
<1>5. /\ \A i \in 1..(L + 1) : new[i] = pos[i]
      /\ new[L + 2] = q
      /\ new \in [1..(L + 2) -> Places]
  BY SMTT(40), <1>0, <1>1, <1>3
<1> HIDE DEF new
<1>6. ASSUME NEW i \in 1..(Len(es) + 1) PROVE new[i].n <= sent
  <2>1. \A j \in 1..(L + 1) : pos[j].n <= sent
    BY <1>0 DEF Path, L
  <2>2. CASE i = L + 2
    BY <1>0, <2>2, <1>5
  <2>3. CASE i \in 1..(L + 1)
    BY <2>1, <2>3, <1>5
  <2>4. QED
    BY <2>2, <2>3, <1>1
<1>7. ASSUME NEW i \in 1..Len(es) PROVE Moves(new[i], es[i], new[i + 1], cause)
  <2>1. \A j \in 1..L : Moves(pos[j], ds[j], pos[j + 1], cause)
    BY <1>0 DEF Path, L
  <2>2. CASE i = L + 1
    <3>1. new[i] = pos[L + 1] /\ es[i] = r /\ new[i + 1] = q
      BY <2>2, <1>1, <1>5
    <3>2. QED
      BY <1>0, <3>1 DEF L
  <2>3. CASE i \in 1..L
    <3>1. new[i] = pos[i] /\ es[i] = ds[i] /\ new[i + 1] = pos[i + 1]
      BY <2>3, <1>1, <1>2, <1>5
    <3>2. QED
      BY <2>1, <2>3, <3>1
  <2>4. QED
    BY <2>2, <2>3, <1>1
<1>8. new[1] = pos[1] /\ pos[L + 1] \in Places /\ pos[1] \in Places
  BY <1>1, <1>3, <1>5
<1>9. Reads(c, new[1])
  BY <1>0, <1>8 DEF Path
<1>10. new[1].off + c.rx_len + (un + r.len) = new[Len(es) + 1].off
  <2>1. /\ pos[1].off + c.rx_len + un = pos[L + 1].off
        /\ Moves(pos[L + 1], r, q, cause)
    BY SMTT(40), <1>0 DEF Path, L
  <2>2. r.len \in Nat /\ q.off = pos[L + 1].off + r.len
    BY <1>0, <1>8, <2>1, MovesLen
  <2>3. pos[1].off \in Nat /\ pos[L + 1].off \in Nat
    BY SMTT(40), <1>8 DEF Places
  <2>4. new[Len(es) + 1] = q
    BY <1>4, <1>5
  <2>5. QED
    BY SMTT(40), <1>0, <2>1, <2>2, <2>3, <2>4, <1>8
<1>11. busy \/ c.rx_len = 0 \/ c.rx_len < es[1].len
  <2>1. CASE L = 0
    <3>1. pos[1].off + c.rx_len + un = pos[1].off /\ pos[1].off \in Nat
      BY <1>0, <2>1, <1>8 DEF Path, L, Places
    <3>2. QED
      BY SMTT(40), <1>0, <3>1
  <2>2. CASE L # 0
    BY SMTT(40), <1>0, <2>2, <1>1, <1>2 DEF Path
  <2>3. QED
    BY <2>1, <2>2
<1>12. Path(new, c, busy, es, un + r.len, cause, sent)
  BY SMTT(40), <1>4, <1>5, <1>6, <1>7, <1>9, <1>10, <1>11 DEF Path
<1>13. QED
  BY <1>5, <1>12 DEF L, es, Longer

\* The client takes the first record.
Popped(pos, c, d, busy, ds, un, cause, sent) ==
  /\ un \in Nat /\ sent \in Nat /\ IsSeq(ds) /\ ds # << >> /\ c.rx_len \in Nat
  /\ Path(pos, c, busy, ds, un, cause, sent) /\ Reads(d, pos[2])
  /\ d.rx_len = c.rx_len - ds[1].len
Shorter(pos, d, ds, un, cause, sent) ==
  \E new : /\ Path(new, d, TRUE, Tail(ds), un, cause, sent)
           /\ new[Len(Tail(ds)) + 1] = pos[Len(ds) + 1]
LEMMA PathTail ==
  ASSUME NEW pos, NEW c, NEW d, NEW busy, NEW ds, NEW un, NEW cause, NEW sent,
         Popped(pos, c, d, busy, ds, un, cause, sent)
  PROVE  Shorter(pos, d, ds, un, cause, sent)
<1>0. /\ un \in Nat /\ sent \in Nat /\ IsSeq(ds) /\ ds # << >> /\ c.rx_len \in Nat
      /\ Path(pos, c, busy, ds, un, cause, sent) /\ Reads(d, pos[2])
      /\ d.rx_len = c.rx_len - ds[1].len
  BY DEF Popped
<1> DEFINE L == Len(Tail(ds))
           es == Tail(ds)
           new == [i \in 1..(L + 1) |-> pos[i + 1]]
<1>1. /\ L \in Nat /\ Len(ds) = L + 1 /\ L = Len(es)
      /\ \A i \in 1..L : es[i] = ds[i + 1]
  <2>1. Len(ds) \in Nat \ {0} /\ Len(Tail(ds)) = Len(ds) - 1
    BY <1>0, SeqTail
  <2>2. \A i \in 1..L : es[i] = ds[i + 1]
    BY <1>0, SeqTail
  <2>3. QED
    BY <2>1, <2>2
<1> HIDE DEF L, es
<1>2. /\ pos \in [1..(L + 2) -> Places]
      /\ \A i \in 1..(L + 2) : pos[i].n <= sent
      /\ \A i \in 1..(L + 1) : Moves(pos[i], ds[i], pos[i + 1], cause)
      /\ pos[1].off + c.rx_len + un = pos[L + 2].off
  <2>1. Len(ds) + 1 = L + 2
    BY <1>1
  <2>2. QED
    BY <1>0, <1>1, <2>1 DEF Path
<1>3. new \in [1..(L + 1) -> Places] /\ \A i \in 1..(L + 1) : new[i] = pos[i + 1]
  BY <1>1, <1>2
<1> HIDE DEF new
<1>4. ASSUME NEW i \in 1..(L + 1) PROVE new[i].n <= sent
  <2>1. new[i] = pos[i + 1] /\ i + 1 \in 1..(L + 2)
    BY <1>1, <1>3
  <2>2. QED
    BY <2>1, <1>2
<1>5. ASSUME NEW i \in 1..L PROVE Moves(new[i], es[i], new[i + 1], cause)
  <2>1. new[i] = pos[i + 1] /\ es[i] = ds[i + 1] /\ new[i + 1] = pos[(i + 1) + 1]
    BY SMTT(40), <1>1, <1>3
  <2>2. i + 1 \in 1..(L + 1)
    BY <1>1
  <2>3. QED
    BY <2>1, <2>2, <1>2
<1>6. new[1] = pos[2] /\ new[L + 1] = pos[L + 2]
  <2>1. 1 \in 1..(L + 1) /\ L + 1 \in 1..(L + 1) /\ (L + 1) + 1 = L + 2 /\ 1 + 1 = 2
    BY <1>1
  <2>2. QED
    BY <1>3, <2>1
<1>7. new[1].off + d.rx_len + un = new[L + 1].off
  <2>1. pos[1] \in Places /\ pos[2] \in Places /\ Moves(pos[1], ds[1], pos[2], cause)
    <3>1. 1 \in 1..(L + 1) /\ 1 \in 1..(L + 2) /\ 2 \in 1..(L + 2) /\ 1 + 1 = 2
      BY SMTT(40), <1>1
    <3>2. QED
      BY <1>2, <3>1
  <2>2. ds[1].len \in Nat /\ pos[2].off = pos[1].off + ds[1].len
    BY <2>1, MovesLen
  <2>3. pos[1].off \in Nat
    BY <2>1 DEF Places
  <2>4. pos[2].off + d.rx_len + un = pos[1].off + c.rx_len + un
    BY SMTT(40), <1>0, <2>2, <2>3
  <2>5. QED
    BY <2>4, <1>2, <1>6
<1>8. Path(new, d, TRUE, es, un, cause, sent)
  BY SMTT(40), <1>0, <1>1, <1>3, <1>4, <1>5, <1>6, <1>7 DEF Path
<1>9. new[Len(es) + 1] = pos[Len(ds) + 1]
  <2>1. Len(es) + 1 = L + 1 /\ Len(ds) + 1 = L + 2
    BY <1>1
  <2>2. QED
    BY SMTT(40), <1>6, <2>1
<1>10. QED
  BY Zenon, <1>8, <1>9 DEF es, Shorter

\* Transmission moves no place.
LEMMA ReadsTx ==
  ASSUME NEW c, NEW d, NEW p, Reads(c, p), Keeps(c, d, TxFields),
         c.phase \in Phases, c.phase # "CLIENT_HELLO", c.phase = "FAILED" => d = c,
         c.phase = "SERVER_FLIGHT" => d.phase = "SERVER_FLIGHT" /\ d.tx = c.tx,
         c.phase \in {"CLIENT_FINISHED", "DATA"} =>
           d.phase \in {"CLIENT_FINISHED", "DATA", "FAILED"}
  PROVE  Reads(d, p)
<1>1. d.got = c.got /\ d.idlen = c.idlen /\ d.hs = c.hs /\ d.rx = c.rx /\ d.sec = c.sec
  BY Zenon DEF Keeps, Fields, TxFields
<1>2. CASE c.phase = "FAILED"
  BY <1>2
<1>3. CASE c.phase = "SERVER_FLIGHT"
  BY Zenon, <1>1, <1>3 DEF Reads, HasHsKeys
<1>4. CASE c.phase \in {"CLIENT_FINISHED", "DATA"}
  <2>1. c.phase # "FAILED" /\ c.phase # "CLIENT_HELLO" /\ c.phase # "SERVER_FLIGHT"
    BY <1>4
  <2>2. /\ p.at = "data" /\ Len(c.got) = p.n
        /\ c.rx = [k |-> TrafficKey(ServerAp), seq |-> p.seq]
    BY Zenon, <2>1 DEF Reads
  <2>3. /\ p.at = "data" /\ Len(d.got) = p.n
        /\ d.rx = [k |-> TrafficKey(ServerAp), seq |-> p.seq]
    BY Zenon, <1>1, <2>2
  <2>4. QED
    BY Zenon, <1>4, <2>3 DEF Reads
<1>5. QED
  BY <1>2, <1>3, <1>4 DEF Phases

-----------------------------------------------------------------------------
(* What every step has in common *)

\* What a step does to the stream in each direction.
Flows ==
  \/ /\ tls'.sent = tls.sent /\ tls'.got = tls.got
     /\ srv'.sent = srv.sent /\ srv'.got = srv.got
     /\ tls.phase = "FAILED" => tls'.phase = "FAILED"
  \/ /\ tls'.sent = tls.sent + 1 /\ tls'.got = tls.got
     /\ tls.phase # "FAILED" /\ tls'.phase # "FAILED"
     /\ srv'.sent = srv.sent /\ srv'.got = srv.got
  \/ /\ tls'.sent = tls.sent /\ Len(tls.got) < srv.sent
     /\ tls'.got = Append(tls.got, Len(tls.got) + 1)
     /\ tls.phase # "FAILED" /\ tls'.phase # "FAILED"
     /\ srv'.sent = srv.sent /\ srv'.got = srv.got
  \/ /\ tls'.sent = tls.sent /\ tls'.got = tls.got
     /\ tls'.phase = tls.phase
     /\ srv'.sent = srv.sent + 1 /\ srv'.got = srv.got
  \/ /\ tls'.sent = tls.sent /\ tls'.got = tls.got
     /\ tls'.phase = tls.phase
     /\ srv'.sent = srv.sent /\ Len(srv.got) < tls.sent
     /\ srv'.got = Append(srv.got, Len(srv.got) + 1)
=============================================================================
