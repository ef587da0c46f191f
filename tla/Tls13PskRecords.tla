-------------------------- MODULE Tls13PskRecords ---------------------------
(***************************************************************************)
(* For the proofs about Tls13Psk: what each record of the server does to a *)
(* connection, and the steps of the client that open none, each of which   *)
(* keeps the inductive invariant.                                          *)
(***************************************************************************)
EXTENDS Tls13PskClient

-----------------------------------------------------------------------------
(* The records *)

\* tls13_psk_record() has opened a record and counted it.
Opened(c) == [c EXCEPT !.rx.seq = @ + 1]

LEMMA OpenedFields ==
  ASSUME NEW c, IsConn(c), NEW d, d = Opened(c)
  PROVE  /\ IsConn(d) /\ Keeps(c, d, {"rx"})
         /\ d.rx = [k |-> c.rx.k, seq |-> c.rx.seq + 1]
<1>1. d = [f \in Fields |-> d[f]] /\ Keeps(c, d, {"rx"})
  BY SMTT(40) DEF IsConn, Fields, Keeps, Opened
<1>2. d.rx = [k |-> c.rx.k, seq |-> c.rx.seq + 1]
  BY DEF IsConn, Fields, Opened
<1>3. d.tx = c.tx /\ d.sec = c.sec /\ d.hs = c.hs
  BY <1>1 DEF Keeps, Fields
<1>4. QED
  BY SMTT(40), <1>1, <1>2, <1>3 DEF IsConn

LEMMA HandshakeOne ==
  ASSUME NEW c, NEW m
  PROVE  Handshake(c, <<m>>) = HandshakeMsg(c, m)
BY DEF Handshake

LEMMA HandshakeTwo ==
  ASSUME NEW c, NEW m, NEW n
  PROVE  Handshake(c, <<m, n>>) = HandshakeMsg(HandshakeMsg(c, m), n)
BY DEF Handshake

LEMMA ClearRecords ==
  ASSUME NEW c, NEW mem, NEW answer, NEW sel
  PROVE  /\ Record(c, Ccs, mem, answer) = c
         /\ Record(c, Alert, mem, answer) = Rc(c, "EINVAL")
         /\ Record(c, Reply(sel), mem, answer) = HandshakeMsg(c, ShMsg(sel))
<1>1. Record(c, Ccs, mem, answer) = c
  BY SMTT(40) DEF Record, Ccs, Cleartext
<1>2. Record(c, Alert, mem, answer) = Rc(c, "EINVAL")
  BY DEF Record, Alert, Cleartext
<1>3. Record(c, Reply(sel), mem, answer) = HandshakeMsg(c, ShMsg(sel))
  <2>1. /\ Reply(sel).type = "handshake"
        /\ Reply(sel).frag.data.msgs = <<ShMsg(sel)>>
    BY SMTT(40) DEF Reply, Cleartext, Body
  <2>2. QED
    BY <2>1, HandshakeOne DEF Record
<1>4. QED
  BY <1>1, <1>2, <1>3

LEMMA SealedRecord ==
  ASSUME NEW c, NEW mem, NEW answer, NEW type, NEW body, NEW len, NEW r,
         r = Ciphertext(Seal(c.rx.k, c.rx.seq, type, body), len)
  PROVE  /\ type = "handshake" =>
              Record(c, r, mem, answer) = Handshake(Opened(c), body.msgs)
         /\ type = "data" =>
              Record(c, r, mem, answer) = Deliver(Opened(c), body.n, mem, answer)
         /\ type = "alert" =>
              Record(c, r, mem, answer) = Rc(Opened(c), "EINVAL")
<1>1. /\ r.type = "data" /\ r.frag.type = type /\ r.frag.data = body
      /\ Open(c.rx.k, c.rx.seq, r.frag)
  BY DEF Ciphertext, Seal, Open
<1>2. QED
  BY <1>1 DEF Record, Opened

-----------------------------------------------------------------------------
(* What a record does to a connection that stands where it belongs *)

Receiving(c, s, p) ==
  /\ ConnOK(c) /\ Sends(c, FALSE) /\ Up(c, s) /\ Reads(c, p) /\ p \in Places
  /\ c.rc = "ok" /\ c.phase # "CLIENT_HELLO"
  /\ c.phase = "SERVER_FLIGHT" => c.txbuf = << >>
Accepted(c, d, s, q, mem) ==
  /\ d.rc = "ok" /\ ConnOK(d) /\ (Sends(d, TRUE) \/ Sends(d, FALSE)) /\ Up(d, s)
  /\ Reads(d, q) /\ d.phase # "CLIENT_HELLO" /\ q \in Places
  /\ d.phase = "SERVER_FLIGHT" => d.txbuf = << >>
  /\ c.phase = "FAILED" => d.phase = "FAILED"
  /\ d.rx_len = c.rx_len /\ d.sent = c.sent /\ d.idlen = c.idlen
  /\ \/ d.got = c.got
     \/ /\ mem /\ d.phase # "FAILED" /\ c.phase # "FAILED"
        /\ d.got = Append(c.got, Len(c.got) + 1) /\ q.n = Len(c.got) + 1
Outcome(c, d, s, q, mem, answer, cause) ==
  \/ Refused(c, d) /\ (cause \/ ~mem \/ answer # "take" \/ c.phase = "FAILED")
  \/ /\ Accepted(c, d, s, q, mem)
     /\ d.phase = "FAILED" => c.phase = "FAILED" \/ answer # "take"

\* In the server's flight only the keys and the transcript change.
Stays(c, d) ==
  /\ IsConn(d) /\ d.hs.len \in 0..TranscriptSize /\ d.tx.seq \in Nat
  /\ d.rx.seq \in Nat /\ Keeps(c, d, {"hs", "rc", "sec", "tx", "rx"})
LEMMA StayOK ==
  ASSUME NEW c, NEW s, NEW d, ConnOK(c), Sends(c, FALSE), Up(c, s),
         c.phase = "SERVER_FLIGHT", Stays(c, d)
  PROVE  ConnOK(d) /\ Sends(d, FALSE) /\ Up(d, s)
<1>1. /\ d.phase = c.phase /\ d.rx_len = c.rx_len /\ d.txbuf = c.txbuf
      /\ d.sent = c.sent /\ d.idlen = c.idlen /\ d.out = c.out
      /\ d.got = c.got /\ d.sealed = c.sealed /\ d.plugged = c.plugged
  BY SMTT(40) DEF Stays, Keeps, Fields
<1>2. ConnOK(d)
  BY SMTT(40), <1>1 DEF ConnOK, Stays
<1>3. Sends(d, FALSE)
  BY SMTT(40), <1>1 DEF Sends
<1>4. Up(d, s)
  BY <1>1, UpSame DEF Written
<1>5. QED
  BY Zenon, <1>2, <1>3, <1>4

\* A record that is refused, for a cause.
LEMMA RefusedOutcome ==
  ASSUME NEW c, NEW d, NEW s, NEW q, NEW mem, NEW answer, NEW cause,
         Refused(c, d), cause \/ ~mem \/ answer # "take" \/ c.phase = "FAILED"
  PROVE  Outcome(c, d, s, q, mem, answer, cause)
BY DEF Outcome

LEMMA HelloOutcome ==
  ASSUME NEW c, NEW s, NEW p, NEW r, NEW q, NEW mem, NEW answer, NEW cause,
         Receiving(c, s, p), p.at = "hello", HelloMoves(p, r, q, cause)
  PROVE  Outcome(c, Record(c, r, mem, answer), s, q, mem, answer, cause)
<1>0. ConnOK(c) /\ Sends(c, FALSE) /\ Up(c, s)
  BY Zenon DEF Receiving
<1>1. /\ c.phase = "SERVER_FLIGHT" /\ c.hs = [msgs |-> <<"CH">>, len |-> p.len]
      /\ c.txbuf = << >> /\ Len(c.got) = p.n
  BY Zenon DEF Receiving, Reads
<1>a. c.phase = "SERVER_FLIGHT"
  BY <1>1
<1>2. c.hs.msgs = <<"CH">> /\ c.hs.len = p.len
  BY <1>1
<1>3. /\ IsConn(c) /\ c.rc = "ok" /\ c.hs.len \in 0..TranscriptSize
      /\ c.rx.seq \in Nat /\ p \in Places
  BY SMTT(40) DEF Receiving, ConnOK
<1>4. CASE r = Alert /\ cause /\ q = To(p, "end", 0, 1)
  <2>1. PICK d : d = Rc(c, "EINVAL")
    BY Zenon
  <2>2. Refused(c, d)
    BY SMTT(40), <2>1, <1>3, RcRefused
  <2>3. QED
    <3>1. Record(c, r, mem, answer) = d
      BY SMTT(40), <1>4, <2>1, ClearRecords
    <3>2. QED
      BY Zenon, <1>4, <2>2, <3>1, RefusedOutcome
<1>5. ASSUME NEW sel \in Selections, r = Reply(sel), sel = "psk" \/ cause,
             Room(p, 96, cause), q = To(p, "flight", 96, 1)
      PROVE  Outcome(c, Record(c, r, mem, answer), s, q, mem, answer, cause)
  <2>1. PICK d : /\ d = HandshakeMsg(c, ShMsg(sel))
                 /\ \/ /\ Refused(c, d)
                       /\ sel # "psk" \/ ~(c.hs.len + 96 <= TranscriptSize)
                    \/ /\ sel = "psk" /\ c.hs.len + 96 <= TranscriptSize
                       /\ IsConn(d) /\ d.rc = "ok" /\ HasHsKeys(d) /\ d.rx.seq = 0
                       /\ Keeps(c, d, {"hs", "rc", "sec", "tx", "rx"})
                       /\ d.hs = [msgs |-> Hellos, len |-> c.hs.len + 96]
    BY SMTT(40), <1>2, <1>3, ShOK
  <2>2. Record(c, r, mem, answer) = d
    <3>1. Record(c, Reply(sel), mem, answer) = HandshakeMsg(c, ShMsg(sel))
      BY ClearRecords
    <3>2. QED
      BY Zenon, <1>5, <2>1, <3>1
  <2>3. CASE Refused(c, d) /\ (sel # "psk" \/ ~(c.hs.len + 96 <= TranscriptSize))
    <3>1. cause
      BY SMTT(40), <2>3, <1>5, <1>2 DEF Room
    <3>2. QED
      BY Zenon, <2>2, <2>3, <3>1, RefusedOutcome
  <2>4. CASE /\ c.hs.len + 96 <= TranscriptSize
             /\ IsConn(d) /\ d.rc = "ok" /\ HasHsKeys(d) /\ d.rx.seq = 0
             /\ Keeps(c, d, {"hs", "rc", "sec", "tx", "rx"})
             /\ d.hs = [msgs |-> Hellos, len |-> c.hs.len + 96]
    <3>1. /\ q \in Places /\ q.at = "flight" /\ q.len = p.len + 96 /\ q.n = p.n
      BY SMTT(40), <1>5, <1>3 DEF To, Places
    <3>2. d.hs = [msgs |-> Hellos, len |-> q.len] /\ d.hs.len = c.hs.len + 96
      BY SMTT(40), <2>4, <3>1, <1>2
    <3>3. d.hs.len \in 0..TranscriptSize
      BY SMTT(40), <3>2, <2>4, <1>3
    <3>4. Stays(c, d)
      BY SMTT(40), <2>4, <3>3 DEF HasHsKeys, Stays
    <3>5. /\ ConnOK(d) /\ Sends(d, FALSE) /\ Up(d, s) /\ d.phase = c.phase
          /\ d.txbuf = c.txbuf /\ d.got = c.got /\ d.rx_len = c.rx_len
          /\ d.sent = c.sent /\ d.idlen = c.idlen
      <4>1. ConnOK(d) /\ Sends(d, FALSE) /\ Up(d, s)
        BY Zenon, <1>0, <1>a, <3>4, StayOK
      <4>2. /\ d.phase = c.phase /\ d.txbuf = c.txbuf /\ d.got = c.got
            /\ d.rx_len = c.rx_len /\ d.sent = c.sent /\ d.idlen = c.idlen
        BY SMTT(40), <3>4 DEF Stays, Keeps, Fields
      <4>3. QED
        BY Zenon, <4>1, <4>2
    <3>6. Reads(d, q)
      BY ZenonT(40), <1>1, <2>4, <3>1, <3>2, <3>5 DEF Reads
    <3>7. Accepted(c, d, s, q, mem)
      BY ZenonT(40), <1>1, <2>4, <3>1, <3>5, <3>6 DEF Accepted
    <3>8. d.phase # "FAILED"
      BY Zenon, <3>5, <1>a
    <3>9. QED
      BY Zenon, <2>2, <3>7, <3>8 DEF Outcome
  <2>5. QED
    BY Zenon, <2>1, <2>3, <2>4
<1>6. QED
  BY <1>4, <1>5 DEF HelloMoves

LEMMA FlightRecord ==
  ASSUME NEW c, NEW mem, NEW answer, NEW q, NEW msgs, NEW o,
         c.rx.k = TrafficKey(ServerHs), c.rx.seq = q, o = Opened(c)
  PROVE  Record(c, FlightRec(q, msgs), mem, answer) = Handshake(o, msgs)
<1> DEFINE body == Body(msgs, 0)
           r == FlightRec(q, msgs)
<1>1. r = Ciphertext(Seal(c.rx.k, c.rx.seq, "handshake", body), 1)
  BY SMTT(40) DEF FlightRec
<1>2. body.msgs = msgs
  BY DEF Body
<1> HIDE DEF body, r
<1>3. Record(c, r, mem, answer) = Handshake(Opened(c), body.msgs)
  BY SMTT(40), <1>1, SealedRecord
<1>4. QED
  BY Zenon, <1>2, <1>3 DEF r

LEMMA AppRecord ==
  ASSUME NEW c, NEW mem, NEW answer, NEW q, NEW msgs, NEW n, NEW len,
         NEW o, c.rx.k = TrafficKey(ServerAp), c.rx.seq = q, o = Opened(c)
  PROVE  /\ Record(c, AppRec(q, "handshake", msgs, n, len), mem, answer)
              = Handshake(o, msgs)
         /\ Record(c, AppRec(q, "data", msgs, n, len), mem, answer)
              = Deliver(o, n, mem, answer)
         /\ Record(c, AppRec(q, "alert", msgs, n, len), mem, answer) = Rc(o, "EINVAL")
<1> DEFINE body == Body(msgs, n)
           r(type) == AppRec(q, type, msgs, n, len)
<1>1. \A type : r(type) = Ciphertext(Seal(c.rx.k, c.rx.seq, type, body), len)
  BY SMTT(40) DEF AppRec
<1>2. body.msgs = msgs /\ body.n = n
  BY DEF Body
<1> HIDE DEF body, r
<1>3. /\ Record(c, r("handshake"), mem, answer) = Handshake(Opened(c), body.msgs)
      /\ Record(c, r("data"), mem, answer) = Deliver(Opened(c), body.n, mem, answer)
      /\ Record(c, r("alert"), mem, answer) = Rc(Opened(c), "EINVAL")
  BY SMTT(40), <1>1, SealedRecord
<1>4. QED
  BY Zenon, <1>2, <1>3 DEF r

\* The server's Finished: the handshake ends, and the client's is due.
LEMMA FinishedAccepted ==
  ASSUME NEW c, NEW d, NEW s, NEW q, NEW mem, ConnOK(c), Sends(c, FALSE), Up(c, s),
         c.phase = "SERVER_FLIGHT", c.txbuf = << >>, IsConn(d), d.rc = "ok",
         Keeps(c, d, {"hs", "rc", "sec", "rx", "phase"}),
         d.phase = "CLIENT_FINISHED", d.hs.len \in 0..TranscriptSize,
         c.tx = [k |-> TrafficKey(ClientHs), seq |-> 0], d.hs.msgs = Whole,
         d.sec.client_hs = ClientHs, d.sec.client_ap = ClientAp,
         d.rx = [k |-> TrafficKey(ServerAp), seq |-> 0],
         q \in Places, q.at = "data", q.seq = 0, Len(c.got) = q.n
  PROVE  Accepted(c, d, s, q, mem)
<1>1. /\ d.rx_len = c.rx_len /\ d.txbuf = c.txbuf /\ d.tx = c.tx
      /\ d.sent = c.sent /\ d.idlen = c.idlen /\ d.out = c.out
      /\ d.got = c.got /\ d.sealed = c.sealed /\ d.plugged = c.plugged
  BY Zenon DEF Keeps, Fields
<1>2. ConnOK(d)
  <2>1. d.rx.seq \in Nat /\ d.phase \in Phases
    BY SMTT(40) DEF Phases
  <2>2. d.plugged <=> d.phase \notin {"CLIENT_HELLO", "FAILED"}
    BY SMTT(40), <1>1 DEF ConnOK
  <2>3. QED
    BY Zenon, <1>1, <2>1, <2>2 DEF ConnOK
<1>3. Sends(d, TRUE)
  BY Zenon, <1>1 DEF Sends
<1>4. Written(c) = 1 /\ Written(d) = 1
  BY DEF Written
<1>5. Up(d, s)
  BY ZenonT(40), <1>1, <1>4, UpSame
<1>6. Reads(d, q)
  BY Zenon, <1>1 DEF Reads
<1>7. QED
  BY Zenon, <1>1, <1>2, <1>3, <1>5, <1>6 DEF Accepted

LEMMA FinOutcome ==
  ASSUME NEW c, NEW s, NEW p, NEW r, NEW q, NEW mem, NEW answer, NEW cause,
         Receiving(c, s, p), p.at = "fin", FinMoves(p, r, q, cause)
  PROVE  Outcome(c, Record(c, r, mem, answer), s, q, mem, answer, cause)
<1>0. ConnOK(c) /\ Sends(c, FALSE) /\ Up(c, s)
  BY Zenon DEF Receiving
<1>1. /\ c.phase = "SERVER_FLIGHT" /\ c.txbuf = << >> /\ Len(c.got) = p.n
      /\ c.hs = [msgs |-> Flight, len |-> p.len] /\ HasHsKeys(c) /\ c.rx.seq = 1
  BY Zenon DEF Receiving, Reads
<1>2. /\ c.hs.msgs = Flight /\ c.hs.len = p.len /\ c.rx.k = TrafficKey(ServerHs)
      /\ c.sec.handshake = HsSecret /\ c.sec.server_hs = ServerHs
      /\ c.sec.client_hs = ClientHs
      /\ c.tx = [k |-> TrafficKey(ClientHs), seq |-> 0]
  BY SMTT(40), <1>1 DEF HasHsKeys
<1>3. /\ IsConn(c) /\ c.rc = "ok" /\ c.hs.len \in 0..TranscriptSize
      /\ p \in Places
  BY SMTT(40) DEF Receiving, ConnOK
<1>4. /\ r = FlightRec(1, <<ServerFin>>) /\ Room(p, 36, cause)
      /\ q = To(p, "data", 36, 1)
  BY DEF FinMoves
<1>5. PICK o : o = Opened(c)
  BY Zenon
<1>6. /\ IsConn(o) /\ Keeps(c, o, {"rx"})
      /\ o.rx = [k |-> c.rx.k, seq |-> c.rx.seq + 1]
  BY SMTT(40), <1>3, <1>5, OpenedFields
<1>7. o.hs = c.hs /\ o.sec = c.sec /\ o.rc = c.rc /\ o.rx.seq \in Nat
  <2>1. o.hs = c.hs /\ o.sec = c.sec /\ o.rc = c.rc
    BY Zenon, <1>6 DEF Keeps, Fields
  <2>2. o.rx.seq = c.rx.seq + 1
    BY SMTT(40), <1>6
  <2>3. QED
    BY SMTT(40), <2>1, <2>2, <1>1
<1>8. PICK d : /\ d = HandshakeMsg(o, ServerFin)
               /\ \/ Refused(o, d) /\ ~(o.hs.len + 36 <= TranscriptSize)
                  \/ /\ o.hs.len + 36 <= TranscriptSize
                     /\ IsConn(d) /\ d.rc = "ok" /\ d.phase = "CLIENT_FINISHED"
                     /\ Keeps(o, d, {"hs", "rc", "sec", "rx", "phase"})
                     /\ d.hs = [msgs |-> Whole, len |-> o.hs.len + 36]
                     /\ d.rx = [k |-> TrafficKey(ServerAp), seq |-> 0]
                     /\ d.sec.client_ap = ClientAp
                     /\ d.sec.client_hs = o.sec.client_hs
  <2>1. /\ IsConn(o) /\ o.rc = "ok" /\ o.hs.msgs = Flight
        /\ o.hs.len \in 0..TranscriptSize /\ o.rx.seq \in Nat
        /\ o.sec.handshake = HsSecret /\ o.sec.server_hs = ServerHs
    BY Zenon, <1>2, <1>3, <1>6, <1>7
  <2>2. QED
    BY SMTT(40), <2>1, FinOK
<1>9. Record(c, r, mem, answer) = d
  <2>1. Record(c, r, mem, answer) = Handshake(o, <<ServerFin>>)
    <3>1. c.rx.k = TrafficKey(ServerHs) /\ c.rx.seq = 1 /\ o = Opened(c)
      BY Zenon, <1>1, <1>2, <1>5
    <3>2. Record(c, FlightRec(1, <<ServerFin>>), mem, answer) = Handshake(o, <<ServerFin>>)
      BY <3>1, FlightRecord
    <3>3. QED
      BY Zenon, <1>4, <3>2
  <2>2. QED
    BY Zenon, <2>1, <1>8, HandshakeOne
<1>10. CASE Refused(o, d) /\ ~(o.hs.len + 36 <= TranscriptSize)
  <2>1. Refused(c, d)
    BY Zenon, <1>10, <1>6 DEF Refused, Keeps
  <2>2. cause
    BY SMTT(40), <1>10, <1>2, <1>4, <1>7 DEF Room
  <2>3. QED
    BY Zenon, <2>1, <2>2, <1>9, RefusedOutcome
<1>11. CASE /\ o.hs.len + 36 <= TranscriptSize
            /\ IsConn(d) /\ d.rc = "ok" /\ d.phase = "CLIENT_FINISHED"
            /\ Keeps(o, d, {"hs", "rc", "sec", "rx", "phase"})
            /\ d.hs = [msgs |-> Whole, len |-> o.hs.len + 36]
            /\ d.rx = [k |-> TrafficKey(ServerAp), seq |-> 0]
            /\ d.sec.client_ap = ClientAp
            /\ d.sec.client_hs = o.sec.client_hs
  <2>1. Keeps(c, d, {"hs", "rc", "sec", "rx", "phase"})
    BY Zenon, <1>11, <1>6 DEF Keeps
  <2>2. d.hs.msgs = Whole /\ d.hs.len = c.hs.len + 36
    <3>1. d.hs = [msgs |-> Whole, len |-> c.hs.len + 36]
      BY Zenon, <1>11, <1>7
    <3>2. QED
      BY <3>1
  <2>3. d.hs.len \in 0..TranscriptSize
    BY SMTT(40), <2>2, <1>3, <1>11, <1>7
  <2>4. /\ q \in Places /\ q.at = "data" /\ q.seq = 0 /\ q.n = p.n
    BY SMTT(40), <1>4, <1>3 DEF To, Places
  <2>5. d.sec.client_hs = ClientHs
    BY Zenon, <1>2, <1>7, <1>11
  <2>6. Accepted(c, d, s, q, mem)
    BY ZenonT(40), <1>0, <1>1, <1>2, <1>11, <2>1, <2>2, <2>3, <2>4, <2>5, FinishedAccepted
  <2>7. QED
    BY Zenon, <1>9, <1>11, <2>6 DEF Outcome
<1>12. QED
  BY Zenon, <1>8, <1>10, <1>11

\* A transcript that takes EncryptedExtensions, still in the server's flight.
LEMMA EeStays ==
  ASSUME NEW c, NEW o, NEW d, NEW elen, IsConn(d), Keeps(c, o, {"rx"}),
         Keeps(o, d, {"hs", "rc"}), o.rx.seq \in Nat, c.tx.seq \in Nat,
         d.hs.len \in 0..TranscriptSize
  PROVE  Stays(c, d) /\ d.tx = c.tx /\ d.rx = o.rx /\ d.sec = c.sec
<1>1. o.tx = c.tx /\ d.tx = o.tx /\ d.rx = o.rx /\ o.sec = c.sec /\ d.sec = o.sec
  BY Zenon DEF Keeps, Fields
<1>2. Keeps(c, d, {"hs", "rc", "sec", "tx", "rx"})
  BY Zenon DEF Keeps
<1>3. QED
  BY SMTT(40), <1>1, <1>2 DEF Stays

LEMMA FlightOutcome ==
  ASSUME NEW c, NEW s, NEW p, NEW r, NEW q, NEW mem, NEW answer, NEW cause,
         Receiving(c, s, p), p.at = "flight", FlightMoves(p, r, q, cause)
  PROVE  Outcome(c, Record(c, r, mem, answer), s, q, mem, answer, cause)
<1>0. ConnOK(c) /\ Sends(c, FALSE) /\ Up(c, s)
  BY Zenon DEF Receiving
<1>1. /\ c.phase = "SERVER_FLIGHT" /\ c.txbuf = << >> /\ Len(c.got) = p.n
      /\ c.hs = [msgs |-> Hellos, len |-> p.len] /\ HasHsKeys(c) /\ c.rx.seq = 0
  BY Zenon DEF Receiving, Reads
<1>a. c.phase = "SERVER_FLIGHT"
  BY Zenon, <1>1
<1>2. /\ c.hs.msgs = Hellos /\ c.hs.len = p.len /\ c.rx.k = TrafficKey(ServerHs)
      /\ c.sec.handshake = HsSecret /\ c.sec.server_hs = ServerHs
      /\ c.sec.client_hs = ClientHs
      /\ c.tx = [k |-> TrafficKey(ClientHs), seq |-> 0]
  BY SMTT(40), <1>1 DEF HasHsKeys
<1>3. /\ IsConn(c) /\ c.rc = "ok" /\ c.hs.len \in 0..TranscriptSize
      /\ p \in Places /\ c.tx.seq \in Nat
  BY SMTT(40) DEF Receiving, ConnOK
<1>4. CASE r = Ccs /\ q = To(p, "flight", 0, 1)
  <2>1. Record(c, r, mem, answer) = c
    BY SMTT(40), <1>4, ClearRecords
  <2>2. q \in Places /\ q.at = "flight" /\ q.len = p.len /\ q.n = p.n
    BY SMTT(40), <1>4, <1>3 DEF To, Places
  <2>3. Reads(c, q)
    BY Zenon, <1>1, <2>2 DEF Reads
  <2>4. Accepted(c, c, s, q, mem)
    BY Zenon, <1>0, <1>1, <1>3, <2>2, <2>3 DEF Accepted
  <2>5. QED
    BY SMTT(40), <1>1, <2>1, <2>4 DEF Outcome
<1>5. PICK o : o = Opened(c)
  BY Zenon
<1>6. /\ IsConn(o) /\ Keeps(c, o, {"rx"})
      /\ o.rx = [k |-> c.rx.k, seq |-> c.rx.seq + 1]
  BY SMTT(40), <1>3, <1>5, OpenedFields
<1>7. /\ o.hs = c.hs /\ o.sec = c.sec /\ o.rc = c.rc /\ o.rx.seq \in Nat
      /\ o.rx.k = TrafficKey(ServerHs) /\ o.rx.seq = 1
  <2>1. o.hs = c.hs /\ o.sec = c.sec /\ o.rc = c.rc
    BY Zenon, <1>6 DEF Keeps, Fields
  <2>2. o.rx.seq = c.rx.seq + 1 /\ o.rx.k = c.rx.k
    BY SMTT(40), <1>6
  <2>3. QED
    BY SMTT(40), <2>1, <2>2, <1>1, <1>2
<1>8. ASSUME NEW elen \in ExtensionLens, Room(p, elen + 36, cause),
             NEW msgs, r = FlightRec(0, msgs),
             \/ /\ msgs = <<Msg("EE", elen)>>
                /\ q = [To(p, "fin", elen, 1) EXCEPT !.seq = 1]
             \/ /\ msgs = <<Msg("EE", elen), ServerFin>>
                /\ q = To(p, "data", elen + 36, 1)
      PROVE  Outcome(c, Record(c, r, mem, answer), s, q, mem, answer, cause)
  <2>1. elen \in Nat
    BY SMTT(40), ConstantsOK
  <2>2. PICK d : /\ d = HandshakeMsg(o, Msg("EE", elen))
                 /\ \/ Refused(o, d) /\ ~(o.hs.len + elen <= TranscriptSize)
                    \/ /\ o.hs.len + elen <= TranscriptSize
                       /\ IsConn(d) /\ d.rc = "ok" /\ Keeps(o, d, {"hs", "rc"})
                       /\ d.hs = [msgs |-> Flight, len |-> o.hs.len + elen]
    <3>1. /\ IsConn(o) /\ o.rc = "ok" /\ o.hs.msgs = Hellos
          /\ o.hs.len \in 0..TranscriptSize /\ o.rx.seq \in Nat
      BY Zenon, <1>2, <1>3, <1>6, <1>7
    <3>2. QED
      BY SMTT(40), <2>1, <3>1, EeOK
  <2>3. Record(c, r, mem, answer) = Handshake(o, msgs)
    <3>1. c.rx.k = TrafficKey(ServerHs) /\ c.rx.seq = 0 /\ o = Opened(c)
      BY Zenon, <1>1, <1>2, <1>5
    <3>2. Record(c, FlightRec(0, msgs), mem, answer) = Handshake(o, msgs)
      BY <3>1, FlightRecord
    <3>3. QED
      BY Zenon, <1>8, <3>2
  <2>4. CASE Refused(o, d) /\ ~(o.hs.len + elen <= TranscriptSize)
    <3>1. Refused(c, d)
      BY Zenon, <2>4, <1>6 DEF Refused, Keeps
    <3>2. cause
      <4>1. o.hs.len = p.len /\ p.len \in Nat
        BY SMTT(40), <1>2, <1>3, <1>7
      <4>2. ~(p.len + (elen + 36) <= TranscriptSize)
        BY SMTT(40), <2>1, <2>4, <4>1 DEF TranscriptSize
      <4>3. QED
        BY Zenon, <1>8, <4>2 DEF Room
    <3>3. Record(c, r, mem, answer) = d
      <4>1. d.rc # "ok"
        BY SMTT(40), <2>4 DEF Refused
      <4>2. HandshakeMsg(d, ServerFin) = d
        BY <4>1 DEF HandshakeMsg
      <4>3. QED
        <5>1. Handshake(o, <<Msg("EE", elen)>>) = d
          BY Zenon, <2>2, HandshakeOne
        <5>2. Handshake(o, <<Msg("EE", elen), ServerFin>>) = d
          <6>1. Handshake(o, <<Msg("EE", elen), ServerFin>>)
                  = HandshakeMsg(HandshakeMsg(o, Msg("EE", elen)), ServerFin)
            BY SMTT(40), HandshakeTwo
          <6>2. QED
            BY Zenon, <6>1, <2>2, <4>2
        <5>3. QED
          BY Zenon, <1>8, <2>3, <5>1, <5>2
    <3>4. QED
      BY Zenon, <3>1, <3>2, <3>3, RefusedOutcome
  <2>5. ASSUME o.hs.len + elen <= TranscriptSize, IsConn(d), d.rc = "ok",
               Keeps(o, d, {"hs", "rc"}),
               d.hs = [msgs |-> Flight, len |-> o.hs.len + elen]
        PROVE  Outcome(c, Record(c, r, mem, answer), s, q, mem, answer, cause)
    <3>1. d.hs.msgs = Flight /\ d.hs.len = c.hs.len + elen
      <4>1. d.hs = [msgs |-> Flight, len |-> c.hs.len + elen]
        BY Zenon, <2>5, <1>7
      <4>2. QED
        BY <4>1
    <3>2. d.hs.len \in 0..TranscriptSize
      BY SMTT(40), <3>1, <2>1, <2>5, <1>3, <1>7
    <3>3. Stays(c, d) /\ d.tx = c.tx /\ d.rx = o.rx /\ d.sec = c.sec
      BY ZenonT(40), <2>5, <1>3, <1>6, <1>7, <3>2, EeStays
    <3>4. ConnOK(d) /\ Sends(d, FALSE) /\ Up(d, s)
      BY Zenon, <1>0, <1>a, <3>3, StayOK
    <3>5. /\ d.phase = c.phase /\ d.txbuf = c.txbuf /\ d.got = c.got
          /\ d.rx_len = c.rx_len /\ d.sent = c.sent /\ d.idlen = c.idlen
      BY Zenon, <3>3 DEF Stays, Keeps, Fields
    <3>6. CASE /\ msgs = <<Msg("EE", elen)>>
               /\ q = [To(p, "fin", elen, 1) EXCEPT !.seq = 1]
      <4>1. Record(c, r, mem, answer) = d
        BY SMTT(40), <2>2, <2>3, <3>6, HandshakeOne
      <4>2. q \in Places /\ q.at = "fin" /\ q.len = p.len + elen /\ q.n = p.n
        BY SMTT(40), <3>6, <2>1, <1>3 DEF To, Places
      <4>3. d.hs = [msgs |-> Flight, len |-> q.len]
        BY Zenon, <2>5, <4>2, <1>2, <1>7
      <4>4. HasHsKeys(d) /\ d.rx.seq = 1
        BY Zenon, <1>2, <1>7, <3>3 DEF HasHsKeys
      <4>5. Reads(d, q)
        BY Zenon, <1>1, <3>5, <4>2, <4>3, <4>4 DEF Reads
      <4>6. Accepted(c, d, s, q, mem)
        BY Zenon, <1>1, <2>5, <3>4, <3>5, <4>2, <4>5 DEF Accepted
      <4>7. QED
        BY Zenon, <1>1, <3>5, <4>1, <4>6 DEF Outcome
    <3>7. CASE /\ msgs = <<Msg("EE", elen), ServerFin>>
               /\ q = To(p, "data", elen + 36, 1)
      <4>1. PICK e : /\ e = HandshakeMsg(d, ServerFin)
                     /\ \/ Refused(d, e) /\ ~(d.hs.len + 36 <= TranscriptSize)
                        \/ /\ d.hs.len + 36 <= TranscriptSize
                           /\ IsConn(e) /\ e.rc = "ok" /\ e.phase = "CLIENT_FINISHED"
                           /\ Keeps(d, e, {"hs", "rc", "sec", "rx", "phase"})
                           /\ e.hs = [msgs |-> Whole, len |-> d.hs.len + 36]
                           /\ e.rx = [k |-> TrafficKey(ServerAp), seq |-> 0]
                           /\ e.sec.client_ap = ClientAp
                           /\ e.sec.client_hs = d.sec.client_hs
        <5>1. /\ IsConn(d) /\ d.rc = "ok" /\ d.hs.msgs = Flight
              /\ d.hs.len \in 0..TranscriptSize /\ d.rx.seq \in Nat
              /\ d.sec.handshake = HsSecret /\ d.sec.server_hs = ServerHs
          BY Zenon, <2>5, <3>1, <3>2, <3>3, <1>2, <1>7
        <5>2. QED
          BY SMTT(40), <5>1, FinOK
      <4>2. Record(c, r, mem, answer) = e
        <5>1. Handshake(o, <<Msg("EE", elen), ServerFin>>)
                = HandshakeMsg(HandshakeMsg(o, Msg("EE", elen)), ServerFin)
          BY SMTT(40), HandshakeTwo
        <5>2. QED
          BY Zenon, <2>2, <2>3, <3>7, <4>1, <5>1
      <4>3. CASE Refused(d, e) /\ ~(d.hs.len + 36 <= TranscriptSize)
        <5>1. Refused(c, e)
          BY Zenon, <4>3, <2>5, <1>6 DEF Refused, Keeps
        <5>2. cause
          <6>1. d.hs.len = p.len + elen /\ p.len \in Nat
            BY SMTT(40), <3>1, <1>2, <1>3
          <6>2. ~(d.hs.len + 36 <= TranscriptSize)
            BY Zenon, <4>3
          <6>3. ~(p.len + (elen + 36) <= TranscriptSize)
            BY <2>1, <6>1, <6>2 DEF TranscriptSize
          <6>4. QED
            BY Zenon, <1>8, <6>3 DEF Room
        <5>3. QED
          BY Zenon, <5>1, <5>2, <4>2, RefusedOutcome
      <4>4. CASE /\ d.hs.len + 36 <= TranscriptSize
                 /\ IsConn(e) /\ e.rc = "ok" /\ e.phase = "CLIENT_FINISHED"
                 /\ Keeps(d, e, {"hs", "rc", "sec", "rx", "phase"})
                 /\ e.hs = [msgs |-> Whole, len |-> d.hs.len + 36]
                 /\ e.rx = [k |-> TrafficKey(ServerAp), seq |-> 0]
                 /\ e.sec.client_ap = ClientAp
                 /\ e.sec.client_hs = d.sec.client_hs
        <5>1. Keeps(c, e, {"hs", "rc", "sec", "rx", "phase"})
          BY Zenon, <4>4, <2>5, <1>6 DEF Keeps
        <5>2. e.hs.msgs = Whole /\ e.hs.len = d.hs.len + 36
          BY SMTT(40), <4>4
        <5>3. e.hs.len \in 0..TranscriptSize
          BY SMTT(40), <5>2, <3>2, <4>4
        <5>4. q \in Places /\ q.at = "data" /\ q.seq = 0 /\ q.n = p.n
          BY SMTT(40), <3>7, <2>1, <1>3 DEF To, Places
        <5>5. e.sec.client_hs = ClientHs
          BY Zenon, <1>2, <3>3, <4>4
        <5>6. Accepted(c, e, s, q, mem)
          BY Zenon, <1>0, <1>1, <1>2, <4>4, <5>1, <5>2, <5>3, <5>4, <5>5, FinishedAccepted
        <5>7. QED
          BY Zenon, <4>2, <4>4, <5>6 DEF Outcome
      <4>5. QED
        BY Zenon, <4>1, <4>3, <4>4
    <3>8. QED
      BY <1>8, <3>6, <3>7
  <2>6. QED
    BY Zenon, <2>2, <2>4, <2>5
<1>9. QED
  BY Zenon, <1>4, <1>8 DEF FlightMoves

\* Once the handshake is over a record changes what has been received.
Counts(c, d) ==
  IsConn(d) /\ d.rx.seq \in Nat /\ IsSeq(d.got) /\ Keeps(c, d, {"rx", "got"})
LEMMA CountsOK ==
  ASSUME NEW c, NEW s, NEW d, ConnOK(c), Sends(c, FALSE), Up(c, s), Counts(c, d)
  PROVE  ConnOK(d) /\ Sends(d, FALSE) /\ Up(d, s)
<1>1. /\ d.phase = c.phase /\ d.rx_len = c.rx_len /\ d.txbuf = c.txbuf
      /\ d.sent = c.sent /\ d.idlen = c.idlen /\ d.out = c.out /\ d.hs = c.hs
      /\ d.sealed = c.sealed /\ d.plugged = c.plugged /\ d.tx = c.tx
      /\ d.sec = c.sec
  BY Zenon DEF Counts, Keeps, Fields
<1>2. ConnOK(d)
  BY Zenon, <1>1 DEF ConnOK, Counts
<1>3. Sends(d, FALSE)
  BY Zenon, <1>1 DEF Sends
<1>4. Written(d) = Written(c)
  BY <1>1 DEF Written
<1>5. Up(d, s)
  BY <1>1, <1>4, UpSame
<1>6. QED
  BY Zenon, <1>2, <1>3, <1>5

LEMMA TakenFields ==
  ASSUME NEW c, IsConn(c), NEW n, NEW d, d = [c EXCEPT !.got = Append(@, n)]
  PROVE  IsConn(d) /\ Keeps(c, d, {"got"}) /\ d.got = Append(c.got, n)
<1>1. /\ d = [f \in Fields |-> d[f]] /\ Keeps(c, d, {"got"})
      /\ d.got = Append(c.got, n)
  BY Zenon DEF IsConn, Fields, Keeps
<1>2. d.tx = c.tx /\ d.rx = c.rx /\ d.hs = c.hs /\ d.sec = c.sec
  BY Zenon, <1>1 DEF Keeps, Fields
<1>3. QED
  BY Zenon, <1>1, <1>2 DEF IsConn

LEMMA DataOutcome ==
  ASSUME NEW c, NEW s, NEW p, NEW r, NEW q, NEW mem, NEW answer, NEW cause,
         mem \in BOOLEAN, answer \in Answers,
         Receiving(c, s, p), p.at = "data", DataMoves(p, r, q, cause)
  PROVE  Outcome(c, Record(c, r, mem, answer), s, q, mem, answer, cause)
<1>0. ConnOK(c) /\ Sends(c, FALSE) /\ Up(c, s)
  BY Zenon DEF Receiving
<1>1. /\ c.phase \in {"CLIENT_FINISHED", "DATA", "FAILED"}
      /\ c.phase # "FAILED" => Len(c.got) = p.n
      /\ c.rx = [k |-> TrafficKey(ServerAp), seq |-> p.seq]
  BY Zenon DEF Receiving, Reads
<1>2. c.rx.k = TrafficKey(ServerAp) /\ c.rx.seq = p.seq
  <2>1. c.rx = [k |-> TrafficKey(ServerAp), seq |-> p.seq]
    BY Zenon, <1>1
  <2>2. QED
    BY <2>1
<1>3. /\ IsConn(c) /\ c.rc = "ok" /\ c.hs.len \in 0..TranscriptSize
      /\ p \in Places /\ IsSeq(c.got) /\ c.rx.seq \in Nat
      /\ c.plugged <=> c.phase \notin {"CLIENT_HELLO", "FAILED"}
  BY Zenon DEF Receiving, ConnOK
<1>4. p.n \in Nat /\ p.seq \in Nat
  BY <1>3 DEF Places
<1>5. PICK o : o = Opened(c)
  BY Zenon
<1>6. /\ IsConn(o) /\ Keeps(c, o, {"rx"})
      /\ o.rx = [k |-> c.rx.k, seq |-> c.rx.seq + 1]
  BY Zenon, <1>3, <1>5, OpenedFields
<1>7. /\ o.hs = c.hs /\ o.rc = c.rc /\ o.got = c.got /\ o.phase = c.phase
      /\ o.plugged = c.plugged /\ o.rx_len = c.rx_len /\ o.sent = c.sent /\ o.idlen = c.idlen
  BY Zenon, <1>6 DEF Keeps, Fields
<1>8. o.rx.seq \in Nat /\ o.rx = [k |-> TrafficKey(ServerAp), seq |-> p.seq + 1]
  <2>1. o.rx.seq = c.rx.seq + 1
    BY SMTT(40), <1>6
  <2>2. QED
    BY SMTT(40), <2>1, <1>2, <1>3, <1>6
<1>9. Counts(c, o)
  BY Zenon, <1>3, <1>6, <1>7, <1>8 DEF Counts, Keeps
<1>10. ConnOK(o) /\ Sends(o, FALSE) /\ Up(o, s)
  BY Zenon, <1>0, <1>9, CountsOK
<1>11. ASSUME NEW rc, rc # "ok", Record(c, r, mem, answer) = Rc(o, rc),
              cause \/ ~mem \/ answer # "take" \/ c.phase = "FAILED"
       PROVE  Outcome(c, Record(c, r, mem, answer), s, q, mem, answer, cause)
  <2>1. PICK d : d = Rc(o, rc)
    BY Zenon
  <2>2. Refused(o, d)
    BY Zenon, <2>1, <1>3, <1>6, <1>7, <1>8, <1>11, RcRefused
  <2>3. Refused(c, d)
    BY Zenon, <2>2, <1>6 DEF Refused, Keeps
  <2>4. QED
    BY SMTT(40), <2>1, <2>3, <1>11, RefusedOutcome
\* A session ticket, or an empty record.
<1>12. ASSUME Record(c, r, mem, answer) = o, q = Data(p, 0, 1)
       PROVE  Outcome(c, Record(c, r, mem, answer), s, q, mem, answer, cause)
  <2>1. q \in Places /\ q.at = "data" /\ q.seq = p.seq + 1 /\ q.n = p.n
    <3>1. p \in Places /\ q = Data(p, 0, 1)
      BY Zenon, <1>12, <1>3
    <3>2. QED
      BY <3>1 DEF Data, Places
  <2>2. Reads(o, q)
    BY Zenon, <1>1, <1>7, <1>8, <2>1 DEF Reads
  <2>3. Accepted(c, o, s, q, mem)
    BY Zenon, <1>1, <1>3, <1>7, <1>10, <2>1, <2>2 DEF Accepted
  <2>4. QED
    BY Zenon, <1>7, <1>12, <2>3 DEF Outcome
<1>13. ASSUME NEW len \in RecordLens, r = AppRec(p.seq, "data", << >>, p.n + 1, len),
              q = Data(p, 1, len)
       PROVE  Outcome(c, Record(c, r, mem, answer), s, q, mem, answer, cause)
  <2> DEFINE n == p.n + 1
  <2>1. Record(c, r, mem, answer) = Deliver(o, n, mem, answer)
    <3>1. Record(c, AppRec(p.seq, "data", << >>, n, len), mem, answer)
            = Deliver(o, n, mem, answer)
      BY <1>2, <1>5, AppRecord
    <3>2. QED
      BY Zenon, <1>13, <3>1
  <2>2. n # 0 /\ n \in Nat
    BY SMTT(40), <1>4
  <2>3. q \in Places /\ q.at = "data" /\ q.seq = p.seq + 1 /\ q.n = n
    <3>1. len \in Nat
      BY SMTT(40), ConstantsOK
    <3>2. QED
      BY SMTT(40), <1>13, <1>3, <3>1 DEF Data, Places
  <2> HIDE DEF n
  <2>4. CASE ~mem
    BY SMTT(40), <2>1, <2>2, <2>4, <1>11 DEF Deliver
  <2>5. CASE mem /\ ~c.plugged
    <3>1. c.phase = "FAILED"
      BY Zenon, <2>5, <1>1, <1>3
    <3>2. Deliver(o, n, mem, answer) = Rc(o, "EPIPE")
      BY SMTT(40), <2>2, <2>5, <1>7 DEF Deliver
    <3>3. QED
      BY SMTT(40), <2>1, <3>1, <3>2, <1>11
  <2>6. CASE mem /\ c.plugged /\ answer = "refuse"
    <3>1. Deliver(o, n, mem, answer) = Rc(o, "EINVAL")
      BY SMTT(40), <2>2, <2>6, <1>7 DEF Deliver
    <3>2. QED
      BY Zenon, <2>1, <2>6, <3>1, <1>11
  <2>7. CASE mem /\ c.plugged /\ answer = "take"
    <3>1. c.phase # "FAILED" /\ Len(c.got) = p.n
      BY SMTT(40), <2>7, <1>1, <1>3
    <3>2. PICK d : d = [o EXCEPT !.got = Append(@, n)]
      BY Zenon
    <3>3. Record(c, r, mem, answer) = d
      BY <2>1, <2>2, <2>7, <1>7, <3>2 DEF Deliver
    <3>4. IsConn(d) /\ Keeps(o, d, {"got"}) /\ d.got = Append(o.got, n)
      BY Zenon, <3>2, <1>6, TakenFields
    <3>5. /\ d.rc = "ok" /\ d.phase = c.phase /\ d.rx_len = c.rx_len
          /\ d.sent = c.sent /\ d.idlen = c.idlen /\ d.rx = o.rx /\ d.got = Append(c.got, n)
      BY Zenon, <3>4, <1>3, <1>7 DEF Keeps, Fields
    <3>6. IsSeq(d.got) /\ Len(d.got) = n
      <4>1. IsSeq(d.got) /\ Len(d.got) = Len(c.got) + 1
        <5>1. d.got = Append(c.got, n) /\ IsSeq(c.got)
          BY Zenon, <3>5, <1>3
        <5>2. QED
          BY <5>1, SeqAppend
      <4>2. QED
        BY SMTT(40), <4>1, <3>1 DEF n
    <3>7. Counts(c, d)
      BY Zenon, <1>6, <1>8, <3>4, <3>5, <3>6 DEF Counts, Keeps
    <3>8. ConnOK(d) /\ Sends(d, FALSE) /\ Up(d, s)
      BY Zenon, <1>0, <3>7, CountsOK
    <3>9. Reads(d, q)
      BY Zenon, <1>1, <1>8, <2>3, <3>1, <3>5, <3>6 DEF Reads
    <3>10. d.got = Append(c.got, Len(c.got) + 1) /\ q.n = Len(c.got) + 1
      BY Zenon, <3>1, <3>5, <2>3 DEF n
    <3>11. Accepted(c, d, s, q, mem)
      BY Zenon, <1>1, <2>3, <2>7, <3>1, <3>5, <3>8, <3>9, <3>10 DEF Accepted
    <3>12. QED
      BY SMTT(40), <3>1, <3>3, <3>5, <3>11 DEF Outcome
  <2>8. CASE mem /\ c.plugged /\ answer = "close"
    <3>1. c.phase # "FAILED"
      BY SMTT(40), <2>8, <1>3
    <3>2. PICK d : d = Fail(o)
      BY Zenon
    <3>3. Record(c, r, mem, answer) = d
      <4>1. PskClose(o) = d
        BY SMTT(40), <3>1, <3>2, <1>7 DEF Fail, PskClose
      <4>2. QED
        BY <2>1, <2>2, <2>8, <1>7, <4>1 DEF Deliver
    <3>4. Keeps(o, d, {"phase", "plugged"}) /\ d.phase = "FAILED"
      BY Zenon, <3>2, <1>6, FailFields
    <3>5. /\ d.rc = "ok" /\ d.rx_len = c.rx_len /\ d.sent = c.sent /\ d.idlen = c.idlen
          /\ d.rx = o.rx /\ d.got = c.got
      BY Zenon, <3>4, <1>3, <1>7 DEF Keeps, Fields
    <3>6. ConnOK(d) /\ Sends(d, FALSE) /\ Up(d, s)
      BY Zenon, <3>2, <1>10, FailOK
    <3>7. Reads(d, q)
      BY Zenon, <1>8, <2>3, <3>4, <3>5 DEF Reads
    <3>8. Accepted(c, d, s, q, mem)
      BY Zenon, <2>3, <3>1, <3>4, <3>5, <3>6, <3>7 DEF Accepted
    <3>9. QED
      BY Zenon, <2>8, <3>3, <3>8 DEF Outcome
  <2>9. QED
    BY SMTT(40), <2>4, <2>5, <2>6, <2>7, <2>8 DEF Answers
<1>14. ASSUME r = AppRec(p.seq, "handshake", <<Msg("NST", 200)>>, 0, 1), q = Data(p, 0, 1)
       PROVE  Outcome(c, Record(c, r, mem, answer), s, q, mem, answer, cause)
  <2>1. Record(c, r, mem, answer) = Handshake(o, <<Msg("NST", 200)>>)
    <3>1. Record(c, AppRec(p.seq, "handshake", <<Msg("NST", 200)>>, 0, 1), mem, answer)
            = Handshake(o, <<Msg("NST", 200)>>)
      BY <1>2, <1>5, AppRecord
    <3>2. QED
      BY Zenon, <1>14, <3>1
  <2>2. HandshakeMsg(o, Msg("NST", 200)) = o
    BY SMTT(40), <1>3, <1>7 DEF HandshakeMsg, Msg
  <2>3. QED
    BY Zenon, <2>1, <2>2, <1>12, <1>14, HandshakeOne
<1>15. ASSUME r = AppRec(p.seq, "data", << >>, 0, 1), q = Data(p, 0, 1)
       PROVE  Outcome(c, Record(c, r, mem, answer), s, q, mem, answer, cause)
  <2>1. Record(c, r, mem, answer) = Deliver(o, 0, mem, answer)
    <3>1. Record(c, AppRec(p.seq, "data", << >>, 0, 1), mem, answer)
            = Deliver(o, 0, mem, answer)
      BY <1>2, <1>5, AppRecord
    <3>2. QED
      BY Zenon, <1>15, <3>1
  <2>2. Deliver(o, 0, mem, answer) = o
    BY SMTT(40) DEF Deliver
  <2>3. QED
    BY Zenon, <2>1, <2>2, <1>12, <1>15
<1>16. ASSUME r = AppRec(p.seq, "alert", << >>, 0, 1), cause
       PROVE  Outcome(c, Record(c, r, mem, answer), s, q, mem, answer, cause)
  <2>1. Record(c, r, mem, answer) = Rc(o, "EINVAL")
    <3>1. Record(c, AppRec(p.seq, "alert", << >>, 0, 1), mem, answer) = Rc(o, "EINVAL")
      BY <1>2, <1>5, AppRecord
    <3>2. QED
      BY Zenon, <1>16, <3>1
  <2>2. QED
    BY Zenon, <2>1, <1>11, <1>16
<1>17. QED
  BY SMTT(40), <1>13, <1>14, <1>15, <1>16 DEF DataMoves

LEMMA RecordOutcome ==
  ASSUME NEW c, NEW s, NEW p, NEW r, NEW q, NEW mem, NEW answer, NEW cause,
         mem \in BOOLEAN, answer \in Answers, Receiving(c, s, p),
         Moves(p, r, q, cause)
  PROVE  Outcome(c, Record(c, r, mem, answer), s, q, mem, answer, cause)
<1>1. CASE p.at = "hello" /\ HelloMoves(p, r, q, cause)
  BY SMTT(40), <1>1, HelloOutcome
<1>2. CASE p.at = "flight" /\ FlightMoves(p, r, q, cause)
  BY <1>2, FlightOutcome
<1>3. CASE p.at = "fin" /\ FinMoves(p, r, q, cause)
  BY <1>3, FinOutcome
<1>4. CASE p.at = "data" /\ DataMoves(p, r, q, cause)
  BY <1>4, DataOutcome
<1>5. QED
  BY Zenon, <1>1, <1>2, <1>3, <1>4 DEF Moves

-----------------------------------------------------------------------------
(* The steps of the client that open no record *)

LEMMA SpendOK ==
  ASSUME NEW mem \in BOOLEAN, NEW close \in BOOLEAN, budget \in Budgets,
         Spend(mem, close), tls'.idlen = tls.idlen, srv.cause => srv'.cause
  PROVE  /\ budget' \in Budgets /\ (Provoked => Provoked')
         /\ (~mem \/ close => Provoked')
<1>1. budget.mem \in 0..MaxNoMem /\ budget.close \in 0..MaxCloses
  BY SMTT(40) DEF Budgets
<1>2. budget'.mem = (IF mem THEN budget.mem ELSE budget.mem - 1)
  BY DEF Spend
<1>3. budget'.close = (IF close THEN budget.close - 1 ELSE budget.close)
  BY DEF Spend
<1>4. budget' = [mem |-> budget'.mem, close |-> budget'.close]
  BY DEF Spend
<1>5. (mem \/ budget.mem > 0) /\ (close => budget.close > 0)
  BY DEF Spend
<1>6. MaxNoMem \in Nat /\ MaxCloses \in Nat
  BY ConstantsOK
<1>7. budget'.mem \in 0..MaxNoMem /\ budget'.mem <= budget.mem
  BY <1>1, <1>2, <1>5, <1>6
<1>8. budget'.close \in 0..MaxCloses /\ budget'.close <= budget.close
  BY SMTT(40), <1>1, <1>3, <1>5, <1>6
<1>9. budget' \in Budgets
  BY SMTT(40), <1>4, <1>7, <1>8 DEF Budgets
<1>10. ~mem => budget'.mem < MaxNoMem
  BY <1>1, <1>2, <1>6
<1>11. close => budget'.close < MaxCloses
  BY <1>1, <1>3, <1>6
<1>12. budget.mem < MaxNoMem => budget'.mem < MaxNoMem
  BY <1>1, <1>6, <1>7
<1>13. budget.close < MaxCloses => budget'.close < MaxCloses
  BY SMTT(40), <1>1, <1>6, <1>8
<1>14. QED
  BY <1>9, <1>10, <1>11, <1>12, <1>13 DEF Provoked

\* A step of the client alone, that takes no record.
LEMMA ClientStep ==
  ASSUME Inv, ConnOK(tls'), Sends(tls', FALSE), Up(tls', srv),
         Answered(tls', srv), Running(tls', rx'), UNCHANGED <<down, net, srv>>,
         budget' \in Budgets, Connected(tls', rx') => Connected(tls, rx),
         \A p : Reads(tls, p) => Reads(tls', p), tls'.rx_len = tls.rx_len,
         \/ rx.busy => rx'.busy
         \/ tls.rx_len = 0 \/ tls.rx_len < down[1].len,
         SegmentsFit => FailsForCause'
  PROVE  Inv'
<1>1. ASSUME Connected(tls', rx')
      PROVE  \E pos : Route(pos, tls', rx'.busy, down, net, srv)
  <2>1. PICK pos : Route(pos, tls, rx.busy, down, net, srv)
    BY <1>1 DEF Inv
  <2>2. Reads(tls', pos[1])
    BY SMTT(40), <2>1 DEF Route
  <2>3. rx'.busy \/ tls'.rx_len = 0 \/ tls'.rx_len < down[1].len
    BY SMTT(40), <2>1 DEF Route
  <2>4. Route(pos, tls', rx'.busy, down, net, srv)
    BY SMTT(40), <2>1, <2>2, <2>3 DEF Route
  <2>5. QED
    BY SMTT(40), <2>4
<1>2. /\ ServerOK(srv') /\ IsSeq(down') /\ (srv'.state = "start" => down' = << >>)
      /\ net' \in Nat
  BY SMTT(40) DEF Inv
<1>3. (Connected(tls, rx))' => \E pos : Route(pos, tls', rx'.busy, down', net', srv')
  BY SMTT(40), <1>1 DEF Connected
<1>4. Up(tls', srv') /\ Answered(tls', srv')
  BY SMTT(40)
<1>5. QED
  BY Zenon, <1>2, <1>3, <1>4 DEF Inv

\* A step of the client that ends with tls13_psk_tx().
LEMMA TxStep ==
  ASSUME Inv, NEW mem \in BOOLEAN, NEW c, ConnOK(c), Sends(c, FALSE), Up(c, srv),
         Keeps(tls, c, {"awake", "conn", "unacked", "rc"}), Memory(mem),
         tls.phase # "CLIENT_HELLO", tls' = Tx(c, mem), UNCHANGED <<down, net, srv>>,
         rx' = [busy |-> rx'.busy, window |-> rx'.window], rx'.busy \in BOOLEAN,
         rx'.busy => rx.busy /\ c.rc = "ok",
         ~rx.busy \/ tls.rx_len = 0 \/ tls.rx_len < down[1].len
  PROVE  Inv' /\ Flows
<1>1. /\ c.phase = tls.phase /\ c.tx = tls.tx /\ c.rx = tls.rx /\ c.txbuf = tls.txbuf
      /\ c.rx_len = tls.rx_len /\ c.hs = tls.hs /\ c.sec = tls.sec
      /\ c.idlen = tls.idlen /\ c.sent = tls.sent /\ c.got = tls.got
  BY Zenon DEF Keeps, Fields
<1>2. PICK d : d = Tx(c, mem)
  BY Zenon
<1>3. ServerOK(srv) /\ c.phase # "CLIENT_HELLO" /\ FALSE \in BOOLEAN /\ tls.phase \in Phases
  BY SMTT(40), <1>1 DEF Inv, ConnOK
<1>4. /\ ConnOK(d) /\ Sends(d, FALSE) /\ Up(d, srv)
      /\ Keeps(c, d, TxFields)
  BY Zenon, <1>2, <1>3, TxOK
<1>5. /\ d.phase = "FAILED" => c.phase = "FAILED" \/ ~mem
      /\ c.phase = "FAILED" => d = c
  <2>1. d.phase = "FAILED" => \/ c.phase = "FAILED"
                              \/ c.phase = "CLIENT_FINISHED" /\ ~mem
    BY Zenon, <1>2, <1>3, TxOK
  <2>2. c.phase = "FAILED" => d = c
    BY SMTT(40), <1>2 DEF Tx
  <2>3. QED
    BY SMTT(40), <2>1, <2>2
<1>6. /\ c.phase = "SERVER_FLIGHT" =>
           /\ d.phase = "SERVER_FLIGHT" /\ d.tx = c.tx
           /\ c.txbuf = << >> => d.txbuf = << >>
      /\ c.phase \in {"CLIENT_FINISHED", "DATA"} =>
           d.phase \in {"CLIENT_FINISHED", "DATA", "FAILED"}
  BY Zenon, <1>2, <1>3, TxOK
<1>7. /\ d.rx_len = c.rx_len /\ d.idlen = c.idlen /\ d.rc = c.rc
      /\ d.sent = c.sent /\ d.got = c.got
  BY Zenon, <1>4 DEF Keeps, Fields, TxFields
<1>8. tls' = d
  BY <1>2
<1>9. d.phase # "CLIENT_HELLO"
  BY <1>1, <1>3, <1>5, <1>6 DEF Phases
<1>10. Answered(d, srv)
  <2>1. Answered(c, srv)
    BY SMTT(40), <1>1 DEF Inv, Answered
  <2>2. CASE c.phase = "SERVER_FLIGHT"
    BY <1>6, <1>9, <2>1, <2>2 DEF Answered
  <2>3. CASE c.phase # "SERVER_FLIGHT"
    <3>1. d.phase # "SERVER_FLIGHT"
      BY SMTT(40), <1>1, <1>3, <1>5, <1>6, <2>3 DEF Phases
    <3>2. QED
      BY SMTT(40), <1>9, <3>1 DEF Answered
  <2>4. QED
    BY SMTT(40), <2>2, <2>3
<1>11. Running(d, rx')
  BY SMTT(40), <1>7, <1>9 DEF Running
<1>12. ASSUME NEW p, Reads(tls, p) PROVE Reads(d, p)
  <2>1. Reads(c, p)
    BY Zenon, <1>1, <1>12 DEF Reads, HasHsKeys
  <2>2. c.phase \in Phases
    BY SMTT(40), <1>1, <1>3
  <2>3. QED
    BY SMTT(40), <2>1, <2>2, <1>3, <1>4, <1>5, <1>6, ReadsTx
<1>13. Connected(d, rx') => Connected(tls, rx)
  BY <1>1, <1>5 DEF Connected
<1>14. budget' \in Budgets /\ (Provoked => Provoked') /\ (~mem => Provoked')
  <2>1. budget \in Budgets /\ tls'.idlen = tls.idlen /\ (srv.cause => srv'.cause)
    BY SMTT(40), <1>1, <1>7, <1>8 DEF Inv
  <2>2. QED
    BY Zenon, <2>1, SpendOK DEF Memory
<1>15. SegmentsFit => FailsForCause'
  <2>1. d.phase = "FAILED" => tls.phase = "FAILED" \/ ~mem
    BY SMTT(40), <1>1, <1>5
  <2>2. QED
    BY SMTT(40), <2>1, <1>8, <1>14 DEF Inv, FailsForCause
<1>16. Inv'
  <2>1. tls'.rx_len = tls.rx_len
    BY SMTT(40), <1>1, <1>7, <1>8
  <2>2. \/ rx.busy => rx'.busy
        \/ tls.rx_len = 0 \/ tls.rx_len < down[1].len
    BY SMTT(40)
  <2>3. Connected(tls', rx') => Connected(tls, rx)
    BY <1>8, <1>13
  <2>4. \A p : Reads(tls, p) => Reads(tls', p)
    BY SMTT(40), <1>8, <1>12
  <2>5. /\ ConnOK(tls') /\ Sends(tls', FALSE) /\ Up(tls', srv)
        /\ Answered(tls', srv) /\ Running(tls', rx')
    BY Zenon, <1>4, <1>8, <1>10, <1>11
  <2>6. QED
    BY SMTT(40), <1>14, <1>15, <2>1, <2>2, <2>3, <2>4, <2>5, ClientStep
<1>17. Flows
  <2>1. tls'.sent = tls.sent /\ tls'.got = tls.got
    BY SMTT(40), <1>1, <1>7, <1>8
  <2>2. tls.phase = "FAILED" => tls'.phase = "FAILED"
    BY SMTT(40), <1>1, <1>5, <1>8
  <2>3. QED
    BY SMTT(40), <2>1, <2>2 DEF Flows
<1>18. QED
  BY <1>16, <1>17

\* A step of the client that only notes something.
LEMMA QuietStep ==
  ASSUME Inv, IsConn(tls'), Keeps(tls, tls', {"awake", "conn", "unacked", "rc"}),
         rx' = [busy |-> rx'.busy, window |-> rx'.window], rx'.busy \in BOOLEAN,
         rx'.busy => rx.busy /\ tls'.rc = "ok", UNCHANGED <<down, net, srv>>,
         ~rx.busy \/ tls.rx_len = 0 \/ tls.rx_len < down[1].len,
         budget' \in Budgets, Provoked => Provoked'
  PROVE  Inv' /\ Flows
<1>1. /\ tls'.phase = tls.phase /\ tls'.tx = tls.tx /\ tls'.rx = tls.rx
      /\ tls'.txbuf = tls.txbuf /\ tls'.rx_len = tls.rx_len /\ tls'.hs = tls.hs
      /\ tls'.sec = tls.sec /\ tls'.idlen = tls.idlen /\ tls'.sent = tls.sent
      /\ tls'.got = tls.got
  BY Zenon DEF Keeps, Fields
<1>2. ConnOK(tls') /\ Sends(tls', FALSE) /\ Up(tls', srv)
  BY Zenon, QuietOK DEF Inv
<1>3. Answered(tls', srv) /\ Running(tls', rx')
  BY SMTT(40), <1>1 DEF Inv, Answered, Running
<1>4. \A p : Reads(tls, p) => Reads(tls', p)
  BY Zenon, <1>1 DEF Reads, HasHsKeys
<1>5. Connected(tls', rx') => Connected(tls, rx)
  BY SMTT(40), <1>1 DEF Connected
<1>6. SegmentsFit => FailsForCause'
  BY <1>1 DEF Inv, FailsForCause
<1>7. \/ rx.busy => rx'.busy
      \/ tls.rx_len = 0 \/ tls.rx_len < down[1].len
  OBVIOUS
<1>8. Inv'
  BY SMTT(40), <1>1, <1>2, <1>3, <1>4, <1>5, <1>6, <1>7, ClientStep
<1>9. Flows
  BY SMTT(40), <1>1 DEF Flows
<1>10. QED
  BY SMTT(40), <1>8, <1>9

\* While the receive buffer is not empty, a record is on its way.
LEMMA Buffered ==
  ASSUME Inv, Connected(tls, rx), tls.rx_len > 0
  PROVE  down # << >> /\ Head(down) = down[1]
<1>1. PICK pos : Route(pos, tls, rx.busy, down, net, srv)
  BY SMTT(40) DEF Inv
<1>2. down # << >>
  <2> SUFFICES ASSUME down = << >> PROVE FALSE
    BY SMTT(40)
  <2>1. Len(down) + 1 = 1 /\ 1 \in 1..1
    OBVIOUS
  <2>2. pos[1] \in Places /\ pos[1].off + tls.rx_len + net = pos[1].off
    BY <1>1, <2>1 DEF Route
  <2>3. pos[1].off \in Nat /\ tls.rx_len \in Nat /\ net \in Nat
    BY SMTT(40), <2>2, ConstantsOK DEF Places, Inv, ConnOK
  <2>4. QED
    BY <2>2, <2>3
<1>3. QED
  BY <1>2, SeqTail DEF Inv

LEMMA WindowStep ==
  ASSUME Inv, NEW mem \in BOOLEAN, CipherstreamWindow(mem)
  PROVE  Inv' /\ Flows
<1>1. PICK c : c = [tls EXCEPT !.conn = TRUE, !.unacked = FALSE, !.rc = "ok"]
  BY Zenon
<1>2. IsConn(tls) /\ ConnOK(tls) /\ Up(tls, srv) /\ Sends(tls, FALSE)
  BY Zenon DEF Inv, ConnOK
<1>3. c = [f \in Fields |-> c[f]] /\ Keeps(tls, c, {"awake", "conn", "unacked", "rc"})
  BY Zenon, <1>1, <1>2 DEF IsConn, Fields, Keeps
<1>4. IsConn(c)
  BY Zenon, <1>2, <1>3 DEF IsConn, Fields, Keeps
<1>5. ConnOK(c) /\ Sends(c, FALSE) /\ Up(c, srv)
  BY Zenon, <1>2, <1>3, <1>4, QuietOK
<1>6. /\ tls' = Tx(c, mem) /\ Memory(mem) /\ ~rx.busy /\ rx' = rx
      /\ UNCHANGED <<down, net, srv>>
  BY SMTT(40), <1>1 DEF CipherstreamWindow, Idle
<1>7. tls.phase # "CLIENT_HELLO"
  BY <1>2 DEF CipherstreamWindow, ConnOK
<1>8. rx' = [busy |-> rx'.busy, window |-> rx'.window] /\ rx'.busy \in BOOLEAN
  BY <1>6 DEF Inv, Running
<1>9. rx'.busy => rx.busy /\ c.rc = "ok"
  BY <1>6
<1>10. QED
  BY Zenon, <1>3, <1>5, <1>6, <1>7, <1>8, <1>9, TxStep

LEMMA RxDoneStep ==
  ASSUME Inv, NEW mem \in BOOLEAN, RxDone(mem)
  PROVE  Inv' /\ Flows
<1>1. /\ rx.busy /\ rx' = [rx EXCEPT !.busy = FALSE] /\ Memory(mem)
      /\ UNCHANGED <<down, net, srv>>
  BY DEF RxDone
<1>2. rx' = [busy |-> FALSE, window |-> rx.window]
  BY Zenon, <1>1 DEF Inv, Running
<1>3. rx' = [busy |-> rx'.busy, window |-> rx'.window] /\ rx'.busy = FALSE
  BY <1>2
<1>4. tls.rx_len = 0 \/ tls.rx_len < down[1].len
  <2>1. tls.rx_len \in Nat /\ Connected(tls, rx)
    BY SMTT(40), <1>1, ConstantsOK DEF Inv, ConnOK, Connected
  <2>2. tls.rx_len > 0 => tls.rx_len < Head(down).len
    BY DEF RxDone
  <2>3. tls.rx_len > 0 => Head(down) = down[1]
    BY <2>1, Buffered
  <2>4. QED
    BY SMTT(40), <2>1, <2>2, <2>3
<1>5. /\ ConnOK(tls) /\ Sends(tls, FALSE) /\ Up(tls, srv) /\ IsConn(tls)
      /\ tls.phase # "CLIENT_HELLO" /\ budget \in Budgets
  BY Zenon, <1>1 DEF Inv, ConnOK, Running
<1>6. Keeps(tls, tls, {"awake", "conn", "unacked", "rc"})
  BY DEF Keeps
<1>7. CASE tls' = Tx(tls, mem)
  BY Zenon, <1>1, <1>3, <1>4, <1>5, <1>6, <1>7, TxStep
<1>8. CASE tls' = tls
  <2>1. budget' \in Budgets /\ (Provoked => Provoked')
    BY Zenon, <1>1, <1>5, <1>8, SpendOK DEF Memory
  <2>2. IsConn(tls') /\ Keeps(tls, tls', {"awake", "conn", "unacked", "rc"})
    BY SMTT(40), <1>5, <1>6, <1>8
  <2>3. QED
    BY SMTT(40), <1>1, <1>3, <1>4, <2>1, <2>2, QuietStep
<1>9. QED
  BY <1>7, <1>8 DEF RxDone

\* The connection ends while no segment is being delivered.
LEMMA EndStep ==
  ASSUME Inv, NEW c, ConnOK(c), Up(c, srv),
         Keeps(tls, c, {"unacked", "rc", "hs", "rx"}), tls' = Fail(c), rx'.busy = FALSE,
         rx' = [busy |-> rx'.busy, window |-> rx'.window], net' \in Nat,
         UNCHANGED <<down, srv>>, budget' \in Budgets, SegmentsFit => Provoked'
  PROVE  Inv' /\ Flows
<1>1. /\ c.phase = tls.phase /\ c.sent = tls.sent /\ c.got = tls.got
      /\ c.idlen = tls.idlen /\ c.txbuf = tls.txbuf
  BY Zenon DEF Keeps, Fields
<1>2. PICK d : d = Fail(c)
  BY Zenon
<1>3. ConnOK(d) /\ Sends(d, FALSE) /\ Up(d, srv)
  BY Zenon, <1>2, FailOK
<1>4. Keeps(c, d, {"phase", "plugged"}) /\ d.phase = "FAILED"
  BY Zenon, <1>2, FailFields DEF ConnOK
<1>5. d.sent = c.sent /\ d.got = c.got
  BY Zenon, <1>4 DEF Keeps, Fields
<1>6. tls' = d
  BY SMTT(40), <1>2
<1>7. Answered(tls', srv') /\ Running(tls', rx') /\ ~Connected(tls', rx')
  BY Zenon, <1>4, <1>6 DEF Answered, Running, Connected
<1>8. ServerOK(srv') /\ IsSeq(down') /\ (srv'.state = "start" => down' = << >>)
  BY SMTT(40) DEF Inv
<1>9. SegmentsFit => FailsForCause'
  BY DEF FailsForCause
<1>10. ConnOK(tls') /\ Sends(tls', FALSE) /\ Up(tls', srv')
  BY Zenon, <1>3, <1>6
<1>11. Inv'
  BY Zenon, <1>7, <1>8, <1>9, <1>10 DEF Inv, Connected
<1>12. Flows
  BY SMTT(40), <1>1, <1>4, <1>5, <1>6 DEF Flows
<1>13. QED
  BY SMTT(40), <1>11, <1>12

LEMMA CloseStep ==
  ASSUME Inv, CloseConnection
  PROVE  Inv' /\ Flows
<1>1. /\ ConnOK(tls) /\ Up(tls, srv) /\ net \in Nat /\ budget \in Budgets
      /\ Running(tls, rx)
  BY SMTT(40) DEF Inv
<1>2. /\ ~rx.busy /\ rx' = rx /\ tls' = PskClose(tls) /\ Spend(TRUE, TRUE)
      /\ UNCHANGED <<down, net, srv>> /\ tls.plugged
  BY Zenon DEF CloseConnection, Idle
<1>3. tls' = Fail(tls)
  <2>1. tls.phase # "FAILED"
    BY SMTT(40), <1>1, <1>2 DEF ConnOK
  <2>2. QED
    BY <1>2, <2>1 DEF Fail, PskClose
<1>4. Keeps(tls, tls, {"unacked", "rc", "hs", "rx"})
  BY SMTT(40) DEF Keeps
<1>5. rx'.busy = FALSE /\ rx' = [busy |-> rx'.busy, window |-> rx'.window]
  BY <1>1, <1>2 DEF Running
<1>6. tls'.idlen = tls.idlen
  <2>1. PICK d : d = Fail(tls)
    BY Zenon
  <2>2. Keeps(tls, d, {"phase", "plugged"})
    BY Zenon, <1>1, <2>1, FailFields DEF ConnOK
  <2>3. QED
    BY SMTT(40), <1>3, <2>1, <2>2 DEF Keeps, Fields
<1>7. budget' \in Budgets /\ Provoked'
  BY Zenon, <1>1, <1>2, <1>6, SpendOK
<1>8. QED
  BY Zenon, <1>1, <1>2, <1>3, <1>4, <1>5, <1>7, EndStep

\* What is buffered leaves room for a segment, unless a record is too long.
LEMMA SegmentRoom ==
  ASSUME Inv, SegmentsFit, ~rx.busy, tls.phase # "FAILED", NEW n \in 1..MaxSegment
  PROVE  tls.rx_len + n <= MaxRecord \/ srv.cause
<1>1. MaxRecord \in Nat \ {0} /\ MaxSegment \in Nat \ {0} /\ tls.rx_len \in Nat
  BY SMTT(40), ConstantsOK DEF Inv, ConnOK
<1>2. CASE tls.rx_len = 0
  <2>1. 1 \in RecordLens \cup {1} /\ 1 <= MaxRecord
    BY SMTT(40), <1>1
  <2>2. 1 + MaxSegment - 1 <= MaxRecord
    BY <2>1 DEF SegmentsFit
  <2>3. QED
    BY SMTT(40), <1>1, <1>2, <2>2
<1>3. CASE tls.rx_len > 0
  <2>1. Connected(tls, rx)
    BY DEF Connected
  <2>2. down # << >>
    BY <1>3, <2>1, Buffered
  <2>3. PICK pos : Route(pos, tls, rx.busy, down, net, srv)
    BY SMTT(40), <2>1 DEF Inv
  <2>4. Len(down) \in Nat \ {0}
    BY <2>2, SeqTail DEF Inv
  <2>5. /\ pos[1] \in Places /\ pos[2] \in Places
        /\ Moves(pos[1], down[1], pos[2], srv.cause)
    <3>1. /\ 1 \in 1..Len(down) /\ 1 \in 1..(Len(down) + 1)
          /\ 2 \in 1..(Len(down) + 1) /\ 1 + 1 = 2
      BY SMTT(40), <2>4
    <3>2. QED
      BY SMTT(40), <2>3, <3>1 DEF Route
  <2>6. /\ down[1].len \in RecordLens \cup {1} /\ down[1].len \in Nat \ {0}
        /\ (down[1].len <= MaxRecord \/ srv.cause)
    <3>1. PICK r, cause : r = down[1] /\ cause = srv.cause
      BY SMTT(40)
    <3>2. Moves(pos[1], r, pos[2], cause)
      BY <2>5, <3>1
    <3>3. /\ r.len \in RecordLens \cup {1} /\ r.len \in Nat \ {0}
          /\ pos[2].off = pos[1].off + r.len /\ (r.len <= MaxRecord \/ cause)
      BY Zenon, <2>5, <3>2, MovesLen
    <3>4. QED
      BY SMTT(40), <3>1, <3>3
  <2>7. tls.rx_len < down[1].len
    BY SMTT(40), <1>3, <2>3 DEF Route
  <2>8. CASE down[1].len <= MaxRecord
    <3>1. down[1].len + MaxSegment - 1 <= MaxRecord
      BY SMTT(40), <2>6, <2>8 DEF SegmentsFit
    <3>2. QED
      BY SMTT(40), <1>1, <2>6, <2>7, <3>1
  <2>9. QED
    BY SMTT(40), <2>6, <2>8
<1>4. QED
  BY SMTT(40), <1>1, <1>2, <1>3

LEMMA DeliverStep ==
  ASSUME Inv, NEW n \in 1..MaxSegment, NEW ack \in BOOLEAN,
         CipherstreamDeliver(n, ack)
  PROVE  Inv' /\ Flows
<1>1. PICK c : c = [tls EXCEPT !.unacked = @ /\ ~ack, !.rc = "ok"]
  BY Zenon
<1>2. /\ IsConn(tls) /\ ConnOK(tls) /\ Up(tls, srv) /\ Sends(tls, FALSE)
      /\ net \in Nat /\ Running(tls, rx) /\ budget \in Budgets
  BY Zenon DEF Inv, ConnOK
<1>3. c = [f \in Fields |-> c[f]] /\ Keeps(tls, c, {"unacked", "rc"}) /\ c.rc = "ok"
  BY Zenon, <1>1, <1>2 DEF IsConn, Fields, Keeps
<1>4. IsConn(c) /\ Keeps(tls, c, {"awake", "conn", "unacked", "rc"})
  BY Zenon, <1>2, <1>3 DEF IsConn, Fields, Keeps
<1>5. ConnOK(c) /\ Sends(c, FALSE) /\ Up(c, srv)
  BY Zenon, <1>2, <1>4, QuietOK
<1>6. /\ ~rx.busy /\ tls.plugged /\ n <= net /\ net' = net - n
      /\ UNCHANGED <<down, srv, budget>>
  BY SMTT(40) DEF CipherstreamDeliver, Idle
<1>7. net' \in Nat /\ n \in Nat
  BY <1>2, <1>6, ConstantsOK
<1>8. tls.phase \notin {"CLIENT_HELLO", "FAILED"}
  BY SMTT(40), <1>2, <1>6 DEF ConnOK
<1>9. /\ c.rx_len = tls.rx_len /\ c.phase = tls.phase /\ c.got = tls.got
      /\ c.sent = tls.sent /\ c.idlen = tls.idlen
  BY Zenon, <1>3 DEF Keeps, Fields
<1>10. \/ /\ c.rx_len + n > MaxRecord
          /\ tls' = Fail(Rc(c, "EINVAL")) /\ UNCHANGED rx
       \/ /\ ~(c.rx_len + n > MaxRecord)
          /\ tls' = [c EXCEPT !.rx_len = @ + n]
          /\ rx' = [busy |-> TRUE, window |-> CipherWindow(tls)]
  BY Zenon, <1>1 DEF CipherstreamDeliver
<1>11. MaxRecord \in Nat /\ tls.rx_len \in 0..MaxRecord
  BY SMTT(40), <1>2, ConstantsOK DEF ConnOK
<1>12. CASE /\ c.rx_len + n > MaxRecord
            /\ tls' = Fail(Rc(c, "EINVAL")) /\ UNCHANGED rx
  <2>1. PICK e : e = Rc(c, "EINVAL")
    BY Zenon
  <2>2. IsConn(e) /\ Keeps(c, e, {"rc"})
    BY <1>4, <2>1, RcFields
  <2>3. /\ Keeps(tls, e, {"unacked", "rc", "hs", "rx"})
        /\ Keeps(c, e, {"awake", "conn", "unacked", "rc"})
    BY Zenon, <1>3, <2>2 DEF Keeps
  <2>4. ConnOK(e) /\ Up(e, srv)
    BY Zenon, <1>5, <2>2, <2>3, QuietOK
  <2>5. SegmentsFit => Provoked'
    <3>1. SegmentsFit => srv.cause
      BY SMTT(40), <1>6, <1>7, <1>8, <1>9, <1>11, <1>12, SegmentRoom
    <3>2. QED
      BY SMTT(40), <1>6, <3>1 DEF Provoked
  <2>6. tls' = Fail(e) /\ budget' \in Budgets
    BY SMTT(40), <1>2, <1>6, <1>12, <2>1
  <2>7. rx'.busy = FALSE /\ rx' = [busy |-> rx'.busy, window |-> rx'.window]
    BY SMTT(40), <1>2, <1>6, <1>12 DEF Running
  <2>8. QED
    BY Zenon, <1>6, <1>7, <2>3, <2>4, <2>5, <2>6, <2>7, EndStep
<1>13. CASE /\ ~(c.rx_len + n > MaxRecord)
            /\ tls' = [c EXCEPT !.rx_len = @ + n]
            /\ rx' = [busy |-> TRUE, window |-> CipherWindow(tls)]
  <2>1. PICK d : d = [c EXCEPT !.rx_len = @ + n]
    BY Zenon
  <2>2. tls' = d /\ rx' = [busy |-> rx'.busy, window |-> rx'.window] /\ rx'.busy = TRUE
    BY <1>13, <2>1
  <2>3. /\ d = [f \in Fields |-> d[f]] /\ Keeps(c, d, {"rx_len"})
        /\ d.rx_len = c.rx_len + n
    BY Zenon, <1>4, <2>1 DEF IsConn, Fields, Keeps
  <2>4. /\ d.hs = c.hs /\ d.tx = c.tx /\ d.txbuf = c.txbuf
        /\ d.rx = c.rx /\ d.sent = c.sent /\ d.idlen = c.idlen /\ d.out = c.out
        /\ d.got = c.got /\ d.sealed = c.sealed /\ d.phase = c.phase
        /\ d.plugged = c.plugged /\ d.sec = c.sec /\ d.rc = c.rc
    BY Zenon, <2>3 DEF Keeps, Fields
  <2>5. IsConn(d)
    BY Zenon, <1>4, <2>3, <2>4 DEF IsConn
  <2>6. d.rx_len \in 0..MaxRecord
    BY SMTT(40), <1>7, <1>9, <1>11, <1>13, <2>3
  <2>7. ConnOK(d)
    BY SMTT(40), <1>5, <2>4, <2>5, <2>6 DEF ConnOK
  <2>8. Sends(d, FALSE)
    BY SMTT(40), <1>5, <2>4 DEF Sends
  <2>9. Up(d, srv)
    BY Zenon, <1>5, <2>4, UpSame DEF Written
  <2>10. Running(d, rx')
    BY Zenon, <1>3, <1>8, <1>9, <2>2, <2>4 DEF Running
  <2>11. Answered(d, srv)
    <3>1. d.txbuf = tls.txbuf /\ d.phase = tls.phase
      BY SMTT(40), <1>3, <1>9, <2>4 DEF Keeps, Fields
    <3>2. QED
      BY SMTT(40), <3>1 DEF Inv, Answered
  <2>12. PICK pos : Route(pos, tls, rx.busy, down, net, srv)
    BY SMTT(40), <1>8 DEF Inv, Connected
  <2>13. Reads(d, pos[1])
    <3>1. /\ d.phase = tls.phase /\ d.got = tls.got /\ d.idlen = tls.idlen
          /\ d.hs = tls.hs /\ d.tx = tls.tx /\ d.rx = tls.rx /\ d.sec = tls.sec
      BY Zenon, <1>3, <2>4 DEF Keeps, Fields
    <3>2. Reads(tls, pos[1])
      BY SMTT(40), <2>12 DEF Route
    <3>3. QED
      BY Zenon, <3>1, <3>2 DEF Reads, HasHsKeys
  <2>14. pos[1].off + d.rx_len + net' = pos[Len(down) + 1].off
    <3>1. pos[1].off + tls.rx_len + net = pos[Len(down) + 1].off
      BY SMTT(40), <2>12 DEF Route
    <3>2. pos[1].off \in Nat
      <4>1. 1 \in 1..(Len(down) + 1)
        BY SeqLen DEF Inv
      <4>2. pos[1] \in Places
        BY SMTT(40), <2>12, <4>1 DEF Route
      <4>3. QED
        BY <4>2 DEF Places
    <3>3. d.rx_len = tls.rx_len + n /\ net' = net - n
      BY SMTT(40), <1>6, <1>9, <2>3
    <3>4. QED
      BY SMTT(40), <1>2, <1>7, <1>11, <3>1, <3>2, <3>3
  <2>15. Route(pos, d, TRUE, down, net', srv)
    BY SMTT(40), <2>12, <2>13, <2>14 DEF Route
  <2>16. SegmentsFit => FailsForCause'
    BY SMTT(40), <1>8, <1>9, <2>2, <2>4 DEF FailsForCause
  <2>17. Inv'
    <3>1. ServerOK(srv) /\ IsSeq(down) /\ (srv.state = "start" => down = << >>)
      BY SMTT(40) DEF Inv
    <3>2. Route(pos, tls', rx'.busy, down', net', srv')
      BY Zenon, <1>6, <2>2, <2>15
    <3>3. /\ ConnOK(tls') /\ Sends(tls', FALSE) /\ Up(tls', srv')
          /\ Running(tls', rx') /\ Answered(tls', srv')
      BY Zenon, <1>6, <2>2, <2>7, <2>8, <2>9, <2>10, <2>11
    <3>4. QED
      BY Zenon, <1>2, <1>6, <1>7, <2>16, <3>1, <3>2, <3>3 DEF Inv
  <2>18. Flows
    BY SMTT(40), <1>6, <1>8, <1>9, <2>2, <2>4 DEF Flows
  <2>19. QED
    BY SMTT(40), <2>17, <2>18
<1>14. QED
  BY SMTT(40), <1>10, <1>12, <1>13
=============================================================================
