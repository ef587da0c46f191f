--------------------------- MODULE Tls13PskServer ---------------------------
(***************************************************************************)
(* For the proofs about Tls13Psk: the steps of the server, each of which   *)
(* keeps the inductive invariant.                                          *)
(***************************************************************************)
EXTENDS Tls13PskClient

-----------------------------------------------------------------------------
(* The server's steps *)

\* The server's stream leads to place q.
Reach(c, busy, ds, un, cause, sent, q) ==
  \E pos : /\ Path(pos, c, busy, ds, un, cause, sent)
           /\ pos[Len(ds) + 1] = q

\* Record r, of un units, continues it from p to q.
Adds(c, ds, un, cause, sent, p, r, q) ==
  /\ un \in Nat /\ sent \in Nat /\ IsSeq(ds) /\ c.rx_len \in Nat /\ q \in Places
  /\ Moves(p, r, q, cause) /\ q.n <= sent

LEMMA ReachAppend ==
  ASSUME NEW c, NEW busy, NEW ds, NEW un, NEW cause, NEW sent, NEW p, NEW r, NEW q,
         NEW k, r.len = k, Reach(c, busy, ds, un, cause, sent, p),
         Adds(c, ds, un, cause, sent, p, r, q)
  PROVE  Reach(c, busy, Append(ds, r), un + k, cause, sent, q)
<1>1. PICK pos : Path(pos, c, busy, ds, un, cause, sent) /\ pos[Len(ds) + 1] = p
  BY DEF Reach
<1>2. Pushed(pos, c, busy, ds, un, cause, sent, r, q)
  BY <1>1 DEF Pushed, Adds
<1>3. Longer(c, busy, ds, un, cause, sent, r, q)
  BY <1>2, PathAppend
<1>4. Len(Append(ds, r)) + 1 = Len(ds) + 2
  <2>1. Len(Append(ds, r)) = Len(ds) + 1 /\ Len(ds) \in Nat
    BY SeqAppend, SeqLen DEF Adds
  <2>2. QED
    BY SMTT(40), <2>1
<1>5. QED
  BY <1>3, <1>4 DEF Longer, Reach

LEMMA ReachMore ==
  ASSUME NEW c, NEW busy, NEW ds, NEW un, NEW cause, NEW more, NEW sent, NEW sent2,
         NEW q, sent \in Nat, sent2 \in Nat, IsSeq(ds), sent <= sent2, cause => more,
         Reach(c, busy, ds, un, cause, sent, q)
  PROVE  Reach(c, busy, ds, un, more, sent2, q)
<1>1. PICK pos : Path(pos, c, busy, ds, un, cause, sent) /\ pos[Len(ds) + 1] = q
  BY SMTT(40) DEF Reach
<1>2. Path(pos, c, busy, ds, un, more, sent2)
  BY Zenon, <1>1, PathMore
<1>3. QED
  BY SMTT(40), <1>1, <1>2 DEF Reach

\* Where the stream of a connection ends.
LEMMA RouteEnds ==
  ASSUME NEW pos, NEW c, NEW busy, NEW ds, NEW un, NEW s, NEW cause, NEW sent, IsSeq(ds),
         Route(pos, c, busy, ds, un, s), cause = s.cause, sent = s.sent
  PROVE  \E q \in Places : /\ Reach(c, busy, ds, un, cause, sent, q)
                           /\ Writes(s, q) /\ q.n <= sent
<1>1. Path(pos, c, busy, ds, un, cause, sent) /\ Writes(s, pos[Len(ds) + 1])
  BY RouteIsPath
<1>2. Len(ds) + 1 \in 1..(Len(ds) + 1)
  BY SeqLen
<1>3. pos[Len(ds) + 1] \in Places /\ pos[Len(ds) + 1].n <= sent
  BY SMTT(40), <1>1, <1>2 DEF Path
<1>4. QED
  BY <1>1, <1>3 DEF Reach

LEMMA RouteFrom ==
  ASSUME NEW c, NEW busy, NEW ds, NEW un, NEW s, NEW q, NEW cause, NEW sent,
         Reach(c, busy, ds, un, cause, sent, q), Writes(s, q),
         cause = s.cause, sent = s.sent
  PROVE  \E pos : Route(pos, c, busy, ds, un, s)
<1>1. PICK pos : Path(pos, c, busy, ds, un, cause, sent) /\ pos[Len(ds) + 1] = q
  BY DEF Reach
<1>2. Route(pos, c, busy, ds, un, s)
  BY <1>1, RouteIsPath
<1>3. QED
  BY <1>2

\* A step of the server, that takes at most one record of the client.
LEMMA ServerStep ==
  ASSUME Inv, ConnOK(tls'), Sends(tls', FALSE), Up(tls', srv'), Answered(tls', srv'),
         ServerOK(srv'), Keeps(tls, tls', {"out"}), UNCHANGED <<rx, budget>>,
         IsSeq(down'), net' \in Nat, srv'.state # "start", srv.cause => srv'.cause,
         Connected(tls, rx) => \E pos : Route(pos, tls, rx.busy, down', net', srv')
  PROVE  Inv'
<1>1. /\ tls'.phase = tls.phase /\ tls'.rx_len = tls.rx_len /\ tls'.rc = tls.rc
      /\ tls'.got = tls.got /\ tls'.idlen = tls.idlen /\ tls'.hs = tls.hs
      /\ tls'.tx = tls.tx /\ tls'.rx = tls.rx /\ tls'.sec = tls.sec
  BY Zenon DEF Keeps, Fields
<1>2. Running(tls', rx')
  BY <1>1 DEF Inv, Running
<1>3. ASSUME Connected(tls', rx')
      PROVE  \E pos : Route(pos, tls', rx'.busy, down', net', srv')
  <2>1. Connected(tls, rx)
    BY <1>1, <1>3 DEF Connected
  <2>2. PICK pos : Route(pos, tls, rx.busy, down', net', srv')
    BY SMTT(40), <2>1
  <2>3. Reads(tls', pos[1])
    <3>1. Reads(tls, pos[1])
      BY SMTT(40), <2>2 DEF Route
    <3>2. QED
      BY Zenon, <1>1, <3>1 DEF Reads, HasHsKeys
  <2>4. Route(pos, tls', rx'.busy, down', net', srv')
    BY SMTT(40), <1>1, <2>2, <2>3 DEF Route
  <2>5. QED
    BY <2>4
<1>4. SegmentsFit => FailsForCause'
  BY SMTT(40), <1>1 DEF Inv, FailsForCause, Provoked
<1>5. budget' \in Budgets
  BY DEF Inv
<1>6. QED
  BY Zenon, <1>2, <1>3, <1>4, <1>5 DEF Inv

LEMMA ReadFields ==
  ASSUME Inv, SrvRead
  PROVE  /\ ConnOK(tls') /\ Sends(tls', FALSE) /\ Keeps(tls, tls', {"out"})
         /\ tls'.out = Tail(tls.out) /\ tls.out # << >> /\ srv.state # "refused"
         /\ UNCHANGED <<rx, budget>> /\ Head(tls.out) = tls.out[1]
<1>1. ConnOK(tls) /\ IsConn(tls) /\ Sends(tls, FALSE) /\ IsSeq(tls.out)
  BY Zenon DEF Inv, ConnOK
<1>2. /\ tls.out # << >> /\ srv.state # "refused" /\ UNCHANGED <<rx, budget>>
      /\ tls' = [tls EXCEPT !.out = Tail(@)]
  BY DEF SrvRead
<1>3. PICK d : d = [tls EXCEPT !.out = Tail(@)]
  BY Zenon
<1>4. /\ d = [f \in Fields |-> d[f]] /\ Keeps(tls, d, {"out"}) /\ d.out = Tail(tls.out)
  BY Zenon, <1>1, <1>3 DEF IsConn, Fields, Keeps
<1>5. /\ d.hs = tls.hs /\ d.tx = tls.tx /\ d.txbuf = tls.txbuf /\ d.rx_len = tls.rx_len
      /\ d.rx = tls.rx /\ d.sent = tls.sent /\ d.idlen = tls.idlen
      /\ d.got = tls.got /\ d.sealed = tls.sealed /\ d.phase = tls.phase
      /\ d.plugged = tls.plugged /\ d.sec = tls.sec
  BY Zenon, <1>4 DEF Keeps, Fields
<1>6. IsConn(d)
  BY Zenon, <1>1, <1>4, <1>5 DEF IsConn
<1>7. IsSeq(d.out) /\ Head(tls.out) = tls.out[1]
  BY SMTT(40), <1>1, <1>2, <1>4, SeqTail
<1>8. ConnOK(d)
  BY SMTT(40), <1>1, <1>5, <1>6, <1>7 DEF ConnOK
<1>9. Sends(d, FALSE)
  BY SMTT(40), <1>1, <1>5 DEF Sends
<1>10. tls' = d
  BY <1>2, <1>3
<1>11. QED
  BY Zenon, <1>2, <1>4, <1>7, <1>8, <1>9, <1>10

\* The server has read one more record.
LEMMA UpRead ==
  ASSUME NEW c, NEW d, NEW s, NEW t, Up(c, s), ServerOK(s), s.state # "refused",
         IsSeq(c.out), c.out # << >>, d.out = Tail(c.out), d.idlen = c.idlen,
         d.sent = c.sent, d.phase = c.phase, d.txbuf = c.txbuf, c.sent \in Nat,
         t.state # "refused" => Base(t) = Base(s) + 1
  PROVE  /\ Up(d, t) /\ c.out[1] = UpRec(c.idlen, Base(s) + 1) /\ Base(s) \in Nat
         /\ Base(s) < 2 + c.sent /\ (c.phase # "FAILED" => Written(c) > 0)
<1>1. /\ Len(c.out) \in Nat \ {0} /\ Len(d.out) = Len(c.out) - 1
      /\ \A i \in 1..Len(d.out) : d.out[i] = c.out[i + 1]
  BY SMTT(40), SeqTail
<1>2. Base(s) \in Nat
  BY BaseNat
<1>3. /\ \A i \in 1..Len(c.out) : c.out[i] = UpRec(c.idlen, Base(s) + i)
      /\ Base(s) + Len(c.out) <= 2 + c.sent
      /\ c.phase # "FAILED" => Base(s) + Len(c.out) = Written(c)
  BY SMTT(40) DEF Up
<1>4. c.out[1] = UpRec(c.idlen, Base(s) + 1)
  BY <1>1, <1>3
<1>5. Base(s) < 2 + c.sent /\ (c.phase # "FAILED" => Written(c) > 0)
  BY SMTT(40), <1>1, <1>2, <1>3
<1>6. ASSUME t.state # "refused" PROVE Up(d, t)
  <2>1. Base(t) = Base(s) + 1
    BY SMTT(40), <1>6
  <2>2. ASSUME NEW i \in 1..Len(d.out) PROVE d.out[i] = UpRec(d.idlen, Base(t) + i)
    <3>1. i + 1 \in 1..Len(c.out) /\ Base(t) + i = Base(s) + (i + 1)
      BY SMTT(40), <1>1, <1>2, <2>1
    <3>2. QED
      BY SMTT(40), <1>1, <1>3, <3>1
  <2>3. Base(t) + Len(d.out) = Base(s) + Len(c.out)
    BY SMTT(40), <1>1, <1>2, <2>1
  <2>4. Written(d) = Written(c)
    BY SMTT(40) DEF Written
  <2>5. QED
    BY SMTT(40), <1>3, <2>2, <2>3, <2>4 DEF Up
<1>7. QED
  BY SMTT(40), <1>2, <1>4, <1>5, <1>6 DEF Up

\* What a step of the server that reads has to show.
LEMMA ReadStep ==
  ASSUME Inv, SrvRead, ServerOK(srv'), srv'.state # "start",
         srv'.state # "refused" => Base(srv') = Base(srv) + 1, srv.cause => srv'.cause,
         IsSeq(down'), net' \in Nat,
         Connected(tls, rx) => \E pos : Route(pos, tls, rx.busy, down', net', srv')
  PROVE  /\ Inv' /\ tls.out[1] = UpRec(tls.idlen, Base(srv) + 1) /\ Base(srv) \in Nat
         /\ Base(srv) < 2 + tls.sent /\ tls'.sent = tls.sent /\ tls'.got = tls.got
         /\ tls'.phase = tls.phase
<1>1. /\ ConnOK(tls') /\ Sends(tls', FALSE) /\ Keeps(tls, tls', {"out"})
      /\ tls'.out = Tail(tls.out) /\ tls.out # << >> /\ srv.state # "refused"
      /\ UNCHANGED <<rx, budget>>
  BY Zenon, ReadFields
<1>2. /\ tls'.idlen = tls.idlen /\ tls'.sent = tls.sent /\ tls'.phase = tls.phase
      /\ tls'.txbuf = tls.txbuf /\ tls'.got = tls.got
  BY Zenon, <1>1 DEF Keeps, Fields
<1>3. /\ Up(tls, srv) /\ ServerOK(srv) /\ IsSeq(tls.out) /\ tls.sent \in Nat
      /\ tls.phase \in Phases
  BY SMTT(40) DEF Inv, ConnOK
<1>4. /\ Up(tls', srv') /\ tls.out[1] = UpRec(tls.idlen, Base(srv) + 1)
      /\ Base(srv) \in Nat /\ Base(srv) < 2 + tls.sent
      /\ (tls.phase # "FAILED" => Written(tls) > 0)
  BY <1>1, <1>2, <1>3, UpRead
<1>5. Answered(tls', srv')
  BY SMTT(40), <1>2, <1>4 DEF Answered, Written
<1>6. Inv'
  BY SMTT(40), <1>1, <1>4, <1>5, ServerStep
<1>7. QED
  BY <1>2, <1>4, <1>6

SrvKeeps(s, t, F) == \A f \in ServerFields \ F : t[f] = s[f]

\* The client's Finished is what the server expects.
LEMMA FinishedStep ==
  ASSUME Inv, SrvFinished
  PROVE  Inv' /\ Flows
<1>1. srv.state = "flight" /\ SrvRead /\ UNCHANGED <<down, net>>
  BY SMTT(40) DEF SrvFinished
<1>2. /\ ServerOK(srv) /\ IsSeq(down) /\ net \in Nat /\ IsSeq(tls.out) /\ Up(tls, srv)
      /\ tls.sent \in Nat /\ IsSeq(srv.got)
  BY Zenon DEF Inv, ConnOK, ServerOK
<1>3. /\ srv.hs = <<ClientHs, Whole>> /\ srv.got = << >> /\ srv.ap = ClientAp
      /\ srv.rx = [k |-> TrafficKey(ClientHs), seq |-> 0]
  BY Zenon, <1>1, <1>2 DEF ServerOK
<1>4. Head(tls.out) = FinRec
  <2>1. /\ tls.out # << >> /\ srv.state # "refused" /\ Head(tls.out) = tls.out[1]
    BY SMTT(40), <1>1, ReadFields
  <2>2. Len(tls.out) \in Nat \ {0}
    BY SMTT(40), <1>2, <2>1, SeqTail
  <2>3. Base(srv) = 1
    BY SMTT(40), <1>1 DEF Base
  <2>4. tls.out[1] = UpRec(tls.idlen, 1 + 1)
    BY SMTT(40), <1>2, <2>1, <2>2, <2>3 DEF Up
  <2>5. QED
    BY SMTT(40), <2>1, <2>4 DEF UpRec
<1>5. /\ Open(srv.rx.k, srv.rx.seq, FinRec.frag) /\ FinRec.frag.type = "handshake"
      /\ FinRec.frag.data.msgs[1].mac = FinishedMac(srv.hs[1], srv.hs[2])
  <2>1. srv.rx.k = TrafficKey(ClientHs) /\ srv.rx.seq = 0
    BY SMTT(40), <1>3
  <2>2. srv.hs[1] = ClientHs /\ srv.hs[2] = Whole
    BY <1>3
  <2>3. FinRec.frag = Seal(TrafficKey(ClientHs), 0, "handshake", Body(<<ClientFin>>, 0))
    BY DEF FinRec, Ciphertext
  <2>4. ClientFin.mac = FinishedMac(ClientHs, Whole)
    BY DEF ClientFin, Msg
  <2>5. FinRec.frag.data.msgs[1] = ClientFin
    BY <2>3 DEF Seal, Body
  <2>6. QED
    BY SMTT(40), <2>1, <2>2, <2>3, <2>4, <2>5 DEF Open, Seal
<1>6. srv' = [srv EXCEPT !.state = "data", !.rx = [k |-> TrafficKey(srv.ap), seq |-> 0]]
  BY SMTT(40), <1>4, <1>5 DEF SrvFinished
<1>7. PICK t : t = [srv EXCEPT !.state = "data",
                               !.rx = [k |-> TrafficKey(srv.ap), seq |-> 0]]
  BY SMTT(40)
<1>8. /\ t = [f \in ServerFields |-> t[f]] /\ SrvKeeps(srv, t, {"state", "rx"})
      /\ t.state = "data" /\ t.rx = [k |-> TrafficKey(srv.ap), seq |-> 0]
  BY Zenon, <1>2, <1>7 DEF ServerOK, ServerFields, SrvKeeps
<1>9. /\ t.tx = srv.tx /\ t.sent = srv.sent /\ t.got = srv.got /\ t.ap = srv.ap
      /\ t.cause = srv.cause
  BY Zenon, <1>8 DEF SrvKeeps, ServerFields
<1>10. t.rx = [k |-> t.rx.k, seq |-> t.rx.seq] /\ Len(t.got) = 0
  BY SMTT(40), <1>3, <1>8, <1>9
<1>11. t.rx = [k |-> TrafficKey(ClientAp), seq |-> Len(t.got)]
  BY SMTT(40), <1>3, <1>8, <1>10
<1>12. ServerOK(t)
  BY SMTT(40), <1>1, <1>2, <1>8, <1>9, <1>10, <1>11 DEF ServerOK
<1>13. Base(t) = Base(srv) + 1
  BY SMTT(40), <1>1, <1>8, <1>10 DEF Base
<1>14. srv' = t
  BY SMTT(40), <1>6, <1>7
<1>15. ASSUME Connected(tls, rx)
       PROVE  \E pos : Route(pos, tls, rx.busy, down', net', srv')
  <2>1. PICK pos : Route(pos, tls, rx.busy, down, net, srv)
    BY SMTT(40), <1>15 DEF Inv
  <2>2. Route(pos, tls, rx.busy, down, net, t)
    BY SMTT(40), <1>1, <1>8, <1>9, <2>1 DEF Route, Writes
  <2>3. QED
    BY <1>1, <1>14, <2>2
<1>16. /\ ServerOK(srv') /\ srv'.state \in {"flight", "data"}
       /\ Base(srv') = Base(srv) + 1 /\ (srv.cause => srv'.cause)
       /\ IsSeq(down') /\ net' \in Nat
  BY SMTT(40), <1>1, <1>2, <1>8, <1>9, <1>12, <1>13, <1>14
<1>17. Inv' /\ tls'.sent = tls.sent /\ tls'.got = tls.got /\ tls'.phase = tls.phase
  BY SMTT(40), <1>1, <1>15, <1>16, ReadStep
<1>18. Flows
  BY SMTT(40), <1>9, <1>14, <1>17 DEF Flows
<1>19. QED
  BY SMTT(40), <1>17, <1>18

\* Each of the client's data records is the one that the server expects.
LEMMA DataStep ==
  ASSUME Inv, SrvData
  PROVE  Inv' /\ Flows
<1>1. srv.state = "data" /\ SrvRead /\ UNCHANGED <<down, net>>
  BY SMTT(40) DEF SrvData
<1>2. /\ ServerOK(srv) /\ IsSeq(down) /\ net \in Nat /\ IsSeq(tls.out) /\ Up(tls, srv)
      /\ tls.sent \in Nat /\ IsSeq(srv.got)
  BY Zenon DEF Inv, ConnOK, ServerOK
<1>3. srv.rx = [k |-> TrafficKey(ClientAp), seq |-> Len(srv.got)] /\ Len(srv.got) \in Nat
  BY SMTT(40), <1>1, <1>2, SeqLen DEF ServerOK
<1>4. Head(tls.out) = DataRec(Len(srv.got))
  <2>1. /\ tls.out # << >> /\ srv.state # "refused" /\ Head(tls.out) = tls.out[1]
    BY SMTT(40), <1>1, ReadFields
  <2>2. Len(tls.out) \in Nat \ {0}
    BY SMTT(40), <1>2, <2>1, SeqTail
  <2>3. Base(srv) = 2 + Len(srv.got)
    BY SMTT(40), <1>1 DEF Base
  <2>4. tls.out[1] = UpRec(tls.idlen, (2 + Len(srv.got)) + 1)
    <3>1. 1 \in 1..Len(tls.out)
      BY SMTT(40), <2>2
    <3>2. tls.out[1] = UpRec(tls.idlen, Base(srv) + 1)
      BY SMTT(40), <1>2, <2>1, <3>1 DEF Up
    <3>3. QED
      BY SMTT(40), <2>3, <3>2
  <2>5. /\ (2 + Len(srv.got)) + 1 # 1 /\ (2 + Len(srv.got)) + 1 # 2
        /\ ((2 + Len(srv.got)) + 1) - 3 = Len(srv.got)
    BY SMTT(40), <1>3
  <2>6. QED
    BY SMTT(40), <2>1, <2>4, <2>5 DEF UpRec
<1>5. /\ Open(srv.rx.k, srv.rx.seq, Head(tls.out).frag)
      /\ Head(tls.out).frag.data.n = Len(srv.got) + 1
  <2>1. srv.rx.k = TrafficKey(ClientAp) /\ srv.rx.seq = Len(srv.got)
    BY SMTT(40), <1>3
  <2>2. Head(tls.out).frag = Seal(TrafficKey(ClientAp), Len(srv.got), "data",
                                  Body(<< >>, Len(srv.got) + 1))
    BY SMTT(40), <1>4 DEF DataRec, Ciphertext
  <2>3. QED
    BY SMTT(40), <2>1, <2>2 DEF Open, Seal, Body
<1>6. PICK n : n = Len(srv.got) + 1
  BY Zenon
<1>7. PICK t : t = [srv EXCEPT !.rx.seq = @ + 1, !.got = Append(@, n)]
  BY Zenon
<1>8. srv' = t
  BY Zenon, <1>5, <1>6, <1>7 DEF SrvData
<1>9. /\ t = [f \in ServerFields |-> t[f]] /\ SrvKeeps(srv, t, {"got", "rx"})
      /\ t.got = Append(srv.got, n) /\ t.rx = [srv.rx EXCEPT !.seq = @ + 1]
  BY Zenon, <1>2, <1>7 DEF ServerOK, ServerFields, SrvKeeps
<1>10. /\ t.tx = srv.tx /\ t.sent = srv.sent /\ t.state = "data" /\ t.ap = srv.ap
       /\ t.cause = srv.cause
  BY Zenon, <1>1, <1>9 DEF SrvKeeps, ServerFields
<1>11. IsSeq(t.got) /\ Len(t.got) = Len(srv.got) + 1
  <2>1. PICK g : g = srv.got
    BY Zenon
  <2>2. IsSeq(Append(g, n)) /\ Len(Append(g, n)) = Len(g) + 1
    BY SMTT(40), <1>2, <2>1, SeqAppend
  <2>3. QED
    BY Zenon, <1>9, <2>1, <2>2
<1>12. t.rx = [k |-> TrafficKey(ClientAp), seq |-> Len(srv.got) + 1]
  BY SMTT(40), <1>3, <1>9
<1>13. /\ t.rx = [k |-> t.rx.k, seq |-> t.rx.seq]
       /\ t.rx = [k |-> TrafficKey(ClientAp), seq |-> Len(t.got)]
  BY SMTT(40), <1>11, <1>12
<1>14. ServerOK(t)
  BY SMTT(40), <1>1, <1>2, <1>9, <1>10, <1>11, <1>13 DEF ServerOK
<1>15. Base(t) = Base(srv) + 1
  <2>1. Base(t) = 2 + Len(t.got) /\ Base(srv) = 2 + Len(srv.got)
    BY SMTT(40), <1>1, <1>10 DEF Base
  <2>2. QED
    BY SMTT(40), <1>3, <1>11, <2>1
<1>16. ASSUME Connected(tls, rx)
       PROVE  \E pos : Route(pos, tls, rx.busy, down', net', srv')
  <2>1. PICK pos : Route(pos, tls, rx.busy, down, net, srv)
    BY SMTT(40), <1>16 DEF Inv
  <2>2. Route(pos, tls, rx.busy, down, net, t)
    BY SMTT(40), <1>1, <1>10, <2>1 DEF Route, Writes
  <2>3. QED
    BY SMTT(40), <1>1, <1>8, <2>2
<1>17. /\ ServerOK(srv') /\ srv'.state \in {"flight", "data"}
       /\ Base(srv') = Base(srv) + 1 /\ (srv.cause => srv'.cause)
       /\ IsSeq(down') /\ net' \in Nat
  BY SMTT(40), <1>1, <1>2, <1>8, <1>10, <1>14, <1>15
<1>18. /\ Inv' /\ tls'.sent = tls.sent /\ tls'.got = tls.got /\ tls'.phase = tls.phase
       /\ Base(srv) < 2 + tls.sent
  BY SMTT(40), <1>1, <1>16, <1>17, ReadStep
<1>19. Flows
  <2>1. Len(srv.got) < tls.sent
    <3>1. Base(srv) = 2 + Len(srv.got)
      BY SMTT(40), <1>1 DEF Base
    <3>2. QED
      BY SMTT(40), <1>2, <1>3, <1>18, <3>1
  <2>2. QED
    BY Zenon, <1>6, <1>8, <1>9, <1>10, <1>18, <2>1 DEF Flows
<1>20. QED
  BY SMTT(40), <1>18, <1>19

LEMMA SeqSingle ==
  ASSUME NEW s, IsSeq(s), NEW e
  PROVE  s \o <<e>> = Append(s, e)
<1>1. IsSeq(<<e>>) /\ Len(<<e>>) = 1 /\ <<e>>[1] = e
  BY Zenon, SeqTuples
<1>2. /\ IsSeq(s \o <<e>>) /\ Len(s \o <<e>>) = Len(s) + 1
      /\ \A i \in 1..Len(s) : (s \o <<e>>)[i] = s[i]
      /\ (s \o <<e>>)[Len(s) + 1] = e
  BY SMTT(40), <1>1, SeqConcat
<1>3. /\ IsSeq(Append(s, e)) /\ Len(Append(s, e)) = Len(s) + 1
      /\ Append(s, e)[Len(s) + 1] = e
      /\ \A i \in 1..Len(s) : Append(s, e)[i] = s[i]
  BY SMTT(40), SeqAppend
<1>4. Len(s) \in Nat
  BY SMTT(40), SeqLen
<1>5. PICK a, b : a = s \o <<e>> /\ b = Append(s, e)
  BY Zenon
<1>6. \A i \in 1..Len(a) : a[i] = b[i]
  BY SMTT(40), <1>2, <1>3, <1>4, <1>5
<1>7. a = b
  BY SMTT(40), <1>2, <1>3, <1>5, <1>6, SeqSame
<1>8. QED
  BY SMTT(40), <1>5, <1>7

\* Where record r leads the server that sends it, and what it sends from.
Follows(s, t, r) ==
  \A p \in Places :
    p.at = "data" /\ p.seq = s.tx.seq /\ p.n = s.sent =>
      \E q \in Places : Moves(p, r, q, t.cause) /\ q.n <= t.sent /\ Writes(t, q)

\* What a step of the server that sends one record of the session has to show.
LEMMA EmitStep ==
  ASSUME Inv, NEW r, NEW k, r.len = k, k \in Nat, SrvEmit(<<r>>, k),
         srv.state \in {"flight", "data"}, ServerOK(srv'), srv'.state # "start",
         srv'.state # "refused" => Base(srv') = Base(srv),
         srv.cause => srv'.cause, srv.sent <= srv'.sent,
         UNCHANGED <<tls, rx, budget>>, Follows(srv, srv', r)
  PROVE  Inv'
<1>1. /\ ConnOK(tls) /\ Sends(tls, FALSE) /\ Up(tls, srv) /\ Answered(tls, srv)
      /\ IsSeq(down) /\ net \in Nat /\ srv.sent \in Nat /\ srv'.sent \in Nat
      /\ tls.rx_len \in Nat
  <2>1. /\ ConnOK(tls) /\ Sends(tls, FALSE) /\ Up(tls, srv) /\ Answered(tls, srv)
        /\ IsSeq(down) /\ net \in Nat /\ ServerOK(srv)
    BY Zenon DEF Inv
  <2>2. srv.sent \in Nat /\ srv'.sent \in Nat
    BY Zenon, <2>1 DEF ServerOK
  <2>3. tls.rx_len \in Nat
    BY SMTT(40), <2>1, ConstantsOK DEF ConnOK
  <2>4. QED
    BY Zenon, <2>1, <2>2, <2>3
<1>2. down' = Append(down, r) /\ net' = net + k
  BY SMTT(40), <1>1, SeqSingle DEF SrvEmit
<1>3. IsSeq(down') /\ net' \in Nat
  BY SMTT(40), <1>1, <1>2, SeqAppend
<1>4. Up(tls', srv') /\ Answered(tls', srv')
  BY Zenon, <1>1 DEF Up, Answered, Written
<1>5. Keeps(tls, tls', {"out"}) /\ ConnOK(tls') /\ Sends(tls', FALSE)
  BY Zenon, <1>1 DEF Keeps, Fields
<1>6. ASSUME Connected(tls, rx)
      PROVE  \E pos : Route(pos, tls, rx.busy, down', net', srv')
  <2>1. PICK pos : Route(pos, tls, rx.busy, down, net, srv)
    BY SMTT(40), <1>6 DEF Inv
  <2>2. PICK busy, ds, un, cause, sent, more, sent2 :
          /\ busy = rx.busy /\ ds = down /\ un = net /\ cause = srv.cause
          /\ sent = srv.sent /\ more = srv'.cause /\ sent2 = srv'.sent
    BY SMTT(40)
  <2>3. PICK p \in Places : /\ Reach(tls, busy, ds, un, cause, sent, p)
                            /\ Writes(srv, p) /\ p.n <= sent
    BY SMTT(40), <1>1, <2>1, <2>2, RouteEnds
  <2>4. p.at = "data" /\ p.seq = srv.tx.seq /\ p.n = srv.sent
    BY SMTT(40), <2>3 DEF Writes
  <2>5. PICK q \in Places : /\ Moves(p, r, q, more) /\ q.n <= sent2
                            /\ Writes(srv', q)
    BY SMTT(40), <2>2, <2>4 DEF Follows
  <2>6. Reach(tls, busy, ds, un, more, sent2, p)
    BY SMTT(40), <1>1, <2>2, <2>3, ReachMore
  <2>7. Adds(tls, ds, un, more, sent2, p, r, q)
    BY SMTT(40), <1>1, <2>2, <2>5 DEF Adds
  <2>8. Reach(tls, busy, Append(ds, r), un + k, more, sent2, q)
    BY SMTT(40), <2>6, <2>7, ReachAppend
  <2>9. PICK ds2, un2 : ds2 = Append(ds, r) /\ un2 = un + k
    BY Zenon
  <2>10. \E ps : Route(ps, tls, busy, ds2, un2, srv')
    BY Zenon, <2>2, <2>5, <2>8, <2>9, RouteFrom
  <2>11. QED
    BY SMTT(40), <1>2, <2>2, <2>9, <2>10
<1>7. QED
  BY SMTT(40), <1>3, <1>4, <1>5, <1>6, ServerStep

\* The server sends a record of data.
LEMMA SrvSendStep ==
  ASSUME Inv, NEW len \in RecordLens, SrvSend(len)
  PROVE  Inv' /\ Flows
<1>1. /\ srv.state \in {"flight", "data"} /\ UNCHANGED <<tls, rx, budget>>
      /\ SrvEmit(<<Ciphertext(Seal(srv.tx.k, srv.tx.seq, "data",
                                   Body(<< >>, srv.sent + 1)), len)>>, len)
      /\ srv' = [srv EXCEPT !.sent = @ + 1, !.tx.seq = @ + 1,
                            !.cause = @ \/ len > MaxRecord]
  BY SMTT(40) DEF SrvSend
<1>2. /\ ServerOK(srv) /\ srv.sent \in Nat /\ srv.tx.seq \in Nat
      /\ srv.tx = [k |-> srv.tx.k, seq |-> srv.tx.seq]
      /\ srv.tx.k = TrafficKey(ServerAp)
  BY Zenon, <1>1 DEF Inv, ServerOK
<1>3. len \in Nat \ {0} /\ MaxRecord \in Nat
  BY SMTT(40), ConstantsOK
<1>4. PICK r : r = AppRec(srv.tx.seq, "data", << >>, srv.sent + 1, len)
  BY Zenon
<1>5. SrvEmit(<<r>>, len) /\ r.len = len
  <2>1. r = Ciphertext(Seal(srv.tx.k, srv.tx.seq, "data", Body(<< >>, srv.sent + 1)), len)
    BY SMTT(40), <1>2, <1>4 DEF AppRec
  <2>2. SrvEmit(<<r>>, len)
    BY SMTT(40), <1>1, <2>1
  <2>3. r.len = len
    BY SMTT(40), <2>1 DEF Ciphertext
  <2>4. QED
    BY <2>2, <2>3
<1>6. PICK t : t = [srv EXCEPT !.sent = @ + 1, !.tx.seq = @ + 1,
                               !.cause = @ \/ len > MaxRecord]
  BY SMTT(40)
<1>7. /\ t = [f \in ServerFields |-> t[f]] /\ SrvKeeps(srv, t, {"sent", "tx", "cause"})
      /\ t.sent = srv.sent + 1 /\ t.tx = [srv.tx EXCEPT !.seq = @ + 1]
      /\ t.cause = (srv.cause \/ len > MaxRecord)
  BY Zenon, <1>2, <1>6 DEF ServerOK, ServerFields, SrvKeeps
<1>8. /\ t.state = srv.state /\ t.hs = srv.hs /\ t.rx = srv.rx /\ t.ap = srv.ap
      /\ t.got = srv.got
  BY Zenon, <1>7 DEF SrvKeeps, ServerFields
<1>9. t.tx = [k |-> srv.tx.k, seq |-> srv.tx.seq + 1]
  BY SMTT(40), <1>2, <1>7
<1>10. /\ t.tx = [k |-> t.tx.k, seq |-> t.tx.seq] /\ t.tx.k = srv.tx.k
       /\ t.tx.seq = srv.tx.seq + 1 /\ t.tx.seq \in Nat /\ t.sent \in Nat
  BY SMTT(40), <1>2, <1>7, <1>9
<1>11. ServerOK(t)
  BY Zenon, <1>1, <1>2, <1>7, <1>8, <1>10 DEF ServerOK
<1>12. Base(t) = Base(srv)
  BY SMTT(40), <1>1, <1>8 DEF Base
<1>13. Follows(srv, t, r)
  <2>1. SUFFICES ASSUME NEW p \in Places, p.at = "data", p.seq = srv.tx.seq,
                        p.n = srv.sent
                 PROVE  \E q \in Places : /\ Moves(p, r, q, t.cause) /\ q.n <= t.sent
                                          /\ Writes(t, q)
    BY SMTT(40) DEF Follows
  <2>2. PICK q : q = Data(p, 1, len)
    BY Zenon
  <2>3. /\ q \in Places /\ q.at = "data" /\ q.seq = p.seq + 1 /\ q.n = p.n + 1
    BY SMTT(40), <1>3, <2>2 DEF Places, Data
  <2>4. len <= MaxRecord \/ t.cause
    <3>1. len <= MaxRecord \/ len > MaxRecord
      BY SMTT(40), <1>3
    <3>2. QED
      BY Zenon, <1>7, <3>1
  <2>5. r = AppRec(p.seq, "data", << >>, p.n + 1, len)
    BY SMTT(40), <1>4, <2>1
  <2>6. DataMoves(p, r, q, t.cause)
    BY Zenon, <2>2, <2>4, <2>5 DEF DataMoves
  <2>7. Moves(p, r, q, t.cause)
    BY Zenon, <2>1, <2>6 DEF Moves
  <2>8. Writes(t, q)
    BY SMTT(40), <1>1, <1>7, <1>8, <1>10, <2>1, <2>3 DEF Writes
  <2>9. q.n <= t.sent
    BY SMTT(40), <1>2, <1>7, <2>1, <2>3
  <2>10. QED
    BY SMTT(40), <2>3, <2>7, <2>8, <2>9
<1>14. srv' = t
  BY SMTT(40), <1>1, <1>6
<1>15. /\ ServerOK(srv') /\ srv'.state # "start" /\ Base(srv') = Base(srv)
       /\ (srv.cause => srv'.cause) /\ srv.sent <= srv'.sent /\ Follows(srv, srv', r)
  <2>1. (srv.cause => t.cause) /\ t.state # "start"
    BY Zenon, <1>1, <1>7, <1>8
  <2>2. srv.sent <= t.sent
    BY SMTT(40), <1>2, <1>7
  <2>3. QED
    BY Zenon, <1>11, <1>12, <1>13, <1>14, <2>1, <2>2
<1>16. Inv'
  BY SMTT(40), <1>1, <1>3, <1>5, <1>15, EmitStep
<1>17. Flows
  BY SMTT(40), <1>1, <1>7, <1>8, <1>14 DEF Flows
<1>18. QED
  BY SMTT(40), <1>16, <1>17

\* The server sends a session ticket, an empty record or an alert.
LEMMA SrvOtherStep ==
  ASSUME Inv, NEW type \in {"handshake", "data", "alert"}, SrvOther(type)
  PROVE  Inv' /\ Flows
<1>1. PICK msgs : msgs = IF type = "handshake" THEN <<Msg("NST", 200)>> ELSE << >>
  BY Zenon
<1>2. /\ srv.state = "data" /\ UNCHANGED <<tls, rx, budget>>
      /\ SrvEmit(<<Ciphertext(Seal(srv.tx.k, srv.tx.seq, type, Body(msgs, 0)), 1)>>, 1)
      /\ srv' = [srv EXCEPT !.tx.seq = @ + 1,
                            !.state = IF type = "alert" THEN "refused" ELSE @,
                            !.cause = @ \/ type = "alert"]
  BY <1>1 DEF SrvOther
<1>3. /\ ServerOK(srv) /\ srv.sent \in Nat /\ srv.tx.seq \in Nat
      /\ srv.tx = [k |-> srv.tx.k, seq |-> srv.tx.seq]
      /\ srv.tx.k = TrafficKey(ServerAp)
  BY SMTT(40), <1>2 DEF Inv, ServerOK
<1>4. PICK r : r = AppRec(srv.tx.seq, type, msgs, 0, 1)
  BY Zenon
<1>5. SrvEmit(<<r>>, 1) /\ r.len = 1
  <2>1. r = Ciphertext(Seal(srv.tx.k, srv.tx.seq, type, Body(msgs, 0)), 1)
    BY SMTT(40), <1>3, <1>4 DEF AppRec
  <2>2. SrvEmit(<<r>>, 1)
    BY SMTT(40), <1>2, <2>1
  <2>3. r.len = 1
    BY SMTT(40), <2>1 DEF Ciphertext
  <2>4. QED
    BY <2>2, <2>3
<1>6. PICK t : t = [srv EXCEPT !.tx.seq = @ + 1,
                               !.state = IF type = "alert" THEN "refused" ELSE @,
                               !.cause = @ \/ type = "alert"]
  BY SMTT(40)
<1>7. /\ t = [f \in ServerFields |-> t[f]] /\ SrvKeeps(srv, t, {"state", "tx", "cause"})
      /\ t.tx = [srv.tx EXCEPT !.seq = @ + 1]
      /\ t.state = (IF type = "alert" THEN "refused" ELSE srv.state)
      /\ t.cause = (srv.cause \/ type = "alert")
  BY Zenon, <1>3, <1>6 DEF ServerOK, ServerFields, SrvKeeps
<1>8. /\ t.sent = srv.sent /\ t.hs = srv.hs /\ t.rx = srv.rx /\ t.ap = srv.ap
      /\ t.got = srv.got
  BY Zenon, <1>7 DEF SrvKeeps, ServerFields
<1>9. t.tx = [k |-> srv.tx.k, seq |-> srv.tx.seq + 1]
  BY SMTT(40), <1>3, <1>7
<1>10. /\ t.tx = [k |-> t.tx.k, seq |-> t.tx.seq] /\ t.tx.k = srv.tx.k
       /\ t.tx.seq = srv.tx.seq + 1 /\ t.tx.seq \in Nat
  BY SMTT(40), <1>3, <1>9
<1>11. ServerOK(t)
  BY SMTT(40), <1>2, <1>3, <1>7, <1>8, <1>10 DEF ServerOK
<1>12. (t.state # "refused" => Base(t) = Base(srv)) /\ t.state # "start"
  BY SMTT(40), <1>2, <1>7, <1>8 DEF Base
<1>13. Follows(srv, t, r)
  <2>1. SUFFICES ASSUME NEW p \in Places, p.at = "data", p.seq = srv.tx.seq,
                        p.n = srv.sent
                 PROVE  \E q \in Places : /\ Moves(p, r, q, t.cause) /\ q.n <= t.sent
                                          /\ Writes(t, q)
    BY SMTT(40) DEF Follows
  <2>2. r = AppRec(p.seq, type, msgs, 0, 1)
    BY <1>4, <2>1
  <2>3. CASE type = "alert"
    <3>1. PICK q : q = To(p, "end", 0, 1)
      BY Zenon
    <3>2. q \in Places /\ q.n = p.n
      BY SMTT(40), <3>1 DEF Places, To
    <3>3. t.cause /\ t.state = "refused" /\ r = AppRec(p.seq, "alert", << >>, 0, 1)
      BY Zenon, <1>1, <1>7, <2>2, <2>3
    <3>4. DataMoves(p, r, q, t.cause)
      BY Zenon, <3>1, <3>3 DEF DataMoves
    <3>5. Moves(p, r, q, t.cause)
      BY Zenon, <2>1, <3>4 DEF Moves
    <3>6. Writes(t, q)
      BY SMTT(40), <3>3 DEF Writes
    <3>7. q.n <= t.sent
      BY SMTT(40), <1>3, <1>8, <2>1, <3>2
    <3>8. QED
      BY SMTT(40), <3>2, <3>5, <3>6, <3>7
  <2>4. CASE type # "alert"
    <3>1. PICK q : q = Data(p, 0, 1)
      BY Zenon
    <3>2. q \in Places /\ q.at = "data" /\ q.seq = p.seq + 1 /\ q.n = p.n
      BY <3>1 DEF Places, Data
    <3>3. t.state = "data"
      BY Zenon, <1>2, <1>7, <2>4
    <3>4. \/ r = AppRec(p.seq, "handshake", <<Msg("NST", 200)>>, 0, 1)
          \/ r = AppRec(p.seq, "data", << >>, 0, 1)
      BY Zenon, <1>1, <2>2, <2>4
    <3>5. DataMoves(p, r, q, t.cause)
      BY Zenon, <3>1, <3>4 DEF DataMoves
    <3>6. Moves(p, r, q, t.cause)
      BY Zenon, <2>1, <3>5 DEF Moves
    <3>7. Writes(t, q)
      BY SMTT(40), <1>8, <1>10, <2>1, <3>2, <3>3 DEF Writes
    <3>8. q.n <= t.sent
      BY SMTT(40), <1>3, <1>8, <2>1, <3>2
    <3>9. QED
      BY SMTT(40), <3>2, <3>6, <3>7, <3>8
  <2>5. QED
    BY SMTT(40), <2>3, <2>4
<1>14. srv' = t
  BY SMTT(40), <1>2, <1>6
<1>15. /\ ServerOK(srv') /\ srv'.state # "start"
       /\ (srv'.state # "refused" => Base(srv') = Base(srv))
       /\ (srv.cause => srv'.cause) /\ srv.sent <= srv'.sent /\ Follows(srv, srv', r)
  <2>1. srv.cause => t.cause
    BY Zenon, <1>7
  <2>2. srv.sent <= t.sent
    BY SMTT(40), <1>3, <1>8
  <2>3. QED
    BY Zenon, <1>11, <1>12, <1>13, <1>14, <2>1, <2>2
<1>16. Inv'
  BY SMTT(40), <1>2, <1>5, <1>15, EmitStep
<1>17. Flows
  BY SMTT(40), <1>2, <1>8, <1>14 DEF Flows
<1>18. QED
  BY SMTT(40), <1>16, <1>17

LEMMA SeqPair ==
  ASSUME NEW s, IsSeq(s), NEW a, NEW b
  PROVE  s \o <<a, b>> = Append(Append(s, a), b) /\ s \o << >> = s /\ << >> \o s = s
<1>1. PICK S : s \in Seq(S)
  BY SMTT(40) DEF IsSeq
<1>2. s \in Seq(S \cup {a, b}) /\ a \in S \cup {a, b} /\ b \in S \cup {a, b}
  BY <1>1
<1>3. s \o << >> = s /\ << >> \o s = s
  BY SMTT(40), <1>2
<1>4. s \o <<a, b>> = Append(Append(s, a), b)
  <2>1. <<a, b>> = <<a>> \o <<b>>
    <3>1. /\ IsSeq(<<a>>) /\ Len(<<a>>) = 1 /\ <<a>>[1] = a /\ IsSeq(<<a, b>>)
          /\ Len(<<a, b>>) = 2 /\ <<a, b>>[1] = a /\ <<a, b>>[2] = b
      BY Zenon, SeqTuples
    <3>2. /\ IsSeq(Append(<<a>>, b)) /\ Len(Append(<<a>>, b)) = 2
          /\ Append(<<a>>, b)[1] = a /\ Append(<<a>>, b)[2] = b
      BY SMTT(40), <3>1, SeqAppend
    <3>3. PICK y, z : y = Append(<<a>>, b) /\ z = <<a, b>>
      BY Zenon
    <3>4. y = z
      <4>1. /\ IsSeq(y) /\ IsSeq(z) /\ Len(y) = 2 /\ Len(z) = 2 /\ y[1] = z[1]
            /\ y[2] = z[2]
        BY Zenon, <3>1, <3>2, <3>3
      <4>2. QED
        BY <4>1, SeqSame
    <3>5. QED
      BY Zenon, <3>1, <3>3, <3>4, SeqSingle
  <2>2. (s \o <<a>>) \o <<b>> = s \o (<<a>> \o <<b>>)
    BY SMTT(40), <1>2
  <2>3. s \o <<a>> = Append(s, a) /\ IsSeq(Append(s, a))
    BY SMTT(40), SeqSingle, SeqAppend
  <2>4. Append(s, a) \o <<b>> = Append(Append(s, a), b)
    BY SMTT(40), <2>3, SeqSingle
  <2>5. QED
    BY SMTT(40), <2>1, <2>2, <2>3, <2>4
<1>5. QED
  BY SMTT(40), <1>3, <1>4

(***************************************************************************)
(* The records that answer a ClientHello, each of one unit, one by one.    *)
(***************************************************************************)
Gets(c, busy, ds, un, cause, q) ==
  /\ IsSeq(ds) /\ Reach(c, busy, ds, un + Len(ds), cause, 0, q)
  /\ q \in Places /\ q.n = 0
Then(c, un, cause, p, r, q) ==
  /\ r.len = 1 /\ un \in Nat /\ c.rx_len \in Nat
  /\ q \in Places /\ q.n = 0 /\ Moves(p, r, q, cause)

LEMMA GetsNext ==
  ASSUME NEW c, NEW busy, NEW ds, NEW un, NEW cause, NEW p, NEW r, NEW q,
         Gets(c, busy, ds, un, cause, p), Then(c, un, cause, p, r, q)
  PROVE  Gets(c, busy, Append(ds, r), un, cause, q)
<1>1. IsSeq(ds) /\ un \in Nat /\ c.rx_len \in Nat /\ q \in Places /\ q.n = 0
  BY SMTT(40) DEF Gets, Then
<1>2. Len(ds) \in Nat
  BY SMTT(40), <1>1, SeqLen
<1>3. IsSeq(Append(ds, r)) /\ Len(Append(ds, r)) = Len(ds) + 1
  BY SMTT(40), <1>1, SeqAppend
<1>4. PICK m : m = un + Len(ds)
  BY Zenon
<1>5. m \in Nat /\ m + 1 = un + Len(Append(ds, r))
  BY <1>1, <1>2, <1>3, <1>4
<1>6. PICK k, zero : k = 1 /\ zero = 0
  BY SMTT(40)
<1>7. Reach(c, busy, ds, m, cause, zero, p)
  BY Zenon, <1>4, <1>6 DEF Gets
<1>8. Moves(p, r, q, cause) /\ r.len = k /\ q.n <= zero /\ zero \in Nat
  BY SMTT(40), <1>1, <1>6 DEF Then
<1>9. Adds(c, ds, m, cause, zero, p, r, q)
  BY Zenon, <1>1, <1>5, <1>8 DEF Adds
<1>10. Reach(c, busy, Append(ds, r), m + k, cause, zero, q)
  BY SMTT(40), <1>7, <1>8, <1>9, ReachAppend
<1>11. Reach(c, busy, Append(ds, r), un + Len(Append(ds, r)), cause, 0, q)
  BY Zenon, <1>5, <1>6, <1>10
<1>12. QED
  BY Zenon, <1>1, <1>3, <1>11 DEF Gets

EeMsg(elen) == Msg("EE", elen)
AnswerTail(elen, split) ==
  IF split THEN <<FlightRec(0, <<EeMsg(elen)>>), FlightRec(1, <<ServerFin>>)>>
           ELSE <<FlightRec(0, <<EeMsg(elen), ServerFin>>)>>
AnswerHead(sel, ccs) == <<Reply(sel)>> \o (IF ccs THEN <<Ccs>> ELSE << >>)
Answer(sel, elen, split, ccs) == AnswerHead(sel, ccs) \o AnswerTail(elen, split)

\* What the server checks, and records as a cause, before it answers.
Fits(p, sel, elen, cause) == /\ sel = "psk" \/ cause
                             /\ Room(p, 96 + elen + 36, cause)

LEMMA AnswerHeadGets ==
  ASSUME NEW c, NEW busy, NEW un \in Nat, NEW cause, NEW p \in Places,
         c.rx_len \in Nat, p.at = "hello", Gets(c, busy, << >>, un, cause, p),
         NEW sel \in Selections, NEW elen \in Nat, NEW ccs \in BOOLEAN,
         Fits(p, sel, elen, cause)
  PROVE  \E q \in Places : /\ Gets(c, busy, AnswerHead(sel, ccs), un, cause, q)
                           /\ q.at = "flight" /\ q.n = 0 /\ q.len = p.len + 96
<1>1. p.n = 0 /\ p.len \in Nat
  BY SMTT(40) DEF Gets, Places
<1>2. PICK q : q = To(p, "flight", 96, 1)
  BY Zenon
<1>3. q \in Places /\ q.at = "flight" /\ q.n = 0 /\ q.len = p.len + 96
  BY SMTT(40), <1>1, <1>2 DEF Places, To
<1>4. Then(c, un, cause, p, Reply(sel), q)
  <2>1. Room(p, 96, cause) /\ (sel = "psk" \/ cause)
    <3>1. TranscriptSize \in Nat
      BY SMTT(40) DEF TranscriptSize
    <3>2. p.len + (96 + elen + 36) <= TranscriptSize => p.len + 96 <= TranscriptSize
      BY <1>1, <3>1
    <3>3. QED
      BY Zenon, <3>2 DEF Fits, Room
  <2>2. HelloMoves(p, Reply(sel), q, cause)
    BY Zenon, <1>2, <2>1 DEF HelloMoves
  <2>3. Moves(p, Reply(sel), q, cause)
    BY Zenon, <2>2 DEF Moves
  <2>4. Reply(sel).len = 1
    BY SMTT(40) DEF Reply, Cleartext
  <2>5. QED
    BY Zenon, <1>3, <2>3, <2>4 DEF Then
<1>5. Gets(c, busy, Append(<< >>, Reply(sel)), un, cause, q)
  BY Zenon, <1>4, GetsNext
<1>6. Append(<< >>, Reply(sel)) = <<Reply(sel)>>
  BY SMTT(40)
<1>7. Gets(c, busy, <<Reply(sel)>>, un, cause, q) /\ IsSeq(<<Reply(sel)>>)
  BY Zenon, <1>5, <1>6 DEF Gets
<1>8. CASE ~ccs
  <2>1. AnswerHead(sel, ccs) = <<Reply(sel)>>
    BY SMTT(40), <1>7, <1>8, SeqPair DEF AnswerHead
  <2>2. QED
    BY Zenon, <1>3, <1>7, <2>1
<1>9. CASE ccs
  <2>1. AnswerHead(sel, ccs) = Append(<<Reply(sel)>>, Ccs)
    BY SMTT(40), <1>7, <1>9, SeqSingle DEF AnswerHead
  <2>2. PICK z : z = To(q, "flight", 0, 1)
    BY Zenon
  <2>3. z \in Places /\ z.at = "flight" /\ z.n = 0 /\ z.len = p.len + 96
    BY SMTT(40), <1>1, <1>3, <2>2 DEF Places, To
  <2>4. FlightMoves(q, Ccs, z, cause)
    BY Zenon, <2>2 DEF FlightMoves
  <2>5. Moves(q, Ccs, z, cause)
    BY Zenon, <1>3, <2>4 DEF Moves
  <2>6. Ccs.len = 1
    BY SMTT(40) DEF Ccs, Cleartext
  <2>7. Then(c, un, cause, q, Ccs, z)
    BY Zenon, <2>3, <2>5, <2>6 DEF Then
  <2>8. Gets(c, busy, Append(<<Reply(sel)>>, Ccs), un, cause, z)
    BY SMTT(40), <1>7, <2>7, GetsNext
  <2>9. QED
    BY Zenon, <2>1, <2>3, <2>8
<1>10. QED
  BY SMTT(40), <1>8, <1>9

LEMMA AnswerGets ==
  ASSUME NEW c, NEW busy, NEW un \in Nat, NEW cause, NEW p \in Places,
         c.rx_len \in Nat, p.at = "hello", Gets(c, busy, << >>, un, cause, p),
         NEW sel \in Selections, NEW elen \in ExtensionLens, NEW split \in BOOLEAN,
         NEW ccs \in BOOLEAN, Fits(p, sel, elen, cause)
  PROVE  \E q \in Places : /\ Gets(c, busy, Answer(sel, elen, split, ccs), un, cause, q)
                           /\ q.at = "data" /\ q.seq = 0 /\ q.n = 0
<1>1. elen \in Nat /\ p.len \in Nat /\ TranscriptSize \in Nat
  BY SMTT(40), ConstantsOK DEF Places, TranscriptSize
<1>2. PICK ds : ds = AnswerHead(sel, ccs)
  BY Zenon
<1>3. PICK z \in Places : /\ Gets(c, busy, ds, un, cause, z)
                          /\ z.at = "flight" /\ z.n = 0 /\ z.len = p.len + 96
  BY SMTT(40), <1>1, <1>2, AnswerHeadGets
<1>4. IsSeq(ds) /\ Answer(sel, elen, split, ccs) = ds \o AnswerTail(elen, split)
  BY Zenon, <1>2, <1>3 DEF Gets, Answer
<1>5. Room(z, elen + 36, cause)
  <2>1. p.len + (96 + elen + 36) <= TranscriptSize => z.len + (elen + 36) <= TranscriptSize
    BY SMTT(40), <1>1, <1>3
  <2>2. QED
    BY Zenon, <2>1 DEF Fits, Room
<1>6. CASE ~split
  <2>1. PICK r : r = FlightRec(0, <<EeMsg(elen), ServerFin>>)
    BY Zenon
  <2>2. Answer(sel, elen, split, ccs) = Append(ds, r)
    BY SMTT(40), <1>4, <1>6, <2>1, SeqSingle DEF AnswerTail
  <2>3. PICK q : q = To(z, "data", elen + 36, 1)
    BY Zenon
  <2>4. q \in Places /\ q.at = "data" /\ q.seq = 0 /\ q.n = 0
    BY <1>1, <1>3, <2>3 DEF Places, To
  <2>5. FlightMoves(z, r, q, cause)
    BY Zenon, <1>5, <2>1, <2>3 DEF FlightMoves, EeMsg
  <2>6. Moves(z, r, q, cause)
    BY Zenon, <1>3, <2>5 DEF Moves
  <2>7. r.len = 1
    BY SMTT(40), <2>1 DEF FlightRec, Ciphertext
  <2>8. Then(c, un, cause, z, r, q)
    BY Zenon, <2>4, <2>6, <2>7 DEF Then
  <2>9. Gets(c, busy, Append(ds, r), un, cause, q)
    BY SMTT(40), <1>3, <2>8, GetsNext
  <2>10. QED
    BY Zenon, <2>2, <2>4, <2>9
<1>7. CASE split
  <2>1. PICK r, s : r = FlightRec(0, <<EeMsg(elen)>>) /\ s = FlightRec(1, <<ServerFin>>)
    BY SMTT(40)
  <2>2. Answer(sel, elen, split, ccs) = Append(Append(ds, r), s)
    BY SMTT(40), <1>4, <1>7, <2>1, SeqPair DEF AnswerTail
  <2>3. PICK y, q : /\ y = [To(z, "fin", elen, 1) EXCEPT !.seq = 1]
                    /\ q = To(y, "data", 36, 1)
    BY Zenon
  <2>4. y \in Places /\ y.at = "fin" /\ y.n = 0 /\ y.len = z.len + elen
    <3>1. z.n \in Nat /\ z.off \in Nat /\ z.len \in Nat
      BY SMTT(40), <1>3 DEF Places
    <3>2. y = [at |-> "fin", seq |-> 1, n |-> z.n, off |-> z.off + 1, len |-> z.len + elen]
      BY SMTT(40), <2>3 DEF To
    <3>3. QED
      BY SMTT(40), <1>1, <1>3, <3>1, <3>2 DEF Places
  <2>5. q \in Places /\ q.at = "data" /\ q.seq = 0 /\ q.n = 0
    <3>1. y.off \in Nat /\ y.len \in Nat
      BY SMTT(40), <2>4 DEF Places
    <3>2. q = [at |-> "data", seq |-> 0, n |-> y.n, off |-> y.off + 1, len |-> y.len + 36]
      BY <2>3 DEF To
    <3>3. QED
      BY <2>4, <3>1, <3>2 DEF Places
  <2>6. FlightMoves(z, r, y, cause)
    BY Zenon, <1>5, <2>1, <2>3 DEF FlightMoves, EeMsg
  <2>7. Moves(z, r, y, cause)
    BY Zenon, <1>3, <2>6 DEF Moves
  <2>8. Room(y, 36, cause)
    <3>1. z.len + (elen + 36) <= TranscriptSize => y.len + 36 <= TranscriptSize
      BY SMTT(40), <1>1, <1>3, <2>4
    <3>2. QED
      BY Zenon, <1>5, <3>1 DEF Room
  <2>9. FinMoves(y, s, q, cause)
    BY Zenon, <2>1, <2>3, <2>8 DEF FinMoves
  <2>10. Moves(y, s, q, cause)
    BY Zenon, <2>4, <2>9 DEF Moves
  <2>11. r.len = 1 /\ s.len = 1
    BY SMTT(40), <2>1 DEF FlightRec, Ciphertext
  <2>12. Then(c, un, cause, z, r, y) /\ Then(c, un, cause, y, s, q)
    BY Zenon, <2>4, <2>5, <2>7, <2>10, <2>11 DEF Then
  <2>13. Gets(c, busy, Append(ds, r), un, cause, y)
    BY SMTT(40), <1>3, <2>12, GetsNext
  <2>14. Gets(c, busy, Append(Append(ds, r), s), un, cause, q)
    BY SMTT(40), <2>12, <2>13, GetsNext
  <2>15. QED
    BY Zenon, <2>2, <2>5, <2>14
<1>8. QED
  BY SMTT(40), <1>6, <1>7

\* The two forms of the server's answer, with the key it holds.
Secret(psk) == HandshakeExchange(EarlySecret(psk), "sk", "ck")
SentFin(psk) ==
  [Msg("FIN", 36) EXCEPT
     !.mac = FinishedMac(DeriveSecret(Secret(psk), "s hs traffic", Hellos),
                         Append(Hellos, "EE"))]
SentRec(psk, q, msgs) ==
  Ciphertext(Seal(TrafficKey(DeriveSecret(Secret(psk), "s hs traffic", Hellos)),
                  q, "handshake", Body(msgs, 0)), 1)
SentTail(psk, elen, split) ==
  IF split THEN <<SentRec(psk, 0, <<EeMsg(elen)>>), SentRec(psk, 1, <<SentFin(psk)>>)>>
           ELSE <<SentRec(psk, 0, <<EeMsg(elen), SentFin(psk)>>)>>
Sent(psk, sel, elen, split, ccs) == AnswerHead(sel, ccs) \o SentTail(psk, elen, split)

LEMMA ScriptTerms ==
  Append(Hellos, "EE") = Flight /\ Hellos \o <<"EE", "FIN">> = Whole
<1>1. Append(Hellos, "EE") = Flight
  BY Zenon, TranscriptSteps
<1>2. Hellos \o <<"EE", "FIN">> = Append(Append(Hellos, "EE"), "FIN")
  BY SMTT(40), SeqPair, SeqTuples DEF Hellos
<1>3. Append(Flight, "FIN") = Whole
  BY Zenon, TranscriptSteps
<1>4. QED
  BY Zenon, <1>1, <1>2, <1>3

LEMMA SecretTerm == Secret(Psk) = HsSecret
<1>1. {"sk", "ck"} = {"ck", "sk"}
  BY SMTT(40)
<1>2. QED
  BY Zenon, <1>1 DEF Secret, HsSecret, HandshakeExchange, SharedSecret

LEMMA SentIsAnswer ==
  ASSUME NEW sel, NEW elen, NEW split \in BOOLEAN, NEW ccs
  PROVE  Sent(Psk, sel, elen, split, ccs) = Answer(sel, elen, split, ccs)
<1>1. SentFin(Psk) = ServerFin
  BY Zenon, SecretTerm, ScriptTerms DEF SentFin, ServerFin, ServerHs
<1>2. \A q, msgs : SentRec(Psk, q, msgs) = FlightRec(q, msgs)
  BY SMTT(40), SecretTerm DEF SentRec, FlightRec, ServerHs
<1>3. SentTail(Psk, elen, split) = AnswerTail(elen, split)
  BY Zenon, <1>1, <1>2 DEF SentTail, AnswerTail
<1>4. QED
  BY <1>3 DEF Sent, Answer

\* The server's state once it has accepted a ClientHello of len bytes.
Accepting(s, sel, elen, len) ==
  LET whole == Hellos \o <<"EE", "FIN">>
      chs == DeriveSecret(Secret(s.psk), "c hs traffic", Hellos)
      master == MasterSecret(Secret(s.psk))
  IN [s EXCEPT !.state = "flight",
               !.cause = sel # "psk" \/ len + 96 + elen + 36 > TranscriptSize,
               !.hs = <<chs, whole>>,
               !.rx = [k |-> TrafficKey(chs), seq |-> 0],
               !.ap = DeriveSecret(master, "c ap traffic", whole),
               !.tx = [k |-> TrafficKey(DeriveSecret(master, "s ap traffic", whole)),
                       seq |-> 0]]

LEMMA SrvHelloForms ==
  ASSUME NEW sel, NEW elen, NEW split, NEW ccs, SrvHello(sel, elen, split, ccs),
         NEW ch, ch = Head(tls.out).frag.data.msgs[1],
         NEW rs, rs = Sent(srv.psk, sel, elen, split, ccs)
  PROVE  /\ srv.state = "start" /\ SrvRead
         /\ \/ /\ SrvEmit(<<Alert>>, 1)
               /\ srv' = [srv EXCEPT !.state = "refused", !.cause = TRUE]
            \/ /\ ch.mac = HelloMac(srv.psk) /\ SrvEmit(rs, Len(rs))
               /\ srv' = Accepting(srv, sel, elen, ch.len)
BY Zenon DEF SrvHello, Sent, SentTail, SentRec, SentFin, EeMsg, AnswerHead, Reply, ShMsg,
             Ccs, Alert, HelloMac, Accepting, Secret, Hellos

LEMMA MacKey ==
  ASSUME NEW psk, HelloMac(psk) = HelloMac(Psk)
  PROVE  psk = Psk
BY SMTT(40) DEF HelloMac, Binder, FinishedMac, DeriveSecret, ExpandLabel, EarlySecret

\* The record that the server reads first is the client's ClientHello.
LEMMA HelloRead ==
  ASSUME Inv, SrvRead, srv.state = "start", NEW ch, ch = Head(tls.out).frag.data.msgs[1]
  PROVE  ch.mac = HelloMac(Psk) /\ ch.len = HelloLen(tls.idlen)
<1>1. /\ tls.out # << >> /\ Head(tls.out) = tls.out[1]
  BY SMTT(40), ReadFields
<1>2. IsSeq(tls.out) /\ Up(tls, srv)
  BY Zenon DEF Inv, ConnOK
<1>3. Len(tls.out) \in Nat \ {0}
  BY SMTT(40), <1>1, <1>2, SeqTail
<1>4. 1 \in 1..Len(tls.out) /\ Base(srv) + 1 = 1
  BY SMTT(40), <1>3 DEF Base
<1>5. tls.out[1] = UpRec(tls.idlen, 1)
  BY SMTT(40), <1>2, <1>4 DEF Up
<1>6. tls.out[1] = HelloRec(tls.idlen)
  BY SMTT(40), <1>5 DEF UpRec
<1>7. PICK m : m = [Msg("CH", HelloLen(tls.idlen)) EXCEPT !.mac = HelloMac(Psk)]
  BY Zenon
<1>8. m.mac = HelloMac(Psk) /\ m.len = HelloLen(tls.idlen)
  BY <1>7 DEF Msg
<1>9. HelloRec(tls.idlen) = Cleartext("handshake", <<m>>, 1)
  BY <1>7 DEF HelloRec
<1>10. ch = m
  BY SMTT(40), <1>1, <1>6, <1>9 DEF Cleartext, Body
<1>11. QED
  BY SMTT(40), <1>8, <1>10

\* Where the client stands before the server has sent anything.
LEMMA AtHello ==
  ASSUME NEW c, NEW busy, NEW un, NEW cause, NEW sent, NEW p, p.at = "hello",
         Reach(c, busy, << >>, un, cause, sent, p)
  PROVE  p.len = HelloLen(c.idlen)
<1>1. PICK pos : Path(pos, c, busy, << >>, un, cause, sent) /\ pos[Len(<< >>) + 1] = p
  BY SMTT(40) DEF Reach
<1>2. Len(<< >>) + 1 = 1
  OBVIOUS
<1>3. Reads(c, p)
  BY <1>1, <1>2 DEF Path
<1>4. QED
  BY SMTT(40), <1>3 DEF Reads

LEMMA RefuseStep ==
  ASSUME Inv, SrvRead, srv.state = "start", SrvEmit(<<Alert>>, 1),
         srv' = [srv EXCEPT !.state = "refused", !.cause = TRUE]
  PROVE  Inv' /\ Flows
<1>1. /\ ServerOK(srv) /\ down = << >> /\ net \in Nat /\ srv.sent = 0 /\ srv.got = << >>
      /\ tls.rx_len \in Nat
  BY SMTT(40) DEF Inv, ServerOK, ConnOK
<1>2. PICK t : t = [srv EXCEPT !.state = "refused", !.cause = TRUE]
  BY Zenon
<1>3. /\ t = [f \in ServerFields |-> t[f]] /\ SrvKeeps(srv, t, {"state", "cause"})
      /\ t.state = "refused" /\ t.cause = TRUE
  BY Zenon, <1>1, <1>2 DEF ServerOK, ServerFields, SrvKeeps
<1>4. /\ t.sent = srv.sent /\ t.got = srv.got /\ t.tx = srv.tx /\ t.rx = srv.rx
  BY Zenon, <1>3 DEF SrvKeeps, ServerFields
<1>5. ServerOK(t)
  BY SMTT(40), <1>1, <1>3, <1>4 DEF ServerOK
<1>6. srv' = t
  BY SMTT(40), <1>2
<1>7. down' = Append(down, Alert) /\ net' = net + 1 /\ IsSeq(down) /\ IsSeq(down')
  <2>1. IsSeq(down)
    BY SMTT(40), <1>1, SeqTuples
  <2>2. down' = down \o <<Alert>> /\ net' = net + 1
    BY SMTT(40) DEF SrvEmit
  <2>3. down \o <<Alert>> = Append(down, Alert) /\ IsSeq(Append(down, Alert))
    BY <2>1, SeqSingle, SeqAppend
  <2>4. QED
    BY Zenon, <2>1, <2>2, <2>3
<1>8. ASSUME Connected(tls, rx)
      PROVE  \E pos : Route(pos, tls, rx.busy, down', net', srv')
  <2>1. PICK pos : Route(pos, tls, rx.busy, down, net, srv)
    BY SMTT(40), <1>8 DEF Inv
  <2>2. PICK busy, ds, un, cause, sent, more, k :
          /\ busy = rx.busy /\ ds = down /\ un = net /\ cause = srv.cause
          /\ sent = srv.sent /\ more = TRUE /\ k = 1
    BY SMTT(40)
  <2>3. PICK p \in Places : /\ Reach(tls, busy, ds, un, cause, sent, p)
                            /\ Writes(srv, p) /\ p.n <= sent
    BY <1>7, <2>1, <2>2, RouteEnds
  <2>4. p.at = "hello" /\ p.n = 0
    BY SMTT(40), <2>3 DEF Writes
  <2>5. PICK q : q = To(p, "end", 0, 1)
    BY Zenon
  <2>6. q \in Places /\ q.n <= sent /\ sent \in Nat
    BY <1>1, <2>2, <2>4, <2>5 DEF Places, To
  <2>7. HelloMoves(p, Alert, q, more)
    BY Zenon, <2>2, <2>5 DEF HelloMoves
  <2>8. Moves(p, Alert, q, more)
    BY Zenon, <2>4, <2>7 DEF Moves
  <2>9. Reach(tls, busy, ds, un, more, sent, p)
    <3>1. IsSeq(ds) /\ sent <= sent
      BY SMTT(40), <1>7, <2>2, <2>6
    <3>2. cause => more
      BY Zenon, <2>2
    <3>3. QED
      BY SMTT(40), <2>3, <2>6, <3>1, <3>2, ReachMore
  <2>10. Adds(tls, ds, un, more, sent, p, Alert, q)
    BY SMTT(40), <1>1, <1>7, <2>2, <2>6, <2>8 DEF Adds
  <2>11. Alert.len = k
    BY SMTT(40), <2>2 DEF Alert, Cleartext
  <2>12. Reach(tls, busy, Append(ds, Alert), un + k, more, sent, q)
    BY <2>9, <2>10, <2>11, ReachAppend
  <2>13. PICK ds2, un2 : ds2 = Append(ds, Alert) /\ un2 = un + k
    BY Zenon
  <2>14. Writes(t, q) /\ more = t.cause /\ sent = t.sent
    BY Zenon, <1>3, <1>4, <2>2 DEF Writes
  <2>15. \E ps : Route(ps, tls, busy, ds2, un2, t)
    BY Zenon, <2>12, <2>13, <2>14, RouteFrom
  <2>16. QED
    BY SMTT(40), <1>6, <1>7, <2>2, <2>13, <2>15
<1>9. net' \in Nat /\ srv'.state = "refused" /\ srv'.cause
  BY SMTT(40), <1>1, <1>3, <1>6, <1>7
<1>10. Inv' /\ tls'.sent = tls.sent /\ tls'.got = tls.got /\ tls'.phase = tls.phase
  BY SMTT(40), <1>5, <1>6, <1>7, <1>8, <1>9, ReadStep
<1>11. Flows
  BY SMTT(40), <1>4, <1>6, <1>10 DEF Flows
<1>12. QED
  BY SMTT(40), <1>10, <1>11

\* What the server holds once it has accepted the ClientHello of a client
\* with its key.
LEMMA AcceptingFields ==
  ASSUME NEW s, ServerOK(s), s.psk = Psk, s.state = "start",
         NEW sel, NEW elen, NEW len, NEW t, t = Accepting(s, sel, elen, len)
  PROVE  /\ ServerOK(t) /\ t.state = "flight" /\ t.sent = 0 /\ t.got = << >>
         /\ t.tx.seq = 0
         /\ t.cause = (sel # "psk" \/ len + 96 + elen + 36 > TranscriptSize)
<1>1. /\ t = [f \in ServerFields |-> t[f]] /\ t.state = "flight"
      /\ SrvKeeps(s, t, {"state", "cause", "hs", "rx", "ap", "tx"})
      /\ t.cause = (sel # "psk" \/ len + 96 + elen + 36 > TranscriptSize)
  BY Zenon DEF ServerOK, ServerFields, SrvKeeps, Accepting
<1>2. t.sent = s.sent /\ t.got = s.got
  BY Zenon, <1>1 DEF SrvKeeps, ServerFields
<1>3. s.sent = 0 /\ s.got = << >> /\ IsSeq(s.got)
  BY SMTT(40) DEF ServerOK
<1>4. /\ t.hs = <<ClientHs, Whole>> /\ t.ap = ClientAp
      /\ t.rx = [k |-> TrafficKey(ClientHs), seq |-> 0]
      /\ t.tx = [k |-> TrafficKey(ServerAp), seq |-> 0]
  <2>1. Secret(s.psk) = HsSecret /\ Hellos \o <<"EE", "FIN">> = Whole
    BY Zenon, SecretTerm, ScriptTerms
  <2>2. t = [s EXCEPT !.state = "flight",
               !.cause = sel # "psk" \/ len + 96 + elen + 36 > TranscriptSize,
               !.hs = <<ClientHs, Whole>>,
               !.rx = [k |-> TrafficKey(ClientHs), seq |-> 0],
               !.ap = ClientAp,
               !.tx = [k |-> TrafficKey(ServerAp), seq |-> 0]]
    BY Zenon, <2>1 DEF Accepting, ClientHs, ClientAp, ServerAp
  <2>3. QED
    BY Zenon, <2>2 DEF ServerOK, ServerFields
<1>5. /\ t.tx = [k |-> t.tx.k, seq |-> t.tx.seq] /\ t.tx.seq = 0
      /\ t.rx = [k |-> t.rx.k, seq |-> t.rx.seq] /\ t.tx.k = TrafficKey(ServerAp)
  BY SMTT(40), <1>4
<1>6. ServerOK(t)
  BY Zenon, <1>1, <1>2, <1>3, <1>4, <1>5 DEF ServerOK
<1>7. QED
  BY Zenon, <1>1, <1>2, <1>3, <1>5, <1>6

LEMMA AcceptStep ==
  ASSUME Inv, SrvRead, srv.state = "start", srv.psk = Psk, NEW sel \in Selections,
         NEW elen \in ExtensionLens, NEW split \in BOOLEAN, NEW ccs \in BOOLEAN, NEW rs,
         rs = Answer(sel, elen, split, ccs), SrvEmit(rs, Len(rs)),
         srv' = Accepting(srv, sel, elen, HelloLen(tls.idlen))
  PROVE  Inv' /\ Flows
<1>1. /\ ServerOK(srv) /\ down = << >> /\ net \in Nat /\ srv.sent = 0 /\ srv.got = << >>
      /\ tls.rx_len \in Nat /\ ~srv.cause
  BY SMTT(40) DEF Inv, ServerOK, ConnOK
<1>2. PICK t, len : len = HelloLen(tls.idlen) /\ t = Accepting(srv, sel, elen, len)
  OBVIOUS
<1>3. /\ ServerOK(t) /\ t.state = "flight" /\ t.sent = 0 /\ t.got = << >>
      /\ t.tx.seq = 0
      /\ t.cause = (sel # "psk" \/ len + 96 + elen + 36 > TranscriptSize)
  BY SMTT(40), <1>1, <1>2, AcceptingFields
<1>4. srv' = t
  BY SMTT(40), <1>2
<1>5. IsSeq(rs) /\ IsSeq(down)
  <2>1. IsSeq(down)
    BY SMTT(40), <1>1, SeqTuples
  <2>2. IsSeq(AnswerHead(sel, ccs)) /\ IsSeq(AnswerTail(elen, split))
    <3>1. IsSeq(AnswerTail(elen, split))
      BY Zenon, SeqTuples DEF AnswerTail
    <3>2. IsSeq(<<Reply(sel)>>) /\ IsSeq(<<Ccs>>) /\ IsSeq(<< >>)
      BY Zenon, SeqTuples
    <3>3. IsSeq(AnswerHead(sel, ccs))
      BY SMTT(40), <3>2, SeqConcat DEF AnswerHead
    <3>4. QED
      BY SMTT(40), <3>1, <3>3
  <2>3. QED
    BY SMTT(40), <2>1, <2>2, SeqConcat DEF Answer
<1>6. down' = rs /\ net' = net + Len(rs) /\ Len(rs) \in Nat
  BY SMTT(40), <1>1, <1>5, SeqPair, SeqLen DEF SrvEmit
<1>7. ASSUME Connected(tls, rx)
      PROVE  \E pos : Route(pos, tls, rx.busy, down', net', srv')
  <2>1. PICK pos : Route(pos, tls, rx.busy, down, net, srv)
    BY SMTT(40), <1>7 DEF Inv
  <2>2. PICK busy, ds, un, cause, sent, more :
          /\ busy = rx.busy /\ ds = down /\ un = net /\ cause = srv.cause
          /\ sent = srv.sent /\ more = t.cause
    BY SMTT(40)
  <2>3. PICK p \in Places : /\ Reach(tls, busy, ds, un, cause, sent, p)
                            /\ Writes(srv, p) /\ p.n <= sent
    BY SMTT(40), <1>5, <2>1, <2>2, RouteEnds
  <2>4. p.at = "hello" /\ p.n = 0 /\ p.len \in Nat
    BY Zenon, <2>3 DEF Writes, Places
  <2>5. Reach(tls, busy, ds, un, more, sent, p)
    BY <1>1, <1>5, <2>2, <2>3, ReachMore
  <2>6. p.len = len
    BY SMTT(40), <1>1, <1>2, <2>2, <2>3, <2>4, AtHello
  <2>7. Gets(tls, busy, << >>, un, more, p)
    <3>1. un + Len(<< >>) = un /\ IsSeq(<< >>)
      BY SMTT(40), <1>1, <2>2, SeqTuples
    <3>2. QED
      BY Zenon, <1>1, <2>2, <2>4, <2>5, <3>1 DEF Gets
  <2>8. Fits(p, sel, elen, more)
    <3>1. elen \in Nat /\ TranscriptSize \in Nat
      BY SMTT(40), ConstantsOK DEF TranscriptSize
    <3>2. \/ p.len + (96 + elen + 36) <= TranscriptSize
          \/ len + 96 + elen + 36 > TranscriptSize
      BY SMTT(40), <2>4, <2>6, <3>1
    <3>3. QED
      BY Zenon, <1>3, <2>2, <3>2 DEF Fits, Room
  <2>9. PICK q \in Places : /\ Gets(tls, busy, rs, un, more, q)
                            /\ q.at = "data" /\ q.seq = 0 /\ q.n = 0
    <3>1. /\ un \in Nat /\ tls.rx_len \in Nat /\ sel \in Selections
          /\ elen \in ExtensionLens /\ split \in BOOLEAN /\ ccs \in BOOLEAN
          /\ p \in Places /\ p.at = "hello"
      BY Zenon, <1>1, <2>2, <2>3, <2>4
    <3>2. \E q \in Places : /\ Gets(tls, busy, Answer(sel, elen, split, ccs), un, more, q)
                            /\ q.at = "data" /\ q.seq = 0 /\ q.n = 0
      BY SMTT(40), <2>7, <2>8, <3>1, AnswerGets
    <3>3. QED
      BY Zenon, <1>1, <3>2
  <2>10. PICK un2, zero : un2 = un + Len(rs) /\ zero = 0
    BY SMTT(40)
  <2>11. Reach(tls, busy, rs, un2, more, zero, q)
    BY Zenon, <2>9, <2>10 DEF Gets
  <2>12. Writes(t, q) /\ more = t.cause /\ zero = t.sent
    BY SMTT(40), <1>3, <2>2, <2>9, <2>10 DEF Writes
  <2>13. \E ps : Route(ps, tls, busy, rs, un2, t)
    BY Zenon, <2>11, <2>12, RouteFrom
  <2>14. QED
    BY SMTT(40), <1>4, <1>6, <2>2, <2>10, <2>13
<1>8. /\ ServerOK(srv') /\ srv'.state = "flight" /\ Base(srv') = Base(srv) + 1
      /\ IsSeq(down') /\ net' \in Nat
  BY SMTT(40), <1>1, <1>3, <1>4, <1>5, <1>6 DEF Base
<1>9. Inv' /\ tls'.sent = tls.sent /\ tls'.got = tls.got /\ tls'.phase = tls.phase
  BY Zenon, <1>1, <1>7, <1>8, ReadStep
<1>10. Flows
  BY Zenon, <1>1, <1>3, <1>4, <1>9 DEF Flows
<1>11. QED
  BY SMTT(40), <1>9, <1>10

\* The server answers the ClientHello.
LEMMA HelloStep ==
  ASSUME Inv, NEW sel \in Selections, NEW elen \in ExtensionLens,
         NEW split \in BOOLEAN, NEW ccs \in BOOLEAN, SrvHello(sel, elen, split, ccs)
  PROVE  Inv' /\ Flows
<1>1. PICK ch, rs : /\ ch = Head(tls.out).frag.data.msgs[1]
                    /\ rs = Sent(srv.psk, sel, elen, split, ccs)
  BY SMTT(40)
<1>2. /\ srv.state = "start" /\ SrvRead
      /\ \/ /\ SrvEmit(<<Alert>>, 1)
            /\ srv' = [srv EXCEPT !.state = "refused", !.cause = TRUE]
         \/ /\ ch.mac = HelloMac(srv.psk) /\ SrvEmit(rs, Len(rs))
            /\ srv' = Accepting(srv, sel, elen, ch.len)
  BY SMTT(40), <1>1, SrvHelloForms
<1>3. ASSUME SrvEmit(<<Alert>>, 1), srv' = [srv EXCEPT !.state = "refused", !.cause = TRUE]
      PROVE  Inv' /\ Flows
  BY SMTT(40), <1>2, <1>3, RefuseStep
<1>4. ASSUME ch.mac = HelloMac(srv.psk), SrvEmit(rs, Len(rs)),
             srv' = Accepting(srv, sel, elen, ch.len)
      PROVE  Inv' /\ Flows
  <2>1. ch.mac = HelloMac(Psk) /\ ch.len = HelloLen(tls.idlen)
    BY Zenon, <1>1, <1>2, HelloRead
  <2>2. srv.psk = Psk
    BY Zenon, <1>4, <2>1, MacKey
  <2>3. rs = Answer(sel, elen, split, ccs)
    BY SMTT(40), <1>1, <2>2, SentIsAnswer
  <2>4. srv' = Accepting(srv, sel, elen, HelloLen(tls.idlen))
    BY SMTT(40), <1>4, <2>1
  <2>5. QED
    BY SMTT(40), <1>2, <1>4, <2>2, <2>3, <2>4, AcceptStep
<1>5. QED
  BY Zenon, <1>2, <1>3, <1>4
=============================================================================
