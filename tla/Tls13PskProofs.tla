--------------------------- MODULE Tls13PskProofs ---------------------------
(***************************************************************************)
(* Proofs about Tls13Psk, for every size of buffer, segment and record,    *)
(* every number of messages and every interleaving: the connection is      *)
(* well-formed, no nonce is used twice, the server opens every record, the *)
(* connection fails only for a cause outside the filter, and the filter    *)
(* implements SecureStream.                                                *)
(***************************************************************************)
EXTENDS Tls13PskRecords, Tls13PskServer

-----------------------------------------------------------------------------
(* The steps of the client that open or seal a record *)

LEMMA RefusedOK ==
  ASSUME NEW c, NEW d, NEW s, ConnOK(c), Up(c, s), Refused(c, d)
  PROVE  /\ ConnOK(d) /\ Up(d, s) /\ Keeps(c, d, {"unacked", "rc", "hs", "rx"})
<1>1. /\ d.tx = c.tx /\ d.txbuf = c.txbuf /\ d.rx_len = c.rx_len
      /\ d.sent = c.sent /\ d.idlen = c.idlen /\ d.out = c.out
      /\ d.got = c.got /\ d.sealed = c.sealed /\ d.phase = c.phase
      /\ d.plugged = c.plugged
  BY Zenon DEF Refused, Keeps, Fields
<1>2. IsConn(d) /\ d.hs.len \in 0..TranscriptSize /\ d.rx.seq \in Nat
  BY DEF Refused
<1>3. ConnOK(d)
  BY SMTT(40), <1>1, <1>2 DEF ConnOK
<1>4. Up(d, s)
  BY Zenon, <1>1, UpSame DEF Written
<1>5. Keeps(c, d, {"unacked", "rc", "hs", "rx"})
  BY Zenon DEF Refused, Keeps
<1>6. QED
  BY SMTT(40), <1>3, <1>4, <1>5

\* A record that was accepted leaves the buffer, and tls13_psk_tx() runs.
Taken(d, n) == [d EXCEPT !.rx_len = @ - n]
Taking(d, s, q, n, due) ==
  /\ ConnOK(d) /\ Sends(d, due) /\ Up(d, s) /\ ServerOK(s) /\ Reads(d, q)
  /\ d.phase # "CLIENT_HELLO" /\ (d.phase = "SERVER_FLIGHT" => d.txbuf = << >>)
  /\ n \in Nat /\ n <= d.rx_len /\ due \in BOOLEAN
Took(d, e, s, q, n, mem) ==
  /\ ConnOK(e) /\ Sends(e, FALSE) /\ Up(e, s) /\ Reads(e, q)
  /\ e.rx_len = d.rx_len - n /\ e.rc = d.rc /\ e.idlen = d.idlen
  /\ e.sent = d.sent /\ e.got = d.got /\ e.phase # "CLIENT_HELLO"
  /\ e.phase = "SERVER_FLIGHT" => e.txbuf = << >>
  /\ e.phase = "FAILED" => d.phase = "FAILED" \/ ~mem
  /\ d.phase = "FAILED" => e.phase = "FAILED"
LEMMA TakenOK ==
  ASSUME NEW d, NEW s, NEW q, NEW n, NEW mem, NEW due, NEW e,
         Taking(d, s, q, n, due), e = Tx(Taken(d, n), mem)
  PROVE  Took(d, e, s, q, n, mem)
<1>0. /\ ConnOK(d) /\ Sends(d, due) /\ Up(d, s) /\ ServerOK(s) /\ Reads(d, q)
      /\ d.phase # "CLIENT_HELLO" /\ (d.phase = "SERVER_FLIGHT" => d.txbuf = << >>)
      /\ n \in Nat /\ n <= d.rx_len /\ due \in BOOLEAN
  BY SMTT(40) DEF Taking
<1>1. PICK f : f = Taken(d, n)
  BY Zenon
<1>2. PICK g : g = Tx(f, mem)
  BY Zenon
<1>3. IsConn(d) /\ d.rx_len \in 0..MaxRecord /\ MaxRecord \in Nat /\ d.phase \in Phases
  BY SMTT(40), <1>0, ConstantsOK DEF ConnOK
<1>4. f = [x \in Fields |-> f[x]] /\ Keeps(d, f, {"rx_len"}) /\ f.rx_len = d.rx_len - n
  BY Zenon, <1>1, <1>3 DEF IsConn, Fields, Keeps, Taken
<1>5. /\ f.hs = d.hs /\ f.tx = d.tx /\ f.txbuf = d.txbuf
      /\ f.rx = d.rx /\ f.sent = d.sent /\ f.idlen = d.idlen /\ f.out = d.out
      /\ f.got = d.got /\ f.sealed = d.sealed /\ f.phase = d.phase
      /\ f.plugged = d.plugged /\ f.sec = d.sec /\ f.rc = d.rc
  BY Zenon, <1>4 DEF Keeps, Fields
<1>6. IsConn(f)
  BY Zenon, <1>3, <1>4, <1>5 DEF IsConn
<1>7. f.rx_len \in 0..MaxRecord
  BY SMTT(40), <1>0, <1>3, <1>4
<1>8. ConnOK(f)
  BY Zenon, <1>0, <1>5, <1>6, <1>7 DEF ConnOK
<1>9. Sends(f, due)
  BY Zenon, <1>0, <1>5 DEF Sends
<1>10. Up(f, s)
  BY ZenonT(40), <1>0, <1>5, UpSame DEF Written
<1>11. Reads(f, q)
  BY Zenon, <1>0, <1>5 DEF Reads, HasHsKeys
<1>12. f.phase # "CLIENT_HELLO" /\ f.phase \in Phases
  BY SMTT(40), <1>0, <1>3, <1>5
<1>13. ConnOK(g) /\ Sends(g, FALSE) /\ Up(g, s) /\ Keeps(f, g, TxFields)
  BY Zenon, <1>0, <1>2, <1>8, <1>9, <1>10, <1>12, TxOK
<1>14. g.phase = "FAILED" => f.phase = "FAILED" \/ ~mem
  <2>1. g.phase = "FAILED" => \/ f.phase = "FAILED"
                              \/ f.phase = "CLIENT_FINISHED" /\ ~mem
    BY Zenon, <1>0, <1>2, <1>8, <1>9, <1>10, <1>12, TxOK
  <2>2. QED
    BY SMTT(40), <2>1
<1>15. f.phase = "FAILED" => g = f
  BY SMTT(40), <1>2 DEF Tx
<1>16. /\ f.phase = "SERVER_FLIGHT" =>
            /\ g.phase = "SERVER_FLIGHT" /\ g.tx = f.tx
            /\ f.txbuf = << >> => g.txbuf = << >>
       /\ f.phase \in {"CLIENT_FINISHED", "DATA"} =>
            g.phase \in {"CLIENT_FINISHED", "DATA", "FAILED"}
  BY Zenon, <1>0, <1>2, <1>8, <1>9, <1>10, <1>12, TxOK
<1>17. Reads(g, q)
  BY SMTT(40), <1>11, <1>12, <1>13, <1>15, <1>16, ReadsTx
<1>18. /\ g.rx_len = f.rx_len /\ g.rc = f.rc /\ g.idlen = f.idlen
       /\ g.sent = f.sent /\ g.got = f.got
  BY Zenon, <1>13 DEF Keeps, Fields, TxFields
<1>19. g.phase # "CLIENT_HELLO" /\ (g.phase = "SERVER_FLIGHT" => g.txbuf = << >>)
  BY SMTT(40), <1>0, <1>5, <1>12, <1>15, <1>16 DEF Phases
<1>20. e = g
  BY SMTT(40), <1>1, <1>2
<1>21. QED
  BY Zenon, <1>4, <1>5, <1>13, <1>14, <1>15, <1>17, <1>18, <1>19, <1>20 DEF Took

LEMMA RecordStep ==
  ASSUME Inv, NEW mem \in BOOLEAN, NEW answer \in Answers, RxRecord(mem, answer)
  PROVE  Inv' /\ Flows
<1>1. /\ ConnOK(tls) /\ Sends(tls, FALSE) /\ Up(tls, srv) /\ ServerOK(srv)
      /\ IsSeq(down) /\ net \in Nat /\ budget \in Budgets /\ Answered(tls, srv)
  BY Zenon DEF Inv
<1>2. rx.busy /\ tls.rx_len > 0 /\ Connected(tls, rx)
  BY DEF RxRecord, Connected
<1>3. tls.rc = "ok" /\ tls.phase # "CLIENT_HELLO"
  BY <1>2 DEF Inv, Running
<1>4. down # << >> /\ Head(down) = down[1]
  BY <1>2, Buffered
<1>5. srv.state # "start"
  BY SMTT(40), <1>4 DEF Inv
<1>6. Spend(mem, answer # "take") /\ UNCHANGED <<net, srv>>
  BY DEF RxRecord
<1>7. PICK r : r = Head(down)
  BY Zenon
<1>8. PICK pos : Route(pos, tls, rx.busy, down, net, srv)
  BY Zenon, <1>2 DEF Inv
<1>9. Len(down) \in Nat \ {0}
  BY <1>1, <1>4, SeqTail
<1>10. /\ pos[1] \in Places /\ pos[2] \in Places /\ Reads(tls, pos[1])
       /\ Moves(pos[1], r, pos[2], srv.cause) /\ pos[2].n <= srv.sent
  <2>1. /\ 1 \in 1..Len(down) /\ 1 \in 1..(Len(down) + 1)
        /\ 2 \in 1..(Len(down) + 1) /\ 1 + 1 = 2
    BY SMTT(40), <1>9
  <2>2. QED
    BY SMTT(40), <1>4, <1>7, <1>8, <2>1 DEF Route
<1>11. PICK cause : cause = srv.cause
  BY Zenon
<1>12. Moves(pos[1], r, pos[2], cause)
  BY SMTT(40), <1>10, <1>11
<1>13. r.len \in Nat \ {0} /\ (r.len <= MaxRecord \/ cause)
  <2>1. /\ r.len \in RecordLens \cup {1} /\ r.len \in Nat \ {0}
        /\ pos[2].off = pos[1].off + r.len /\ (r.len <= MaxRecord \/ cause)
    BY Zenon, <1>10, <1>12, MovesLen
  <2>2. QED
    BY SMTT(40), <2>1
<1>14. Receiving(tls, srv, pos[1])
  BY Zenon, <1>1, <1>3, <1>5, <1>10 DEF Receiving, Answered
<1>15. PICK d : d = Record(tls, r, mem, answer)
  BY Zenon
<1>16. Outcome(tls, d, srv, pos[2], mem, answer, cause)
  BY <1>12, <1>14, <1>15, RecordOutcome
<1>17. ASSUME tls'.idlen = tls.idlen
       PROVE  /\ budget' \in Budgets /\ (Provoked => Provoked')
              /\ (~mem \/ answer # "take" => Provoked')
  BY Zenon, <1>1, <1>6, <1>17, SpendOK
<1>18. ASSUME NEW c, ConnOK(c), Up(c, srv), Keeps(tls, c, {"unacked", "rc", "hs", "rx"}),
              tls' = Fail(c), rx' = [rx EXCEPT !.busy = FALSE], UNCHANGED down,
              cause \/ ~mem \/ answer # "take" \/ tls.phase = "FAILED"
       PROVE  Inv' /\ Flows
  <2>1. rx' = [busy |-> rx'.busy, window |-> rx'.window] /\ rx'.busy = FALSE
    BY Zenon, <1>18 DEF Inv, Running
  <2>2. tls'.idlen = tls.idlen
    <3>1. PICK e : e = Fail(c)
      BY Zenon
    <3>2. Keeps(c, e, {"phase", "plugged"})
      BY Zenon, <1>18, <3>1, FailFields DEF ConnOK
    <3>3. e.idlen = c.idlen /\ c.idlen = tls.idlen
      BY SMTT(40), <1>18, <3>2 DEF Keeps, Fields
    <3>4. QED
      BY <1>18, <3>1, <3>3
  <2>3. SegmentsFit => Provoked'
    <3>1. cause => Provoked'
      BY SMTT(40), <1>6, <1>11 DEF Provoked
    <3>2. SegmentsFit /\ tls.phase = "FAILED" => Provoked'
      BY SMTT(40), <1>17, <2>2 DEF Inv, FailsForCause
    <3>3. QED
      BY SMTT(40), <1>17, <1>18, <2>2, <3>1, <3>2
  <2>4. net' \in Nat
    BY SMTT(40), <1>1, <1>6
  <2>5. QED
    BY Zenon, <1>6, <1>17, <1>18, <2>1, <2>2, <2>3, <2>4, EndStep
<1>19. CASE /\ r.len > MaxRecord /\ tls' = Fail(Rc(tls, "EINVAL"))
            /\ rx' = [rx EXCEPT !.busy = FALSE] /\ UNCHANGED down
  <2>1. PICK c : c = Rc(tls, "EINVAL")
    BY Zenon
  <2>2. Refused(tls, c)
    BY SMTT(40), <1>1, <2>1, RcRefused DEF ConnOK
  <2>3. ConnOK(c) /\ Up(c, srv) /\ Keeps(tls, c, {"unacked", "rc", "hs", "rx"})
    BY SMTT(40), <1>1, <2>2, RefusedOK
  <2>4. cause
    BY SMTT(40), <1>13, <1>19, ConstantsOK
  <2>5. QED
    BY SMTT(40), <1>18, <1>19, <2>1, <2>3, <2>4
<1>20. CASE /\ d.rc # "ok" /\ tls' = Fail(d)
            /\ rx' = [rx EXCEPT !.busy = FALSE] /\ UNCHANGED down
  <2>1. /\ Refused(tls, d)
        /\ cause \/ ~mem \/ answer # "take" \/ tls.phase = "FAILED"
    BY Zenon, <1>16, <1>20 DEF Outcome, Accepted
  <2>2. ConnOK(d) /\ Up(d, srv) /\ Keeps(tls, d, {"unacked", "rc", "hs", "rx"})
    BY SMTT(40), <1>1, <2>1, RefusedOK
  <2>3. QED
    BY SMTT(40), <1>18, <1>20, <2>1, <2>2
<1>21. CASE /\ tls.rx_len >= r.len /\ d.rc = "ok"
            /\ tls' = Tx([d EXCEPT !.rx_len = @ - r.len], mem)
            /\ down' = Tail(down) /\ UNCHANGED rx
  <2>1. /\ Accepted(tls, d, srv, pos[2], mem)
        /\ d.phase = "FAILED" => tls.phase = "FAILED" \/ answer # "take"
    BY SMTT(40), <1>16, <1>21 DEF Outcome, Refused
  <2>2. /\ d.rc = "ok" /\ ConnOK(d) /\ Up(d, srv) /\ Reads(d, pos[2])
        /\ d.phase # "CLIENT_HELLO"
        /\ d.phase = "SERVER_FLIGHT" => d.txbuf = << >>
        /\ tls.phase = "FAILED" => d.phase = "FAILED"
        /\ d.rx_len = tls.rx_len /\ d.sent = tls.sent
    BY SMTT(40), <2>1 DEF Accepted
  <2>3. PICK due \in BOOLEAN : Sends(d, due)
    BY Zenon, <2>1 DEF Accepted
  <2>4. /\ d.idlen = tls.idlen
        /\ \/ d.got = tls.got
           \/ /\ mem /\ d.phase # "FAILED" /\ tls.phase # "FAILED"
              /\ d.got = Append(tls.got, Len(tls.got) + 1) /\ pos[2].n = Len(tls.got) + 1
    BY SMTT(40), <2>1 DEF Accepted
  <2>5. r.len \in Nat /\ r.len <= d.rx_len
    BY SMTT(40), <1>13, <1>21, <2>2
  <2>6. PICK e : e = Tx([d EXCEPT !.rx_len = @ - r.len], mem)
    BY Zenon
  <2>7. /\ ConnOK(e) /\ Sends(e, FALSE) /\ Up(e, srv) /\ Reads(e, pos[2])
        /\ e.rx_len = d.rx_len - r.len /\ e.rc = d.rc /\ e.idlen = d.idlen
        /\ e.sent = d.sent /\ e.got = d.got /\ e.phase # "CLIENT_HELLO"
        /\ e.phase = "SERVER_FLIGHT" => e.txbuf = << >>
        /\ e.phase = "FAILED" => d.phase = "FAILED" \/ ~mem
        /\ d.phase = "FAILED" => e.phase = "FAILED"
    <3>1. PICK n : n = r.len
      BY Zenon
    <3>2. n \in Nat /\ n <= d.rx_len /\ e = Tx(Taken(d, n), mem)
      BY <2>5, <2>6, <3>1 DEF Taken
    <3>3. Taking(d, srv, pos[2], n, due)
      BY Zenon, <1>1, <2>2, <2>3, <3>2 DEF Taking
    <3>4. Took(d, e, srv, pos[2], n, mem)
      BY SMTT(40), <3>2, <3>3, TakenOK
    <3>5. QED
      BY Zenon, <3>1, <3>4 DEF Took
  <2>8. tls' = e
    BY SMTT(40), <1>21, <2>6
  <2>9. budget' \in Budgets /\ (SegmentsFit => FailsForCause')
    <3>1. tls'.idlen = tls.idlen
      BY SMTT(40), <2>4, <2>7, <2>8
    <3>2. e.phase = "FAILED" => tls.phase = "FAILED" \/ answer # "take" \/ ~mem
      BY SMTT(40), <2>1, <2>7
    <3>3. QED
      BY SMTT(40), <1>17, <2>8, <3>1, <3>2 DEF Inv, FailsForCause
  <2>10. /\ Answered(tls', srv') /\ Running(tls', rx')
    <3>1. rx' = rx /\ rx = [busy |-> rx.busy, window |-> rx.window] /\ rx.busy \in BOOLEAN
      BY SMTT(40), <1>21 DEF Inv, Running
    <3>2. e.rc = "ok"
      BY SMTT(40), <2>2, <2>7
    <3>3. Running(e, rx')
      BY SMTT(40), <2>7, <3>1, <3>2 DEF Running
    <3>4. Answered(e, srv')
      BY SMTT(40), <2>7 DEF Answered
    <3>5. QED
      BY SMTT(40), <2>8, <3>3, <3>4
  <2>11. \E new : Route(new, tls', rx'.busy, down', net', srv')
    <3>1. /\ Path(pos, tls, rx.busy, down, net, srv.cause, srv.sent)
          /\ Writes(srv, pos[Len(down) + 1])
      BY SMTT(40), <1>8, RouteIsPath
    <3>2. e.rx_len = tls.rx_len - down[1].len
      BY SMTT(40), <1>4, <1>7, <2>2, <2>7
    <3>3. tls.rx_len \in Nat /\ srv.sent \in Nat
      <4>1. tls.rx_len \in 0..MaxRecord /\ srv.sent \in Nat
        BY Zenon, <1>1 DEF ConnOK, ServerOK
      <4>2. QED
        BY <4>1
    <3>4. PICK new : /\ Path(new, e, TRUE, Tail(down), net, cause, srv.sent)
                     /\ new[Len(Tail(down)) + 1] = pos[Len(down) + 1]
      <4>1. PICK c, busy, ds, sent, un :
              c = tls /\ busy = rx.busy /\ ds = down /\ sent = srv.sent /\ un = net
        BY SMTT(40)
      <4>2. Path(pos, c, busy, ds, un, cause, sent)
        BY SMTT(40), <1>11, <3>1, <4>1
      <4>3. /\ un \in Nat /\ sent \in Nat /\ IsSeq(ds) /\ ds # << >> /\ c.rx_len \in Nat
            /\ e.rx_len = c.rx_len - ds[1].len
        BY SMTT(40), <1>1, <1>4, <3>2, <3>3, <4>1
      <4>4. Reads(e, pos[2])
        BY SMTT(40), <2>7
      <4>5. Popped(pos, c, e, busy, ds, un, cause, sent)
        BY SMTT(40), <4>2, <4>3, <4>4 DEF Popped
      <4>6. Shorter(pos, e, ds, un, cause, sent)
        BY SMTT(40), <4>5, PathTail
      <4>7. QED
        BY Zenon, <4>1, <4>6 DEF Shorter
    <3>5. Route(new, e, TRUE, Tail(down), net, srv)
      BY Zenon, <1>11, <3>1, <3>4, RouteIsPath
    <3>6. rx'.busy = TRUE
      BY SMTT(40), <1>2, <1>21 DEF Inv, Running
    <3>7. QED
      BY Zenon, <1>6, <1>21, <2>8, <3>5, <3>6
  <2>12. IsSeq(down')
    BY SMTT(40), <1>1, <1>4, <1>21, SeqTail
  <2>13. Inv'
    <3>1. ConnOK(tls') /\ Sends(tls', FALSE) /\ Up(tls', srv') /\ ServerOK(srv')
      BY Zenon, <1>1, <1>6, <2>7, <2>8
    <3>2. srv'.state = "start" => down' = << >>
      BY SMTT(40), <1>5, <1>6
    <3>3. net' \in Nat
      BY SMTT(40), <1>1, <1>6
    <3>4. QED
      BY Zenon, <2>9, <2>10, <2>11, <2>12, <3>1, <3>2, <3>3 DEF Inv
  <2>14. Flows
    <3>1. srv'.sent = srv.sent /\ srv'.got = srv.got /\ tls'.sent = tls.sent
      BY SMTT(40), <1>6, <2>2, <2>7, <2>8
    <3>2. tls.phase = "FAILED" => tls'.phase = "FAILED"
      BY SMTT(40), <2>2, <2>7, <2>8
    <3>3. CASE d.got = tls.got
      BY Zenon, <2>7, <2>8, <3>1, <3>2, <3>3 DEF Flows
    <3>4. CASE /\ mem /\ d.phase # "FAILED" /\ tls.phase # "FAILED"
               /\ d.got = Append(tls.got, Len(tls.got) + 1)
               /\ pos[2].n = Len(tls.got) + 1
      <4>1. tls'.phase # "FAILED" /\ tls'.got = Append(tls.got, Len(tls.got) + 1)
        BY SMTT(40), <2>7, <2>8, <3>4
      <4>2. Len(tls.got) < srv.sent
        <5>1. Len(tls.got) \in Nat /\ srv.sent \in Nat
          BY Zenon, <1>1, SeqLen DEF ConnOK, ServerOK
        <5>2. QED
          BY SMTT(40), <1>10, <3>4, <5>1
      <4>3. QED
        BY Zenon, <3>1, <3>4, <4>1, <4>2 DEF Flows
    <3>5. QED
      BY SMTT(40), <2>4, <3>3, <3>4
  <2>15. QED
    BY SMTT(40), <2>13, <2>14
<1>22. QED
  BY SMTT(40), <1>7, <1>15, <1>19, <1>20, <1>21 DEF RxRecord

\* A message of the consumer becomes a record and is handed to TCP at once.
LEMMA SendFields ==
  ASSUME NEW c, IsConn(c), c.phase = "DATA", CipherWindow(c), NEW body, NEW mem,
         NEW d, d = Tx(CipherRecord(c, "data", body), mem)
  PROVE  /\ IsConn(d) /\ d.tx = [k |-> c.tx.k, seq |-> c.tx.seq + 1]
         /\ d.txbuf = << >>
         /\ Keeps(c, d, {"tx", "sealed", "txbuf", "out", "unacked", "awake"})
         /\ d.sealed = Append(c.sealed, <<c.tx.k.key, Nonce(c.tx.k.iv, c.tx.seq)>>)
         /\ d.out = Append(c.out, Ciphertext(Seal(c.tx.k, c.tx.seq, "data", body), 1))
<1>1. PICK a : a = CipherRecord(c, "data", body)
  BY Zenon
<1>2. /\ IsConn(a) /\ Keeps(c, a, {"tx", "sealed", "txbuf"})
      /\ a.tx = [k |-> c.tx.k, seq |-> c.tx.seq + 1]
      /\ a.txbuf = <<Ciphertext(Seal(c.tx.k, c.tx.seq, "data", body), 1)>>
      /\ a.sealed = Append(c.sealed, <<c.tx.k.key, Nonce(c.tx.k.iv, c.tx.seq)>>)
  BY <1>1, CipherRecordFields
<1>3. /\ a.phase = "DATA" /\ CipherWindow(a) /\ a.out = c.out
  BY SMTT(40), <1>2 DEF Keeps, Fields, CipherWindow
<1>4. /\ a.txbuf # << >>
      /\ a.txbuf[1] = Ciphertext(Seal(c.tx.k, c.tx.seq, "data", body), 1)
  BY SMTT(40), <1>2
<1>5. Build(a, mem) = a
  BY <1>4 DEF Build
<1>6. PICK b : b = Handed(a)
  BY Zenon
<1>7. Flush(a) = b
  BY <1>3, <1>4, <1>6 DEF Flush, Handed
<1>8. /\ IsConn(b) /\ Keeps(a, b, {"txbuf", "out", "unacked"})
      /\ b.txbuf = << >> /\ b.out = Append(a.out, a.txbuf[1])
  BY SMTT(40), <1>2, <1>6, HandedFields
<1>9. PICK e : e = WindowChanged(b)
  BY Zenon
<1>10. IsConn(e) /\ Keeps(b, e, {"awake"})
  BY SMTT(40), <1>8, <1>9, WindowChangedFields
<1>11. d = e
  BY SMTT(40), <1>1, <1>3, <1>5, <1>7, <1>9 DEF Tx
<1>12. /\ e.tx = a.tx /\ e.sealed = a.sealed /\ e.txbuf = << >>
       /\ e.out = Append(a.out, a.txbuf[1])
  BY Zenon, <1>8, <1>10 DEF Keeps, Fields
<1>13. Keeps(c, e, {"tx", "sealed", "txbuf", "out", "unacked", "awake"})
  BY Zenon, <1>2, <1>8, <1>10 DEF Keeps
<1>14. e.out = Append(c.out, Ciphertext(Seal(c.tx.k, c.tx.seq, "data", body), 1))
  BY Zenon, <1>3, <1>4, <1>12
<1>15. QED
  BY Zenon, <1>2, <1>10, <1>11, <1>12, <1>13, <1>14

LEMMA SendOK ==
  ASSUME NEW c, NEW s, NEW d, NEW x, NEW r,
         ConnOK(c), ServerOK(s), Sends(c, FALSE), Up(c, s),
         c.phase = "DATA", IsConn(d), d.txbuf = << >>, d.sent = c.sent + 1,
         Keeps(c, d, {"tx", "sealed", "txbuf", "out", "unacked", "awake", "sent", "rc"}),
         d.tx.k = c.tx.k, d.tx.seq = c.tx.seq + 1,
         d.sealed = Append(c.sealed, x), x = SealedAs(c.sent + 2),
         d.out = Append(c.out, r), r = UpRec(c.idlen, (2 + c.sent) + 1)
  PROVE  ConnOK(d) /\ Sends(d, FALSE) /\ Up(d, s)
<1>1. /\ d.rx_len = c.rx_len /\ d.hs = c.hs /\ d.phase = c.phase
      /\ d.rx = c.rx /\ d.idlen = c.idlen /\ d.plugged = c.plugged /\ d.got = c.got
  BY Zenon DEF Keeps, Fields
<1>2. /\ Len(c.sealed) = c.sent + 1 /\ c.tx.k = TrafficKey(ClientAp)
      /\ c.tx.seq = c.sent
  BY SMTT(40) DEF Sends
<1>3. c.sent \in Nat /\ IsSeq(c.sealed) /\ IsSeq(c.out)
  BY Zenon DEF ConnOK
<1>5. /\ IsSeq(d.sealed) /\ Len(d.sealed) = c.sent + 2
      /\ d.sealed[c.sent + 2] = SealedAs(c.sent + 2)
      /\ \A i \in 1..(c.sent + 1) : d.sealed[i] = c.sealed[i]
  <2>3. /\ IsSeq(d.sealed) /\ Len(d.sealed) = Len(c.sealed) + 1
        /\ d.sealed[Len(c.sealed) + 1] = x
        /\ \A i \in 1..Len(c.sealed) : d.sealed[i] = c.sealed[i]
    BY <1>3, SeqAppend
  <2>4. Len(c.sealed) + 1 = c.sent + 2
    BY SMTT(40), <1>2, <1>3
  <2>5. QED
    BY SMTT(40), <1>2, <2>3, <2>4
<1>6. ASSUME NEW i \in 1..Len(d.sealed) PROVE d.sealed[i] = SealedAs(i)
  <2>1. CASE i = c.sent + 2
    BY SMTT(40), <1>5, <2>1
  <2>2. CASE i \in 1..(c.sent + 1)
    BY SMTT(40), <1>2, <1>5, <2>2 DEF ConnOK
  <2>3. QED
    BY SMTT(40), <1>3, <1>5, <2>1, <2>2
<1>7. IsSeq(d.out)
  BY <1>3, SeqAppend
<1>8. d.tx.seq \in Nat /\ d.sent \in Nat
  BY SMTT(40), <1>2, <1>3
<1>9. ConnOK(d)
  BY Zenon, <1>1, <1>5, <1>6, <1>7, <1>8 DEF ConnOK
<1>10. Sends(d, FALSE)
  <2>1. Len(d.sealed) = d.sent + 1
    BY <1>3, <1>5
  <2>2. d.tx = [k |-> TrafficKey(ClientAp), seq |-> d.sent]
    BY SMTT(40), <1>2 DEF IsConn
  <2>3. QED
    BY Zenon, <1>1, <2>1, <2>2 DEF Sends
<1>11. Up(d, s)
  <2>1. Written(c) = 2 + c.sent /\ Written(d) = 2 + d.sent
    BY SMTT(40), <1>1 DEF Written
  <2>2. PICK w : w = 2 + c.sent
    BY Zenon
  <2>3. /\ w \in Nat /\ Written(c) = w /\ Written(d) = w + 1 /\ w + 1 <= 2 + d.sent
        /\ r = UpRec(c.idlen, w + 1)
    BY SMTT(40), <1>3, <2>1, <2>2
  <2>4. d.out = Append(c.out, r) /\ d.idlen = c.idlen /\ c.phase # "FAILED"
    BY SMTT(40), <1>1
  <2>5. QED
    BY SMTT(40), <1>3, <2>3, <2>4, UpAppend
<1>12. QED
  BY Zenon, <1>9, <1>10, <1>11

LEMMA AppStepOK ==
  ASSUME Inv, NEW mem \in BOOLEAN, AppStep(mem)
  PROVE  Inv' /\ Flows
<1>1. /\ ConnOK(tls) /\ IsConn(tls) /\ Sends(tls, FALSE) /\ Up(tls, srv)
      /\ ServerOK(srv) /\ budget \in Budgets /\ Answered(tls, srv) /\ Running(tls, rx)
  BY Zenon DEF Inv, ConnOK
<1>2. /\ ~rx.busy /\ rx' = rx /\ UNCHANGED <<down, net, srv>>
  BY DEF AppStep, Idle
<1>3. rx' = [busy |-> rx'.busy, window |-> rx'.window] /\ rx'.busy \in BOOLEAN
  BY <1>1, <1>2 DEF Running
<1>4. CASE UNCHANGED budget /\ tls' = [tls EXCEPT !.awake = FALSE]
  <2>1. PICK d : d = [tls EXCEPT !.awake = FALSE]
    BY Zenon
  <2>2. d = [f \in Fields |-> d[f]] /\ Keeps(tls, d, {"awake", "conn", "unacked", "rc"})
    BY Zenon, <1>1, <2>1 DEF IsConn, Fields, Keeps
  <2>3. IsConn(d)
    BY Zenon, <1>1, <2>2 DEF IsConn, Fields, Keeps
  <2>4. d.idlen = tls.idlen
    BY Zenon, <2>2 DEF Keeps, Fields
  <2>5. tls' = d /\ budget' = budget
    BY <1>4, <2>1
  <2>6. Provoked => Provoked'
    BY SMTT(40), <1>2, <2>4, <2>5 DEF Provoked
  <2>7. IsConn(tls') /\ Keeps(tls, tls', {"awake", "conn", "unacked", "rc"})
    BY SMTT(40), <2>2, <2>3, <2>5
  <2>8. QED
    BY SMTT(40), <1>1, <1>2, <1>3, <2>5, <2>6, <2>7, QuietStep
<1>5. ASSUME PlainstreamWindow(tls), Memory(mem),
             NEW d, d = PlainstreamDeliver(Rc(tls, "ok"), tls.sent + 1, mem),
             tls' = IF d.rc = "ok" THEN [d EXCEPT !.sent = @ + 1] ELSE d
      PROVE  Inv' /\ Flows
  <2>1. tls.phase = "DATA" /\ tls.txbuf = << >> /\ CipherWindow(tls)
    BY SMTT(40), <1>5 DEF PlainstreamWindow
  <2>2. PICK c : c = Rc(tls, "ok")
    BY Zenon
  <2>3. IsConn(c) /\ Keeps(tls, c, {"rc"}) /\ c.rc = "ok"
    BY <1>1, <2>2, RcFields
  <2>4. /\ c.phase = tls.phase /\ c.tx = tls.tx /\ c.sealed = tls.sealed
        /\ c.out = tls.out /\ c.sent = tls.sent /\ c.idlen = tls.idlen
        /\ c.conn = tls.conn /\ c.unacked = tls.unacked
    BY Zenon, <2>3 DEF Keeps, Fields
  <2>5. CASE ~mem
    <3>1. PICK e : e = Rc(c, "ENOMEM")
      BY Zenon
    <3>2. d = e
      BY <1>5, <2>1, <2>2, <2>4, <2>5, <3>1 DEF PlainstreamDeliver
    <3>3. IsConn(e) /\ Keeps(c, e, {"rc"}) /\ e.rc = "ENOMEM"
      BY SMTT(40), <2>3, <3>1, RcFields
    <3>4. tls' = e
      BY SMTT(40), <1>5, <3>2, <3>3
    <3>5. Keeps(tls, e, {"awake", "conn", "unacked", "rc"}) /\ e.idlen = tls.idlen
      BY Zenon, <2>3, <3>3 DEF Keeps, Fields
    <3>6. budget' \in Budgets /\ (Provoked => Provoked')
      BY Zenon, <1>1, <1>2, <1>5, <3>4, <3>5, SpendOK DEF Memory
    <3>7. IsConn(tls') /\ Keeps(tls, tls', {"awake", "conn", "unacked", "rc"})
      BY SMTT(40), <3>3, <3>4, <3>5
    <3>8. QED
      BY SMTT(40), <1>2, <1>3, <3>6, <3>7, QuietStep
  <2>6. CASE mem
    <3>1. PICK body : body = Body(<< >>, tls.sent + 1)
      BY Zenon
    <3>2. PICK e : e = Tx(CipherRecord(c, "data", body), mem)
      BY Zenon
    <3>3. d = e
      BY Zenon, <1>5, <2>1, <2>2, <2>4, <2>6, <3>1, <3>2 DEF PlainstreamDeliver
    <3>4. c.phase = "DATA" /\ CipherWindow(c)
      BY SMTT(40), <2>1, <2>4 DEF CipherWindow
    <3>5. /\ IsConn(e) /\ e.tx = [k |-> c.tx.k, seq |-> c.tx.seq + 1]
          /\ e.txbuf = << >>
          /\ Keeps(c, e, {"tx", "sealed", "txbuf", "out", "unacked", "awake"})
          /\ e.sealed = Append(c.sealed, <<c.tx.k.key, Nonce(c.tx.k.iv, c.tx.seq)>>)
          /\ e.out = Append(c.out, Ciphertext(Seal(c.tx.k, c.tx.seq, "data", body), 1))
      BY SMTT(40), <2>3, <3>2, <3>4, SendFields
    <3>6. PICK f : f = [e EXCEPT !.sent = @ + 1]
      BY Zenon
    <3>7. e.rc = "ok" /\ e.sent = tls.sent
      BY Zenon, <2>3, <2>4, <3>5 DEF Keeps, Fields
    <3>8. tls' = f
      BY SMTT(40), <1>5, <3>3, <3>6, <3>7
    <3>9. f = [g \in Fields |-> f[g]] /\ Keeps(e, f, {"sent"}) /\ f.sent = e.sent + 1
      BY Zenon, <3>5, <3>6 DEF IsConn, Fields, Keeps
    <3>10. /\ f.tx = e.tx /\ f.rx = e.rx /\ f.hs = e.hs /\ f.sec = e.sec
           /\ f.txbuf = << >> /\ f.sealed = e.sealed /\ f.out = e.out
      BY Zenon, <3>5, <3>9 DEF Keeps, Fields
    <3>11. IsConn(f)
      BY Zenon, <3>5, <3>9, <3>10 DEF IsConn
    <3>12. Keeps(tls, f, {"tx", "sealed", "txbuf", "out", "unacked", "awake", "sent", "rc"})
      BY Zenon, <2>3, <3>5, <3>9 DEF Keeps
    <3>13. f.tx.k = tls.tx.k /\ f.tx.seq = tls.tx.seq + 1 /\ f.sent = tls.sent + 1
      BY SMTT(40), <2>4, <3>5, <3>7, <3>9, <3>10
    <3>14. tls.tx.k = TrafficKey(ClientAp) /\ tls.tx.seq = tls.sent /\ tls.sent \in Nat
      BY <1>1, <2>1 DEF Sends, ConnOK
    <3>15. PICK x : x = SealedAs(tls.sent + 2)
      BY Zenon
    <3>16. x = <<tls.tx.k.key, Nonce(tls.tx.k.iv, tls.tx.seq)>>
      <4>1. tls.sent + 2 # 1 /\ (tls.sent + 2) - 2 = tls.sent
        BY SMTT(40), <3>14
      <4>2. QED
        BY SMTT(40), <3>14, <3>15, <4>1 DEF SealedAs
    <3>17. f.sealed = Append(tls.sealed, x)
      BY Zenon, <2>4, <3>5, <3>10, <3>16
    <3>18. PICK r : r = UpRec(tls.idlen, (2 + tls.sent) + 1)
      BY Zenon
    <3>19. r = Ciphertext(Seal(tls.tx.k, tls.tx.seq, "data", body), 1)
      <4>1. /\ (2 + tls.sent) + 1 # 1 /\ (2 + tls.sent) + 1 # 2
            /\ ((2 + tls.sent) + 1) - 3 = tls.sent
        BY SMTT(40), <3>14
      <4>2. QED
        BY SMTT(40), <3>1, <3>14, <3>18, <4>1 DEF UpRec, DataRec
    <3>20. f.out = Append(tls.out, r)
      BY Zenon, <2>4, <3>5, <3>10, <3>19
    <3>21. ConnOK(f) /\ Sends(f, FALSE) /\ Up(f, srv)
      BY ZenonT(40), <1>1, <2>1, <3>10, <3>11, <3>12, <3>13, <3>15, <3>17, <3>18, <3>20, SendOK
    <3>22. /\ f.phase = "DATA" /\ f.rx_len = tls.rx_len /\ f.got = tls.got
           /\ f.rx = tls.rx /\ f.idlen = tls.idlen
      BY Zenon, <2>1, <3>12 DEF Keeps, Fields
    <3>23. \A p : Reads(tls, p) => Reads(f, p)
      BY Zenon, <2>1, <3>22 DEF Reads
    <3>24. Answered(f, srv) /\ Running(f, rx') /\ (Connected(f, rx') => Connected(tls, rx))
      BY SMTT(40), <1>2, <1>3, <2>1, <3>22 DEF Answered, Running, Connected
    <3>25. budget' \in Budgets
      BY Zenon, <1>1, <1>2, <1>5, <3>8, <3>22, SpendOK DEF Memory
    <3>26. FailsForCause'
      BY SMTT(40), <3>8, <3>22 DEF FailsForCause
    <3>27. Inv'
      BY SMTT(40), <1>2, <3>8, <3>21, <3>22, <3>23, <3>24, <3>25, <3>26, ClientStep
    <3>28. Flows
      BY Zenon, <1>2, <2>1, <3>8, <3>13, <3>22 DEF Flows
    <3>29. QED
      BY SMTT(40), <3>27, <3>28
  <2>7. QED
    BY SMTT(40), <2>5, <2>6
<1>6. QED
  BY <1>4, <1>5 DEF AppStep

LEMMA HelloLenOK ==
  ASSUME NEW id \in Nat
  PROVE  HelloLen(id) \in 0..TranscriptSize /\ 0 + HelloLen(id) = HelloLen(id)
BY SMTT(40) DEF HelloLen, ClientHello, ClientHelloNeeded, ClientHelloWritten, Preamble,
       EntryLen, BinderListLen, MaxClientHello, TranscriptSize

\* The ClientHello is built.
HelloBuilt(c, hello, len) ==
  [c EXCEPT !.txbuf = hello, !.hs = TranscriptUpdate(@, "CH", len),
            !.phase = "SERVER_FLIGHT"]
LEMMA HelloFields ==
  ASSUME NEW c, IsConn(c), NEW hello, NEW len, NEW d, d = HelloBuilt(c, hello, len)
  PROVE  /\ IsConn(d) /\ Keeps(c, d, {"txbuf", "hs", "phase"}) /\ d.txbuf = hello
         /\ d.phase = "SERVER_FLIGHT"
         /\ d.hs = [msgs |-> Append(c.hs.msgs, "CH"), len |-> c.hs.len + len]
<1>1. /\ d = [f \in Fields |-> d[f]] /\ Keeps(c, d, {"txbuf", "hs", "phase"})
      /\ d.txbuf = hello /\ d.phase = "SERVER_FLIGHT"
  BY Zenon DEF IsConn, Fields, Keeps, HelloBuilt
<1>2. d.hs = [msgs |-> Append(c.hs.msgs, "CH"), len |-> c.hs.len + len]
  BY Zenon DEF IsConn, Fields, TranscriptUpdate, HelloBuilt
<1>3. d.tx = c.tx /\ d.rx = c.rx /\ d.sec = c.sec
  BY Zenon, <1>1 DEF Keeps, Fields
<1>4. IsConn(d)
  BY SMTT(40), <1>1, <1>2, <1>3 DEF IsConn
<1>5. QED
  BY Zenon, <1>1, <1>2, <1>4

LEMMA BuildHelloOK ==
  ASSUME NEW c, NEW s, NEW d, ConnOK(c), Sends(c, FALSE), Up(c, s),
         c.phase = "CLIENT_HELLO", IsConn(d), d.plugged = TRUE,
         Keeps(c, d, {"txbuf", "hs", "phase", "plugged"}),
         d.phase = "SERVER_FLIGHT", d.txbuf = <<HelloRec(c.idlen)>>,
         d.hs.len = HelloLen(c.idlen)
  PROVE  ConnOK(d) /\ Sends(d, FALSE) /\ Up(d, s)
<1>1. /\ d.tx = c.tx /\ d.rx = c.rx /\ d.rx_len = c.rx_len /\ d.idlen = c.idlen
      /\ d.out = c.out /\ d.sealed = c.sealed /\ d.sent = c.sent /\ d.got = c.got
  BY Zenon DEF Keeps, Fields
<1>2. d.hs.len \in 0..TranscriptSize
  BY SMTT(40), HelloLenOK DEF ConnOK
<1>3. ConnOK(d)
  BY SMTT(40), <1>1, <1>2 DEF ConnOK, Phases
<1>4. Sends(d, FALSE)
  BY Zenon, <1>1 DEF Sends
<1>5. Written(d) = Written(c)
  <2>1. <<HelloRec(c.idlen)>> # << >>
    BY SMTT(40)
  <2>2. QED
    BY <2>1 DEF Written
<1>6. Up(d, s)
  BY SMTT(40), <1>1, <1>5, UpSame
<1>7. QED
  BY Zenon, <1>3, <1>4, <1>6

LEMMA AddStep ==
  ASSUME Inv, NEW mem \in BOOLEAN, AddTls13Psk(mem)
  PROVE  Inv' /\ Flows
<1>1. /\ ConnOK(tls) /\ IsConn(tls) /\ Sends(tls, FALSE) /\ Up(tls, srv)
      /\ ServerOK(srv) /\ budget \in Budgets /\ Answered(tls, srv) /\ Running(tls, rx)
      /\ net \in Nat
  BY Zenon DEF Inv, ConnOK
<1>2. /\ tls.phase = "CLIENT_HELLO" /\ Memory(mem) /\ rx' = rx
      /\ UNCHANGED <<down, net, srv>>
  BY DEF AddTls13Psk
<1>3. /\ ~rx.busy /\ srv.state = "start" /\ tls.idlen \in Nat
      /\ rx' = [busy |-> rx'.busy, window |-> rx'.window] /\ rx'.busy = FALSE
  BY SMTT(40), <1>1, <1>2 DEF Running, Answered, ConnOK
<1>4. PICK c : c = [tls EXCEPT !.plugged = TRUE]
  BY Zenon
<1>5. /\ c = [f \in Fields |-> c[f]] /\ Keeps(tls, c, {"plugged"}) /\ c.plugged = TRUE
  BY Zenon, <1>1, <1>4 DEF IsConn, Fields, Keeps
<1>6. /\ c.phase = "CLIENT_HELLO" /\ c.txbuf = tls.txbuf /\ c.idlen = tls.idlen
      /\ c.hs = tls.hs /\ c.tx = tls.tx /\ c.rx = tls.rx /\ c.sec = tls.sec
  BY Zenon, <1>2, <1>5 DEF Keeps, Fields
<1>7. IsConn(c)
  BY Zenon, <1>1, <1>5, <1>6 DEF IsConn
<1>8. tls.txbuf = << >> /\ tls.hs.msgs = << >> /\ tls.hs.len = 0
  BY <1>1, <1>2 DEF Sends
<1>9. Build(c, mem) = SendClientHello(c, mem)
  BY <1>6, <1>8 DEF Build
<1>10. TranscriptFits(c.hs, HelloLen(c.idlen), TranscriptSize)
  BY SMTT(40), <1>3, <1>6, <1>8, HelloLenOK DEF TranscriptFits
<1>11. tls' = Tx(c, mem)
  BY SMTT(40), <1>4 DEF AddTls13Psk
<1>12. CASE ~mem \/ HelloLen(c.idlen) = 0
  <2>1. SendClientHello(c, mem) = Fail(c)
    BY SMTT(40), <1>12 DEF SendClientHello, HelloLen
  <2>2. Fail(c) = Fail(tls)
    <3>1. /\ Fail(c) = [c EXCEPT !.phase = "FAILED", !.plugged = FALSE]
          /\ Fail(tls) = [tls EXCEPT !.phase = "FAILED", !.plugged = FALSE]
      BY <1>2, <1>6 DEF Fail
    <3>2. tls = [f \in Fields |-> tls[f]]
      BY SMTT(40), <1>1 DEF IsConn
    <3>3. QED
      BY Zenon, <1>4, <3>1, <3>2 DEF Fields
  <2>3. PICK d : d = Fail(tls)
    BY Zenon
  <2>4. Keeps(tls, d, {"phase", "plugged"}) /\ d.phase = "FAILED"
    BY Zenon, <1>1, <2>3, FailFields
  <2>5. tls' = Fail(tls)
    <3>1. Build(c, mem) = d
      BY SMTT(40), <1>9, <2>1, <2>2, <2>3
    <3>2. QED
      BY SMTT(40), <1>6, <1>11, <2>3, <2>4, <3>1 DEF Tx
  <2>6. tls'.idlen = tls.idlen
    BY SMTT(40), <2>3, <2>4, <2>5 DEF Keeps, Fields
  <2>7. budget' \in Budgets /\ (~mem => Provoked')
    BY Zenon, <1>1, <1>2, <2>6, SpendOK DEF Memory
  <2>8. HelloLen(c.idlen) = 0 => Provoked'
    BY SMTT(40), <1>6, <2>6 DEF Provoked, HelloLen
  <2>9. Keeps(tls, tls, {"unacked", "rc", "hs", "rx"}) /\ net' \in Nat
    BY SMTT(40), <1>1, <1>2 DEF Keeps
  <2>10. QED
    BY Zenon, <1>1, <1>2, <1>3, <1>12, <2>5, <2>7, <2>8, <2>9, EndStep
<1>13. CASE mem /\ HelloLen(c.idlen) # 0
  <2>1. PICK b : b = HelloBuilt(c, <<HelloRec(c.idlen)>>, HelloLen(c.idlen))
    BY Zenon
  <2>2. SendClientHello(c, mem) = b
    BY <1>10, <1>13, <2>1
    DEF SendClientHello, HelloBuilt, HelloLen, HelloRec, HelloMac
  <2>3. /\ IsConn(b) /\ Keeps(c, b, {"txbuf", "hs", "phase"})
        /\ b.txbuf = <<HelloRec(c.idlen)>> /\ b.phase = "SERVER_FLIGHT"
        /\ b.hs = [msgs |-> Append(c.hs.msgs, "CH"), len |-> c.hs.len + HelloLen(c.idlen)]
    <3>1. PICK hello, len : hello = <<HelloRec(c.idlen)>> /\ len = HelloLen(c.idlen)
      BY Zenon
    <3>2. b = HelloBuilt(c, hello, len)
      BY <2>1, <3>1
    <3>3. /\ IsConn(b) /\ Keeps(c, b, {"txbuf", "hs", "phase"}) /\ b.txbuf = hello
          /\ b.phase = "SERVER_FLIGHT"
          /\ b.hs = [msgs |-> Append(c.hs.msgs, "CH"), len |-> c.hs.len + len]
      BY SMTT(40), <1>7, <3>2, HelloFields
    <3>4. QED
      BY Zenon, <3>1, <3>3
  <2>4. b.hs = [msgs |-> <<"CH">>, len |-> HelloLen(tls.idlen)]
    <3>1. c.hs.msgs = << >> /\ c.hs.len = 0 /\ 0 + HelloLen(c.idlen) = HelloLen(c.idlen)
      BY SMTT(40), <1>3, <1>6, <1>8, HelloLenOK
    <3>2. QED
      BY Zenon, <1>6, <2>3, <3>1, TranscriptSteps
  <2>5. /\ Keeps(tls, b, {"txbuf", "hs", "phase", "plugged"}) /\ b.plugged = TRUE
        /\ b.txbuf = <<HelloRec(tls.idlen)>>
    BY Zenon, <1>5, <1>6, <2>3 DEF Keeps, Fields
  <2>6. b.hs.len = HelloLen(tls.idlen)
    BY SMTT(40), <2>4
  <2>7. ConnOK(b) /\ Sends(b, FALSE) /\ Up(b, srv)
    BY Zenon, <1>1, <1>2, <2>3, <2>5, <2>6, BuildHelloOK
  <2>8. PICK d : d = Tx(b, mem)
    BY Zenon
  <2>9. tls' = d
    <3>1. b.txbuf # << >>
      BY SMTT(40), <2>3
    <3>2. Build(b, mem) = b
      BY <3>1 DEF Build
    <3>3. Build(c, mem) = b
      BY <1>9, <2>2
    <3>4. QED
      BY SMTT(40), <1>6, <1>11, <2>3, <2>8, <3>2, <3>3 DEF Tx
  <2>10. b.phase # "CLIENT_HELLO" /\ b.phase \in Phases
    BY SMTT(40), <2>3 DEF Phases
  <2>11. ConnOK(d) /\ Sends(d, FALSE) /\ Up(d, srv) /\ Keeps(b, d, TxFields)
    BY Zenon, <1>1, <2>7, <2>8, <2>10, TxOK
  <2>12. b.phase = "SERVER_FLIGHT" =>
           /\ d.phase = "SERVER_FLIGHT" /\ d.tx = b.tx
           /\ b.txbuf = << >> => d.txbuf = << >>
    BY Zenon, <1>1, <2>7, <2>8, <2>10, TxOK
  <2>13. d.phase = "SERVER_FLIGHT" /\ d.tx = b.tx
    BY SMTT(40), <2>3, <2>12
  <2>14. ASSUME NEW p, Reads(tls, p) PROVE Reads(d, p)
    <3>1. p.at = "hello" /\ p.len = HelloLen(tls.idlen) /\ Len(tls.got) = p.n
      BY SMTT(40), <1>2, <2>14 DEF Reads
    <3>2. d.hs = [msgs |-> <<"CH">>, len |-> p.len]
      BY Zenon, <2>4, <2>11, <3>1 DEF Keeps, Fields, TxFields
    <3>3. d.idlen = tls.idlen /\ d.got = tls.got
      BY Zenon, <2>5, <2>11 DEF Keeps, Fields, TxFields
    <3>4. QED
      BY Zenon, <2>13, <3>1, <3>2, <3>3 DEF Reads
  <2>15. /\ d.rx_len = tls.rx_len /\ d.idlen = tls.idlen /\ d.sent = tls.sent
         /\ d.got = tls.got
    BY Zenon, <2>5, <2>11 DEF Keeps, Fields, TxFields
  <2>16. budget' \in Budgets
    BY Zenon, <1>1, <1>2, <2>9, <2>15, SpendOK DEF Memory
  <2>17. /\ Answered(d, srv) /\ Running(d, rx')
         /\ (Connected(d, rx') => Connected(tls, rx))
    BY Zenon, <1>2, <1>3 DEF Answered, Running, Connected
  <2>18. FailsForCause'
    BY <2>9, <2>13 DEF FailsForCause
  <2>19. Inv'
    BY SMTT(40), <1>2, <1>3, <2>9, <2>11, <2>14, <2>15, <2>16, <2>17, <2>18, ClientStep
  <2>20. Flows
    BY Zenon, <1>2, <2>9, <2>13, <2>15 DEF Flows
  <2>21. QED
    BY <2>19, <2>20
<1>14. QED
  BY SMTT(40), <1>12, <1>13

-----------------------------------------------------------------------------
(* The inductive invariant *)

LEMMA InitInv ==
  ASSUME Init
  PROVE  Inv
<1>1. PICK id \in IdentityLens, psk \in ServerPsks :
        /\ tls = [phase |-> "CLIENT_HELLO", tx |-> Fresh, rx |-> Fresh,
                  txbuf |-> << >>, rx_len |-> 0,
                  hs |-> [msgs |-> << >>, len |-> 0], sec |-> NoSecrets,
                  idlen |-> id, plugged |-> FALSE, conn |-> FALSE,
                  unacked |-> FALSE, out |-> << >>, awake |-> FALSE,
                  sealed |-> << >>, sent |-> 0, got |-> << >>, rc |-> "ok"]
        /\ rx = [busy |-> FALSE, window |-> FALSE] /\ down = << >> /\ net = 0
        /\ srv = [state |-> "start", psk |-> psk, hs |-> << >>, tx |-> Fresh,
                  rx |-> Fresh, ap |-> << >>, got |-> << >>, sent |-> 0,
                  cause |-> FALSE]
        /\ budget = [mem |-> MaxNoMem, close |-> MaxCloses]
  BY Zenon DEF Init
<1>2. /\ tls.phase = "CLIENT_HELLO" /\ tls.tx = Fresh /\ tls.rx = Fresh
      /\ tls.txbuf = << >> /\ tls.rx_len = 0 /\ tls.hs = [msgs |-> << >>, len |-> 0]
      /\ tls.sec = NoSecrets /\ tls.idlen = id /\ tls.plugged = FALSE
      /\ tls.out = << >> /\ tls.sealed = << >> /\ tls.sent = 0 /\ tls.got = << >>
  BY SMTT(40), <1>1
<1>3. /\ srv.state = "start" /\ srv.tx = Fresh /\ srv.rx = Fresh /\ srv.sent = 0
      /\ srv.got = << >> /\ srv.cause = FALSE
  BY SMTT(40), <1>1
<1>4. id \in Nat /\ MaxNoMem \in Nat /\ MaxCloses \in Nat /\ MaxRecord \in Nat
  BY SMTT(40), ConstantsOK
<1>5. IsSeq(<< >>) /\ Len(<< >>) = 0
  BY Zenon, SeqTuples
<1>6. IsConn(tls)
  <2>1. tls = [f \in Fields |-> tls[f]]
    BY Zenon, <1>1 DEF Fields
  <2>2. tls.sec = [f \in Secrets |-> tls.sec[f]]
    BY SMTT(40), <1>2 DEF Secrets, NoSecrets
  <2>3. Fresh = [k |-> Fresh.k, seq |-> Fresh.seq]
    BY SMTT(40) DEF Fresh
  <2>4. QED
    BY SMTT(40), <1>2, <2>1, <2>2, <2>3 DEF IsConn
<1>7. ConnOK(tls) /\ Sends(tls, FALSE)
  BY SMTT(40), <1>2, <1>4, <1>5, <1>6 DEF ConnOK, Sends, Fresh, Phases, TranscriptSize
<1>8. ServerOK(srv)
  <2>1. srv = [f \in ServerFields |-> srv[f]]
    BY Zenon, <1>1 DEF ServerFields
  <2>2. QED
    BY SMTT(40), <1>3, <1>5, <2>1 DEF ServerOK, Fresh
<1>9. Up(tls, srv) /\ Answered(tls, srv) /\ Running(tls, rx)
  BY SMTT(40), <1>1, <1>2, <1>3, <1>5 DEF Up, Answered, Running, Base, Written
<1>10. \E pos : Route(pos, tls, rx.busy, down, net, srv)
  <2>1. PICK p : p = [at |-> "hello", seq |-> 0, n |-> 0, off |-> 0, len |-> HelloLen(id)]
    BY Zenon
  <2>2. p \in Places /\ p.n = 0 /\ p.off = 0 /\ p.at = "hello" /\ p.len = HelloLen(id)
    <3>1. HelloLen(id) \in Nat
      <4>1. HelloLen(id) \in 0..TranscriptSize
        BY Zenon, <1>4, HelloLenOK
      <4>2. QED
        BY SMTT(40), <4>1 DEF TranscriptSize
    <3>2. QED
      BY SMTT(40), <2>1, <3>1 DEF Places
  <2>3. PICK pos : pos = [i \in 1..1 |-> p]
    BY Zenon
  <2>4. Reads(tls, p) /\ Writes(srv, p)
    BY SMTT(40), <1>2, <1>3, <1>5, <2>2 DEF Reads, Writes
  <2>5. Route(pos, tls, rx.busy, << >>, 0, srv)
    <3>1. Len(<< >>) + 1 = 1 /\ 1..Len(<< >>) = {}
      BY <1>5
    <3>2. pos \in [1..1 -> Places] /\ pos[1] = p /\ \A i \in 1..1 : pos[i] = p
      BY <2>2, <2>3
    <3>3. p.n <= srv.sent /\ p.off + tls.rx_len + 0 = p.off
      BY <1>2, <1>3, <2>2
    <3>4. QED
      BY Zenon, <1>2, <2>4, <3>1, <3>2, <3>3 DEF Route
  <2>6. QED
    BY Zenon, <1>1, <2>5
<1>11. budget \in Budgets
  BY SMTT(40), <1>1, <1>4 DEF Budgets
<1>12. FailsForCause
  BY SMTT(40), <1>2 DEF FailsForCause
<1>13. QED
  BY Zenon, <1>1, <1>5, <1>7, <1>8, <1>9, <1>10, <1>11, <1>12 DEF Inv

\* A step that changes nothing.
LEMMA SameInv ==
  ASSUME Inv, UNCHANGED vars
  PROVE  Inv' /\ Flows
<1>1. UNCHANGED <<tls, rx, down, net, srv, budget>>
  BY SMTT(40) DEF vars
<1>2. Inv'
  BY Zenon, <1>1 DEF Inv, FailsForCause, Provoked
<1>3. QED
  BY SMTT(40), <1>1, <1>2 DEF Flows

LEMMA NextInv ==
  ASSUME Inv, [Next]_vars
  PROVE  Inv' /\ Flows
<1>1. ASSUME NEW mem \in BOOLEAN, AddTls13Psk(mem) PROVE Inv' /\ Flows
  BY SMTT(40), <1>1, AddStep
<1>2. ASSUME NEW mem \in BOOLEAN, CipherstreamWindow(mem) PROVE Inv' /\ Flows
  BY <1>2, WindowStep
<1>3. ASSUME NEW mem \in BOOLEAN, RxDone(mem) PROVE Inv' /\ Flows
  BY <1>3, RxDoneStep
<1>4. ASSUME NEW mem \in BOOLEAN, AppStep(mem) PROVE Inv' /\ Flows
  BY <1>4, AppStepOK
<1>5. ASSUME NEW n \in 1..MaxSegment, NEW ack \in BOOLEAN, CipherstreamDeliver(n, ack)
      PROVE  Inv' /\ Flows
  BY SMTT(40), <1>5, DeliverStep
<1>6. ASSUME NEW mem \in BOOLEAN, NEW answer \in Answers, RxRecord(mem, answer)
      PROVE  Inv' /\ Flows
  BY SMTT(40), <1>6, RecordStep
<1>7. CASE CloseConnection
  BY SMTT(40), <1>7, CloseStep
<1>8. ASSUME NEW sel \in Selections, NEW elen \in ExtensionLens, NEW split \in BOOLEAN,
             NEW ccs \in BOOLEAN, SrvHello(sel, elen, split, ccs)
      PROVE  Inv' /\ Flows
  BY SMTT(40), <1>8, HelloStep
<1>9. CASE SrvFinished
  BY <1>9, FinishedStep
<1>10. CASE SrvData
  BY <1>10, DataStep
<1>11. ASSUME NEW len \in RecordLens, SrvSend(len) PROVE Inv' /\ Flows
  BY SMTT(40), <1>11, SrvSendStep
<1>12. ASSUME NEW type \in {"handshake", "data", "alert"}, SrvOther(type)
       PROVE  Inv' /\ Flows
  BY SMTT(40), <1>12, SrvOtherStep
<1>13. CASE UNCHANGED vars
  BY SMTT(40), <1>13, SameInv
<1>14. QED
  BY Zenon, <1>1, <1>2, <1>3, <1>4, <1>5, <1>6, <1>7, <1>8, <1>9, <1>10, <1>11, <1>12,
     <1>13 DEF Next

\* The inductive invariant of a connection and the server it talks to: what
\* tls13_psk_*() has sealed, sent and read agrees, record by record, with
\* what the server expects and sends.
THEOREM Invariance == Spec => []Inv
<1>1. Init => Inv
  BY SMTT(40), InitInv
<1>2. Inv /\ [Next]_vars => Inv'
  BY SMTT(40), NextInv
<1>3. QED
  BY <1>1, <1>2, PTL DEF Spec

-----------------------------------------------------------------------------
(* What it implies *)

\* tls13_psk_deliver() and tls13_transcript_update() never exceed the
\* receive buffer and the transcript, at most one record is pending, and the
\* interfaces are attached exactly while the connection runs.
THEOREM PskTypes == Spec => []TypeOK
<1>1. Inv => TypeOK
  <2>1. SUFFICES ASSUME Inv PROVE TypeOK
    BY SMTT(40)
  <2>2. ConnOK(tls) /\ ServerOK(srv) /\ net \in Nat
    BY Zenon, <2>1 DEF Inv
  <2>3. Len(tls.txbuf) \in 0..1
    BY SMTT(40), <2>2 DEF ConnOK
  <2>4. QED
    BY SMTT(40), <2>2, <2>3 DEF TypeOK, ConnOK, ServerOK
<1>2. QED
  BY <1>1, Invariance, PTL

LEMMA SealedDiffer ==
  ASSUME NEW i \in Nat \ {0}, NEW j \in Nat \ {0}, i # j
  PROVE  SealedAs(i) # SealedAs(j)
<1>1. TrafficKey(ClientHs).key # TrafficKey(ClientAp).key
  <2>1. ClientHs # ClientAp
    BY DEF ClientHs, ClientAp, DeriveSecret, ExpandLabel
  <2>2. QED
    BY <2>1 DEF TrafficKey, ExpandLabel
<1>2. QED
  BY <1>1 DEF SealedAs, Nonce

\* No two records of a connection are sealed under one key and nonce, however
\* the transmissions of tls13_psk_tx() and the key changes interleave.
THEOREM Nonces == Spec => []NonceFresh
<1>1. Inv => NonceFresh
  <2>1. SUFFICES ASSUME Inv, NEW i \in 1..Len(tls.sealed), NEW j \in 1..Len(tls.sealed),
                        i # j
                 PROVE  tls.sealed[i] # tls.sealed[j]
    BY SMTT(40) DEF NonceFresh
  <2>2. /\ IsSeq(tls.sealed)
        /\ tls.sealed[i] = SealedAs(i) /\ tls.sealed[j] = SealedAs(j)
    BY SMTT(40), <2>1 DEF Inv, ConnOK
  <2>3. i \in Nat \ {0} /\ j \in Nat \ {0}
    BY SMTT(40), <2>1, <2>2, SeqLen
  <2>4. SealedAs(i) # SealedAs(j)
    BY SMTT(40), <2>1, <2>3, SealedDiffer
  <2>5. QED
    BY SMTT(40), <2>2, <2>4
<1>2. QED
  BY <1>1, Invariance, PTL

\* The server opens every record that tls13_psk_cipher_record() seals, in the
\* order in which TCP carries them.
THEOREM Opens == Spec => []PeerOpens
<1>1. Inv => PeerOpens
  BY SMTT(40) DEF Inv, ServerOK, PeerOpens
<1>2. QED
  BY <1>1, Invariance, PTL

\* Where every record leaves room for the segment that ends it, the
\* connection fails only for a cause outside tls13.c.
THEOREM Causes ==
  ASSUME SegmentsFit
  PROVE  Spec => []FailsForCause
<1>1. Inv => FailsForCause
  BY SMTT(40) DEF Inv
<1>2. QED
  BY <1>1, Invariance, PTL

LEMMA StreamStarts ==
  ASSUME Init
  PROVE  Stream!StreamInit
<1>1. tls.sent = 0 /\ srv.sent = 0 /\ tls.got = << >> /\ srv.got = << >>
      /\ tls.phase # "FAILED"
  BY SMTT(40) DEF Init
<1>2. QED
  BY SMTT(40), <1>1 DEF Stream!StreamInit, Stream!Directions

Offered(up, dn) == [d \in {"up", "down"} |-> IF d = "up" THEN up ELSE dn]

\* Each step of the flow of messages is a step of the stream.
LEMMA StreamSteps ==
  ASSUME Inv, Flows
  PROVE  [Stream!StreamNext]_(Stream!stream)
<1>1. PICK a, b, c, d, a1, b1, c1, d1 :
        /\ a = tls.sent /\ b = srv.sent /\ c = srv.got /\ d = tls.got
        /\ a1 = tls'.sent /\ b1 = srv'.sent /\ c1 = srv'.got /\ d1 = tls'.got
  BY SMTT(40)
<1> DEFINE open == tls.phase # "FAILED"
           open1 == tls'.phase # "FAILED"
           offered == Offered(a, b)
           offered1 == Offered(a1, b1)
           taken == Offered(c, d)
           taken1 == Offered(c1, d1)
<1>2. /\ offered["up"] = a /\ offered["down"] = b /\ taken["up"] = c
      /\ taken["down"] = d
  BY DEF Offered
<1>3. CASE a1 = a /\ b1 = b /\ c1 = c /\ d1 = d /\ (tls.phase = "FAILED" => tls'.phase = "FAILED")
  <2>1. offered1 = offered /\ taken1 = taken
    BY SMTT(40), <1>3
  <2>2. open1 = open \/ (open /\ open1 = FALSE)
    BY Zenon, <1>3
  <2>3. QED
    BY Zenon, <1>1, <2>1, <2>2
       DEF Offered, Stream!StreamNext, Stream!stream, Stream!CloseStream
<1>4. CASE /\ a1 = a + 1 /\ b1 = b /\ c1 = c /\ d1 = d
           /\ tls.phase # "FAILED" /\ tls'.phase # "FAILED"
  <2>1. offered1 = [offered EXCEPT !["up"] = @ + 1] /\ taken1 = taken
    BY Zenon, <1>4 DEF Offered
  <2>2. Stream!Offer("up")
    BY Zenon, <1>1, <1>4, <2>1 DEF Offered, Stream!Offer
  <2>3. QED
    BY Zenon, <2>2 DEF Stream!StreamNext, Stream!Directions
<1>5. CASE /\ a1 = a /\ b1 = b /\ c1 = c /\ d1 = Append(d, Len(d) + 1) /\ Len(d) < b
           /\ tls.phase # "FAILED" /\ tls'.phase # "FAILED"
  <2>1. offered1 = offered /\ taken1 = [taken EXCEPT !["down"] = Append(@, Len(@) + 1)]
    BY Zenon, <1>5 DEF Offered
  <2>2. Stream!Take("down")
    BY Zenon, <1>1, <1>2, <1>5, <2>1 DEF Offered, Stream!Take
  <2>3. QED
    BY Zenon, <2>2 DEF Stream!StreamNext, Stream!Directions
<1>6. CASE /\ a1 = a /\ b1 = b + 1 /\ c1 = c /\ d1 = d /\ tls'.phase = tls.phase
  <2>1. offered1 = [offered EXCEPT !["down"] = @ + 1] /\ taken1 = taken
    BY Zenon, <1>6 DEF Offered
  <2>2. Stream!Offer("down")
    BY Zenon, <1>1, <1>6, <2>1 DEF Offered, Stream!Offer
  <2>3. QED
    BY Zenon, <2>2 DEF Stream!StreamNext, Stream!Directions
<1>7. CASE /\ a1 = a /\ b1 = b /\ d1 = d /\ c1 = Append(c, Len(c) + 1) /\ Len(c) < a
           /\ tls'.phase = tls.phase
  <2>1. offered1 = offered /\ taken1 = [taken EXCEPT !["up"] = Append(@, Len(@) + 1)]
    BY Zenon, <1>7 DEF Offered
  <2>2. Stream!Take("up")
    BY Zenon, <1>1, <1>2, <1>7, <2>1 DEF Offered, Stream!Take
  <2>3. QED
    BY Zenon, <2>2 DEF Stream!StreamNext, Stream!Directions
<1>8. QED
  BY Zenon, <1>1, <1>3, <1>4, <1>5, <1>6, <1>7 DEF Flows

\* tls13_psk_plainstream_deliver() and tls13_psk_deliver() implement an
\* ordered stream in each direction: what is offered is taken in order, once,
\* none invented, and nothing more once the connection is closed.
THEOREM Streams == Spec => StreamRefined
<1>1. Init => Stream!StreamInit
  BY SMTT(40), StreamStarts
<1>2. Inv /\ [Next]_vars => [Stream!StreamNext]_(Stream!stream)
  BY NextInv, StreamSteps
<1>3. QED
  BY <1>1, <1>2, Invariance, PTL DEF Spec, StreamRefined, Stream!StreamSpec
=============================================================================
