------------------------------- MODULE TlsConn -------------------------------
(***************************************************************************)
(* TLS 1.2 connections that share a session (net/tls.c), with trust on     *)
(* first use, over iPXE's TCP, and a conforming server beyond them.        *)
(*                                                                         *)
(* tls.conn[i] is struct tls_connection, with its socket and the records   *)
(*             in transit either way; tls.sess is the struct tls_session   *)
(*             they share and tls.order its list of connections;           *)
(*             tls.valid holds the certificates marked valid, tls.fp the   *)
(*             server-fingerprint setting.                                 *)
(* srv and budget are the environment.                                     *)
(*                                                                         *)
(* Secrets are symbolic: a key is the tuple of what it was derived from,   *)
(* the handshake digest is the sequence of messages fed into it.  Handlers *)
(* map tls to tls for a connection i; rc of the connection is the return.  *)
(***************************************************************************)
EXTENDS Naturals, Sequences, FiniteSets

CONSTANTS
  Conns,        \* the connections that may be opened
  Exchanges,    \* key exchanges the server may choose: "pubkey", "dhe"
  ServerCerts,  \* leaf certificates the server may present
  Trusted,      \* those that chain to a root certificate
  HasClientCert, \* is there a client certificate for the private key
  AskCert,      \* may the server request a client certificate: a BOOLEAN set
  NewIds,       \* may it issue a session ID: a BOOLEAN set
  Tickets,      \* may it issue a ticket: a BOOLEAN set
  Ems,          \* does it support the extended master secret: a BOOLEAN set
  SeqMod,       \* record sequence numbers (2^64 in the code)
  MaxData,      \* data records per connection and direction
  MaxRenegotiations, MaxForgets, MaxFaults

ASSUME ConstantsOK ==
  /\ IsFiniteSet(Conns) /\ Exchanges \subseteq {"pubkey", "dhe"}
  /\ Trusted \subseteq ServerCerts
  /\ UNION {AskCert, NewIds, Tickets, Ems, {HasClientCert}} \subseteq BOOLEAN
  /\ SeqMod \in Nat \ {0, 1}
  /\ {MaxData, MaxRenegotiations, MaxForgets, MaxFaults} \subseteq Nat

VARIABLES tls, srv, budget
vars == <<tls, srv, budget>>

TxFlags == {"HELLO", "CERT", "CKE", "CV", "CCS", "FIN"}
None == << >>
NoVerify == [client |-> None, server |-> None]
NullSpec == [suite |-> FALSE, key |-> None]

\* What the digest records of a message, and a message.
Entry(t, a, b) == <<t, a, b>>
Msg(t) == [t |-> t, sid |-> None, ticket |-> None, rand |-> 0, ems |-> FALSE,
           verify |-> NoVerify, cert |-> None, exchange |-> "", mac |-> None,
           good |-> TRUE]
EntryOf(m) == Entry(m.t, m.sid, IF m.t = "CERT" THEN m.cert ELSE m.ticket)

Rc(t, i, rc) == [t EXCEPT !.conn[i].rc = rc]
Ok(t, i) == t.conn[i].rc = "ok"
Ready(c) == ~c.client_negotiation /\ ~c.server_negotiation
Window(c) == c.open /\ c.conn /\ ~c.unacked
IsValid(t, cert) == cert # None /\ cert \in t.valid

TxResume(t, i) == [t EXCEPT !.conn[i].process = TRUE]
Listed(t) == {t.order[k] : k \in 1..Len(t.order)}

TxResumeAll(t) ==
  [t EXCEPT !.conn = [j \in Conns |-> IF j \in Listed(t)
                                      THEN [@[j] EXCEPT !.process = TRUE]
                                      ELSE @[j]]]
Unlist(t, i) == [t EXCEPT !.order = SelectSeq(@, LAMBDA j : j # i)]

AddHandshake(t, i, entry) == [t EXCEPT !.conn[i].digest = Append(@, entry)]
RegenerateEphemeral(t, i) == [t EXCEPT !.conn[i].random = @ + 1]

-----------------------------------------------------------------------------
(* Transmitted records *)

SendRecord(t, i, type, m) ==
  LET c == t.conn[i]
      r == [type |-> type, key |-> c.tx.active.key, seq |-> c.tx.seq, msg |-> m]
      d == IF type = "handshake" THEN AddHandshake(t, i, EntryOf(m)) ELSE t
  IN IF ~c.open THEN Rc(d, i, "EPIPE")
     ELSE [d EXCEPT !.conn[i].tx.seq = (@ + 1) % SeqMod,
                    !.conn[i].out = Append(@, r),
                    !.conn[i].unacked = TRUE]

\* Mutant: the connections waiting for this one are not resumed.
CloseSilently(t, i) ==
  LET c == [t.conn[i] EXCEPT !.client_negotiation = FALSE,
              !.server_negotiation = FALSE, !.validation = FALSE,
              !.process = FALSE, !.open = FALSE]
  IN RegenerateEphemeral(Unlist([t EXCEPT !.conn[i] = c], i), i)

\* tls_close(): nothing pending, unplugged, off the list, and the others
\* resumed in case this was the lead connection.
Close(t, i) ==
  LET c == [t.conn[i] EXCEPT !.client_negotiation = FALSE,
              !.server_negotiation = FALSE, !.validation = FALSE,
              !.process = FALSE, !.open = FALSE]
  IN TxResumeAll(RegenerateEphemeral(Unlist([t EXCEPT !.conn[i] = c], i), i))

CloseAlert(t, i) == Close(SendRecord(t, i, "alert", Msg("close_notify")), i)

\* (Re)start negotiation.
Restart(t, i) ==
  TxResume([RegenerateEphemeral(t, i) EXCEPT
              !.conn[i].pending = {"HELLO"},
              !.conn[i].client_negotiation = TRUE,
              !.conn[i].server_negotiation = TRUE], i)

\* tls_client_hello(): built from the connection and the session as they
\* are now, once to be sent and once more to be digested.
Hello(t, i) ==
  [Msg("CH") EXCEPT !.sid = t.conn[i].session_id, !.ticket = t.sess.ticket,
     !.rand = t.conn[i].random,
     !.verify = IF t.conn[i].secure_renegotiation
                THEN t.conn[i].verify ELSE NoVerify]

\* Mutant: a connection does not wait for the ones before it.
WaitsNever(t, i) == FALSE

\* Negotiations within a session are serialised in list order.
Waits(t, i) ==
  LET pos == CHOOSE k \in 1..Len(t.order) : t.order[k] = i
  IN \E k \in 1..(pos - 1) : t.conn[t.order[k]].server_negotiation

SendClientHello(t, i) ==
  LET sid == IF t.sess.id # None THEN t.sess.id
             ELSE <<"random", i, t.conn[i].random>>
      s == [t EXCEPT !.conn[i].session_id = sid]
  IN SendRecord(s, i, "handshake", Hello(s, i))

(* The key schedule: a secret, whether it is shared, and whom it is bound to *)

ClearBinding(t, i) == [t EXCEPT !.conn[i].bound = None]

SetBinding(t, i, cert) ==
  [t EXCEPT !.conn[i].bound = IF t.conn[i].keyed THEN cert ELSE None]

\* tls_set_digest(): a new handshake digest and a poisoned secret.
SetDigest(t, i) ==
  [ClearBinding(t, i) EXCEPT !.conn[i].digest = << >>, !.conn[i].keyed = FALSE,
                             !.conn[i].kdf = <<"poison">>]

SetKdfMaster(t, i, secret) == [t EXCEPT !.conn[i].kdf = secret]

\* A pre-master secret follows from the ephemeral secret, and is not yet
\* bound to anyone.
AgreeEphemeral(t, i) ==
  [ClearBinding(SetKdfMaster(t, i, <<"pm", i, t.conn[i].random>>), i)
     EXCEPT !.conn[i].keyed = TRUE]

GenerateMasterSecret(t, i) ==
  LET c == t.conn[i]
  IN SetKdfMaster(t, i, <<"ms", c.kdf, IF c.extended_master_secret THEN c.digest
                                       ELSE <<<<c.random, c.server_random>>>>>>)

GenerateResumptionMaster(t, i) == [t EXCEPT !.sess.secret = t.conn[i].kdf]

ResumeSecret(t, i) ==
  SetBinding([SetKdfMaster(t, i, t.sess.secret) EXCEPT !.conn[i].keyed = TRUE],
             i, t.sess.cert)

GenerateKeys(t, i) ==
  LET c == t.conn[i]
      key == <<c.kdf, c.random, c.server_random>>
  IN [t EXCEPT !.conn[i].tx.pending.key = key,
               !.conn[i].rx.pending.key = key]

\* The pre-master secret is encrypted to the certificate, and bound to it
\* once the digest covers it.
ClientKeyExchangePubkey(t, i) ==
  LET pm == AgreeEphemeral(t, i)
      s == SendRecord(pm, i, "handshake", Msg("CKE"))
  IN IF t.conn[i].chain = None THEN Rc(pm, i, "ENOENT")
     ELSE IF Ok(s, i) THEN SetBinding(s, i, t.conn[i].chain) ELSE s

ClientKeyExchangeDhe(t, i) == SendRecord(t, i, "handshake", Msg("CKE"))

ClientKeyExchange(t, i) ==
  IF t.conn[i].exchange = "pubkey" THEN ClientKeyExchangePubkey(t, i)
  ELSE ClientKeyExchangeDhe(t, i)

\* Mutant: the master secret is derived before the message is digested.
SendClientKeyExchangeEarly(t, i) ==
  LET s == ClientKeyExchange(t, i)
      ms == GenerateMasterSecret([s EXCEPT !.conn[i].digest = t.conn[i].digest], i)
  IN IF ~Ok(s, i) THEN s
     ELSE GenerateKeys([ms EXCEPT !.conn[i].digest = s.conn[i].digest], i)

\* The exchange, then the master secret over the digest so far, then keys.
SendClientKeyExchange(t, i) ==
  LET s == ClientKeyExchange(t, i)
  IN IF ~Ok(s, i) THEN s ELSE GenerateKeys(GenerateMasterSecret(s, i), i)

ChangeCipher(t, i, dir) ==
  IF ~t.conn[i][dir].pending.suite THEN Rc(t, i, "ENOTSUP_NULL")
  ELSE [t EXCEPT !.conn[i][dir].active = t.conn[i][dir].pending,
                 !.conn[i][dir].pending = NullSpec]

SendChangeCipher(t, i) == SendRecord(t, i, "ccs", Msg("CCS"))

\* The change is announced, and then takes effect.
SendAndChangeCipher(t, i) ==
  LET s == SendChangeCipher(t, i)
      a == ChangeCipher(s, i, "tx")
  IN IF ~Ok(s, i) THEN s ELSE IF ~Ok(a, i) THEN a
     ELSE [a EXCEPT !.conn[i].tx.seq = 0]

SendFinished(t, i) ==
  LET mac == <<"client", t.conn[i].kdf, t.conn[i].digest>>
      v == [t EXCEPT !.conn[i].verify.client = mac]
      s == SendRecord(v, i, "handshake", [Msg("FIN") EXCEPT !.mac = mac])
  IN IF ~IsValid(t, t.conn[i].bound) THEN Rc(t, i, "EPERM_BOUND")
     ELSE IF Ok(s, i) THEN [s EXCEPT !.conn[i].client_negotiation = FALSE]
     ELSE s

SendCertificate(t, i) ==
  SendRecord(t, i, "handshake",
             [Msg("CERT") EXCEPT !.cert = t.conn[i].client_chain])
SendCertificateVerify(t, i) == SendRecord(t, i, "handshake", Msg("CV"))

Send(t, i, flag) ==
  CASE flag = "HELLO" -> SendClientHello(t, i)
    [] flag = "CERT"  -> SendCertificate(t, i)
    [] flag = "CKE"   -> SendClientKeyExchange(t, i)
    [] flag = "CV"    -> SendCertificateVerify(t, i)
    [] flag = "CCS"   -> SendAndChangeCipher(t, i)
    [] flag = "FIN"   -> SendFinished(t, i)

\* tls_tx_step(): the first pending transmission, if the window is open
\* and, for a ClientHello, no earlier connection is being negotiated.
FirstPending(c) ==
  LET order == <<"HELLO", "CERT", "CKE", "CV", "CCS", "FIN">>
      k == CHOOSE k \in 1..6 : /\ order[k] \in c.pending
                               /\ \A j \in 1..(k - 1) : order[j] \notin c.pending
  IN order[k]

TxStep(t, i, mem) ==
  LET c == t.conn[i]
      p == [t EXCEPT !.conn[i].process = FALSE]
      f == FirstPending(c)
      s == IF mem THEN Send(p, i, f) ELSE Rc(p, i, "ENOMEM")
      d == [s EXCEPT !.conn[i].pending = @ \ {f}]
  IN IF ~Window(c) \/ c.pending = {} THEN p
     ELSE IF f = "HELLO" /\ Waits(t, i) THEN p
     ELSE IF ~Ok(s, i) THEN CloseAlert(s, i)
     ELSE IF d.conn[i].pending # {} THEN TxResume(d, i) ELSE d

-----------------------------------------------------------------------------
(* Received records *)

NewHelloRequest(t, i) ==
  LET c == t.conn[i]
  IN IF ~Ready(c) THEN t
     ELSE IF ~(c.secure_renegotiation /\ c.extended_master_secret)
          THEN Rc(t, i, "EPERM_RENEG_INSECURE")
     ELSE Restart(t, i)

SetCipher(t, i, dir) ==
  [t EXCEPT !.conn[i][dir].pending = [suite |-> TRUE, key |-> None]]

\* tls_select_cipher(): an empty key schedule and both pending
\* cipher specifications.
SelectCipher(t, i, exchange) ==
  LET s == SetCipher(SetCipher(SetDigest(t, i), i, "tx"), i, "rx")
  IN [s EXCEPT !.conn[i].exchange = exchange]

NewServerHello(t, i, m) ==
  LET c == t.conn[i]
      d == AddHandshake(SelectCipher(t, i, m.exchange), i, EntryOf(Hello(t, i)))
      a == [d EXCEPT !.conn[i].server_random = m.rand,
                     !.conn[i].extended_master_secret = m.ems]
      resumed == m.sid # None /\ m.sid = c.session_id
      b == IF resumed
           THEN GenerateKeys(ResumeSecret(a, i), i)
           ELSE IF m.sid # None THEN [a EXCEPT !.conn[i].session_id = m.sid]
           ELSE a
  IN IF ~m.good THEN Rc(t, i, "ENOTSUP")
     ELSE IF resumed /\ m.ems # t.sess.extended_master_secret
          THEN Rc(b, i, "EPERM_EMS")
     ELSE IF c.secure_renegotiation /\ m.verify # c.verify
          THEN Rc(b, i, "EPERM_RENEG_VERIFY")
     ELSE IF ~c.secure_renegotiation /\ m.verify # NoVerify
          THEN Rc(b, i, "EPERM_RENEG_VERIFY")
     ELSE [b EXCEPT !.conn[i].secure_renegotiation = TRUE]

NewSessionTicket(t, i, m) == [t EXCEPT !.conn[i].new_session_ticket = m.ticket]

\* tls_parse_chain() unbinds whatever was bound before.
NewCertificate(t, i, m) ==
  [ClearBinding(t, i) EXCEPT !.conn[i].chain = m.cert]

ServerKeyExchangePubkey(t, i) == Rc(t, i, "EPROTO")

\* The signature by the certificate's key binds the secret to it.
VerifyDhParams(t, i) ==
  IF t.conn[i].chain = None THEN Rc(t, i, "ENOENT")
  ELSE SetBinding(t, i, t.conn[i].chain)

ServerKeyExchangeDhe(t, i) == VerifyDhParams(AgreeEphemeral(t, i), i)

NewServerKeyExchange(t, i, m) ==
  IF t.conn[i].exchange = "pubkey" THEN ServerKeyExchangePubkey(t, i)
  ELSE ServerKeyExchangeDhe(t, i)

NewCertificateRequest(t, i) ==
  [t EXCEPT !.conn[i].client_chain = IF HasClientCert THEN <<"client">> ELSE None,
            !.conn[i].has_client_chain = TRUE]

NewServerHelloDone(t, i) ==
  IF t.conn[i].chain = None THEN Rc(t, i, "ENOENT")
  ELSE [t EXCEPT !.conn[i].validation = TRUE]

\* Mutant: the secret of the first session is kept.
RecordSessionStale(t, i) ==
  LET c == t.conn[i]
      ticket == c.new_session_ticket
      s == [t.sess EXCEPT !.secret = IF t.sess.cert = None THEN c.kdf ELSE @,
              !.cert = c.bound, !.id = c.session_id,
              !.extended_master_secret = c.extended_master_secret,
              !.ticket = IF ticket # None THEN ticket ELSE @]
  IN IF IsValid(t, c.bound)
     THEN [t EXCEPT !.sess = s, !.conn[i].new_session_ticket = None]
     ELSE t

\* What tls_new_finished() leaves for the next connection of the session.
RecordSession(t, i) ==
  LET c == t.conn[i]
      ticket == c.new_session_ticket
  IN IF IsValid(t, c.bound)
     THEN [GenerateResumptionMaster(t, i) EXCEPT
             !.sess.cert = c.bound, !.sess.id = c.session_id,
             !.sess.extended_master_secret = c.extended_master_secret,
             !.sess.ticket = IF ticket # None THEN ticket ELSE @,
             !.conn[i].new_session_ticket = None]
     ELSE t

NewFinished(t, i, m) ==
  LET c == t.conn[i]
      mac == <<"server", c.kdf, c.digest>>
      a == [t EXCEPT !.conn[i].verify.server = mac,
                     !.conn[i].server_negotiation = FALSE]
      b == IF c.client_negotiation
           THEN TxResume([a EXCEPT !.conn[i].pending = @ \cup {"CCS", "FIN"}], i)
           ELSE a
      l == Unlist(RecordSession(b, i), i)
  IN IF ~(c.keyed /\ c.bound # None) THEN Rc(t, i, "EINVAL_FINISHED")
     ELSE IF m.mac # mac THEN Rc(t, i, "EPERM_VERIFY")
     ELSE TxResumeAll([l EXCEPT !.order = Append(@, i)])

NewHandshake(t, i, m) ==
  LET h == CASE m.t = "HR"   -> NewHelloRequest(t, i)
             [] m.t = "SH"   -> NewServerHello(t, i, m)
             [] m.t = "NST"  -> NewSessionTicket(t, i, m)
             [] m.t = "CERT" -> NewCertificate(t, i, m)
             [] m.t = "SKE"  -> NewServerKeyExchange(t, i, m)
             [] m.t = "CR"   -> NewCertificateRequest(t, i)
             [] m.t = "SHD"  -> NewServerHelloDone(t, i)
             [] m.t = "FIN"  -> NewFinished(t, i, m)
  IN IF m.t = "HR" THEN h ELSE AddHandshake(h, i, EntryOf(m))

\* Mutant: the sequence number runs on after a change of cipher.
NewChangeCipherSeq(t, i) == ChangeCipher(t, i, "rx")

\* The record's own increment takes the number from all ones to zero.
NewChangeCipher(t, i) ==
  LET a == ChangeCipher(t, i, "rx")
  IN IF Ok(a, i) THEN [a EXCEPT !.conn[i].rx.seq = SeqMod - 1] ELSE a

NewData(t, i) == IF Ready(t.conn[i]) THEN t ELSE Rc(t, i, "ENOTCONN")

NewAlert(t, i, m) ==
  IF m.t = "close_notify" THEN Close(t, i) ELSE Rc(t, i, "EPERM_ALERT")

NewRecord(t, i, r) ==
  CASE r.type = "data"  -> NewData(t, i)
    [] r.type = "ccs"   -> NewChangeCipher(t, i)
    [] r.type = "alert" -> NewAlert(t, i, r.msg)
    [] r.type = "handshake" -> NewHandshake(t, i, r.msg)

\* tls_new_ciphertext() and the delivery that led to it: authenticate the
\* record, hand it on, count it; any failure closes the connection.
NewCiphertext(t, i, r, mem) ==
  LET c == t.conn[i]
      genuine == r.key = c.rx.active.key /\ r.seq = c.rx.seq
      h == IF ~mem THEN Rc(t, i, "ENOMEM")
           ELSE IF ~genuine THEN Rc(t, i, "EINVAL_MAC")
           ELSE NewRecord(t, i, r)
  IN IF ~Ok(h, i) THEN CloseAlert(h, i)
     ELSE [h EXCEPT !.conn[i].rx.seq = (@ + 1) % SeqMod]

PlainstreamWindow(c) == Ready(c) /\ Window(c)

PlainstreamDeliver(t, i) ==
  IF Ready(t.conn[i]) THEN SendRecord(t, i, "data", Msg("data"))
  ELSE Rc(t, i, "ENOTCONN")

-----------------------------------------------------------------------------
(* Certificate validation, with trust on first use *)

\* Mutant: the server is accepted even if nothing could be stored.
ValidatorDoneUnsaved(t, i, rc, saved) ==
  LET c == t.conn[i]
      p == [t EXCEPT !.conn[i].validation = FALSE]
      tofu == rc # "ok" /\ t.fp = None
      stored == IF tofu /\ saved # "nothing" THEN [p EXCEPT !.fp = c.chain] ELSE p
      accepted == [stored EXCEPT !.valid = @ \cup {c.chain}]
  IN IF rc = "ok" \/ tofu
     THEN TxResume([accepted EXCEPT !.conn[i].pending = {"CKE", "CCS", "FIN"}], i)
     ELSE CloseAlert(Rc(stored, i, "EACCES"), i)

\* A failed validation is accepted, and the leaf's fingerprint stored, if
\* none is stored yet; saved says how far storing it got.
ValidatorDone(t, i, rc, saved) ==
  LET c == t.conn[i]
      p == [t EXCEPT !.conn[i].validation = FALSE]
      tofu == rc # "ok" /\ t.fp = None
      stored == IF tofu /\ saved # "nothing" THEN [p EXCEPT !.fp = c.chain] ELSE p
      accepted == [stored EXCEPT !.valid = @ \cup {c.chain}]
      flags == {"CKE", "CCS", "FIN"} \cup
               (IF c.has_client_chain THEN {"CERT"} ELSE {}) \cup
               (IF c.client_chain # None THEN {"CV"} ELSE {})
  IN IF rc = "ok" \/ (tofu /\ saved = "all")
     THEN TxResume([accepted EXCEPT !.conn[i].pending = @ \cup flags], i)
     ELSE CloseAlert(Rc(stored, i, "EACCES"), i)

-----------------------------------------------------------------------------
(* Initial state and instantiation *)

NewSession == [id |-> None, ticket |-> None, secret |-> <<"poison">>,
               cert |-> None, extended_master_secret |-> FALSE]

NewConnection ==
  LET spec == [active |-> NullSpec, pending |-> NullSpec, seq |-> 0]
  IN [open |-> FALSE, conn |-> FALSE, unacked |-> FALSE, rc |-> "ok",
      client_negotiation |-> FALSE, server_negotiation |-> FALSE,
      validation |-> FALSE, process |-> FALSE, pending |-> {}, random |-> 0,
      server_random |-> 0, session_id |-> None, new_session_ticket |-> None,
      secure_renegotiation |-> FALSE, extended_master_secret |-> FALSE,
      verify |-> NoVerify, digest |-> << >>, kdf |-> None, keyed |-> FALSE,
      bound |-> None, chain |-> None, client_chain |-> None,
      has_client_chain |-> FALSE, exchange |-> "pubkey",
      tx |-> spec, rx |-> spec, in |-> << >>, out |-> << >>]

NewServer == [st |-> "hello", want |-> << >>, digest |-> << >>, kdf |-> None,
              crand |-> 0, srand |-> 0, exchange |-> "", ems |-> FALSE,
              name |-> None, ticket |-> FALSE, verify |-> NoVerify,
              rxkey |-> None, txkey |-> None, rxseq |-> 0, txseq |-> 0]

Init ==
  /\ tls = [conn |-> [i \in Conns |-> NewConnection], sess |-> NewSession,
            order |-> << >>, valid |-> {}, fp |-> None]
  /\ srv = [conn |-> [i \in Conns |-> NewServer], cache |-> {}, count |-> 0]
  /\ budget = [added |-> {}, renegotiations |-> MaxRenegotiations,
               forgets |-> MaxForgets, faults |-> MaxFaults,
               up |-> [i \in Conns |-> MaxData],
               down |-> [i \in Conns |-> MaxData]]

\* tls_session(): join the session if a connection still holds it.
Session(t) == IF t.order = << >> THEN NewSession ELSE t.sess

AddTls(i) ==
  /\ i \notin budget.added
  /\ tls' = Restart([tls EXCEPT !.sess = Session(tls),
                                !.order = Append(@, i),
                                !.conn[i].open = TRUE], i)
  /\ budget' = [budget EXCEPT !.added = @ \cup {i}]
  /\ UNCHANGED srv

-----------------------------------------------------------------------------
(* The actions of the client *)

Fault(cost) == /\ cost <= budget.faults
               /\ budget' = [budget EXCEPT !.faults = @ - cost]

Step(i) ==
  /\ tls.conn[i].process
  /\ \E mem \in BOOLEAN :
       /\ mem \/ (Window(tls.conn[i]) /\ tls.conn[i].pending # {} /\
                  ~("HELLO" \in tls.conn[i].pending /\ Waits(tls, i)))
       /\ Fault(IF mem THEN 0 ELSE 1)
       /\ tls' = TxStep(tls, i, mem)
  /\ UNCHANGED srv

Receive(i) ==
  LET c == tls.conn[i]
      t == [tls EXCEPT !.conn[i].in = Tail(@)]
  IN /\ c.open /\ c.in # << >>
     /\ \E mem \in BOOLEAN : /\ Fault(IF mem THEN 0 ELSE 1)
                             /\ tls' = NewCiphertext(t, i, Head(c.in), mem)
     /\ UNCHANGED srv

\* The validator finds the chain valid if it was before or if it leads to
\* a root; a download that fails on the way costs a fault.
Validate(i) ==
  /\ tls.conn[i].validation
  /\ \E ok \in BOOLEAN, saved \in {"all", "fingerprint", "nothing"} :
       LET chain == tls.conn[i].chain
           sound == chain \in tls.valid \/ chain[1] \in Trusted
       IN /\ ok => sound /\ saved = "all"
          /\ Fault((IF sound /\ ~ok THEN 1 ELSE 0) +
                   (IF saved # "all" THEN 1 ELSE 0))
          /\ tls' = ValidatorDone(tls, i, IF ok THEN "ok" ELSE "EACCES", saved)
  /\ UNCHANGED srv

AppSend(i) ==
  /\ PlainstreamWindow(tls.conn[i]) /\ tls.conn[i].open /\ budget.up[i] > 0
  /\ tls' = PlainstreamDeliver(tls, i)
  /\ budget' = [budget EXCEPT !.up[i] = @ - 1]
  /\ UNCHANGED srv

\* The consumer closes (tls_close_alert) or TCP does (tls_close).
CloseConnection(i) ==
  /\ tls.conn[i].open /\ Fault(1)
  /\ \E t \in {CloseAlert(tls, i), Close(tls, i)} : tls' = Rc(t, i, "closed")
  /\ UNCHANGED srv

\* TCP is established, or its peer acknowledges: the window changes.
TcpWindow(i) ==
  LET c == tls.conn[i]
  IN /\ c.open /\ (~c.conn \/ c.unacked)
     /\ tls' = TxResume([tls EXCEPT !.conn[i].conn = TRUE,
                          !.conn[i].unacked = IF c.conn THEN FALSE ELSE @], i)
     /\ UNCHANGED <<srv, budget>>

-----------------------------------------------------------------------------
(* A conforming server *)

\* Append messages, numbered and protected under the server's key.
SrvSend(t, i, type, msgs) ==
  LET s == srv.conn[i]
      r(k) == [type |-> type, key |-> s.txkey, seq |-> (s.txseq + k - 1) % SeqMod,
               msg |-> msgs[k]]
  IN [t EXCEPT !.conn[i].in = @ \o [k \in 1..Len(msgs) |-> r(k)]]

Entries(msgs) == [k \in 1..Len(msgs) |-> EntryOf(msgs[k])]

Known(hello) ==
  {e \in srv.cache : e.name \in {hello.sid, hello.ticket} /\ e.name # None}

\* The final flight: ChangeCipherSpec and Finished, after a ticket if any.
SrvFinal(s, i, ticket, digest) ==
  LET nst == IF ticket = None THEN << >>
             ELSE <<[Msg("NST") EXCEPT !.ticket = ticket]>>
      d == digest \o Entries(nst)
      mac == <<"server", s.kdf, d>>
      key == <<s.kdf, s.crand, s.srand>>
      rec(type, k, q, m) == [type |-> type, key |-> k, seq |-> q % SeqMod, msg |-> m]
      n == Len(nst)
  IN [records |-> [k \in 1..n |-> rec("handshake", s.txkey, s.txseq + k - 1, nst[k])]
                  \o <<rec("ccs", s.txkey, s.txseq + n, Msg("CCS")),
                       rec("handshake", key, 0, [Msg("FIN") EXCEPT !.mac = mac])>>,
      state |-> [s EXCEPT !.txkey = key, !.txseq = 1,
                   !.digest = Append(d, Entry("FIN", None, None)),
                   !.verify.server = mac]]

Ticket(n) == <<"ticket", n>>

\* A ClientHello: resume what is known of it, or start afresh.
SrvHello(s0, i, hello, n) ==
  LET known == Known(hello)
      s1 == [s0 EXCEPT !.crand = hello.rand, !.srand = n, !.rxseq = (@ + 1) % SeqMod]
      Sh(sid, ems, x) == [Msg("SH") EXCEPT !.sid = sid, !.rand = n, !.ems = ems,
                            !.verify = s0.verify, !.exchange = x]
      hs == s0.txkey
  IN IF known # {}
     THEN LET e == CHOOSE e \in known : TRUE
              sh == Sh(hello.sid, e.ems, "pubkey")
          IN \E tick \in Tickets :
               LET s2 == [s1 EXCEPT !.kdf = e.kdf, !.ems = e.ems,
                            !.want = <<"CCS", "FIN">>, !.st = "resume",
                            !.txseq = (@ + 1) % SeqMod]
                   f == SrvFinal(s2, i, IF tick THEN Ticket(n) ELSE None,
                                 <<EntryOf(hello), EntryOf(sh)>>)
               IN /\ tls' = [SrvSend(tls, i, "handshake", <<sh>>) EXCEPT
                               !.conn[i].in = @ \o f.records,
                               !.conn[i].out = Tail(@)]
                  /\ srv' = [srv EXCEPT !.conn[i] = f.state, !.count = n,
                               !.cache = IF tick THEN @ \cup {[name |-> Ticket(n),
                                              kdf |-> e.kdf, ems |-> e.ems]}
                                         ELSE @]
     ELSE \E x \in Exchanges, cert \in ServerCerts, ask \in AskCert,
             new \in NewIds, tick \in Tickets, ems \in Ems :
            LET name == IF new THEN <<"id", n>> ELSE None
                msgs == <<Sh(name, ems, x), [Msg("CERT") EXCEPT !.cert = <<cert>>]>>
                        \o (IF x = "dhe" THEN <<Msg("SKE")>> ELSE << >>)
                        \o (IF ask THEN <<Msg("CR")>> ELSE << >>)
                        \o <<Msg("SHD")>>
                s2 == [s1 EXCEPT !.st = "full", !.exchange = x, !.ems = ems,
                         !.name = name, !.ticket = tick, !.digest =
                           <<EntryOf(hello)>> \o Entries(msgs),
                         !.want = (IF ask THEN <<"CERT">> ELSE << >>)
                                  \o <<"CKE", "CCS", "FIN">>,
                         !.txseq = (@ + Len(msgs)) % SeqMod]
            IN /\ tls' = [SrvSend(tls, i, "handshake", msgs) EXCEPT
                            !.conn[i].out = Tail(@)]
               /\ srv' = [srv EXCEPT !.conn[i] = s2, !.count = n]

\* What the server makes of the next message it wants.
SrvTake(s0, i, m) ==
  LET s == [s0 EXCEPT !.want = Tail(@), !.rxseq = (@ + 1) % SeqMod]
      d == Append(s.digest, EntryOf(m))
  IN CASE m.t = "CERT" ->
            [s EXCEPT !.digest = d, !.want = IF m.cert = None THEN @
                                      ELSE <<"CKE", "CV", "CCS", "FIN">>]
       [] m.t = "CKE" ->
            [s EXCEPT !.digest = d,
               !.kdf = <<"ms", <<"pm", i, s.crand>>, IF s.ems THEN d
                                                ELSE <<<<s.crand, s.srand>>>>>>]
       [] m.t = "CCS" ->
            [s EXCEPT !.rxkey = <<s.kdf, s.crand, s.srand>>, !.rxseq = 0]
       [] m.t = "CV" -> [s EXCEPT !.digest = d]
       [] m.t = "FIN" ->
            IF m.mac # <<"client", s.kdf, s.digest>> THEN [s EXCEPT !.st = "bad"]
            ELSE [s EXCEPT !.digest = d, !.verify.client = m.mac]

SrvRead(i) ==
  LET c == tls.conn[i]
      s == srv.conn[i]
      r == Head(c.out)
      m == r.msg
      genuine == r.key = s.rxkey /\ r.seq = s.rxseq
      wanted == s.want # << >> /\ Head(s.want) = m.t
      next == SrvTake(s, i, m)
      tick == IF s.ticket THEN Ticket(s.srand) ELSE None
      final == SrvFinal(next, i, tick, next.digest)
      Becomes(x) == /\ srv' = [srv EXCEPT !.conn[i] = x]
                    /\ tls' = [tls EXCEPT !.conn[i].out = Tail(@)]
  IN /\ c.out # << >> /\ s.st \notin {"bad", "closed"}
     /\ \/ ~genuine /\ Becomes([s EXCEPT !.st = "bad"])
        \/ genuine /\ r.type = "alert" /\ Becomes([s EXCEPT !.st = "closed"])
        \/ /\ genuine /\ r.type = "data"
           /\ Becomes([s EXCEPT !.rxseq = (@ + 1) % SeqMod,
                                !.st = IF s.st \in {"ready", "asked"} THEN @ ELSE "bad"])
        \/ /\ genuine /\ m.t = "CH" /\ s.st \in {"hello", "ready", "asked"}
           /\ SrvHello(s, i, m, srv.count + 1)
        \/ /\ genuine /\ r.type \in {"handshake", "ccs"}
           /\ IF wanted THEN m.t # "FIN" \/ s.st = "resume" \/ next.st = "bad"
              ELSE m.t # "CH"
           /\ Becomes(IF ~wanted THEN [s EXCEPT !.st = "bad"]
                      ELSE IF m.t = "FIN" /\ next.st # "bad"
                           THEN [next EXCEPT !.st = "ready"] ELSE next)
        \/ /\ genuine /\ wanted /\ m.t = "FIN" /\ s.st = "full" /\ next.st # "bad"
           /\ tls' = [tls EXCEPT !.conn[i].out = Tail(@),
                                 !.conn[i].in = @ \o final.records]
           /\ srv' = [srv EXCEPT !.conn[i] = [final.state EXCEPT !.st = "ready"],
                        !.cache = @ \cup {[name |-> x, kdf |-> next.kdf, ems |-> s.ems] :
                                            x \in {s.name, tick} \ {None}}]
     /\ UNCHANGED budget

\* A record the server sends of its own accord once it is ready.
SrvSay(i, type, m, st) ==
  /\ srv.conn[i].st = "ready" /\ tls.conn[i].open
  /\ tls' = SrvSend(tls, i, type, <<m>>)
  /\ srv' = [srv EXCEPT !.conn[i].st = st,
                        !.conn[i].txseq = (@ + 1) % SeqMod]

SrvData(i) ==
  /\ budget.down[i] > 0
  /\ SrvSay(i, "data", Msg("data"), "ready")
  /\ budget' = [budget EXCEPT !.down[i] = @ - 1]

SrvHelloRequest(i) ==
  /\ budget.renegotiations > 0
  /\ SrvSay(i, "handshake", Msg("HR"), "asked")
  /\ budget' = [budget EXCEPT !.renegotiations = @ - 1]

SrvClose(i) ==
  /\ Fault(1)
  /\ \E t \in {"close_notify", "fatal"} : SrvSay(i, "alert", Msg(t), "closed")

\* The server drops what it kept of earlier sessions.
SrvForget ==
  /\ budget.forgets > 0 /\ srv.cache # {}
  /\ srv' = [srv EXCEPT !.cache = {}]
  /\ budget' = [budget EXCEPT !.forgets = @ - 1]
  /\ UNCHANGED tls

-----------------------------------------------------------------------------
(* Specification *)

Next ==
  \/ \E i \in Conns : \/ AddTls(i) \/ Step(i) \/ Receive(i) \/ Validate(i)
                      \/ AppSend(i) \/ CloseConnection(i) \/ TcpWindow(i)
                      \/ SrvRead(i) \/ SrvData(i) \/ SrvHelloRequest(i)
                      \/ SrvClose(i)
  \/ SrvForget

Spec == Init /\ [][Next]_vars

\* iPXE runs scheduled processes and polls the network in turn; TCP
\* delivers and acknowledges, the validator ends, the server answers.
Fairness ==
  \A i \in Conns : WF_vars(Step(i) \/ Receive(i) \/ Validate(i) \/
                           TcpWindow(i) \/ SrvRead(i))
FairSpec == Spec /\ Fairness

-----------------------------------------------------------------------------
(* Properties *)

Negotiating(i) == /\ tls.conn[i].open /\ tls.conn[i].server_negotiation
                  /\ "HELLO" \notin tls.conn[i].pending

\* tls_tx_step() is to "serialise server negotiations within a session, to
\* provide a consistent view of session IDs and session tickets": two
\* connections are never both between ClientHello and server Finished.
Serialised ==
  \A i, j \in Conns : Negotiating(i) /\ Negotiating(j) => i = j

\* A connection fails only because of a fault (memory, a close, a download
\* or a store that failed), because its server is not the one first met, or
\* because the server asks to renegotiate without the extended secret:
\* neither the other connections of its session, nor resuming what they
\* left, nor the order of events ever breaks a handshake or a record.
FailsForCause ==
  \A i \in Conns :
    LET c == tls.conn[i]
    IN c.rc # "ok" =>
         \/ budget.faults < MaxFaults
         \/ c.rc = "EACCES" /\ c.chain[1] \notin Trusted /\ c.chain # tls.fp
         \/ c.rc = "EPERM_RENEG_INSECURE" /\ ~c.extended_master_secret

\* The server opens every record and wants every message it is sent:
\* numbers restart with the cipher, both ends digest the same messages,
\* and the flights of full and resumed handshakes are in order.
PeerAccepts == \A i \in Conns : srv.conn[i].st # "bad"

\* Application data flows only under a secret that the server shares and
\* that is bound to a certificate that has been validated or accepted on
\* first contact; there is one such certificate besides the trusted ones.
AuthenticatedData ==
  \A i \in Conns :
    LET c == tls.conn[i]
    IN c.open /\ Ready(c) =>
         /\ IsValid(tls, c.bound) /\ c.keyed
         /\ c.kdf = srv.conn[i].kdf
         /\ c.bound[1] \in Trusted \/ c.bound = tls.fp

\* What the session keeps belongs together: if the server would resume
\* from the stored ID or ticket, it would with the stored secret.
ResumptionAgrees ==
  \A e \in srv.cache :
    e.name \in {tls.sess.id, tls.sess.ticket} /\ tls.sess.cert # None
    => e.kdf = tls.sess.secret /\ e.ems = tls.sess.extended_master_secret

\* Every connection that starts to negotiate becomes ready or closes: a
\* connection that waits its turn is resumed when its turn comes
\* (tls_tx_resume_all() on every Finished and every close).
Negotiates ==
  \A i \in Conns : ~Ready(tls.conn[i]) ~> Ready(tls.conn[i])
=============================================================================
