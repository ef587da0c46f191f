------------------------- MODULE Tls13KeySchedule -------------------------
(***************************************************************************)
(* The TLS 1.3 primitives at the head of net/tls.c, as symbolic terms: a   *)
(* secret is the tuple of what it was derived from, so two secrets are     *)
(* equal exactly when both ends fed the same inputs into the derivation,   *)
(* and a sealed record opens exactly under the key and nonce it was sealed *)
(* with.  Lengths, where the code checks them, are numbers.                *)
(***************************************************************************)
EXTENDS Naturals, Sequences

NoKey == [key |-> << >>, iv |-> << >>]

\* HKDF-Expand-Label: the label is length-prefixed, so the term is injective.
ExpandLabel(secret, label, context) == <<label, secret, context>>
DeriveSecret(secret, label, transcript) ==
  ExpandLabel(secret, label, transcript)

EarlySecret(psk) == <<"early", psk>>
HandshakeSecret(early, ecdhe) ==
  <<"handshake", DeriveSecret(early, "derived", << >>), ecdhe>>
MasterSecret(handshake) ==
  <<"master", DeriveSecret(handshake, "derived", << >>)>>

TrafficKey(secret) == [key |-> ExpandLabel(secret, "key", << >>),
                       iv  |-> ExpandLabel(secret, "iv", << >>)]
FinishedMac(secret, transcript) ==
  <<"hmac", ExpandLabel(secret, "finished", << >>), transcript>>
Binder(early, label, truncated) ==
  FinishedMac(DeriveSecret(early, label, << >>), truncated)

\* x25519: both ends reach the same secret from the two public keys.
SharedSecret(private, partner) == {private, partner}
HandshakeExchange(early, private, partner) ==
  HandshakeSecret(early, SharedSecret(private, partner))

\* The per-record nonce: the sequence number exclusive-ored into the IV.
Nonce(iv, seq) == <<iv, seq>>
Seal(k, seq, type, data) ==
  [key |-> k.key, nonce |-> Nonce(k.iv, seq), type |-> type, data |-> data]
Open(k, seq, r) == r.key = k.key /\ r.nonce = Nonce(k.iv, seq)

(***************************************************************************)
(* The ClientHello: the space its writer asks for and the bytes it writes. *)
(***************************************************************************)
BinderListLen == 2 + 1 + 32
EntryLen(identity_len) == 2 + identity_len + 4
Preamble == 4 + 2 + 32 + 1 + (2 + 2) + (1 + 1) + 2

ClientHelloNeeded(identity_len) ==
  Preamble + 7 + 8 + 38 + 6 + 4 + 2 + EntryLen(identity_len) + BinderListLen

\* Each extension is its type, its length and its data.
ClientHelloWritten(identity_len) ==
  LET supported_versions == 2 + 2 + 1 + 2
      supported_groups == 2 + 2 + 2 + 2
      key_share == 2 + 2 + 2 + 2 + 2 + 32
      psk_modes == 2 + 2 + 1 + 1
      pre_shared_key == 2 + 2 + 2 + EntryLen(identity_len) + BinderListLen
  IN Preamble + supported_versions + supported_groups + key_share
       + psk_modes + pre_shared_key

\* tls13_client_hello(): the length of the message, or 0 when it is refused.
ClientHello(max_len, identity_len) ==
  IF identity_len > 65535 \/ max_len < ClientHelloNeeded(identity_len)
  THEN 0 ELSE ClientHelloWritten(identity_len)

\* tls13_handshake_update(): a message joins the transcript if it fits.
Transcripts == [msgs : Seq(STRING), len : Nat]
TranscriptFits(hs, len, size) == hs.len + len <= size
TranscriptUpdate(hs, msg, len) ==
  [msgs |-> Append(hs.msgs, msg), len |-> hs.len + len]
=============================================================================
