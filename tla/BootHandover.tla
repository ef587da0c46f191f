---------------------------- MODULE BootHandover ----------------------------
(***************************************************************************)
(* How a boot session passes from the firmware to the operating system.    *)
(* The firmware parses an nvme:// URI (net/tcp/nvmetcp.c), opens the        *)
(* session, over TLS if it is told to, and describes all sessions in the   *)
(* NBCT ACPI table (drivers/block/nbct.c).  The initramfs reads the table  *)
(* and connects every session again (initramfs-nbft/nbft-connect, called   *)
(* from local-top/nbft).                                                   *)
(*                                                                         *)
(* A text is its pieces and its length; cutting a text shortens it.  A     *)
(* query string is the sequence of its parameters.                         *)
(***************************************************************************)
EXTENDS Integers, Sequences, FiniteSets

CONSTANTS
  Scripts,     \* sequences of URIs that a boot script hooks one by one
  Machines,    \* [uuid, set, hostnqn]: identifier of a machine, hostnqn setting
  Decimal,     \* the values of the texts that are decimal
  Hexadecimal, \* the texts that are hexadecimal
  MaxFailures  \* bound: failed injections, connections and installations

\* A script is a sequence of URIs, and the length of a name is a number.
ASSUME BootConstants ==
  /\ MaxFailures \in Nat
  /\ \A script \in Scripts :
       /\ script \in Seq({script[k] : k \in DOMAIN script})
       /\ \A k \in DOMAIN script : script[k].path.nqn.len \in Nat

VARIABLES fw, os, failures
vars == <<fw, os, failures>>

Text(pieces, len) == [pieces |-> pieces, len |-> len]
Empty == Text(<<"">>, 0)

\* snprintf() into a field of size bytes, with its terminator.
Cut(t, size) == IF t.len < size THEN t ELSE Text(t.pieces, size - 1)

-----------------------------------------------------------------------------
(* nvmetcp.c: parsing *)

NVMF_NQN_FIELD_LEN == 256
NVMETCP_MAX_IDENTITY == 512
NVMETCP_MAX_PSK == 64
NVMETCP_DEFAULT_PORT == 4420
PORT_MAX == 65535
PrefixLen == 21   \* "nqn.2014-08.org.ipxe:"
UuidLen == 36     \* as formatted by uuid_ntoa()

\* nvmetcp_parse_qparam(): the first parameter of that very name, which
\* counts as absent when it is empty.
QParam(query, name) ==
  LET hits == {k \in 1..Len(query) : query[k].name = name}
      first == CHOOSE k \in hits : \A j \in hits : k <= j
  IN IF hits = {} THEN Empty ELSE query[first].value

\* nvmetcp_set_host_nqn(): the setting, or a prefix and the UUID in a buffer
\* with room for two digits per byte.
HostNqn(m) ==
  LET size == PrefixLen + 2 * 16
      uuid == Text(m.uuid, PrefixLen + UuidLen)
      kept == size - 1 - PrefixLen
  IN IF m.set THEN m.hostnqn
     ELSE IF m.uuid = << >> THEN Text(<<"ipxe">>, PrefixLen + 4)
     ELSE IF uuid.len < size THEN uuid
     ELSE Text(SubSeq(m.uuid, 1, kept), size - 1)

PortOf(t) == IF t \in DOMAIN Decimal THEN Decimal[t] ELSE -1

\* nvmetcp_use_tls(): a key, and the TLS port is the port connected to.
UseTls(s) == /\ s.tls_psk # Empty /\ s.tls_trsvcid # Empty
             /\ PortOf(s.tls_trsvcid) \in 0..PORT_MAX
             /\ PortOf(s.tls_trsvcid) = s.port

\* nvmetcp_hex_nibble() and the loop over it.
Raw(t) == [pieces |-> t.pieces, bytes |-> t.len \div 2]
ValidPsk(t) == /\ t.len > 0 /\ t.len % 2 = 0 /\ t.len \div 2 <= NVMETCP_MAX_PSK
               /\ t.pieces \in Hexadecimal

Identity(host, nqn) == <<"NVMe0R01", host, nqn>>
IdentityLen(host, nqn) == 8 + 1 + host.len + 1 + nqn.len

\* nvmetcp_tls_params()
TlsParams(s) ==
  IF ~ValidPsk(s.tls_psk) \/ IdentityLen(s.hostnqn, s.nqn) >= NVMETCP_MAX_IDENTITY
  THEN "EINVAL" ELSE "ok"

\* nvmetcp_parse_root_path(), nvmetcp_parse_secret(), nvmetcp_parse_tls()
Parsed(uri, m) ==
  [host |-> uri.host,
   port |-> IF uri.port = 0 THEN NVMETCP_DEFAULT_PORT ELSE uri.port,
   nqn |-> uri.path.nqn, hostnqn |-> HostNqn(m),
   secret |-> QParam(uri.query, "secret"),
   tls_psk |-> QParam(uri.query, "tls_psk"),
   tls_trsvcid |-> QParam(uri.query, "tls_trsvcid")]

\* nvmetcp_open() and nvmetcp_open_socket()
OpenStatus(uri, m) ==
  LET s == Parsed(uri, m)
  IN IF uri.host = Empty THEN "EINVAL_NO_TARGET"
     ELSE IF ~uri.path.slash \/ s.nqn.len = 0 \/ s.nqn.len >= NVMF_NQN_FIELD_LEN
     THEN "EINVAL_NO_SUBSYSTEM_NQN"
     ELSE IF UseTls(s) THEN TlsParams(s) ELSE "ok"

-----------------------------------------------------------------------------
(* nbct.c: the table *)

NBCT_TRADDR_LEN == 128
NBCT_NQN_LEN == 256
NBCT_HOSTNQN_LEN == 256
NBCT_SECRET_LEN == 320
NBCT_TLS_TRSVCID_LEN == 16
NBCT_TLS_PSK_LEN == 128

\* Mutant: the TLS port is left out when it is the port connected to.
NbctEntryOnce(s) ==
  [traddr |-> Cut(s.host, NBCT_TRADDR_LEN), trsvcid |-> s.port,
   nqn |-> Cut(s.nqn, NBCT_NQN_LEN), hostnqn |-> Cut(s.hostnqn, NBCT_HOSTNQN_LEN),
   secret |-> Cut(s.secret, NBCT_SECRET_LEN),
   tls_trsvcid |-> IF PortOf(s.tls_trsvcid) = s.port THEN Empty
                   ELSE Cut(s.tls_trsvcid, NBCT_TLS_TRSVCID_LEN),
   tls_psk |-> Cut(s.tls_psk, NBCT_TLS_PSK_LEN)]

NbctEntry(s) ==
  [traddr |-> Cut(s.host, NBCT_TRADDR_LEN), trsvcid |-> s.port,
   nqn |-> Cut(s.nqn, NBCT_NQN_LEN), hostnqn |-> Cut(s.hostnqn, NBCT_HOSTNQN_LEN),
   secret |-> Cut(s.secret, NBCT_SECRET_LEN),
   tls_trsvcid |-> Cut(s.tls_trsvcid, NBCT_TLS_TRSVCID_LEN),
   tls_psk |-> Cut(s.tls_psk, NBCT_TLS_PSK_LEN)]

\* nbct_install(): no table without sessions; the count is one byte.
NbctTable(sessions) ==
  [present |-> sessions # << >>, count |-> Len(sessions) % 256,
   entries |-> [k \in DOMAIN sessions |-> NbctEntry(sessions[k])]]

NoTable == NbctTable(<< >>)

-----------------------------------------------------------------------------
(* nbft-connect *)

\* The count byte read back as text by the shell: a NUL and a newline are
\* read as nothing.
ReadCount(byte) == IF byte \in {0, 10} THEN 0 ELSE byte

\* An incomplete entry cannot be used, nor one that asks for TLS without a
\* host name.
Tls(e) == e.tls_trsvcid # Empty
Usable(e) == /\ e.traddr # Empty /\ e.nqn # Empty
             /\ Tls(e) => e.hostnqn # Empty
NeedsKey(e) == Tls(e) /\ e.tls_psk # Empty

\* hex_to_raw() stops at an odd tail or at anything not hexadecimal.
HexToRaw(t) == IF t.pieces \in Hexadecimal THEN Raw(t)
               ELSE [pieces |-> << >>, bytes |-> 0]

\* Mutant: the names are swapped in the identity.
InjectSwapped(keyring, e) ==
  keyring \cup {<<Identity(e.nqn, e.hostnqn), HexToRaw(e.tls_psk)>>}

\* inject_tls_psk(): a key of that identity is replaced.
Inject(keyring, e) ==
  {k \in keyring : k[1] # Identity(e.hostnqn, e.nqn)}
    \cup {<<Identity(e.hostnqn, e.nqn), HexToRaw(e.tls_psk)>>}

\* The nvme connect command of entry i.
Command(i, e, keyring) ==
  [entry |-> i, traddr |-> e.traddr, nqn |-> e.nqn, hostnqn |-> e.hostnqn,
   tls |-> Tls(e),
   port |-> IF Tls(e) THEN PortOf(e.tls_trsvcid) ELSE e.trsvcid,
   secret |-> IF Tls(e) THEN Empty ELSE e.secret,
   keys |-> {k[2] : k \in {x \in keyring : Tls(e) /\ x[1] = Identity(e.hostnqn, e.nqn)}}]

-----------------------------------------------------------------------------
Init ==
  /\ \E script \in Scripts, m \in Machines :
       fw = [script |-> script, machine |-> m, sessions |-> << >>,
             table |-> NoTable, st |-> "script"]
  /\ os = [pc |-> "off", table |-> NoTable, i |-> 0, count |-> 0, rc |-> 0,
           cmds |-> << >>, keyring |-> {}, up |-> {}]
  /\ failures = 0

\* nvmetcp_open() for the next URI; a session that cannot be opened ends the
\* script, a hooked one is added to the descriptors of the table.
SanHook ==
  LET uri == Head(fw.script)
      s == Parsed(uri, fw.machine)
  IN /\ fw.st = "script" /\ fw.script # << >>
     /\ fw' = IF OpenStatus(uri, fw.machine) = "ok"
              THEN [fw EXCEPT !.script = Tail(@), !.sessions = Append(@, s)]
              ELSE [fw EXCEPT !.st = "failed"]
     /\ UNCHANGED <<os, failures>>

\* The sessions are described and the system booted, unless there is no
\* memory for the table or it cannot be installed.
Describe ==
  /\ fw.st = "script" /\ fw.script = << >>
  /\ \/ /\ fw' = [fw EXCEPT !.table = NbctTable(fw.sessions), !.st = "booted"]
        /\ UNCHANGED failures
     \/ /\ failures < MaxFailures /\ fw.sessions # << >>
        /\ failures' = failures + 1
        /\ fw' = [fw EXCEPT !.st = "failed"]
  /\ UNCHANGED os

\* local-top/nbft and do_connect(): with nbft_auto and a table, credentials
\* are read from it; without, the boot goes on without them.
Start ==
  /\ fw.st = "booted" /\ os.pc = "off"
  /\ os' = [os EXCEPT !.table = fw.table,
              !.count = ReadCount(fw.table.count),
              !.pc = IF fw.table.present THEN "loop" ELSE "fallback"]
  /\ UNCHANGED <<fw, failures>>

More == os.pc = "loop" /\ os.i < os.count
Entry == os.table.entries[os.i + 1]

\* Mutant: a failed entry is not remembered.
SkipQuietly(o) == [o EXCEPT !.i = @ + 1]

\* A failed entry makes the result an error, and the loop goes on.
Skip(o) == [o EXCEPT !.i = @ + 1, !.rc = 1]

SkipEntry ==
  /\ More /\ ~Usable(Entry)
  /\ os' = Skip(os)
  /\ UNCHANGED <<fw, failures>>

\* The key cannot be added to the keyring of the kernel.
InjectFails ==
  /\ More /\ Usable(Entry) /\ NeedsKey(Entry) /\ failures < MaxFailures
  /\ failures' = failures + 1 /\ os' = Skip(os)
  /\ UNCHANGED fw

\* nvme connect, after the key was added, which succeeds or fails.
ConnectEntry(ok) ==
  LET keyring == IF NeedsKey(Entry) THEN Inject(os.keyring, Entry) ELSE os.keyring
      o == [os EXCEPT !.keyring = keyring,
                      !.cmds = Append(@, Command(os.i, Entry, keyring))]
  IN /\ More /\ Usable(Entry)
     /\ ~ok => failures < MaxFailures
     /\ failures' = failures + IF ok THEN 0 ELSE 1
     /\ os' = IF ok THEN [o EXCEPT !.i = @ + 1, !.up = @ \cup {os.i}] ELSE Skip(o)
     /\ UNCHANGED fw

Finish ==
  /\ os.pc = "loop" /\ ~More
  /\ os' = [os EXCEPT !.pc = "done"]
  /\ UNCHANGED <<fw, failures>>

Next == \/ SanHook \/ Describe \/ Start \/ SkipEntry \/ InjectFails \/ Finish
        \/ \E ok \in BOOLEAN : ConnectEntry(ok)

Spec == Init /\ [][Next]_vars

-----------------------------------------------------------------------------
(* Properties *)

Session(cmd) == fw.sessions[cmd.entry + 1]

\* A session that the table has room for; the firmware sees that the name
\* of the subsystem fits, and that a key is hexadecimal if it uses it itself.
FitsEntry(s) ==
  /\ s.host.len < NBCT_TRADDR_LEN /\ s.hostnqn.len < NBCT_HOSTNQN_LEN
  /\ s.secret.len < NBCT_SECRET_LEN /\ s.tls_psk.len < NBCT_TLS_PSK_LEN
  /\ s.tls_trsvcid.len < NBCT_TLS_TRSVCID_LEN
  /\ s.tls_psk = Empty \/ UseTls(s) \/ s.tls_psk.pieces \in Hexadecimal

\* What the system connects is what the firmware had: the same subsystem at
\* the same address under the same host name, with the same secret, or with
\* the key and the identity that the firmware's own handshake used.
Kept(c, s) ==
  /\ c.traddr = s.host /\ c.nqn = s.nqn /\ c.hostnqn = s.hostnqn
  /\ ~c.tls => c.port = s.port /\ c.secret = s.secret
  /\ c.tls /\ s.tls_psk # Empty => c.keys = {Raw(s.tls_psk)}
SameSession ==
  \A k \in DOMAIN os.cmds :
    FitsEntry(Session(os.cmds[k])) => Kept(os.cmds[k], Session(os.cmds[k]))

\* A session that the firmware encrypted is never connected in plain text,
\* nor, where its port fits, to another port, whatever else is cut.
StaysEncrypted ==
  \A k \in DOMAIN os.cmds :
    LET s == Session(os.cmds[k])
    IN UseTls(s) =>
         /\ os.cmds[k].tls
         /\ s.tls_trsvcid.len < NBCT_TLS_TRSVCID_LEN => os.cmds[k].port = s.port

\* Success is reported only when every session of the firmware is up, for
\* every number of sessions that the count byte can hold and the shell can
\* read; one bad record blocks no other.
AllConnected ==
  os.pc = "done" /\ Len(fw.sessions) \in (1..255) \ {10} =>
    /\ os.rc = 0 => os.up = 0..(Len(fw.sessions) - 1)
    /\ Cardinality({k \in DOMAIN fw.sessions :
         k - 1 \notin os.up /\ Usable(os.table.entries[k])}) <= failures

\* "The NQN of real hardware is unique to each machine": it ends in the
\* whole UUID of the machine.
HostNqnIsUuid ==
  \A k \in DOMAIN fw.sessions :
    ~fw.machine.set /\ fw.machine.uuid # << >> =>
      fw.sessions[k].hostnqn = Text(fw.machine.uuid, PrefixLen + UuidLen)
=============================================================================
