--------------------------- MODULE MCBootHandover ---------------------------
(***************************************************************************)
(* Boot scripts, machines and texts for BootHandover: lengths at the       *)
(* limits of the fields and beyond, ports that are the TLS port and ports  *)
(* that are not, parameters that are empty or repeated, and 9, 10 and 11   *)
(* sessions.                                                               *)
(***************************************************************************)
EXTENDS BootHandover

Param(name, value) == [name |-> name, value |-> value]
Uri(host, port, nqn, query) ==
  [host |-> host, port |-> port, path |-> [slash |-> TRUE, nqn |-> nqn],
   query |-> query]

Host == Text(<<"host">>, 15)
LongHost == Text(<<"name">>, 127)
Nqn == Text(<<"nqn">>, 40)
LongNqn == Text(<<"longest">>, 255)
TooLong == Text(<<"longest">>, 256)
Secret == Text(<<"secret">>, 319)
Key == Text(<<"key">>, 64)
LongKey == Text(<<"key48">>, 96)
FullKey == Text(<<"key">>, 128)
OddKey == Text(<<"key">>, 63)
NotHex == Text(<<"xyz">>, 64)
Port == Text(<<"4420">>, 4)
PaddedPort == Text(<<"04420">>, 5)
FullPort == Text(<<"0000000000004420">>, 16)
CutPort == Text(<<"0000000000004420">>, 15)
FullHost == Text(<<"name">>, 128)
TlsPort == Text(<<"4421">>, 4)
HugePort == Text(<<"69956">>, 5)

Plain == Uri(Host, 0, Nqn, << >>)
Authenticated == Uri(Host, 4420, LongNqn, <<Param("xsecret", Key), Param("secret", Secret)>>)
Handed == Uri(LongHost, 0, Nqn,
  <<Param("secret", Secret), Param("tls_psk", Key), Param("tls_trsvcid", TlsPort)>>)
Encrypted == Uri(Host, 4421, Nqn, <<Param("tls_psk", LongKey), Param("tls_trsvcid", TlsPort)>>)
Padded == Uri(Host, 0, LongNqn, <<Param("tls_trsvcid", PaddedPort), Param("tls_psk", Key)>>)
Huge == Uri(Host, 4420, Nqn, <<Param("tls_trsvcid", HugePort), Param("tls_psk", OddKey)>>)
Odd == Uri(Host, 4421, Nqn, <<Param("tls_psk", OddKey), Param("tls_trsvcid", TlsPort)>>)
Malformed == Uri(Host, 4421, Nqn, <<Param("tls_psk", NotHex), Param("tls_trsvcid", TlsPort)>>)
Keyless == Uri(Host, 0, Nqn, <<Param("tls_psk", Empty), Param("tls_trsvcid", TlsPort)>>)
Full == Uri(FullHost, 0, Nqn, <<Param("tls_psk", FullKey), Param("tls_trsvcid", Port)>>)
FullTls == Uri(Host, 0, Nqn, <<Param("tls_psk", Key), Param("tls_trsvcid", FullPort)>>)
Nowhere == Uri(Empty, 0, Nqn, << >>)
Unnamed == Uri(Host, 0, Empty, << >>)
Overlong == Uri(Host, 0, TooLong, << >>)
Relative == [Plain EXCEPT !.path.slash = FALSE]

Uris == {Plain, Authenticated, Handed, Encrypted, Padded, Huge, Keyless}
Refused == {Odd, Malformed, Nowhere, Unnamed, Overlong, Relative}
Times(n, uri) == [k \in 1..n |-> uri]

MCScripts ==
  {<< >>} \cup [1..2 -> Uris] \cup {<<Plain, uri>> : uri \in Refused \cup {Full, FullTls}}
    \cup {Times(n, Handed) : n \in {9, 10, 11}}

Uuid(last) == [k \in 1..36 |-> IF k = 36 THEN last ELSE "0"]
MCMachines ==
  {[uuid |-> Uuid("1"), set |-> FALSE, hostnqn |-> Empty],
   [uuid |-> << >>, set |-> FALSE, hostnqn |-> Empty],
   [uuid |-> Uuid("1"), set |-> TRUE, hostnqn |-> Text(<<"configured">>, 240)],
   [uuid |-> Uuid("1"), set |-> TRUE, hostnqn |-> Empty]}
MCDecimal == [t \in {Port, PaddedPort, TlsPort, HugePort, FullPort, CutPort} |->
  CASE t \in {Port, PaddedPort, FullPort} -> 4420
    [] t = TlsPort -> 4421 [] t = HugePort -> 69956 [] t = CutPort -> 442]
MCHexadecimal == {<<"key">>, <<"key48">>}
=============================================================================
