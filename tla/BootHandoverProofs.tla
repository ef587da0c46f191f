------------------------- MODULE BootHandoverProofs -------------------------
(***************************************************************************)
(* Proofs about BootHandover, for every boot script, machine, text and     *)
(* number of failures: what the system connects is what the firmware had,  *)
(* nothing encrypted is connected in plain text, and success means that    *)
(* every session is up.                                                    *)
(***************************************************************************)
EXTENDS BootHandover, FiniteSetTheorems, TLAPS

-----------------------------------------------------------------------------
(* The inductive invariant *)

IsSeq(s) == \E S : s \in Seq(S)

\* What nvmetcp_open() has made sure of in a session.
Sound(s) ==
  /\ s.host # Empty /\ s.nqn.len \in 1..(NVMF_NQN_FIELD_LEN - 1)
  /\ UseTls(s) => s.tls_psk.pieces \in Hexadecimal

\* What the firmware knows: the rest of its script, and sessions.
FwFields == {"script", "machine", "sessions", "table", "st"}
FwOK(f) ==
  /\ f = [x \in FwFields |-> f[x]]
  /\ IsSeq(f.script) /\ \A k \in 1..Len(f.script) : f.script[k].path.nqn.len \in Nat
  /\ IsSeq(f.sessions) /\ \A k \in 1..Len(f.sessions) : Sound(f.sessions[k])
  /\ f.st \in {"script", "failed", "booted"}
  /\ f.st = "booted" => f.table = NbctTable(f.sessions)

\* A command that connects the session of table entry e.
Connects(c, e) ==
  /\ c.traddr = e.traddr /\ c.nqn = e.nqn /\ c.hostnqn = e.hostnqn /\ c.tls = Tls(e)
  /\ c.port = IF Tls(e) THEN PortOf(e.tls_trsvcid) ELSE e.trsvcid
  /\ ~Tls(e) => c.secret = e.secret
  /\ NeedsKey(e) => c.keys = {HexToRaw(e.tls_psk)}

\* The usable entries among those passed that are not connected.
Missed(o) == {k \in 1..o.i : k - 1 \notin o.up /\ Usable(o.table.entries[k])}

OsFields == {"pc", "table", "i", "count", "rc", "cmds", "keyring", "up"}
\* Where the system stands in the table.
Placed(o, f) ==
  /\ o = [x \in OsFields |-> o[x]]
  /\ o.pc \in {"off", "loop", "fallback", "done"}
  /\ o.pc # "off" => f.st = "booted" /\ o.table = NbctTable(f.sessions)
  /\ o.pc \in {"off", "fallback"} => o.i = 0
  /\ o.pc \in {"loop", "done"} => /\ o.count = ReadCount(Len(f.sessions) % 256)
                                  /\ o.i \in 0..o.count
  /\ o.pc = "done" => o.i = o.count
  /\ o.i \in Nat /\ o.i <= Len(f.sessions)
\* What it has reported, after n failures.
Reported(o, n) ==
  /\ o.up \subseteq 0..(o.i - 1) /\ (o.rc = 0 => o.up = 0..(o.i - 1))
  /\ n \in Nat /\ IsFiniteSet(Missed(o)) /\ Cardinality(Missed(o)) <= n
\* What it has connected.
Commanded(o, f) ==
  /\ IsSeq(o.cmds)
  /\ \A k \in 1..Len(o.cmds) :
       /\ o.cmds[k].entry \in 0..(o.i - 1)
       /\ Connects(o.cmds[k], NbctEntry(f.sessions[o.cmds[k].entry + 1]))
OsOK(o, f, n) == Placed(o, f) /\ Reported(o, n) /\ Commanded(o, f)

Inv == FwOK(fw) /\ OsOK(os, fw, failures)

-----------------------------------------------------------------------------
(* Sequences, and the count byte *)

LEMMA SeqLen ==
  ASSUME NEW s, IsSeq(s)
  PROVE  Len(s) \in Nat /\ (Len(s) = 0 <=> s = << >>) /\ DOMAIN s = 1..Len(s)
BY DEF IsSeq

LEMMA SeqEmpty == IsSeq(<< >>) /\ Len(<< >>) = 0
<1>1. << >> \in Seq({})
  OBVIOUS
<1>2. QED
  BY <1>1 DEF IsSeq

LEMMA SeqAppend ==
  ASSUME NEW s, IsSeq(s), NEW e
  PROVE  /\ IsSeq(Append(s, e)) /\ Len(Append(s, e)) = Len(s) + 1 /\ Len(s) \in Nat
         /\ Append(s, e)[Len(s) + 1] = e
         /\ \A i \in 1..Len(s) : Append(s, e)[i] = s[i]
<1>1. PICK S : s \in Seq(S)
  BY DEF IsSeq
<1>2. s \in Seq(S \cup {e}) /\ e \in S \cup {e}
  BY <1>1
<1>3. QED
  BY <1>2 DEF IsSeq

LEMMA SeqTail ==
  ASSUME NEW s, IsSeq(s), s # << >>
  PROVE  /\ IsSeq(Tail(s)) /\ Len(Tail(s)) = Len(s) - 1 /\ Len(s) \in Nat \ {0}
         /\ Head(s) = s[1] /\ \A i \in 1..Len(Tail(s)) : Tail(s)[i] = s[i + 1]
<1>1. PICK S : s \in Seq(S)
  BY DEF IsSeq
<1>2. QED
  BY <1>1 DEF IsSeq

\* The shell never counts more entries than there are, and counts them all
\* where it can.
LEMMA CountOK ==
  ASSUME NEW n \in Nat
  PROVE  /\ ReadCount(n % 256) \in Nat /\ ReadCount(n % 256) <= n
         /\ n \in (1..255) \ {10} => ReadCount(n % 256) = n
<1>1. n % 256 \in 0..255 /\ n % 256 <= n /\ (n < 256 => n % 256 = n)
  OBVIOUS
<1>2. QED
  BY <1>1 DEF ReadCount

-----------------------------------------------------------------------------
(* The firmware *)

\* nvmetcp_open() hooks only sound sessions.
LEMMA OpenedSound ==
  ASSUME NEW uri, NEW m, uri.path.nqn.len \in Nat, OpenStatus(uri, m) = "ok"
  PROVE  Sound(Parsed(uri, m))
<1>1. PICK s : s = Parsed(uri, m)
  OBVIOUS
<1>2. s.host = uri.host /\ s.nqn = uri.path.nqn
  BY <1>1 DEF Parsed
<1>3. /\ uri.host # Empty /\ s.nqn.len # 0 /\ ~(s.nqn.len >= NVMF_NQN_FIELD_LEN)
      /\ UseTls(s) => TlsParams(s) = "ok"
  BY <1>1 DEF OpenStatus
<1>4. UseTls(s) => ValidPsk(s.tls_psk)
  BY <1>3 DEF TlsParams
<1>5. s.nqn.len \in 1..(NVMF_NQN_FIELD_LEN - 1)
  BY <1>2, <1>3 DEF NVMF_NQN_FIELD_LEN
<1>6. QED
  BY <1>1, <1>2, <1>3, <1>4, <1>5 DEF Sound, ValidPsk

LEMMA InitInv ==
  ASSUME Init
  PROVE  Inv
<1>1. PICK script \in Scripts, m \in Machines :
        fw = [script |-> script, machine |-> m, sessions |-> << >>,
              table |-> NoTable, st |-> "script"]
  BY DEF Init
<1>2. /\ os = [pc |-> "off", table |-> NoTable, i |-> 0, count |-> 0, rc |-> 0,
               cmds |-> << >>, keyring |-> {}, up |-> {}]
      /\ failures = 0
  BY DEF Init
<1>3. IsSeq(script) /\ \A k \in 1..Len(script) : script[k].path.nqn.len \in Nat
  <2>1. /\ script \in Seq({script[k] : k \in DOMAIN script})
        /\ \A k \in DOMAIN script : script[k].path.nqn.len \in Nat
    BY BootConstants
  <2>2. IsSeq(script)
    BY Zenon, <2>1 DEF IsSeq
  <2>3. QED
    BY <2>1, <2>2, SeqLen
<1>4. FwOK(fw)
  BY <1>1, <1>3, SeqEmpty DEF FwOK, FwFields
<1>5. OsOK(os, fw, failures)
  <2>1. Missed(os) = {}
    BY <1>2 DEF Missed
  <2>2. IsFiniteSet(Missed(os)) /\ Cardinality(Missed(os)) = 0
    BY <2>1, FS_EmptySet
  <2>3. os.up = 0..(os.i - 1)
    BY <1>2
  <2>4. Len(fw.sessions) = 0
    BY <1>1, SeqEmpty
  <2>5. os = [x \in OsFields |-> os[x]]
    BY <1>2 DEF OsFields
  <2>6. /\ os.pc = "off" /\ os.i = 0 /\ os.cmds = << >> /\ failures = 0
        /\ os.up = 0..(os.i - 1)
    BY <1>2
  <2>7. QED
    BY <2>2, <2>4, <2>5, <2>6, SeqEmpty DEF OsOK, Placed, Reported, Commanded
<1>6. QED
  BY <1>4, <1>5 DEF Inv

\* Before the system starts, the firmware may do as it likes.
LEMMA OsOff ==
  ASSUME NEW o, NEW f, NEW n, OsOK(o, f, n), o.pc = "off", NEW g, IsSeq(g.sessions),
         NEW n2 \in Nat, n <= n2
  PROVE  OsOK(o, g, n2)
<1>1. o.i = 0 /\ Placed(o, f) /\ Reported(o, n) /\ Commanded(o, f)
  BY DEF OsOK, Placed
<1>2. Placed(o, g)
  BY <1>1, SeqLen DEF Placed
<1>3. Reported(o, n2)
  BY <1>1, FS_CardinalityType DEF Reported
<1>4. IsSeq(o.cmds) /\ \A k \in 1..Len(o.cmds) : FALSE
  BY <1>1 DEF Commanded
<1>5. Commanded(o, g)
  BY <1>4 DEF Commanded
<1>6. QED
  BY <1>2, <1>3, <1>5 DEF OsOK

LEMMA HookStep ==
  ASSUME Inv, SanHook
  PROVE  Inv'
<1>1. FwOK(fw) /\ OsOK(os, fw, failures) /\ UNCHANGED <<os, failures>>
  BY DEF Inv, SanHook
<1>2. PICK uri, s : uri = Head(fw.script) /\ s = Parsed(uri, fw.machine)
  OBVIOUS
<1>3. /\ fw.st = "script" /\ fw.script # << >>
      /\ \/ /\ OpenStatus(uri, fw.machine) = "ok"
            /\ fw' = [fw EXCEPT !.script = Tail(@), !.sessions = Append(@, s)]
         \/ fw' = [fw EXCEPT !.st = "failed"]
  BY Zenon, <1>2 DEF SanHook
<1>4. os.pc = "off" /\ failures \in Nat
  BY <1>1, <1>3 DEF OsOK, Placed, Reported
<1>5. CASE fw' = [fw EXCEPT !.st = "failed"]
  <2>1. PICK g : g = [fw EXCEPT !.st = "failed"]
    OBVIOUS
  <2>2. /\ g = [x \in FwFields |-> g[x]] /\ g.st = "failed" /\ g.script = fw.script
        /\ g.sessions = fw.sessions
    BY Zenon, <1>1, <2>1 DEF FwOK, FwFields
  <2>3. FwOK(g) /\ IsSeq(g.sessions)
    BY <1>1, <2>2 DEF FwOK
  <2>4. OsOK(os, g, failures)
    BY <1>1, <1>4, <2>3, OsOff
  <2>5. QED
    BY <1>1, <1>5, <2>1, <2>3, <2>4 DEF Inv
<1>6. CASE /\ OpenStatus(uri, fw.machine) = "ok"
           /\ fw' = [fw EXCEPT !.script = Tail(@), !.sessions = Append(@, s)]
  <2>1. PICK g : g = [fw EXCEPT !.script = Tail(@), !.sessions = Append(@, s)]
    OBVIOUS
  <2>2. /\ g = [x \in FwFields |-> g[x]] /\ g.st = "script" /\ g.script = Tail(fw.script)
        /\ g.sessions = Append(fw.sessions, s)
    BY Zenon, <1>1, <1>3, <2>1 DEF FwOK, FwFields
  <2>3. /\ IsSeq(fw.script) /\ IsSeq(fw.sessions)
        /\ \A k \in 1..Len(fw.script) : fw.script[k].path.nqn.len \in Nat
        /\ \A k \in 1..Len(fw.sessions) : Sound(fw.sessions[k])
    BY <1>1 DEF FwOK
  <2>4. /\ IsSeq(g.script) /\ Len(g.script) = Len(fw.script) - 1 /\ uri = fw.script[1]
        /\ Len(fw.script) \in Nat \ {0}
        /\ \A k \in 1..Len(g.script) : g.script[k] = fw.script[k + 1]
    <3>1. PICK q : q = fw.script
      OBVIOUS
    <3>2. /\ IsSeq(Tail(q)) /\ Len(Tail(q)) = Len(q) - 1 /\ Len(q) \in Nat \ {0}
          /\ Head(q) = q[1] /\ \A i \in 1..Len(Tail(q)) : Tail(q)[i] = q[i + 1]
      BY <1>3, <2>3, <3>1, SeqTail
    <3>3. QED
      BY Zenon, <1>2, <2>2, <3>1, <3>2
  <2>5. uri.path.nqn.len \in Nat /\ \A k \in 1..Len(g.script) : g.script[k].path.nqn.len \in Nat
    BY <2>3, <2>4
  <2>6. Sound(s)
    BY <1>2, <1>6, <2>5, OpenedSound
  <2>7. /\ IsSeq(g.sessions) /\ Len(g.sessions) = Len(fw.sessions) + 1
        /\ Len(fw.sessions) \in Nat /\ g.sessions[Len(fw.sessions) + 1] = s
        /\ \A k \in 1..Len(fw.sessions) : g.sessions[k] = fw.sessions[k]
    <3>1. PICK q : q = fw.sessions
      OBVIOUS
    <3>2. /\ IsSeq(Append(q, s)) /\ Len(Append(q, s)) = Len(q) + 1 /\ Len(q) \in Nat
          /\ Append(q, s)[Len(q) + 1] = s
          /\ \A i \in 1..Len(q) : Append(q, s)[i] = q[i]
      BY <2>3, <3>1, SeqAppend
    <3>3. QED
      BY Zenon, <2>2, <3>1, <3>2
  <2>8. \A k \in 1..Len(g.sessions) : Sound(g.sessions[k])
    BY <2>3, <2>6, <2>7
  <2>9. FwOK(g)
    BY <2>2, <2>4, <2>5, <2>7, <2>8 DEF FwOK
  <2>10. OsOK(os, g, failures)
    BY <1>1, <1>4, <2>7, OsOff
  <2>11. QED
    BY <1>1, <1>6, <2>1, <2>9, <2>10 DEF Inv
<1>7. QED
  BY <1>3, <1>5, <1>6

LEMMA DescribeStep ==
  ASSUME Inv, Describe
  PROVE  Inv'
<1>1. FwOK(fw) /\ OsOK(os, fw, failures) /\ UNCHANGED os /\ fw.st = "script"
  BY DEF Inv, Describe
<1>2. \/ fw' = [fw EXCEPT !.table = NbctTable(fw.sessions), !.st = "booted"]
         /\ failures' = failures
      \/ failures' = failures + 1 /\ fw' = [fw EXCEPT !.st = "failed"]
  BY DEF Describe
<1>3. os.pc = "off" /\ failures \in Nat
  BY <1>1 DEF OsOK, Placed, Reported
<1>4. failures' \in Nat /\ failures <= failures'
  BY <1>2, <1>3
<1>5. FwOK(fw') /\ IsSeq(fw'.sessions)
  <2>1. CASE fw' = [fw EXCEPT !.table = NbctTable(fw.sessions), !.st = "booted"]
    <3>1. PICK g : g = [fw EXCEPT !.table = NbctTable(fw.sessions), !.st = "booted"]
      OBVIOUS
    <3>2. /\ g = [x \in FwFields |-> g[x]] /\ g.st = "booted" /\ g.script = fw.script
          /\ g.sessions = fw.sessions /\ g.table = NbctTable(fw.sessions)
      BY Zenon, <1>1, <3>1 DEF FwOK, FwFields
    <3>3. FwOK(g) /\ IsSeq(g.sessions)
      BY <1>1, <3>2 DEF FwOK
    <3>4. QED
      BY <2>1, <3>1, <3>3
  <2>2. CASE fw' = [fw EXCEPT !.st = "failed"]
    <3>1. PICK g : g = [fw EXCEPT !.st = "failed"]
      OBVIOUS
    <3>2. /\ g = [x \in FwFields |-> g[x]] /\ g.st = "failed" /\ g.script = fw.script
          /\ g.sessions = fw.sessions
      BY Zenon, <1>1, <3>1 DEF FwOK, FwFields
    <3>3. FwOK(g) /\ IsSeq(g.sessions)
      BY <1>1, <3>2 DEF FwOK
    <3>4. QED
      BY <2>2, <3>1, <3>3
  <2>3. QED
    BY <1>2, <2>1, <2>2
<1>6. PICK o, g, n, n2 : o = os /\ g = fw' /\ n = failures /\ n2 = failures'
  OBVIOUS
<1>7. OsOK(o, g, n2)
  BY <1>1, <1>3, <1>4, <1>5, <1>6, OsOff
<1>8. QED
  BY <1>1, <1>5, <1>6, <1>7 DEF Inv

-----------------------------------------------------------------------------
(* The system *)

LEMMA StartStep ==
  ASSUME Inv, Start
  PROVE  Inv'
<1>1. /\ FwOK(fw) /\ OsOK(os, fw, failures) /\ UNCHANGED <<fw, failures>>
      /\ fw.st = "booted" /\ os.pc = "off"
  BY DEF Inv, Start
<1>2. PICK t : t = NbctTable(fw.sessions)
  OBVIOUS
<1>3. /\ fw.table = t /\ t.count = Len(fw.sessions) % 256 /\ IsSeq(fw.sessions)
  BY <1>1, <1>2 DEF FwOK, NbctTable
<1>4. PICK pc : pc = IF t.present THEN "loop" ELSE "fallback"
  OBVIOUS
<1>5. PICK o : o = [os EXCEPT !.table = t, !.count = ReadCount(t.count), !.pc = pc]
  OBVIOUS
<1>6. os' = o
  BY Zenon, <1>3, <1>4, <1>5 DEF Start
<1>7. /\ o = [x \in OsFields |-> o[x]] /\ o.table = t /\ o.count = ReadCount(t.count)
      /\ o.pc = pc /\ o.i = os.i /\ o.up = os.up /\ o.rc = os.rc /\ o.cmds = os.cmds
  BY Zenon, <1>1, <1>5 DEF OsOK, Placed, OsFields
<1>8. os.i = 0 /\ Placed(os, fw) /\ Reported(os, failures) /\ Commanded(os, fw)
  BY <1>1 DEF OsOK, Placed
<1>9. pc \in {"loop", "fallback"}
  BY Zenon, <1>4
<1>10. Len(fw.sessions) \in Nat /\ o.count \in Nat
  <2>1. PICK n : n = Len(fw.sessions)
    OBVIOUS
  <2>2. n \in Nat
    BY <1>3, <2>1, SeqLen
  <2>3. ReadCount(n % 256) \in Nat
    BY <2>2, CountOK
  <2>4. QED
    BY <1>3, <1>7, <2>1, <2>2, <2>3
<1>11. Placed(o, fw)
  <2>1. /\ o.table = NbctTable(fw.sessions) /\ o.i = 0 /\ o.pc \in {"loop", "fallback"}
        /\ o.count = ReadCount(Len(fw.sessions) % 256)
    BY Zenon, <1>2, <1>3, <1>7, <1>8, <1>9
  <2>2. o.i \in 0..o.count /\ o.i \in Nat /\ o.i <= Len(fw.sessions)
    <3>1. o.i = 0
      BY Zenon, <2>1
    <3>2. QED
      BY <1>10, <3>1
  <2>3. o.pc # "done" /\ o.pc # "off"
    BY <2>1
  <2>4. QED
    BY Zenon, <1>1, <1>7, <2>1, <2>2, <2>3 DEF Placed
<1>12. Reported(o, failures)
  <2>1. Missed(o) = {}
    BY <1>7, <1>8 DEF Missed
  <2>2. IsFiniteSet(Missed(o)) /\ Cardinality(Missed(o)) = 0
    BY <2>1, FS_EmptySet
  <2>3. /\ o.up \subseteq 0..(o.i - 1) /\ (o.rc = 0 => o.up = 0..(o.i - 1))
        /\ failures \in Nat
    BY Zenon, <1>7, <1>8 DEF Reported
  <2>4. Cardinality(Missed(o)) <= failures
    BY <2>2, <2>3
  <2>5. QED
    BY Zenon, <2>2, <2>3, <2>4 DEF Reported
<1>13. Commanded(o, fw)
  BY <1>7, <1>8 DEF Commanded
<1>14. QED
  BY <1>1, <1>6, <1>11, <1>12, <1>13 DEF Inv, OsOK
\* What holds of the entry that the loop is at.
LEMMA AtEntry ==
  ASSUME Inv, More
  PROVE  /\ FwOK(fw) /\ Placed(os, fw) /\ Reported(os, failures) /\ Commanded(os, fw)
         /\ os.i \in Nat /\ os.count \in Nat /\ os.i + 1 <= os.count
         /\ os.count <= Len(fw.sessions) /\ Len(fw.sessions) \in Nat
         /\ Entry = NbctEntry(fw.sessions[os.i + 1]) /\ Entry = os.table.entries[os.i + 1]
<1>1. /\ FwOK(fw) /\ Placed(os, fw) /\ Reported(os, failures) /\ Commanded(os, fw)
      /\ os.pc = "loop" /\ os.i < os.count
  BY DEF Inv, OsOK, More
<1>2. /\ os.count = ReadCount(Len(fw.sessions) % 256) /\ os.i \in Nat
      /\ os.table = NbctTable(fw.sessions) /\ IsSeq(fw.sessions)
  BY <1>1 DEF Placed, FwOK
<1>3. Len(fw.sessions) \in Nat /\ DOMAIN fw.sessions = 1..Len(fw.sessions)
  BY <1>2, SeqLen
<1>4. os.count \in Nat /\ os.count <= Len(fw.sessions)
  <2>1. PICK n : n = Len(fw.sessions)
    OBVIOUS
  <2>2. ReadCount(n % 256) \in Nat /\ ReadCount(n % 256) <= n
    BY <1>3, <2>1, CountOK
  <2>3. QED
    BY <1>2, <2>1, <2>2
<1>5. os.i + 1 \in DOMAIN fw.sessions /\ os.i + 1 <= os.count
  <2>1. os.i \in Nat /\ os.i < os.count
    BY Zenon, <1>1, <1>2
  <2>2. QED
    BY <1>3, <1>4, <2>1
<1>6. os.table.entries = [k \in DOMAIN fw.sessions |-> NbctEntry(fw.sessions[k])]
  BY <1>2 DEF NbctTable
<1>7. os.table.entries[os.i + 1] = NbctEntry(fw.sessions[os.i + 1])
  BY <1>5, <1>6
<1>8. QED
  BY <1>1, <1>2, <1>3, <1>4, <1>5, <1>7 DEF Entry

\* A step of the loop: one entry further on, connected or not.
Moved(o, up, rc) ==
  /\ o = [x \in OsFields |-> o[x]] /\ o.pc = "loop" /\ o.table = os.table
  /\ o.count = os.count /\ o.i = os.i + 1 /\ o.up = up /\ o.rc = rc

LEMMA MovedPlaced ==
  ASSUME Inv, More, NEW o, NEW up, NEW rc, Moved(o, up, rc)
  PROVE  Placed(o, fw)
<1>1. /\ Placed(os, fw) /\ os.i \in Nat /\ os.count \in Nat /\ os.i + 1 <= os.count
      /\ os.count <= Len(fw.sessions) /\ Len(fw.sessions) \in Nat /\ os.pc = "loop"
  BY AtEntry DEF More
<1>2. /\ fw.st = "booted" /\ os.table = NbctTable(fw.sessions)
      /\ os.count = ReadCount(Len(fw.sessions) % 256)
  BY <1>1 DEF Placed
<1>3. /\ o.i \in 0..o.count /\ o.i \in Nat /\ o.i <= Len(fw.sessions)
  BY <1>1 DEF Moved
<1>4. QED
  BY <1>2, <1>3 DEF Placed, Moved

\* An entry that is passed over is remembered in the result, and was not
\* usable unless a failure was counted.
LEMMA SkipReported ==
  ASSUME Inv, More, NEW o, Moved(o, os.up, 1), NEW n, n \in Nat, failures <= n,
         ~Usable(Entry) \/ n = failures + 1
  PROVE  Reported(o, n)
<1>1. /\ Reported(os, failures) /\ os.i \in Nat /\ Entry = os.table.entries[os.i + 1]
      /\ o.i = os.i + 1 /\ o.up = os.up /\ o.table = os.table /\ o.rc = 1
  BY AtEntry DEF Moved
<1>2. /\ os.up \subseteq 0..(os.i - 1) /\ failures \in Nat /\ IsFiniteSet(Missed(os))
      /\ Cardinality(Missed(os)) <= failures
  BY <1>1 DEF Reported
<1>3. os.up \subseteq 0..(o.i - 1)
  BY <1>1, <1>2
<1>4. Cardinality(Missed(os)) \in Nat
  BY <1>2, FS_CardinalityType
<1>5. CASE ~Usable(Entry)
  <2>1. Missed(o) = Missed(os)
    BY <1>1, <1>5 DEF Missed
  <2>2. Cardinality(Missed(o)) <= n
    BY <1>2, <1>4, <2>1
  <2>3. QED
    BY <1>1, <1>2, <1>3, <2>1, <2>2 DEF Reported
<1>6. CASE Usable(Entry)
  <2>1. Missed(o) = Missed(os) \cup {os.i + 1}
    BY <1>1, <1>2, <1>6 DEF Missed
  <2>2. PICK S, x : S = Missed(os) /\ x = os.i + 1
    OBVIOUS
  <2>3. /\ IsFiniteSet(S \cup {x})
        /\ Cardinality(S \cup {x}) = IF x \in S THEN Cardinality(S) ELSE Cardinality(S) + 1
    BY <1>2, <2>2, FS_AddElement
  <2>4. IsFiniteSet(Missed(o)) /\ Cardinality(Missed(o)) <= n
    BY <1>2, <1>4, <1>6, <2>1, <2>2, <2>3
  <2>5. QED
    BY <1>1, <1>3, <2>4 DEF Reported
<1>7. QED
  BY <1>5, <1>6

LEMMA ConnectReported ==
  ASSUME Inv, More, NEW o, Moved(o, os.up \cup {os.i}, os.rc)
  PROVE  Reported(o, failures)
<1>1. /\ Reported(os, failures) /\ os.i \in Nat
      /\ o.i = os.i + 1 /\ o.up = os.up \cup {os.i} /\ o.table = os.table /\ o.rc = os.rc
  BY AtEntry DEF Moved
<1>2. /\ os.up \subseteq 0..(os.i - 1) /\ failures \in Nat /\ IsFiniteSet(Missed(os))
      /\ Cardinality(Missed(os)) <= failures
  BY <1>1 DEF Reported
<1>3. o.up \subseteq 0..(o.i - 1)
  BY <1>1, <1>2
<1>4. ASSUME o.rc = 0 PROVE o.up = 0..(o.i - 1)
  <2>1. os.up = 0..(os.i - 1)
    BY <1>1, <1>4 DEF Reported
  <2>2. QED
    BY <1>1, <2>1
<1>5. Missed(o) = Missed(os)
  BY <1>1, <1>2 DEF Missed
<1>6. QED
  BY <1>2, <1>3, <1>4, <1>5 DEF Reported

LEMMA SameCommands ==
  ASSUME NEW o, NEW p, NEW f, Commanded(o, f), p.cmds = o.cmds, o.i \in Nat,
         p.i = o.i \/ p.i = o.i + 1
  PROVE  Commanded(p, f)
<1>1. IsSeq(p.cmds) /\ Len(p.cmds) = Len(o.cmds)
  BY DEF Commanded
<1>2. ASSUME NEW k \in 1..Len(p.cmds)
      PROVE  /\ p.cmds[k].entry \in 0..(p.i - 1)
             /\ Connects(p.cmds[k], NbctEntry(f.sessions[p.cmds[k].entry + 1]))
  <2>1. /\ o.cmds[k].entry \in 0..(o.i - 1)
        /\ Connects(o.cmds[k], NbctEntry(f.sessions[o.cmds[k].entry + 1]))
    BY <1>1 DEF Commanded
  <2>2. o.cmds[k].entry \in 0..(p.i - 1)
    BY <2>1
  <2>3. QED
    BY <2>1, <2>2
<1>3. QED
  BY <1>1, <1>2 DEF Commanded

\* The command of an entry connects its session: with a key of its own if it
\* needs one, whatever the keyring held before.
LEMMA CommandConnects ==
  ASSUME NEW i, NEW e, NEW ring, NEW keyring,
         keyring = IF NeedsKey(e) THEN Inject(ring, e) ELSE ring,
         NEW c, c = Command(i, e, keyring)
  PROVE  c.entry = i /\ Connects(c, e)
<1>1. /\ c.entry = i /\ c.traddr = e.traddr /\ c.nqn = e.nqn /\ c.hostnqn = e.hostnqn
      /\ c.tls = Tls(e)
      /\ c.port = IF Tls(e) THEN PortOf(e.tls_trsvcid) ELSE e.trsvcid
      /\ c.secret = IF Tls(e) THEN Empty ELSE e.secret
      /\ c.keys = {k[2] : k \in {x \in keyring : Tls(e) /\ x[1] = Identity(e.hostnqn, e.nqn)}}
  BY DEF Command
<1>2. ASSUME NeedsKey(e) PROVE c.keys = {HexToRaw(e.tls_psk)}
  <2>1. PICK id, key : id = Identity(e.hostnqn, e.nqn) /\ key = HexToRaw(e.tls_psk)
    OBVIOUS
  <2>2. keyring = {k \in ring : k[1] # id} \cup {<<id, key>>} /\ Tls(e)
    BY Zenon, <1>2, <2>1 DEF Inject, NeedsKey
  <2>3. {x \in keyring : Tls(e) /\ x[1] = id} = {<<id, key>>}
    BY <2>2
  <2>4. {k[2] : k \in {<<id, key>>}} = {key}
    OBVIOUS
  <2>5. QED
    BY Zenon, <1>1, <2>1, <2>3, <2>4
<1>3. QED
  BY Zenon, <1>1, <1>2 DEF Connects

LEMMA NewCommand ==
  ASSUME Inv, More, NEW o, o.i = os.i + 1, NEW c, o.cmds = Append(os.cmds, c),
         c.entry = os.i, Connects(c, Entry)
  PROVE  Commanded(o, fw)
<1>1. /\ Commanded(os, fw) /\ os.i \in Nat /\ Entry = NbctEntry(fw.sessions[os.i + 1])
  BY AtEntry
<1>2. PICK cs : cs = os.cmds
  OBVIOUS
<1>3. /\ IsSeq(cs) /\ \A k \in 1..Len(cs) :
           /\ cs[k].entry \in 0..(os.i - 1)
           /\ Connects(cs[k], NbctEntry(fw.sessions[cs[k].entry + 1]))
  BY <1>1, <1>2 DEF Commanded
<1>4. /\ IsSeq(o.cmds) /\ Len(o.cmds) = Len(cs) + 1 /\ Len(cs) \in Nat
      /\ o.cmds[Len(cs) + 1] = c /\ \A k \in 1..Len(cs) : o.cmds[k] = cs[k]
  BY <1>2, <1>3, SeqAppend
<1>5. ASSUME NEW k \in 1..Len(o.cmds)
      PROVE  /\ o.cmds[k].entry \in 0..(o.i - 1)
             /\ Connects(o.cmds[k], NbctEntry(fw.sessions[o.cmds[k].entry + 1]))
  <2>1. CASE k = Len(cs) + 1
    <3>1. o.cmds[k] = c /\ c.entry \in 0..(o.i - 1)
      BY <1>1, <1>4, <2>1
    <3>2. QED
      BY <1>1, <3>1
  <2>2. CASE k \in 1..Len(cs)
    <3>1. /\ o.cmds[k] = cs[k] /\ cs[k].entry \in 0..(os.i - 1)
          /\ Connects(cs[k], NbctEntry(fw.sessions[cs[k].entry + 1]))
      BY <1>3, <1>4, <2>2
    <3>2. cs[k].entry \in 0..(o.i - 1)
      BY <1>1, <3>1
    <3>3. QED
      BY <3>1, <3>2
  <2>3. QED
    BY <1>4, <2>1, <2>2
<1>6. QED
  BY <1>4, <1>5 DEF Commanded

LEMMA SkipMoves ==
  ASSUME Inv, More, NEW p, p = [x \in OsFields |-> p[x]], p.pc = "loop",
         p.table = os.table, p.count = os.count, p.i = os.i, p.up = os.up,
         NEW o, o = Skip(p)
  PROVE  Moved(o, os.up, 1) /\ o.cmds = p.cmds
BY Zenon DEF Skip, Moved, OsFields

LEMMA OsShape ==
  ASSUME Inv, More
  PROVE  os = [x \in OsFields |-> os[x]] /\ os.pc = "loop"
BY Zenon, AtEntry DEF More, Placed

LEMMA SkipStep ==
  ASSUME Inv, SkipEntry \/ InjectFails
  PROVE  Inv'
<1>1. /\ More /\ os' = Skip(os) /\ fw' = fw
      /\ \/ ~Usable(Entry) /\ failures' = failures
         \/ failures' = failures + 1
  BY DEF SkipEntry, InjectFails
<1>2. PICK o, n : o = Skip(os) /\ n = failures'
  OBVIOUS
<1>3. os = [x \in OsFields |-> os[x]] /\ os.pc = "loop"
  BY <1>1, OsShape
<1>4. Moved(o, os.up, 1) /\ o.cmds = os.cmds
  BY <1>1, <1>2, <1>3, SkipMoves
<1>5. /\ FwOK(fw) /\ Commanded(os, fw) /\ os.i \in Nat /\ Reported(os, failures)
  BY <1>1, AtEntry
<1>6. Placed(o, fw)
  BY <1>1, <1>4, MovedPlaced
<1>7. /\ n \in Nat /\ failures <= n /\ (~Usable(Entry) \/ n = failures + 1)
  BY <1>1, <1>2, <1>5 DEF Reported
<1>8. Reported(o, n)
  BY <1>1, <1>4, <1>7, SkipReported
<1>9. o.i = os.i + 1
  BY <1>4 DEF Moved
<1>10. Commanded(o, fw)
  BY <1>4, <1>5, <1>9, SameCommands
<1>11. QED
  BY <1>1, <1>2, <1>5, <1>6, <1>8, <1>10 DEF Inv, OsOK

LEMMA ConnectStep ==
  ASSUME Inv, NEW ok \in BOOLEAN, ConnectEntry(ok)
  PROVE  Inv'
<1>1. PICK e, keyring, c, p :
        /\ e = Entry
        /\ keyring = IF NeedsKey(e) THEN Inject(os.keyring, e) ELSE os.keyring
        /\ c = Command(os.i, e, keyring)
        /\ p = [os EXCEPT !.keyring = keyring, !.cmds = Append(@, c)]
  OBVIOUS
<1>2. /\ More /\ fw' = fw /\ failures' = failures + (IF ok THEN 0 ELSE 1)
      /\ os' = IF ok THEN [p EXCEPT !.i = @ + 1, !.up = @ \cup {os.i}] ELSE Skip(p)
  BY Zenon, <1>1 DEF ConnectEntry
<1>3. os = [x \in OsFields |-> os[x]] /\ os.pc = "loop"
  BY <1>2, OsShape
<1>4. /\ p = [x \in OsFields |-> p[x]] /\ p.pc = "loop" /\ p.table = os.table
      /\ p.count = os.count /\ p.i = os.i /\ p.up = os.up /\ p.rc = os.rc
      /\ p.cmds = Append(os.cmds, c)
  BY Zenon, <1>1, <1>3 DEF OsFields
<1>5. c.entry = os.i /\ Connects(c, Entry)
  <2>1. PICK i, ring : i = os.i /\ ring = os.keyring
    OBVIOUS
  <2>2. c.entry = i /\ Connects(c, e)
    BY <1>1, <2>1, CommandConnects
  <2>3. QED
    BY <1>1, <2>1, <2>2
<1>6. FwOK(fw) /\ os.i \in Nat /\ Reported(os, failures) /\ failures \in Nat
  BY <1>2, AtEntry DEF Reported
<1>7. CASE ok
  <2>1. PICK o : o = [p EXCEPT !.i = @ + 1, !.up = @ \cup {os.i}]
    OBVIOUS
  <2>2. Moved(o, os.up \cup {os.i}, os.rc) /\ o.cmds = Append(os.cmds, c) /\ o.i = os.i + 1
    BY Zenon, <1>4, <2>1 DEF Moved, OsFields
  <2>3. Placed(o, fw)
    BY <1>2, <2>2, MovedPlaced
  <2>4. Reported(o, failures)
    BY <1>2, <2>2, ConnectReported
  <2>5. Commanded(o, fw)
    BY <1>2, <1>5, <2>2, NewCommand
  <2>6. os' = o /\ failures' = failures
    BY <1>2, <1>6, <1>7, <2>1
  <2>7. QED
    BY <1>2, <1>6, <2>3, <2>4, <2>5, <2>6 DEF Inv, OsOK
<1>8. CASE ~ok
  <2>1. PICK o, n : o = Skip(p) /\ n = failures + 1
    OBVIOUS
  <2>2. Moved(o, os.up, 1) /\ o.cmds = Append(os.cmds, c)
    BY <1>2, <1>4, <2>1, SkipMoves
  <2>3. o.i = os.i + 1
    BY <2>2 DEF Moved
  <2>4. Placed(o, fw)
    BY <1>2, <2>2, MovedPlaced
  <2>5. n \in Nat /\ failures <= n
    BY <1>6, <2>1
  <2>6. Reported(o, n)
    BY <1>2, <2>1, <2>2, <2>5, SkipReported
  <2>7. Commanded(o, fw)
    BY <1>2, <1>5, <2>2, <2>3, NewCommand
  <2>8. os' = o /\ failures' = n
    BY <1>2, <1>8, <2>1
  <2>9. QED
    BY <1>2, <1>6, <2>4, <2>6, <2>7, <2>8 DEF Inv, OsOK
<1>9. QED
  BY <1>7, <1>8

LEMMA FinishStep ==
  ASSUME Inv, Finish
  PROVE  Inv'
<1>1. /\ os.pc = "loop" /\ ~(os.i < os.count) /\ UNCHANGED <<fw, failures>>
      /\ os' = [os EXCEPT !.pc = "done"]
  BY DEF Finish, More
<1>2. FwOK(fw) /\ Placed(os, fw) /\ Reported(os, failures) /\ Commanded(os, fw)
  BY DEF Inv, OsOK
<1>3. PICK o : o = [os EXCEPT !.pc = "done"]
  OBVIOUS
<1>4. /\ o = [x \in OsFields |-> o[x]] /\ o.pc = "done" /\ o.table = os.table
      /\ o.count = os.count /\ o.i = os.i /\ o.up = os.up /\ o.rc = os.rc
      /\ o.cmds = os.cmds
  BY Zenon, <1>2, <1>3 DEF Placed, OsFields
<1>5. /\ os.count = ReadCount(Len(fw.sessions) % 256) /\ os.i \in 0..os.count
      /\ os.i \in Nat /\ os.i <= Len(fw.sessions) /\ fw.st = "booted"
      /\ os.table = NbctTable(fw.sessions)
  BY <1>1, <1>2 DEF Placed
<1>6. os.count \in Nat
  <2>1. PICK n : n = Len(fw.sessions)
    OBVIOUS
  <2>2. n \in Nat
    BY <1>2, <2>1, SeqLen DEF FwOK
  <2>3. ReadCount(n % 256) \in Nat
    BY <2>2, CountOK
  <2>4. QED
    BY Zenon, <1>5, <2>1, <2>3
<1>7. os.i = os.count
  <2>1. os.i \in 0..os.count
    BY Zenon, <1>5
  <2>2. QED
    BY <1>1, <1>6, <2>1
<1>8. Placed(o, fw)
  BY Zenon, <1>4, <1>5, <1>7 DEF Placed
<1>9. Reported(o, failures)
  BY Zenon, <1>2, <1>4 DEF Reported, Missed
<1>10. Commanded(o, fw)
  BY Zenon, <1>2, <1>4 DEF Commanded
<1>11. QED
  BY <1>1, <1>2, <1>3, <1>8, <1>9, <1>10 DEF Inv, OsOK

LEMMA NextInv ==
  ASSUME Inv, [Next]_vars
  PROVE  Inv'
<1>1. CASE SanHook
  BY <1>1, HookStep
<1>2. CASE Describe
  BY <1>2, DescribeStep
<1>3. CASE Start
  BY <1>3, StartStep
<1>4. CASE SkipEntry \/ InjectFails
  BY <1>4, SkipStep
<1>5. CASE Finish
  BY <1>5, FinishStep
<1>6. ASSUME NEW ok \in BOOLEAN, ConnectEntry(ok) PROVE Inv'
  BY <1>6, ConnectStep
<1>7. CASE UNCHANGED vars
  BY Zenon, <1>7 DEF Inv, vars
<1>8. QED
  BY Zenon, <1>1, <1>2, <1>3, <1>4, <1>5, <1>6, <1>7 DEF Next

\* The inductive invariant of the handover: nvmetcp_open() hooks only sound
\* sessions, nbct_install() describes them in order, and each command of
\* nbct_connect() is that of one entry of the table.
THEOREM Invariance == Spec => []Inv
<1>1. Init => Inv
  BY InitInv
<1>2. Inv /\ [Next]_vars => Inv'
  BY NextInv
<1>3. QED
  BY <1>1, <1>2, PTL DEF Spec

-----------------------------------------------------------------------------
(* What it implies *)

\* A command's session, and how the command was made.
LEMMA CommandOf ==
  ASSUME Inv, NEW k \in DOMAIN os.cmds, NEW s, s = Session(os.cmds[k]),
         NEW c, c = os.cmds[k]
  PROVE  Sound(s) /\ Connects(c, NbctEntry(s))
<1>1. FwOK(fw) /\ Placed(os, fw) /\ Commanded(os, fw)
  BY DEF Inv, OsOK
<1>2. IsSeq(os.cmds) /\ DOMAIN os.cmds = 1..Len(os.cmds)
  BY <1>1, SeqLen DEF Commanded
<1>3. /\ c.entry \in 0..(os.i - 1)
      /\ Connects(c, NbctEntry(fw.sessions[c.entry + 1]))
  BY <1>1, <1>2 DEF Commanded
<1>4. s = fw.sessions[c.entry + 1]
  BY DEF Session
<1>5. os.i \in Nat /\ os.i <= Len(fw.sessions) /\ IsSeq(fw.sessions)
  BY <1>1 DEF Placed, FwOK
<1>6. Len(fw.sessions) \in Nat
  BY <1>5, SeqLen
<1>7. c.entry + 1 \in 1..Len(fw.sessions)
  BY <1>3, <1>5, <1>6
<1>8. Sound(s)
  BY <1>1, <1>4, <1>7 DEF FwOK
<1>9. QED
  BY <1>3, <1>4, <1>8

LEMMA EntryFields ==
  ASSUME NEW s, NEW e, e = NbctEntry(s)
  PROVE  /\ e.traddr = Cut(s.host, 128) /\ e.trsvcid = s.port
         /\ e.nqn = Cut(s.nqn, 256) /\ e.hostnqn = Cut(s.hostnqn, 256)
         /\ e.secret = Cut(s.secret, 320) /\ e.tls_trsvcid = Cut(s.tls_trsvcid, 16)
         /\ e.tls_psk = Cut(s.tls_psk, 128)
BY DEF NbctEntry, NBCT_TRADDR_LEN, NBCT_NQN_LEN, NBCT_HOSTNQN_LEN, NBCT_SECRET_LEN,
       NBCT_TLS_TRSVCID_LEN, NBCT_TLS_PSK_LEN

LEMMA CutFits ==
  ASSUME NEW t, NEW size, t.len < size
  PROVE  Cut(t, size) = t
BY DEF Cut

\* A command connects the session that the firmware had, with its secret or
\* its key: nbct_install() cuts nothing of a session that fits, and
\* nbct_connect() adds the key under the identity that it connects with.
THEOREM Sessions == Spec => []SameSession
<1>1. Inv => SameSession
  <2>1. SUFFICES ASSUME Inv, NEW k \in DOMAIN os.cmds,
                        FitsEntry(Session(os.cmds[k]))
                 PROVE  Kept(os.cmds[k], Session(os.cmds[k]))
    BY DEF SameSession
  <2>2. PICK c, s, e : c = os.cmds[k] /\ s = Session(os.cmds[k]) /\ e = NbctEntry(s)
    OBVIOUS
  <2>3. Sound(s) /\ Connects(c, e)
    BY <2>1, <2>2, CommandOf
  <2>4. FitsEntry(s)
    BY <2>1, <2>2
  <2>5. /\ e.traddr = s.host /\ e.hostnqn = s.hostnqn /\ e.secret = s.secret
        /\ e.tls_trsvcid = s.tls_trsvcid /\ e.tls_psk = s.tls_psk /\ e.trsvcid = s.port
    <3>1. /\ s.host.len < 128 /\ s.hostnqn.len < 256 /\ s.secret.len < 320
          /\ s.tls_trsvcid.len < 16 /\ s.tls_psk.len < 128
      BY <2>4 DEF FitsEntry, NBCT_TRADDR_LEN, NBCT_HOSTNQN_LEN, NBCT_SECRET_LEN,
                  NBCT_TLS_TRSVCID_LEN, NBCT_TLS_PSK_LEN
    <3>2. /\ Cut(s.host, 128) = s.host /\ Cut(s.hostnqn, 256) = s.hostnqn
          /\ Cut(s.secret, 320) = s.secret /\ Cut(s.tls_trsvcid, 16) = s.tls_trsvcid
          /\ Cut(s.tls_psk, 128) = s.tls_psk
      BY <3>1, CutFits
    <3>3. /\ e.traddr = Cut(s.host, 128) /\ e.trsvcid = s.port
          /\ e.hostnqn = Cut(s.hostnqn, 256) /\ e.secret = Cut(s.secret, 320)
          /\ e.tls_trsvcid = Cut(s.tls_trsvcid, 16) /\ e.tls_psk = Cut(s.tls_psk, 128)
      BY <2>2, EntryFields
    <3>4. QED
      BY Zenon, <3>2, <3>3
  <2>6. e.nqn = s.nqn
    <3>1. s.nqn.len < 256
      BY <2>3 DEF Sound, NVMF_NQN_FIELD_LEN
    <3>2. Cut(s.nqn, 256) = s.nqn
      BY <3>1, CutFits
    <3>3. e.nqn = Cut(s.nqn, 256)
      BY <2>2, EntryFields
    <3>4. QED
      BY <3>2, <3>3
  <2>7. ASSUME c.tls, s.tls_psk # Empty PROVE c.keys = {Raw(s.tls_psk)}
    <3>1. s.tls_psk.pieces \in Hexadecimal
      BY Zenon, <2>3, <2>4, <2>7 DEF FitsEntry, Sound
    <3>2. NeedsKey(e)
      BY Zenon, <2>3, <2>5, <2>7 DEF NeedsKey, Connects
    <3>3. QED
      BY Zenon, <2>3, <2>5, <3>1, <3>2 DEF Connects, HexToRaw
  <2>8. Kept(c, s)
    BY Zenon, <2>3, <2>5, <2>6, <2>7 DEF Kept, Connects
  <2>9. QED
    BY <2>2, <2>8
<1>2. QED
  BY <1>1, Invariance, PTL

LEMMA TlsPort ==
  ASSUME NEW s, UseTls(s)
  PROVE  s.tls_trsvcid # Empty /\ PortOf(s.tls_trsvcid) = s.port
BY DEF UseTls

LEMMA CutNotEmpty ==
  ASSUME NEW t, t # Empty
  PROVE  Cut(t, 16) # Empty
<1>1. CASE t.len < 16
  BY <1>1, CutFits
<1>2. CASE ~(t.len < 16)
  <2>1. Cut(t, 16) = Text(t.pieces, 15)
    BY <1>2 DEF Cut
  <2>2. Text(t.pieces, 15).len = 15 /\ Empty.len = 0
    BY DEF Text, Empty
  <2>3. QED
    BY <2>1, <2>2
<1>3. QED
  BY <1>1, <1>2

\* Whatever nbct_install() cuts, a session that nvmetcp_use_tls() encrypted is
\* connected over TLS, and to its port where the text of the port fits.
THEOREM Encrypted == Spec => []StaysEncrypted
<1>1. Inv => StaysEncrypted
  <2>1. SUFFICES ASSUME Inv, NEW k \in DOMAIN os.cmds, NEW s, s = Session(os.cmds[k]),
                        UseTls(s)
                 PROVE  /\ os.cmds[k].tls
                        /\ s.tls_trsvcid.len < NBCT_TLS_TRSVCID_LEN =>
                             os.cmds[k].port = s.port
    BY DEF StaysEncrypted
  <2>2. PICK c, e : c = os.cmds[k] /\ e = NbctEntry(s)
    OBVIOUS
  <2>3. Connects(c, e) /\ e.tls_trsvcid = Cut(s.tls_trsvcid, 16)
    BY <2>1, <2>2, CommandOf, EntryFields
  <2>4. s.tls_trsvcid # Empty /\ PortOf(s.tls_trsvcid) = s.port
    BY <2>1, TlsPort
  <2>5. e.tls_trsvcid # Empty
    BY <2>3, <2>4, CutNotEmpty
  <2>6. c.tls /\ Tls(e)
    BY Zenon, <2>3, <2>5 DEF Connects, Tls
  <2>7. ASSUME s.tls_trsvcid.len < NBCT_TLS_TRSVCID_LEN PROVE c.port = s.port
    <3>1. e.tls_trsvcid = s.tls_trsvcid
      BY Zenon, <2>3, <2>7, CutFits DEF NBCT_TLS_TRSVCID_LEN
    <3>2. QED
      BY Zenon, <2>3, <2>4, <2>6, <3>1 DEF Connects
  <2>8. QED
    BY <2>2, <2>6, <2>7
<1>2. QED
  BY <1>1, Invariance, PTL

\* nbct_connect() reports success only when every session is up, and each
\* usable entry that it leaves unconnected is due to a failure of its own.
THEOREM Connected == Spec => []AllConnected
<1>1. Inv => AllConnected
  <2>1. SUFFICES ASSUME Inv, os.pc = "done", Len(fw.sessions) \in (1..255) \ {10}
                 PROVE  /\ os.rc = 0 => os.up = 0..(Len(fw.sessions) - 1)
                        /\ Cardinality({k \in DOMAIN fw.sessions :
                             k - 1 \notin os.up /\ Usable(os.table.entries[k])}) <= failures
    BY DEF AllConnected
  <2>2. FwOK(fw) /\ Placed(os, fw) /\ Reported(os, failures)
    BY <2>1 DEF Inv, OsOK
  <2>3. os.i = os.count /\ os.count = ReadCount(Len(fw.sessions) % 256)
    BY <2>1, <2>2 DEF Placed
  <2>4. DOMAIN fw.sessions = 1..Len(fw.sessions)
    BY <2>2, SeqLen DEF FwOK
  <2>5. os.i = Len(fw.sessions)
    <3>1. PICK n : n = Len(fw.sessions)
      OBVIOUS
    <3>2. ReadCount(n % 256) = n
      <4>1. n \in Nat /\ n \in (1..255) \ {10}
        BY <2>1, <3>1
      <4>2. QED
        BY Zenon, <4>1, CountOK
    <3>3. QED
      BY Zenon, <2>3, <3>1, <3>2
  <2>6. {k \in DOMAIN fw.sessions : k - 1 \notin os.up /\ Usable(os.table.entries[k])}
          = Missed(os)
    BY Zenon, <2>4, <2>5 DEF Missed
  <2>7. QED
    BY Zenon, <2>2, <2>5, <2>6 DEF Reported
<1>2. QED
  BY <1>1, Invariance, PTL
=============================================================================
