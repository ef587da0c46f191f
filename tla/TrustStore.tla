----------------------------- MODULE TrustStore -----------------------------
(***************************************************************************)
(* The device's non-volatile identity and trust: the options block kept in *)
(* one EFI variable (core/nvo.c, interface/efi/efi_nvs.c), trust on first  *)
(* use (net/tofu.c and its caller in net/tls.c) and the commands keygen,   *)
(* pubkey, sign and nvclear (hci/commands/devicekey_cmd.c), over restarts, *)
(* a loss of power between any two writes, and writes that fail.           *)
(*                                                                         *)
(* nv is the EFI variable, mem the options block in memory: each maps the  *)
(* settings to values, the variable being absent when all are None.  cmd   *)
(* is the command in progress, volatile what else is lost with the power.  *)
(* reported is a history variable: what was last reported as stored.       *)
(***************************************************************************)
EXTENDS Naturals, FiniteSets

CONSTANTS
  None,         \* no value
  Servers,      \* servers, each with a self-signed certificate
  MaxKeys,      \* bound: keys generated
  MaxFailures,  \* bound: stores that fail
  BootFaults    \* how reading the variable at startup may fail

ASSUME StoreConstantsOK ==
  /\ IsFiniteSet(Servers) /\ MaxKeys \in Nat /\ MaxFailures \in Nat
  /\ BootFaults \subseteq {"probe", "read"}
  /\ None \notin Servers /\ None \notin Nat

VARIABLES nv, mem, cmd, volatile, reported, budget
vars == <<nv, mem, cmd, volatile, reported, budget>>

Names == {"device-key", "server-fingerprint", "trust"}
Empty == [n \in Names |-> None]
Keys == 1..MaxKeys
Values(n) == {None} \cup (IF n = "device-key" THEN Keys ELSE Servers)
Blocks == {b \in [Names -> {None} \cup Keys \cup Servers] :
             \A n \in Names : b[n] \in Values(n)}

Idle == [op |-> "idle", server |-> None, step |-> 0, rc |-> "ok"]
Off == [on |-> FALSE, nvo |-> FALSE, root |-> None, valid |-> {},
        pubkey |-> None, sig |-> None, failed |-> FALSE, clearing |-> FALSE]
Nothing == [key |-> None, server |-> None, cleared |-> FALSE, clean |-> FALSE]

Commands == [op : {"idle", "tofu", "nvclear"}, server : {None} \cup Servers,
             step : 0..3, rc : {"ok", "fail"}]
Volatiles == [on : BOOLEAN, nvo : BOOLEAN, root : {None} \cup Servers,
              valid : SUBSET Servers, pubkey : {None} \cup Keys,
              sig : {None} \cup Keys, failed : BOOLEAN, clearing : BOOLEAN]
Reports == [key : {None} \cup Keys, server : {None} \cup Servers,
            cleared : BOOLEAN, clean : BOOLEAN]
Budgets == [keys : 0..MaxKeys, failures : 0..MaxFailures]

\* Every setting holds a value of its kind, in memory and in the variable.
TypeOK ==
  /\ nv \in Blocks /\ mem \in Blocks /\ cmd \in Commands
  /\ volatile \in Volatiles /\ reported \in Reports /\ budget \in Budgets

Init == /\ nv = Empty /\ mem = Empty /\ cmd = Idle /\ volatile = Off
        /\ reported = Nothing
        /\ budget = [keys |-> 0, failures |-> MaxFailures]

-----------------------------------------------------------------------------
(* Startup and loss of power *)

\* efi_nvs_probe_len(): is there anything to read; a probe that fails says
\* no, as if there were no variable.
Probed(how) == nv # Empty /\ how # "probe"

\* efi_nvs_read(), of the length that was probed.
NvsRead(how) == how # "read"

\* nvo_load(): a block of no length is empty without being read.
NvoLoad(how) == IF Probed(how) /\ NvsRead(how) THEN nv ELSE Empty

\* register_nvo(): a block that cannot be read is not registered.
RegisterNvo(how) == Probed(how) => NvsRead(how)

\* efi_nvs_startup(); the trusted root is taken from the settings once.
Startup(how) ==
  /\ ~volatile.on
  /\ mem' = NvoLoad(how)
  /\ volatile' = [Off EXCEPT !.on = TRUE, !.nvo = RegisterNvo(how),
                             !.root = NvoLoad(how)["trust"]]
  /\ cmd' = Idle
  /\ UNCHANGED <<nv, reported, budget>>

\* The machine restarts, in the middle of a command perhaps.
PowerOff ==
  /\ volatile.on
  /\ volatile' = Off /\ mem' = Empty /\ cmd' = Idle
  /\ UNCHANGED <<nv, reported, budget>>

-----------------------------------------------------------------------------
(* nvo_store(): update the block in memory, then save all of it *)

\* how: "ok", "nomem" (the block cannot grow, and stays as it was), "nosave"
\* (it changes, but the variable is not written).

\* nvo_realloc_dhcpopt(), and what is stored in the options after it.
NvoRealloc(block, how) == IF how = "nomem" THEN mem ELSE block

\* efi_nvs_write(): the variable is replaced as a whole, or not at all.
NvsWrite(block, how) == IF how = "ok" THEN block ELSE nv

\* Mutant: an empty block is not written at all.
NvoSaveNonempty(block, how) == IF block = Empty THEN nv ELSE NvsWrite(block, how)

\* nvo_save(): the block is written, and the variable deleted when no
\* options remain.
NvoSave(block, how) == NvsWrite(block, how)

\* valid: the certificates that are valid from here on.
NvoStore(name, value, how, valid) ==
  LET block == [mem EXCEPT ![name] = value]
  IN /\ how # "ok" => budget.failures > 0
     /\ mem' = NvoRealloc(block, how)
     /\ nv' = NvoSave(block, how)
     /\ volatile' = [volatile EXCEPT !.failed = @ \/ how # "ok", !.valid = valid]

Failures(how) == IF how = "ok" THEN budget.failures ELSE budget.failures - 1
Hows == {"ok", "nomem", "nosave"}
Ready == volatile.on /\ cmd.op = "idle"

-----------------------------------------------------------------------------
(* The device key *)

\* Mutant: an existing key is replaced.
KeygenExistsNever == FALSE

\* Refuse to overwrite an existing key.
KeygenExists == mem["device-key"] # None

\* keygen_exec(); without an options block it fails with nothing changed.
Keygen(how) ==
  LET key == budget.keys + 1
  IN /\ Ready /\ volatile.nvo /\ ~KeygenExists /\ key \in Keys
     /\ NvoStore("device-key", key, how, volatile.valid)
     /\ budget' = [keys |-> key, failures |-> Failures(how)]
     /\ reported' = IF how = "ok"
                    THEN [reported EXCEPT !.key = key, !.cleared = FALSE, !.clean = FALSE]
                    ELSE reported
     /\ UNCHANGED cmd

\* pubkey_exec() and sign_exec(): derived from the stored key and left as
\* settings in memory for scripts.
Pubkey ==
  /\ Ready /\ mem["device-key"] # None
  /\ volatile' = [volatile EXCEPT !.pubkey = mem["device-key"]]
  /\ UNCHANGED <<nv, mem, cmd, reported, budget>>

Sign ==
  /\ Ready /\ mem["device-key"] # None
  /\ volatile' = [volatile EXCEPT !.sig = mem["device-key"]]
  /\ UNCHANGED <<nv, mem, cmd, reported, budget>>

-----------------------------------------------------------------------------
(* Trust on first use *)

\* Mutant: every contact is taken for the first.
TofuFirstAlways == TRUE

\* tofu_fingerprint_present()
TofuFirst == mem["server-fingerprint"] = None

\* A server is contacted that is neither the trusted root nor accepted
\* earlier in this boot: only the first contact goes on to tofu_store().
Contact(s) ==
  /\ Ready /\ s # volatile.root /\ s \notin volatile.valid
  /\ TofuFirst /\ volatile.nvo
  /\ cmd' = [op |-> "tofu", server |-> s, step |-> 1, rc |-> "ok"]
  /\ UNCHANGED <<nv, mem, volatile, reported, budget>>

\* Mutant: the trusted root first, the fingerprint second.
TofuNameSwapped(step) == IF step = 1 THEN "trust" ELSE "server-fingerprint"

\* tofu_store(): the fingerprint, then the trusted root.
TofuName(step) == IF step = 1 THEN "server-fingerprint" ELSE "trust"

\* One store of the two; the second one that succeeds accepts the server,
\* one that fails refuses it.
TofuStore(how) ==
  LET s == cmd.server
      accepted == how = "ok" /\ cmd.step = 2
      valid == volatile.valid \cup (IF accepted THEN {s} ELSE {})
  IN /\ cmd.op = "tofu"
     /\ NvoStore(TofuName(cmd.step), s, how, valid)
     /\ cmd' = IF how = "ok" /\ cmd.step = 1
               THEN [cmd EXCEPT !.step = 2] ELSE Idle
     /\ reported' = IF accepted
                    THEN [reported EXCEPT !.server = s, !.cleared = FALSE, !.clean = FALSE]
                    ELSE [reported EXCEPT !.cleared = FALSE, !.clean = FALSE]
     /\ budget' = [budget EXCEPT !.failures = Failures(how)]

-----------------------------------------------------------------------------
(* nvclear *)

NvclearName(step) == CASE step = 1 -> "device-key"
                       [] step = 2 -> "server-fingerprint"
                       [] step = 3 -> "trust"

NvclearStart ==
  /\ Ready /\ volatile.nvo
  /\ cmd' = [op |-> "nvclear", server |-> None, step |-> 1, rc |-> "ok"]
  /\ volatile' = [volatile EXCEPT !.clearing = TRUE]
  /\ reported' = [reported EXCEPT !.cleared = FALSE, !.clean = FALSE]
  /\ UNCHANGED <<nv, mem, budget>>

\* What has been reported no longer holds once its deletion is attempted.
Withdrawn(name) ==
  CASE name = "device-key" -> [reported EXCEPT !.key = None]
    [] OTHER -> [reported EXCEPT !.server = None]

\* A setting that is not present is passed over, one that cannot be deleted
\* is reported, and the next one is tried in either case.
NvclearSetting(how) ==
  LET name == NvclearName(cmd.step)
      present == mem[name] # None
      rc == IF present /\ how # "ok" THEN "fail" ELSE cmd.rc
      last == cmd.step = 3
      after == IF present THEN Withdrawn(name) ELSE reported
  IN /\ cmd.op = "nvclear"
     /\ how = "ok" \/ present
     /\ IF present THEN NvoStore(name, None, how, volatile.valid)
        ELSE UNCHANGED <<nv, mem, volatile>>
     /\ cmd' = IF last THEN Idle ELSE [cmd EXCEPT !.step = @ + 1, !.rc = rc]
     /\ reported' = IF last THEN [after EXCEPT !.cleared = (rc = "ok"),
                                   !.clean = (rc = "ok" /\ ~volatile.failed)]
                    ELSE after
     /\ budget' = [budget EXCEPT !.failures = Failures(how)]

-----------------------------------------------------------------------------
Next ==
  \/ \E how \in {"ok"} \cup BootFaults : Startup(how)
  \/ PowerOff
  \/ \E how \in Hows : Keygen(how)
  \/ Pubkey
  \/ Sign
  \/ \E s \in Servers : Contact(s)
  \/ \E how \in Hows : TofuStore(how)
  \/ NvclearStart
  \/ \E how \in Hows : NvclearSetting(how)

Spec == Init /\ [][Next]_vars

\* A device key that keygen reported as generated stays in the variable,
\* whatever fails and wherever the power is lost, until nvclear deletes it:
\* keygen is to "refuse to overwrite an existing key".
KeyDurable == reported.key # None => nv["device-key"] = reported.key

\* The one server accepted on first contact stays the one whose fingerprint
\* is stored, so that no other is accepted until nvclear: tls.c says that
\* "once a fingerprint is present, any subsequent validation failure is
\* fatal", through restarts too.
ServerDurable ==
  reported.server # None => /\ nv["server-fingerprint"] = reported.server
                            /\ nv["trust"] = reported.server

\* First contact never makes a server the trusted root without its being
\* the one whose fingerprint bars all others, wherever the power was lost
\* before and whatever an earlier nvclear left behind.
RootHasFingerprint ==
  [][cmd.op = "tofu" /\ nv'["trust"] # nv["trust"] /\ nv'["trust"] = cmd.server
     => nv'["server-fingerprint"] = cmd.server]_vars

\* When nvclear reports that the device is cleared, and no store had failed
\* since startup, the EFI variable is gone and nothing comes back.
ClearedIsClear == reported.clean => nv = Empty

\* nvclear reports "device NVRAM cleared" only when it is.
NvclearTruthful == reported.cleared => nv = Empty

\* The public key and the signature that a script sends to a server are
\* those of the key that a restart brings back, unless a store failed or
\* nvclear ran since startup.
ScriptSeesStoredKey ==
  ~volatile.failed /\ ~volatile.clearing
  => {volatile.pubkey, volatile.sig} \subseteq {None, nv["device-key"]}
=============================================================================
