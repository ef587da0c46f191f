-------------------------- MODULE TrustStoreProofs --------------------------
(***************************************************************************)
(* Proofs about TrustStore, for every set of servers, number of keys and   *)
(* number of failing stores.  The durability results assume that the       *)
(* length of the variable can be probed at startup: a probe that fails is  *)
(* taken for an absent variable, and the next save replaces the store.     *)
(*                                                                         *)
(* One inductive invariant, Consistent, carries all of them: it relates    *)
(* the block in memory to the variable (InStep), and both to what was      *)
(* reported (Kept) and to how far the command in progress has come         *)
(* (TofuUnderWay, NvclearUnderWay).                                        *)
(***************************************************************************)
EXTENDS TrustStore, TLAPS

\* The block in memory is the variable until a store fails; without a
\* registered block it is empty and no command is in progress.
InStep ==
  /\ ~volatile.nvo => mem = Empty /\ cmd.op = "idle"
  /\ volatile.nvo /\ ~volatile.failed => mem = nv

\* What was reported as stored is in memory too, so that the next save, of
\* the whole block, does not lose it.
Kept ==
  volatile.nvo =>
    /\ reported.key # None => mem["device-key"] = reported.key
    /\ reported.server # None => /\ mem["server-fingerprint"] = reported.server
                                 /\ mem["trust"] = reported.server

\* A first contact in progress: no server has been accepted, and the
\* fingerprint is in memory from its second store on.
TofuUnderWay ==
  cmd.op = "tofu" =>
    /\ cmd.step \in {1, 2} /\ cmd.server \in Servers
    /\ reported.server = None
    /\ cmd.step = 2 => mem["server-fingerprint"] = cmd.server

\* nvclear in progress: without an error, what it has passed is gone.
NvclearUnderWay ==
  cmd.op = "nvclear" =>
    /\ cmd.step \in 1..3 /\ ~reported.clean /\ volatile.clearing
    /\ cmd.rc = "ok" => /\ cmd.step > 1 => mem["device-key"] = None
                        /\ cmd.step > 2 => mem["server-fingerprint"] = None

Consistent ==
  /\ TypeOK /\ InStep /\ Kept /\ TofuUnderWay /\ NvclearUnderWay
  /\ KeyDurable /\ ServerDurable /\ ClearedIsClear /\ ScriptSeesStoredKey

-----------------------------------------------------------------------------
(* What a store leaves *)

\* nvo_store() with a value of the setting's kind leaves well-typed blocks.
LEMMA StoredBlock ==
  ASSUME NEW b \in Blocks, NEW name \in Names, NEW value \in Values(name)
  PROVE  [b EXCEPT ![name] = value] \in Blocks
BY DEF Blocks, Values, Names

\* What a store does to the volatile state.
AfterStore(how, valid) ==
  [volatile EXCEPT !.failed = @ \/ how # "ok", !.valid = valid]

LEMMA AfterStoreType ==
  ASSUME volatile \in Volatiles, NEW how, NEW valid \in SUBSET Servers
  PROVE  AfterStore(how, valid) \in Volatiles
BY Zenon DEF Volatiles, AfterStore

\* nvo_store() by the three ways it can end.
LEMMA StoreEffect ==
  ASSUME TypeOK, NEW name \in Names, NEW value \in Values(name),
         NEW how \in Hows, NEW valid \in SUBSET Servers,
         NvoStore(name, value, how, valid)
  PROVE  /\ mem' \in Blocks /\ nv' \in Blocks
         /\ how = "nomem" => mem' = mem
         /\ how # "nomem" => mem' = [mem EXCEPT ![name] = value]
         /\ how = "ok" => nv' = mem'
         /\ how # "ok" => nv' = nv
         /\ volatile' = AfterStore(how, valid) /\ volatile' \in Volatiles
<1>1. [mem EXCEPT ![name] = value] \in Blocks
  BY StoredBlock DEF TypeOK
<1>2. volatile' = AfterStore(how, valid)
  BY DEF NvoStore, AfterStore
<1>3. volatile' \in Volatiles
  BY <1>2, AfterStoreType DEF TypeOK
<1>4. QED
  BY <1>1, <1>2, <1>3 DEF TypeOK, NvoStore, NvoRealloc, NvoSave, NvsWrite, Hows

\* A store that fails spends the budget of failures, and only when it can.
LEMMA FailuresType ==
  ASSUME budget \in Budgets, NEW how \in Hows, how # "ok" => budget.failures > 0
  PROVE  Failures(how) \in 0..MaxFailures
BY StoreConstantsOK DEF Budgets, Failures

-----------------------------------------------------------------------------
(* Type correctness *)

\* The bookkeeping of the commands that TypeOK rests on.
Typed ==
  /\ TypeOK
  /\ cmd.op = "tofu" => cmd.server \in Servers
  /\ cmd.op = "nvclear" => cmd.step \in 1..3

LEMMA EmptyBlock == Empty \in Blocks
BY DEF Empty, Blocks, Values, Names

LEMMA TypedInit == Init => Typed
<1> SUFFICES ASSUME Init PROVE Typed
  OBVIOUS
<1>1. cmd \in Commands /\ cmd.op = "idle"
  BY DEF Init, Commands, Idle
<1>2. volatile \in Volatiles
  BY DEF Init, Volatiles, Off
<1>3. reported \in Reports
  BY DEF Init, Reports, Nothing
<1>4. budget \in Budgets
  BY StoreConstantsOK DEF Init, Budgets
<1>5. QED
  BY <1>1, <1>2, <1>3, <1>4, EmptyBlock DEF Init, Typed, TypeOK

LEMMA StartupTyped ==
  ASSUME Typed, NEW how, Startup(how)
  PROVE  Typed'
<1>1. NvoLoad(how) \in Blocks
  BY EmptyBlock DEF NvoLoad, Typed, TypeOK
<1>2. NvoLoad(how)["trust"] \in {None} \cup Servers /\ RegisterNvo(how) \in BOOLEAN
  BY <1>1 DEF Blocks, Values, Names, RegisterNvo
<1>3. volatile' = [Off EXCEPT !.on = TRUE, !.nvo = RegisterNvo(how),
                              !.root = NvoLoad(how)["trust"]]
  BY DEF Startup
<1>4. volatile' \in Volatiles
  BY Zenon, <1>2, <1>3 DEF Volatiles, Off
<1>5. cmd' \in Commands /\ cmd'.op = "idle"
  BY DEF Startup, Commands, Idle
<1>6. QED
  BY <1>1, <1>4, <1>5 DEF Startup, Typed, TypeOK

LEMMA PowerOffTyped ==
  ASSUME Typed, PowerOff
  PROVE  Typed'
<1>1. cmd' \in Commands /\ cmd'.op = "idle"
  BY DEF PowerOff, Commands, Idle
<1>2. volatile' \in Volatiles
  BY DEF PowerOff, Volatiles, Off
<1>3. QED
  BY <1>1, <1>2, EmptyBlock DEF PowerOff, Typed, TypeOK

LEMMA KeygenTyped ==
  ASSUME Typed, NEW how \in Hows, Keygen(how)
  PROVE  Typed'
<1> DEFINE key == budget.keys + 1
<1>1. key \in Keys /\ key \in 0..MaxKeys /\ key \in Values("device-key")
  BY StoreConstantsOK DEF Keygen, Keys, Values
<1>2. /\ NvoStore("device-key", key, how, volatile.valid)
      /\ budget' = [keys |-> key, failures |-> Failures(how)]
      /\ reported' = IF how = "ok"
                     THEN [reported EXCEPT !.key = key, !.cleared = FALSE, !.clean = FALSE]
                     ELSE reported
      /\ cmd' = cmd
  BY DEF Keygen
<1> HIDE DEF key
<1>3. "device-key" \in Names /\ volatile.valid \in SUBSET Servers
  BY DEF Names, Typed, TypeOK, Volatiles
<1>4. mem' \in Blocks /\ nv' \in Blocks /\ volatile' \in Volatiles
  BY <1>1, <1>2, <1>3, StoreEffect DEF Typed
<1>5. Failures(how) \in 0..MaxFailures
  BY <1>2, FailuresType DEF NvoStore, Typed, TypeOK
<1>6. budget' \in Budgets
  BY <1>1, <1>2, <1>5 DEF Budgets
<1>7. reported' \in Reports
  BY Zenon, <1>1, <1>2 DEF Typed, TypeOK, Reports
<1>8. QED
  BY <1>2, <1>4, <1>6, <1>7 DEF Typed, TypeOK

LEMMA ScriptTyped ==
  ASSUME Typed, Pubkey \/ Sign
  PROVE  Typed'
<1>1. mem["device-key"] \in {None} \cup Keys
  BY DEF Typed, TypeOK, Blocks, Values, Names
<1>2. CASE Pubkey
  <2>1. volatile' \in Volatiles
    BY <1>1, <1>2 DEF Pubkey, Typed, TypeOK, Volatiles
  <2>2. QED
    BY <1>2, <2>1 DEF Pubkey, Typed, TypeOK
<1>3. CASE Sign
  <2>1. volatile' \in Volatiles
    BY <1>1, <1>3 DEF Sign, Typed, TypeOK, Volatiles
  <2>2. QED
    BY <1>3, <2>1 DEF Sign, Typed, TypeOK
<1>4. QED
  BY <1>2, <1>3

LEMMA ContactTyped ==
  ASSUME Typed, NEW s \in Servers, Contact(s)
  PROVE  Typed'
<1>1. cmd' = [op |-> "tofu", server |-> s, step |-> 1, rc |-> "ok"]
  BY DEF Contact
<1>2. cmd' \in Commands /\ cmd'.op = "tofu" /\ cmd'.server \in Servers
  BY <1>1 DEF Commands
<1>3. QED
  BY <1>2 DEF Contact, Typed, TypeOK

LEMMA TofuStoreTyped ==
  ASSUME Typed, NEW how \in Hows, TofuStore(how)
  PROVE  Typed'
<1> DEFINE s == cmd.server
           accepted == how = "ok" /\ cmd.step = 2
           valid == volatile.valid \cup (IF accepted THEN {s} ELSE {})
<1>1. /\ cmd.op = "tofu" /\ s \in Servers /\ valid \in SUBSET Servers
      /\ TofuName(cmd.step) \in Names /\ s \in Values(TofuName(cmd.step))
  BY DEF TofuStore, TofuName, Names, Values, Typed, TypeOK, Volatiles
<1>2. /\ NvoStore(TofuName(cmd.step), s, how, valid)
      /\ cmd' = IF how = "ok" /\ cmd.step = 1 THEN [cmd EXCEPT !.step = 2] ELSE Idle
      /\ reported' = IF accepted
            THEN [reported EXCEPT !.server = s, !.cleared = FALSE, !.clean = FALSE]
            ELSE [reported EXCEPT !.cleared = FALSE, !.clean = FALSE]
      /\ budget' = [budget EXCEPT !.failures = Failures(how)]
  BY DEF TofuStore
<1>3. cmd' \in Commands /\ (cmd'.op = "tofu" => cmd'.server \in Servers)
                        /\ cmd'.op # "nvclear"
  BY <1>1, <1>2 DEF Typed, TypeOK, Commands, Idle
<1> HIDE DEF s, accepted, valid
<1>4. mem' \in Blocks /\ nv' \in Blocks /\ volatile' \in Volatiles
  BY <1>1, <1>2, StoreEffect DEF Typed
<1>5. Failures(how) \in 0..MaxFailures
  BY <1>2, FailuresType DEF NvoStore, Typed, TypeOK
<1>6. budget' \in Budgets
  BY <1>2, <1>5 DEF Typed, TypeOK, Budgets
<1>7. reported' \in Reports
  BY Zenon, <1>1, <1>2 DEF Typed, TypeOK, Reports
<1>8. QED
  BY <1>3, <1>4, <1>6, <1>7 DEF Typed, TypeOK

LEMMA NvclearStartTyped ==
  ASSUME Typed, NvclearStart
  PROVE  Typed'
<1>1. cmd' \in Commands /\ cmd'.op = "nvclear" /\ cmd'.step \in 1..3
  BY DEF NvclearStart, Commands
<1>2. volatile' \in Volatiles
  BY Zenon DEF NvclearStart, Typed, TypeOK, Volatiles
<1>3. reported' \in Reports
  BY Zenon DEF NvclearStart, Typed, TypeOK, Reports
<1>4. QED
  BY <1>1, <1>2, <1>3 DEF NvclearStart, Typed, TypeOK

LEMMA NvclearSettingTyped ==
  ASSUME Typed, NEW how \in Hows, NvclearSetting(how)
  PROVE  Typed'
<1> DEFINE name == NvclearName(cmd.step)
           present == mem[name] # None
           rc == IF present /\ how # "ok" THEN "fail" ELSE cmd.rc
           after == IF present THEN Withdrawn(name) ELSE reported
<1>1. cmd.op = "nvclear" /\ cmd.step \in 1..3
  BY DEF NvclearSetting, Typed
<1>2. name \in Names /\ None \in Values(name) /\ volatile.valid \in SUBSET Servers
  BY <1>1 DEF NvclearName, Names, Values, Typed, TypeOK, Volatiles
<1>3. after \in Reports
  BY DEF Withdrawn, Typed, TypeOK, Reports
<1>4. rc \in {"ok", "fail"}
  BY DEF Typed, TypeOK, Commands
<1>5. /\ cmd' = IF cmd.step = 3 THEN Idle ELSE [cmd EXCEPT !.step = @ + 1, !.rc = rc]
      /\ reported' = IF cmd.step = 3
            THEN [after EXCEPT !.cleared = (rc = "ok"),
                               !.clean = (rc = "ok" /\ ~volatile.failed)]
            ELSE after
      /\ budget' = [budget EXCEPT !.failures = Failures(how)]
      /\ how = "ok" \/ present
      /\ IF present THEN NvoStore(name, None, how, volatile.valid)
         ELSE UNCHANGED <<nv, mem, volatile>>
  BY DEF NvclearSetting
<1> HIDE DEF name, present, rc, after
<1>6. mem' \in Blocks /\ nv' \in Blocks /\ volatile' \in Volatiles
  <2>1. CASE present
    BY <2>1, <1>2, <1>5, StoreEffect DEF Typed
  <2>2. CASE ~present
    BY <2>2, <1>5 DEF Typed, TypeOK
  <2>3. QED
    BY <2>1, <2>2
<1>7. Failures(how) \in 0..MaxFailures
  BY <1>5, FailuresType DEF NvoStore, Typed, TypeOK
<1>8. budget' \in Budgets
  BY <1>5, <1>7 DEF Typed, TypeOK, Budgets
<1>9. reported' \in Reports
  BY Zenon, <1>3, <1>5 DEF Reports
<1>10. CASE cmd.step = 3
  <2>1. cmd' \in Commands /\ cmd'.op = "idle"
    BY <1>10, <1>5 DEF Commands, Idle
  <2>2. QED
    BY <2>1, <1>6, <1>8, <1>9 DEF Typed, TypeOK
<1>11. CASE cmd.step # 3
  <2>1. cmd' = [cmd EXCEPT !.step = cmd.step + 1, !.rc = rc]
    BY <1>11, <1>5
  <2>2. cmd.step + 1 \in 1..3 /\ cmd.step + 1 \in 0..3
    BY <1>1, <1>11
  <2>3. cmd' \in Commands /\ cmd'.op = "nvclear" /\ cmd'.step \in 1..3
    BY Zenon, <1>1, <1>4, <2>1, <2>2 DEF Typed, TypeOK, Commands
  <2>4. QED
    BY <2>3, <1>6, <1>8, <1>9 DEF Typed, TypeOK
<1>12. QED
  BY <1>10, <1>11

LEMMA TypedStep == Typed /\ [Next]_vars => Typed'
<1> SUFFICES ASSUME Typed, [Next]_vars PROVE Typed'
  OBVIOUS
<1>1. ASSUME NEW how \in {"ok"} \cup BootFaults, Startup(how) PROVE Typed'
  BY <1>1, StartupTyped
<1>2. CASE PowerOff
  BY <1>2, PowerOffTyped
<1>3. ASSUME NEW how \in Hows, Keygen(how) PROVE Typed'
  BY <1>3, KeygenTyped
<1>4. CASE Pubkey \/ Sign
  BY <1>4, ScriptTyped
<1>5. ASSUME NEW s \in Servers, Contact(s) PROVE Typed'
  BY <1>5, ContactTyped
<1>6. ASSUME NEW how \in Hows, TofuStore(how) PROVE Typed'
  BY <1>6, TofuStoreTyped
<1>7. CASE NvclearStart
  BY <1>7, NvclearStartTyped
<1>8. ASSUME NEW how \in Hows, NvclearSetting(how) PROVE Typed'
  BY <1>8, NvclearSettingTyped
<1>9. CASE UNCHANGED vars
  BY <1>9 DEF vars, Typed, TypeOK
<1>10. QED
  BY <1>1, <1>2, <1>3, <1>4, <1>5, <1>6, <1>7, <1>8, <1>9 DEF Next

\* Every setting of the options block, in memory and in the EFI variable,
\* keeps a value of its kind, through any failures and restarts.
THEOREM StoreTypeCorrect == Spec => []TypeOK
<1>1. Typed => TypeOK
  BY DEF Typed
<1>2. QED
  BY <1>1, TypedInit, TypedStep, PTL DEF Spec

-----------------------------------------------------------------------------
(* Consistent is inductive when the length of the variable can be probed *)

LEMMA AfterStoreFields ==
  ASSUME volatile \in Volatiles, NEW how, NEW valid
  PROVE  LET v == AfterStore(how, valid)
         IN /\ v.nvo = volatile.nvo /\ v.clearing = volatile.clearing
            /\ v.pubkey = volatile.pubkey /\ v.sig = volatile.sig
            /\ v.failed <=> volatile.failed \/ how # "ok"
BY Zenon DEF Volatiles, AfterStore

LEMMA ConsistentTyped == Consistent => Typed
BY DEF Consistent, Typed, TofuUnderWay, NvclearUnderWay

LEMMA ConsistentInit == Init => Consistent
<1> SUFFICES ASSUME Init PROVE Consistent
  OBVIOUS
<1>1. TypeOK
  BY TypedInit DEF Typed
<1>2. cmd.op = "idle" /\ mem = Empty /\ nv = Empty
  BY DEF Init, Idle
<1>3. ~volatile.nvo /\ volatile.pubkey = None /\ volatile.sig = None
  BY DEF Init, Off
<1>4. reported.key = None /\ reported.server = None /\ ~reported.clean
  BY DEF Init, Nothing
<1>5. QED
  BY <1>1, <1>2, <1>3, <1>4
     DEF Consistent, InStep, Kept, TofuUnderWay, NvclearUnderWay, KeyDurable,
         ServerDurable, ClearedIsClear, ScriptSeesStoredKey

LEMMA StartupConsistent ==
  ASSUME "probe" \notin BootFaults, Consistent, TypeOK',
         NEW how \in {"ok"} \cup BootFaults, Startup(how)
  PROVE  Consistent'
<1>1. /\ how # "probe" /\ mem' = NvoLoad(how) /\ cmd'.op = "idle"
      /\ nv' = nv /\ reported' = reported
  BY DEF Startup, Idle
<1>2. volatile' = [Off EXCEPT !.on = TRUE, !.nvo = RegisterNvo(how),
                              !.root = NvoLoad(how)["trust"]]
  BY DEF Startup
<1>3. (volatile'.nvo <=> RegisterNvo(how)) /\ volatile'.pubkey = None /\ volatile'.sig = None
  BY <1>2 DEF Off
<1>4. RegisterNvo(how) => NvoLoad(how) = nv
  BY <1>1 DEF RegisterNvo, NvoLoad, Probed
<1>5. ~RegisterNvo(how) => NvoLoad(how) = Empty
  BY DEF RegisterNvo, NvoLoad, Probed
<1>6. InStep'
  BY <1>1, <1>3, <1>4, <1>5 DEF InStep
<1>7. Kept'
  BY <1>1, <1>3, <1>4 DEF Kept, Consistent, KeyDurable, ServerDurable
<1>8. QED
  BY <1>1, <1>3, <1>6, <1>7
     DEF Consistent, TofuUnderWay, NvclearUnderWay, KeyDurable, ServerDurable,
         ClearedIsClear, ScriptSeesStoredKey

LEMMA PowerOffConsistent ==
  ASSUME Consistent, TypeOK', PowerOff
  PROVE  Consistent'
<1>1. /\ mem' = Empty /\ cmd'.op = "idle" /\ nv' = nv /\ reported' = reported
      /\ ~volatile'.nvo /\ volatile'.pubkey = None /\ volatile'.sig = None
  BY DEF PowerOff, Idle, Off
<1>2. QED
  BY <1>1 DEF Consistent, InStep, Kept, TofuUnderWay, NvclearUnderWay, KeyDurable,
              ServerDurable, ClearedIsClear, ScriptSeesStoredKey

LEMMA KeygenConsistent ==
  ASSUME Consistent, TypeOK', NEW how \in Hows, Keygen(how)
  PROVE  Consistent'
<1> DEFINE key == budget.keys + 1
<1>1. /\ NvoStore("device-key", key, how, volatile.valid)
      /\ reported' = IF how = "ok"
                     THEN [reported EXCEPT !.key = key, !.cleared = FALSE, !.clean = FALSE]
                     ELSE reported
      /\ cmd' = cmd /\ cmd.op = "idle" /\ volatile.nvo /\ mem["device-key"] = None
  BY DEF Keygen, Ready, KeygenExists
<1>2. key \in Values("device-key") /\ key # None /\ "device-key" \in Names
  BY StoreConstantsOK DEF Keygen, Keys, Values, Names
<1> HIDE DEF key
<1>3. TypeOK /\ volatile.valid \in SUBSET Servers
  BY DEF Consistent, TypeOK, Volatiles
<1>4. /\ how = "nomem" => mem' = mem
      /\ how # "nomem" => mem' = [mem EXCEPT !["device-key"] = key]
      /\ how = "ok" => nv' = mem'
      /\ how # "ok" => nv' = nv
      /\ volatile' = AfterStore(how, volatile.valid)
  BY <1>1, <1>2, <1>3, StoreEffect
<1>5. /\ volatile'.nvo = volatile.nvo /\ volatile'.clearing = volatile.clearing
      /\ volatile'.pubkey = volatile.pubkey /\ volatile'.sig = volatile.sig
      /\ volatile'.failed <=> volatile.failed \/ how # "ok"
  BY <1>3, <1>4, AfterStoreFields DEF TypeOK
<1>6. reported.key = None
  BY <1>1, <1>2 DEF Consistent, Kept
<1>7. /\ reported'.server = reported.server
      /\ how = "ok" => reported'.key = key /\ ~reported'.clean
      /\ how # "ok" => reported' = reported
  BY <1>1, <1>3 DEF TypeOK, Reports
<1>8. /\ mem'["server-fingerprint"] = mem["server-fingerprint"]
      /\ mem'["trust"] = mem["trust"]
      /\ how = "ok" => mem'["device-key"] = key
  BY <1>3, <1>4 DEF TypeOK, Blocks, Names
<1>9. InStep' /\ Kept'
  BY <1>1, <1>4, <1>5, <1>6, <1>7, <1>8 DEF Consistent, InStep, Kept, Hows
<1>10. TofuUnderWay' /\ NvclearUnderWay'
  BY <1>1 DEF TofuUnderWay, NvclearUnderWay
<1>11. KeyDurable' /\ ServerDurable' /\ ClearedIsClear'
  BY <1>1, <1>4, <1>6, <1>7, <1>8
     DEF Consistent, Kept, KeyDurable, ServerDurable, ClearedIsClear
<1>12. ScriptSeesStoredKey'
  <2>1. CASE how = "ok" /\ ~volatile.failed /\ ~volatile.clearing
    <3>1. nv["device-key"] = None
      BY <2>1, <1>1 DEF Consistent, InStep
    <3>2. volatile.pubkey = None /\ volatile.sig = None
      BY <2>1, <3>1 DEF Consistent, ScriptSeesStoredKey
    <3>3. QED
      BY <3>2, <1>5 DEF ScriptSeesStoredKey
  <2>2. QED
    BY <2>1, <1>5 DEF ScriptSeesStoredKey
<1>13. QED
  BY <1>9, <1>10, <1>11, <1>12 DEF Consistent

LEMMA ScriptConsistent ==
  ASSUME Consistent, TypeOK', Pubkey \/ Sign
  PROVE  Consistent'
<1>1. /\ UNCHANGED <<nv, mem, cmd, reported>> /\ mem["device-key"] # None
      /\ cmd.op = "idle"
  BY DEF Pubkey, Sign, Ready
<1>2. /\ volatile'.nvo = volatile.nvo /\ volatile'.clearing = volatile.clearing
      /\ volatile'.failed = volatile.failed
      /\ volatile'.pubkey \in {volatile.pubkey, mem["device-key"]}
      /\ volatile'.sig \in {volatile.sig, mem["device-key"]}
  <2>1. volatile \in Volatiles
    BY DEF Consistent, TypeOK
  <2>2. CASE Pubkey
    BY <2>1, <2>2 DEF Pubkey, Volatiles
  <2>3. CASE Sign
    BY <2>1, <2>3 DEF Sign, Volatiles
  <2>4. QED
    BY <2>2, <2>3
<1>3. volatile.nvo
  BY <1>1 DEF Consistent, InStep, Empty, Names
<1>4. ScriptSeesStoredKey'
  <2>1. CASE ~volatile.failed /\ ~volatile.clearing
    <3>1. mem["device-key"] = nv["device-key"]
      BY <2>1, <1>3 DEF Consistent, InStep
    <3>2. {volatile.pubkey, volatile.sig} \subseteq {None, nv["device-key"]}
      BY <2>1 DEF Consistent, ScriptSeesStoredKey
    <3>3. QED
      BY <3>1, <3>2, <1>1, <1>2 DEF ScriptSeesStoredKey
  <2>2. QED
    BY <2>1, <1>2 DEF ScriptSeesStoredKey
<1>5. QED
  BY <1>1, <1>2, <1>3, <1>4
     DEF Consistent, InStep, Kept, TofuUnderWay, NvclearUnderWay, KeyDurable,
         ServerDurable, ClearedIsClear

LEMMA ContactConsistent ==
  ASSUME Consistent, TypeOK', NEW s \in Servers, Contact(s)
  PROVE  Consistent'
<1>1. /\ cmd' = [op |-> "tofu", server |-> s, step |-> 1, rc |-> "ok"]
      /\ UNCHANGED <<nv, mem, volatile, reported>>
      /\ volatile.nvo /\ mem["server-fingerprint"] = None
  BY DEF Contact, TofuFirst
<1>2. cmd'.op = "tofu" /\ cmd'.step = 1 /\ cmd'.server = s
  BY <1>1
<1>3. reported.server = None
  BY <1>1 DEF Consistent, Kept
<1>4. QED
  BY <1>1, <1>2, <1>3
     DEF Consistent, InStep, Kept, TofuUnderWay, NvclearUnderWay, KeyDurable,
         ServerDurable, ClearedIsClear, ScriptSeesStoredKey

\* One of the two stores of a first contact, field by field.
LEMMA TofuStoreEffect ==
  ASSUME Consistent, NEW how \in Hows, TofuStore(how)
  PROVE  /\ cmd.op = "tofu" /\ volatile.nvo /\ cmd.step \in {1, 2}
         /\ how # "ok" => nv' = nv
         /\ how = "ok" => nv' = mem' /\ mem'["server-fingerprint"] = cmd.server
         /\ mem'["device-key"] = mem["device-key"]
         /\ how = "ok" /\ cmd.step = 2 => mem'["trust"] = cmd.server
         /\ volatile'.nvo /\ volatile'.clearing = volatile.clearing
         /\ volatile'.pubkey = volatile.pubkey /\ volatile'.sig = volatile.sig
         /\ volatile'.failed <=> volatile.failed \/ how # "ok"
         /\ reported'.key = reported.key /\ ~reported'.clean
         /\ reported'.server = IF how = "ok" /\ cmd.step = 2 THEN cmd.server
                               ELSE None
         /\ cmd'.op = "tofu" => /\ how = "ok" /\ cmd.step = 1 /\ cmd'.step = 2
                                /\ cmd'.server = cmd.server
         /\ cmd'.op # "nvclear"
<1> DEFINE s == cmd.server
           accepted == how = "ok" /\ cmd.step = 2
           valid == volatile.valid \cup (IF accepted THEN {s} ELSE {})
           name == TofuName(cmd.step)
<1>1. /\ NvoStore(name, s, how, valid) /\ cmd.op = "tofu"
      /\ cmd' = IF how = "ok" /\ cmd.step = 1 THEN [cmd EXCEPT !.step = 2] ELSE Idle
      /\ reported' = IF accepted
            THEN [reported EXCEPT !.server = s, !.cleared = FALSE, !.clean = FALSE]
            ELSE [reported EXCEPT !.cleared = FALSE, !.clean = FALSE]
  BY DEF TofuStore
<1>2. /\ TypeOK /\ s \in Servers /\ volatile.nvo /\ cmd.step \in {1, 2}
      /\ reported.server = None
      /\ cmd.step = 2 => mem["server-fingerprint"] = s
  BY <1>1 DEF Consistent, InStep, TofuUnderWay
<1>3. name \in Names /\ s \in Values(name) /\ valid \in SUBSET Servers
  BY <1>2 DEF TofuName, Names, Values, TypeOK, Volatiles
<1>4. /\ name # "device-key"
      /\ cmd.step = 1 => name = "server-fingerprint"
      /\ cmd.step = 2 => name = "trust"
  BY <1>2 DEF TofuName
<1>5. reported'.key = reported.key /\ ~reported'.clean
      /\ reported'.server = IF accepted THEN s ELSE None
  BY <1>1, <1>2 DEF TypeOK, Reports
<1>6. /\ cmd'.op = "tofu" => /\ how = "ok" /\ cmd.step = 1 /\ cmd'.step = 2
                             /\ cmd'.server = s
      /\ cmd'.op # "nvclear"
  BY <1>1, <1>2 DEF TypeOK, Commands, Idle
<1> HIDE DEF valid, name
<1>7. /\ how = "nomem" => mem' = mem
      /\ how # "nomem" => mem' = [mem EXCEPT ![name] = s]
      /\ how = "ok" => nv' = mem'
      /\ how # "ok" => nv' = nv
      /\ volatile' = AfterStore(how, valid)
  BY <1>1, <1>2, <1>3, StoreEffect
<1>8. /\ volatile'.nvo = volatile.nvo /\ volatile'.clearing = volatile.clearing
      /\ volatile'.pubkey = volatile.pubkey /\ volatile'.sig = volatile.sig
      /\ volatile'.failed <=> volatile.failed \/ how # "ok"
  BY ZenonT(40), <1>2, <1>7, AfterStoreFields DEF TypeOK
<1>9. /\ mem'["device-key"] = mem["device-key"]
      /\ how = "ok" => mem'["server-fingerprint"] = s
      /\ how = "ok" /\ cmd.step = 2 => mem'["trust"] = s
  BY <1>2, <1>4, <1>7 DEF TypeOK, Blocks, Names
<1>10. QED
  BY <1>1, <1>2, <1>5, <1>6, <1>7, <1>8, <1>9

LEMMA TofuStoreConsistent ==
  ASSUME Consistent, TypeOK', NEW how \in Hows, TofuStore(how)
  PROVE  Consistent'
<1>1. cmd.server \in Servers /\ reported.server = None
  BY TofuStoreEffect DEF Consistent, TofuUnderWay
<1>2. InStep'
  BY TofuStoreEffect DEF InStep
<1>3. Kept'
  BY TofuStoreEffect DEF Consistent, Kept
<1>4. TofuUnderWay' /\ NvclearUnderWay'
  BY <1>1, TofuStoreEffect DEF TofuUnderWay, NvclearUnderWay
<1>5. KeyDurable' /\ ServerDurable' /\ ClearedIsClear'
  BY TofuStoreEffect DEF Consistent, Kept, KeyDurable, ServerDurable, ClearedIsClear
<1>6. ScriptSeesStoredKey'
  <2>1. CASE how = "ok" /\ ~volatile.failed /\ ~volatile.clearing
    <3>1. nv'["device-key"] = nv["device-key"]
      BY <2>1, TofuStoreEffect DEF Consistent, InStep
    <3>2. {volatile.pubkey, volatile.sig} \subseteq {None, nv["device-key"]}
      BY <2>1 DEF Consistent, ScriptSeesStoredKey
    <3>3. volatile'.pubkey = volatile.pubkey /\ volatile'.sig = volatile.sig
      BY TofuStoreEffect
    <3>4. QED
      BY <3>1, <3>2, <3>3 DEF ScriptSeesStoredKey
  <2>2. QED
    BY <2>1, TofuStoreEffect DEF ScriptSeesStoredKey
<1>7. QED
  BY <1>2, <1>3, <1>4, <1>5, <1>6 DEF Consistent

LEMMA NvclearStartConsistent ==
  ASSUME Consistent, TypeOK', NvclearStart
  PROVE  Consistent'
<1>1. /\ cmd' = [op |-> "nvclear", server |-> None, step |-> 1, rc |-> "ok"]
      /\ volatile' = [volatile EXCEPT !.clearing = TRUE]
      /\ reported' = [reported EXCEPT !.cleared = FALSE, !.clean = FALSE]
      /\ UNCHANGED <<nv, mem>> /\ volatile.nvo
  BY DEF NvclearStart
<1>2. cmd'.op = "nvclear" /\ cmd'.step = 1
  BY <1>1
<1>3. volatile'.nvo /\ volatile'.clearing /\ volatile'.failed = volatile.failed
  BY <1>1 DEF Consistent, TypeOK, Volatiles
<1>4. ~reported'.clean /\ reported'.key = reported.key /\ reported'.server = reported.server
  BY <1>1 DEF Consistent, TypeOK, Reports
<1>5. QED
  BY <1>1, <1>2, <1>3, <1>4
     DEF Consistent, InStep, Kept, TofuUnderWay, NvclearUnderWay, KeyDurable,
         ServerDurable, ClearedIsClear, ScriptSeesStoredKey

\* nvclear's treatment of one setting, field by field.
LEMMA NvclearEffect ==
  ASSUME Consistent, NEW how \in Hows, NvclearSetting(how)
  PROVE  LET name == NvclearName(cmd.step)
             rc == IF mem[name] # None /\ how # "ok" THEN "fail" ELSE cmd.rc
         IN /\ cmd.op = "nvclear" /\ volatile.nvo /\ cmd.step \in 1..3
            /\ name \in Names /\ ~reported.clean
            /\ \A n \in Names \ {name} : mem'[n] = mem[n]
            /\ mem'[name] \in {None, mem[name]}
            /\ rc = "ok" => mem'[name] = None /\ cmd.rc = "ok" /\ how = "ok"
            /\ nv' = nv \/ nv' = mem'
            /\ ~volatile'.failed => nv' = mem'
            /\ rc = "ok" /\ ~volatile.failed => ~volatile'.failed
            /\ volatile'.nvo /\ volatile'.clearing
<1> DEFINE name == NvclearName(cmd.step)
           present == mem[name] # None
           rc == IF present /\ how # "ok" THEN "fail" ELSE cmd.rc
<1>1. /\ cmd.op = "nvclear" /\ (how = "ok" \/ present)
      /\ IF present THEN NvoStore(name, None, how, volatile.valid)
         ELSE UNCHANGED <<nv, mem, volatile>>
  BY DEF NvclearSetting
<1>2. /\ TypeOK /\ volatile.nvo /\ cmd.step \in 1..3 /\ ~reported.clean
      /\ volatile.clearing /\ volatile.valid \in SUBSET Servers
  BY <1>1 DEF Consistent, InStep, NvclearUnderWay, TypeOK, Volatiles
<1>3. name \in Names /\ None \in Values(name)
  BY <1>2 DEF NvclearName, Names, Values
<1>4. rc = "ok" => cmd.rc = "ok" /\ how = "ok"
  BY <1>1
<1> HIDE DEF name
<1>5. CASE present
  <2>1. /\ how = "nomem" => mem' = mem
        /\ how # "nomem" => mem' = [mem EXCEPT ![name] = None]
        /\ how = "ok" => nv' = mem'
        /\ how # "ok" => nv' = nv
        /\ volatile' = AfterStore(how, volatile.valid)
    BY <1>1, <1>2, <1>3, <1>5, StoreEffect
  <2>2. /\ volatile'.nvo = volatile.nvo /\ volatile'.clearing = volatile.clearing
        /\ volatile'.failed <=> volatile.failed \/ how # "ok"
    BY Zenon, <1>2, <2>1, AfterStoreFields DEF TypeOK
  <2>3. /\ \A n \in Names \ {name} : mem'[n] = mem[n]
        /\ mem'[name] \in {None, mem[name]}
        /\ how = "ok" => mem'[name] = None
    BY <1>2, <1>3, <2>1 DEF TypeOK, Blocks, Hows
  <2>4. QED
    BY <1>1, <1>2, <1>3, <1>4, <2>1, <2>2, <2>3 DEF name
<1>6. CASE ~present
  BY <1>1, <1>2, <1>3, <1>4, <1>6 DEF name, Consistent, InStep
<1>7. QED
  BY <1>5, <1>6

\* What nvclear withdraws and reports after one setting, and where it goes.
LEMMA NvclearReport ==
  ASSUME Consistent, NEW how \in Hows, NvclearSetting(how)
  PROVE  LET name == NvclearName(cmd.step)
             rc == IF mem[name] # None /\ how # "ok" THEN "fail" ELSE cmd.rc
         IN /\ reported'.key = IF name = "device-key" THEN None ELSE reported.key
            /\ reported'.server = IF name = "device-key" THEN reported.server ELSE None
            /\ reported'.clean => cmd.step = 3 /\ rc = "ok" /\ ~volatile.failed
            /\ cmd.step = 3 => cmd'.op = "idle"
            /\ cmd.step # 3 => /\ cmd'.op = "nvclear" /\ cmd'.step = cmd.step + 1
                               /\ cmd'.rc = rc
<1> DEFINE name == NvclearName(cmd.step)
           present == mem[name] # None
           rc == IF present /\ how # "ok" THEN "fail" ELSE cmd.rc
           after == IF present THEN Withdrawn(name) ELSE reported
<1>1. /\ cmd' = IF cmd.step = 3 THEN Idle ELSE [cmd EXCEPT !.step = @ + 1, !.rc = rc]
      /\ reported' = IF cmd.step = 3
            THEN [after EXCEPT !.cleared = (rc = "ok"),
                               !.clean = (rc = "ok" /\ ~volatile.failed)]
            ELSE after
  BY DEF NvclearSetting
<1>2. /\ cmd.op = "nvclear" /\ volatile.nvo /\ cmd.step \in 1..3
      /\ name \in Names /\ ~reported.clean
  BY NvclearEffect
<1>3. cmd \in Commands /\ reported \in Reports
  BY DEF Consistent, TypeOK
<1>4. /\ cmd.step = 3 => cmd'.op = "idle"
      /\ cmd.step # 3 => cmd'.op = "nvclear" /\ cmd'.step = cmd.step + 1 /\ cmd'.rc = rc
  BY <1>1, <1>2, <1>3 DEF Commands, Idle
<1>5. /\ after \in Reports /\ after.clean = reported.clean
      /\ after.key = IF present /\ name = "device-key" THEN None ELSE reported.key
      /\ after.server = IF present /\ name # "device-key" THEN None ELSE reported.server
  BY <1>3 DEF Withdrawn, Reports
<1> HIDE DEF name, present, rc, after
<1>6. /\ reported'.key = after.key /\ reported'.server = after.server
      /\ reported'.clean => cmd.step = 3 /\ rc = "ok" /\ ~volatile.failed
  BY <1>1, <1>2, <1>5 DEF Reports
<1>7. ~present => /\ name = "device-key" => reported.key = None
                  /\ name # "device-key" => reported.server = None
  BY <1>2 DEF Consistent, Kept, Names, present
<1>8. QED
  BY <1>4, <1>5, <1>6, <1>7 DEF name, present, rc

LEMMA NvclearSettingConsistent ==
  ASSUME Consistent, TypeOK', NEW how \in Hows, NvclearSetting(how)
  PROVE  Consistent'
<1> DEFINE name == NvclearName(cmd.step)
           rc == IF mem[name] # None /\ how # "ok" THEN "fail" ELSE cmd.rc
<1>1. /\ cmd.op = "nvclear" /\ volatile.nvo /\ cmd.step \in 1..3
      /\ name \in Names /\ ~reported.clean
      /\ \A n \in Names \ {name} : mem'[n] = mem[n]
      /\ mem'[name] \in {None, mem[name]}
      /\ rc = "ok" => mem'[name] = None /\ cmd.rc = "ok" /\ how = "ok"
      /\ nv' = nv \/ nv' = mem'
      /\ ~volatile'.failed => nv' = mem'
      /\ rc = "ok" /\ ~volatile.failed => ~volatile'.failed
      /\ volatile'.nvo /\ volatile'.clearing
  BY NvclearEffect
<1>2. /\ reported'.key = IF name = "device-key" THEN None ELSE reported.key
      /\ reported'.server = IF name = "device-key" THEN reported.server ELSE None
      /\ reported'.clean => cmd.step = 3 /\ rc = "ok" /\ ~volatile.failed
      /\ cmd.step = 3 => cmd'.op = "idle"
      /\ cmd.step # 3 => cmd'.op = "nvclear" /\ cmd'.step = cmd.step + 1 /\ cmd'.rc = rc
  BY NvclearReport
<1>3. /\ cmd.step = 1 => name = "device-key"
      /\ cmd.step = 2 => name = "server-fingerprint"
      /\ cmd.step = 3 => name = "trust"
  BY DEF NvclearName
<1> HIDE DEF name, rc
<1>4. InStep'
  BY <1>1 DEF InStep
<1>5. Kept'
  BY <1>1, <1>2 DEF Consistent, Kept, Names
<1>6. TofuUnderWay'
  BY <1>2 DEF TofuUnderWay
<1>7. NvclearUnderWay'
  <2>1. CASE cmd.step = 1
    BY <2>1, <1>1, <1>2, <1>3 DEF NvclearUnderWay, Names
  <2>2. CASE cmd.step = 2
    BY <2>2, <1>1, <1>2, <1>3 DEF Consistent, NvclearUnderWay, Names
  <2>3. CASE cmd.step = 3
    BY <2>3, <1>2 DEF NvclearUnderWay
  <2>4. QED
    BY <1>1, <2>1, <2>2, <2>3
<1>8. KeyDurable' /\ ServerDurable'
  BY <1>1, <1>2, <1>5 DEF Consistent, Kept, KeyDurable, ServerDurable
<1>9. ClearedIsClear'
  <2> SUFFICES ASSUME reported'.clean PROVE nv' = Empty
    BY DEF ClearedIsClear
  <2>1. cmd.step = 3 /\ rc = "ok" /\ nv' = mem' /\ cmd.rc = "ok"
    BY <1>1, <1>2
  <2>2. mem["device-key"] = None /\ mem["server-fingerprint"] = None
    BY <1>1, <2>1 DEF Consistent, NvclearUnderWay
  <2>3. \A n \in Names : mem'[n] = None
    BY <1>1, <1>3, <2>1, <2>2 DEF Names
  <2>4. mem' \in [Names -> {None} \cup Keys \cup Servers]
    BY DEF TypeOK, Blocks
  <2>5. QED
    BY <2>1, <2>3, <2>4 DEF Empty
<1>10. ScriptSeesStoredKey'
  BY <1>1 DEF ScriptSeesStoredKey
<1>11. QED
  BY <1>4, <1>5, <1>6, <1>7, <1>8, <1>9, <1>10 DEF Consistent

LEMMA ConsistentStep ==
  ASSUME "probe" \notin BootFaults
  PROVE  Consistent /\ [Next]_vars => Consistent'
<1> SUFFICES ASSUME Consistent, [Next]_vars PROVE Consistent'
  OBVIOUS
<1> TypeOK'
  BY ConsistentTyped, TypedStep DEF Typed
<1>1. ASSUME NEW how \in {"ok"} \cup BootFaults, Startup(how) PROVE Consistent'
  BY <1>1, StartupConsistent
<1>2. CASE PowerOff
  BY <1>2, PowerOffConsistent
<1>3. ASSUME NEW how \in Hows, Keygen(how) PROVE Consistent'
  BY <1>3, KeygenConsistent
<1>4. CASE Pubkey \/ Sign
  BY <1>4, ScriptConsistent
<1>5. ASSUME NEW s \in Servers, Contact(s) PROVE Consistent'
  BY <1>5, ContactConsistent
<1>6. ASSUME NEW how \in Hows, TofuStore(how) PROVE Consistent'
  BY <1>6, TofuStoreConsistent
<1>7. CASE NvclearStart
  BY <1>7, NvclearStartConsistent
<1>8. ASSUME NEW how \in Hows, NvclearSetting(how) PROVE Consistent'
  BY <1>8, NvclearSettingConsistent
<1>9. CASE UNCHANGED vars
  BY <1>9 DEF vars, Consistent, TypeOK, InStep, Kept, TofuUnderWay, NvclearUnderWay,
              KeyDurable, ServerDurable, ClearedIsClear, ScriptSeesStoredKey
<1>10. QED
  BY <1>1, <1>2, <1>3, <1>4, <1>5, <1>6, <1>7, <1>8, <1>9 DEF Next

-----------------------------------------------------------------------------
(* The theorems *)

LEMMA AlwaysConsistent ==
  ASSUME "probe" \notin BootFaults
  PROVE  Spec => []Consistent
BY ConsistentInit, ConsistentStep, PTL DEF Spec

\* A key that keygen_exec() reported is the one in the EFI variable until
\* nvclear tries to delete it: failing saves, losses of power between any
\* two writes and a block that cannot be read never replace or lose it.
THEOREM ReportedKeyDurable ==
  ASSUME "probe" \notin BootFaults
  PROVE  Spec => []KeyDurable
<1>1. Consistent => KeyDurable
  BY DEF Consistent
<1>2. QED
  BY <1>1, AlwaysConsistent, PTL

\* The server that tofu_store() accepted stays the stored fingerprint and
\* the stored root of trust, until nvclear tries to delete them.
THEOREM AcceptedServerDurable ==
  ASSUME "probe" \notin BootFaults
  PROVE  Spec => []ServerDurable
<1>1. Consistent => ServerDurable
  BY DEF Consistent
<1>2. QED
  BY <1>1, AlwaysConsistent, PTL

\* An nvclear that reports success, with no failed store since startup, has
\* deleted the EFI variable, whatever memory and variable held before.
THEOREM CleanNvclearClears ==
  ASSUME "probe" \notin BootFaults
  PROVE  Spec => []ClearedIsClear
<1>1. Consistent => ClearedIsClear
  BY DEF Consistent
<1>2. QED
  BY <1>1, AlwaysConsistent, PTL

\* What pubkey_exec() and sign_exec() leave for scripts belongs to the key
\* in the EFI variable, as long as no store failed and nvclear did not run.
THEOREM ScriptsUseStoredKey ==
  ASSUME "probe" \notin BootFaults
  PROVE  Spec => []ScriptSeesStoredKey
<1>1. Consistent => ScriptSeesStoredKey
  BY DEF Consistent
<1>2. QED
  BY <1>1, AlwaysConsistent, PTL

\* No step of tofu_store() writes a server as the root of trust unless the
\* same write holds its fingerprint: the order of the two stores decides it.
THEOREM RootNeverWithoutFingerprint ==
  ASSUME "probe" \notin BootFaults
  PROVE  Spec => RootHasFingerprint
<1> DEFINE A == cmd.op = "tofu" /\ nv'["trust"] # nv["trust"] /\ nv'["trust"] = cmd.server
                => nv'["server-fingerprint"] = cmd.server
<1>1. Consistent /\ [Next]_vars => [A]_vars
  <2> SUFFICES ASSUME Consistent, Next, cmd.op = "tofu", nv' # nv
               PROVE  nv'["server-fingerprint"] = cmd.server
    OBVIOUS
  <2>1. PICK how \in Hows : TofuStore(how)
    BY Zenon DEF Next, Startup, PowerOff, Keygen, Pubkey, Sign, Contact, NvclearStart,
           NvclearSetting, Ready
  <2>2. QED
    BY <2>1, TofuStoreEffect
<1>2. QED
  BY <1>1, AlwaysConsistent, PTL DEF Spec, RootHasFingerprint
=============================================================================
