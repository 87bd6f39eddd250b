---- MODULE KeyStore ----
(***************************************************************************)
(* API keys: each server keeps its keys in memory and in a file, under one *)
(* mutex: change memory, write the file, undo the change if that failed,   *)
(* then write the entry through to a Vault shared by the servers and put   *)
(* its id in the Vault's index (ApiKeyStore, VaultKeyBackend).  A server   *)
(* starts from its file and adds the keys only the Vault has.  An entry is *)
(* one of "none", "on" and "off"; ids are random, so no two creations      *)
(* share one.                                                              *)
(***************************************************************************)
EXTENDS Naturals, FiniteSets

CONSTANTS
    KyServers,      \* servers sharing a Vault
    KyKeys,         \* key ids
    KyVaults,       \* whether a Vault is configured, the values to look at
    KyMaxOps, KyMaxFaults   \* bounds

ASSUME KyConstants ==
    KyVaults \subseteq BOOLEAN /\ KyMaxOps \in Nat /\ KyMaxFaults \in Nat

VARIABLES
    kyVault,        \* vault_backend_ available
    kyUp,           \* servers that run
    kyMem,          \* entries_ of each server
    kyFile,         \* config_path_ of each server
    kyOp,           \* the call that holds mutex_ of each server
    kySecret,       \* the Vault's entries
    kyIndex,        \* the Vault's _index
    kyMay,          \* history: values the last answers of a server allow for a key
    kyAhead,        \* history: servers whose directory sync failed after the rename
    kyOps, kyFaults

kyStores == <<kyMem, kyFile>>
kyShared == <<kySecret, kyIndex>>
kyVars == <<kyVault, kyUp, kyStores, kyOp, kyShared, kyMay, kyAhead, kyOps, kyFaults>>

KyNone == [k \in KyKeys |-> "none"]
KyFree == [pc |-> "free", key |-> CHOOSE k \in KyKeys : TRUE, old |-> "none", ids |-> {}]

KyInit ==
    /\ kyVault \in KyVaults
    /\ kyUp = KyServers
    /\ kyMem = [s \in KyServers |-> KyNone] /\ kyFile = [s \in KyServers |-> KyNone]
    /\ kyOp = [s \in KyServers |-> KyFree]
    /\ kySecret = KyNone /\ kyIndex = {}
    /\ kyMay = [s \in KyServers |-> [k \in KyKeys |-> {"none"}]]
    /\ kyAhead = {} /\ kyOps = 0 /\ kyFaults = 0

KySet(s, op) == kyOp' = [kyOp EXCEPT ![s] = op]
KyFault == kyFaults < KyMaxFaults /\ kyFaults' = kyFaults + 1

\* The change in memory, with which each call begins under the mutex.
KyChange(s, k, v) ==
    /\ s \in kyUp /\ kyOp[s].pc = "free" /\ kyOps < KyMaxOps
    /\ kyMem' = [kyMem EXCEPT ![s][k] = v]
    /\ kyMay' = [kyMay EXCEPT ![s][k] = @ \cup {v}]
    /\ KySet(s, [pc |-> "save", key |-> k, old |-> kyMem[s][k], ids |-> {}])
    /\ kyOps' = kyOps + 1
    /\ UNCHANGED <<kyVault, kyUp, kyFile, kyShared, kyAhead, kyFaults>>

\* create_key: the id is new to all.
KyCreate(s, k) ==
    /\ kySecret[k] = "none" /\ \A t \in KyServers : kyMem[t][k] = "none" /\ kyFile[t][k] = "none"
    /\ KyChange(s, k, "on")

\* revoke
KyRevoke(s, k) == kyMem[s][k] # "none" /\ KyChange(s, k, "off")

\* update_key, as far as it enables or disables
KyUpdate(s, k, v) == kyMem[s][k] # "none" /\ KyChange(s, k, v)

\* POST /admin/keys, DELETE /admin/keys/:id, PATCH /admin/keys/:id; a body that does not
\* decode and an id that is not there change nothing.
KyPostKey(s) == \E k \in KyKeys : KyCreate(s, k)
KyDeleteKey(s) == \E k \in KyKeys : KyRevoke(s, k)
KyPatchKey(s) == \E k \in KyKeys, v \in {"on", "off"} : KyUpdate(s, k, v)

\* The answer: from now on only the new value is right.
KyAnswer(s, k) == kyMay' = [kyMay EXCEPT ![s][k] = {kyMem[s][k]}]

\* save() succeeds: the file is replaced.
KySave(s) ==
    LET op == kyOp[s] IN
    /\ s \in kyUp /\ op.pc = "save"
    /\ kyFile' = [kyFile EXCEPT ![s] = kyMem[s]]
    /\ IF kyVault THEN KySet(s, [op EXCEPT !.pc = "put"]) /\ UNCHANGED kyMay
                  ELSE KySet(s, KyFree) /\ KyAnswer(s, op.key)
    /\ UNCHANGED <<kyVault, kyUp, kyMem, kyShared, kyAhead, kyOps, kyFaults>>

\* A bug: a failed save leaves the change in memory.
KeepsChange(s) == kyMem[s]

\* The entries after a failed save: what they were.
Undone(s) == [kyMem[s] EXCEPT ![kyOp[s].key] = kyOp[s].old]

\* save() throws, before the rename or after it, and the change is undone in memory.
KySaveFails(s) ==
    LET op == kyOp[s] IN
    /\ s \in kyUp /\ op.pc = "save" /\ KyFault
    /\ \/ UNCHANGED <<kyFile, kyAhead>>
       \/ kyFile' = [kyFile EXCEPT ![s] = kyMem[s]] /\ kyAhead' = kyAhead \cup {s}
    /\ kyMem' = [kyMem EXCEPT ![s] = Undone(s)]
    /\ KySet(s, KyFree)
    /\ kyMay' = [kyMay EXCEPT ![s][op.key] = {op.old}]
    /\ UNCHANGED <<kyVault, kyUp, kyShared, kyOps>>

\* sync_to_vault: put the entry, read the index, write it back with the id.  Failures
\* are ignored; a read that fails counts as an empty index.
KyPut(s) ==
    LET op == kyOp[s] IN
    /\ s \in kyUp /\ op.pc = "put"
    /\ \/ /\ kySecret' = [kySecret EXCEPT ![op.key] = kyMem[s][op.key]]
          /\ KySet(s, [op EXCEPT !.pc = "index"]) /\ UNCHANGED <<kyFaults, kyMay>>
       \/ KyFault /\ KySet(s, KyFree) /\ KyAnswer(s, op.key) /\ UNCHANGED kySecret
    /\ UNCHANGED <<kyVault, kyUp, kyStores, kyIndex, kyAhead, kyOps>>

KyReadIndex(s) ==
    LET op == kyOp[s] IN
    /\ s \in kyUp /\ op.pc = "index"
    /\ \/ KySet(s, [op EXCEPT !.pc = "list", !.ids = kyIndex]) /\ UNCHANGED kyFaults
       \/ KyFault /\ KySet(s, [op EXCEPT !.pc = "list", !.ids = {}])
    /\ UNCHANGED <<kyVault, kyUp, kyStores, kyShared, kyMay, kyAhead, kyOps>>

KyWriteIndex(s) ==
    LET op == kyOp[s] IN
    /\ s \in kyUp /\ op.pc = "list"
    /\ \/ kyIndex' = op.ids \cup {op.key} /\ UNCHANGED kyFaults
       \/ KyFault /\ UNCHANGED kyIndex
    /\ KySet(s, KyFree) /\ KyAnswer(s, op.key)
    /\ UNCHANGED <<kyVault, kyUp, kyStores, kySecret, kyAhead, kyOps>>

KyCrash(s) ==
    /\ s \in kyUp /\ KyFault /\ kyUp' = kyUp \ {s} /\ KySet(s, KyFree)
    /\ UNCHANGED <<kyVault, kyStores, kyShared, kyMay, kyAhead, kyOps>>

\* sync_from_vault: an entry only the Vault has.
Merged(s, k, got) == IF kyFile[s][k] = "none" /\ k \in got THEN kySecret[k] ELSE kyFile[s][k]

\* load_all: the ids of the index whose entry could be read.
KyLoadAll == IF kyVault THEN SUBSET kyIndex ELSE {{}}

\* The constructor: load(), then sync_from_vault, which saves what it added.
KyRestart(s) ==
    /\ s \notin kyUp /\ kyUp' = kyUp \cup {s}
    /\ \E got \in KyLoadAll :
         LET now == [k \in KyKeys |-> Merged(s, k, got)] IN
         /\ kyMem' = [kyMem EXCEPT ![s] = now] /\ kyFile' = [kyFile EXCEPT ![s] = now]
         /\ kyMay' = [kyMay EXCEPT ![s] = [k \in KyKeys |->
                        IF kyMay[s][k] = {"none"} \/ now[k] \in kyMay[s][k] THEN {now[k]} ELSE kyMay[s][k]]]
    /\ UNCHANGED <<kyVault, kyOp, kyShared, kyAhead, kyOps, kyFaults>>

KyNext ==
    \E s \in KyServers :
      \/ KyPostKey(s) \/ KyDeleteKey(s) \/ KyPatchKey(s) \/ KySave(s) \/ KySaveFails(s)
      \/ KyPut(s) \/ KyReadIndex(s) \/ KyWriteIndex(s) \/ KyCrash(s) \/ KyRestart(s)

KySpec == KyInit /\ [][KyNext]_kyVars

(***************************************************************************)
(* Properties                                                              *)
(***************************************************************************)

\* A server's keys are what it last answered: a change it acknowledged is in force, one
\* it refused is not, a restart keeps both whatever the Vault holds, and a change cut by
\* a crash is kept or lost as a whole.  Set aside: a directory sync that fails after the
\* rename leaves the refused change on disk (kyAhead).
KeysKept ==
    \A s \in kyUp \ kyAhead : \A k \in KyKeys :
      /\ kyMem[s][k] \in kyMay[s][k]
      /\ kyOp[s].pc = "free" => kyFile[s][k] = kyMem[s][k]

\* As long as no call to it fails, the Vault's index lists every key the Vault holds,
\* those a call is still adding apart.
VaultListed ==
    kyFaults = 0 => \A k \in KyKeys : kySecret[k] # "none" /\ ~(\E s \in KyServers : kyOp[s].pc # "free" /\ kyOp[s].key = k)
      => k \in kyIndex
====
