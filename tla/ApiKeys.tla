-------------------------------- MODULE ApiKeys --------------------------------
(***************************************************************************)
(* The api_keys table: keys an administrator creates and deactivates, keys *)
(* provisioned when a person signs in through LDAP, authentication of      *)
(* requests, and the script that replaces the plaintext of older keys by   *)
(* its hash.                                                               *)
(*                                                                         *)
(* A call is one handler in flight, of ldap_login or of authenticate; its  *)
(* steps are separated where it awaits the database.  The script runs in a *)
(* process and a transaction of its own.  Departments are left out: no     *)
(* decision here depends on them.                                          *)
(***************************************************************************)
EXTENDS Integers, FiniteSets

CONSTANTS Secrets,     \* raw keys generate_key may draw: each is drawn once
          People,      \* distinguished names in the directory
          NoSecret, NoDN,
          Legacy,      \* Legacy[i]: raw key of row i, older than the hashes
          Calls,
          MaxRows      \* bound: rows of the table

ASSUME NoneAssumption == NoSecret \notin Secrets /\ NoDN \notin People
ASSUME LegacyAssumption ==
    /\ \E n \in 0..MaxRows : Legacy \in [1..n -> Secrets]
    /\ \A i, j \in DOMAIN Legacy : Legacy[i] = Legacy[j] => i = j
ASSUME RowsAssumption == MaxRows \in Nat

VARIABLES keys,        \* rows of api_keys: a function of their ids
          selected,    \* rows the script selected and is about to update
          script,      \* "ready", "running" or "done"
          pc, dn,      \* of each call: where it stands, whose login it is
          secret,      \* secret[c]: the raw key presented to authenticate
          found        \* found[c]: id of the row it found, 0 for none

(* Observers. *)
VARIABLES handed,      \* raw keys given to somebody, with their rows
          overlapped   \* people two of whose logins overlapped

calls == <<pc, dn, secret, found>>
vars == <<keys, selected, script, calls, handed, overlapped>>

Ids == DOMAIN keys

(* hash_key, idealised: the hash of a raw key is the raw key, in a column of
   its own.  A new row carries both. *)
NewRow(s, person) == [key |-> s, key_hash |-> s, active |-> TRUE,
                      ldap_dn |-> person, used |-> FALSE]

LegacyRow(s) == [key |-> s, key_hash |-> NoSecret, active |-> TRUE,
                 ldap_dn |-> NoDN, used |-> FALSE]

Fresh == Secrets \ ({keys[i].key : i \in Ids} \cup {keys[i].key_hash : i \in Ids})

(* authenticate looks a raw key up by its hash, or as it is. *)
Matching(s) == {i \in Ids : keys[i].key_hash = s \/ keys[i].key = s}

(* Faulty variant: the LIMIT 1 comes before the filter. *)
KeysOf_First(p) == {i \in Ids : /\ keys[i].ldap_dn = p
                                /\ keys[i].active
                                /\ \A j \in Ids : i <= j}

(* The active keys of a person. *)
KeysOf(p) == {i \in Ids : keys[i].ldap_dn = p /\ keys[i].active}

-------------------------------------------------------------------------------
Init == /\ keys = [i \in DOMAIN Legacy |-> LegacyRow(Legacy[i])]
        /\ selected = {} /\ script = "ready"
        /\ pc = [c \in Calls |-> "idle"]
        /\ dn = [c \in Calls |-> NoDN]
        /\ secret = [c \in Calls |-> NoSecret]
        /\ found = [c \in Calls |-> 0]
        /\ handed = {[secret |-> Legacy[i], id |-> i] : i \in DOMAIN Legacy}
        /\ overlapped = {}

(* A row is inserted under the next id, and its raw key handed out.  (Ids are
   numbered here without the gaps that failed insertions leave.) *)
InsertAndHandOut(s, person) ==
    LET i == Cardinality(Ids) + 1 IN
    /\ i <= MaxRows
    /\ keys' = [j \in Ids \cup {i} |-> IF j = i THEN NewRow(s, person) ELSE keys[j]]
    /\ handed' = handed \cup {[secret |-> s, id |-> i]}

Return(c) == /\ pc' = [pc EXCEPT ![c] = "idle"]
             /\ dn' = [dn EXCEPT ![c] = NoDN]
             /\ secret' = [secret EXCEPT ![c] = NoSecret]
             /\ found' = [found EXCEPT ![c] = 0]

(* POST /admin/keys *)
CreateKey == \E s \in Fresh :
    /\ InsertAndHandOut(s, NoDN)
    /\ UNCHANGED <<selected, script, calls, overlapped>>

(* DELETE /admin/keys/{id}: only the column active is written. *)
DeactivateKey(i) ==
    /\ keys[i].active
    /\ keys' = [keys EXCEPT ![i].active = FALSE]
    /\ UNCHANGED <<selected, script, calls, handed, overlapped>>

(* POST /auth/ldap, the directory having vouched for person p: an active key
   is returned as it stands.  Nothing is awaited after the lookup. *)
LoginAgain(p) == \E i \in KeysOf(p) :
    /\ keys[i].key # NoSecret
    /\ handed' = handed \cup {[secret |-> keys[i].key, id |-> i]}
    /\ UNCHANGED <<keys, selected, script, calls, overlapped>>

(* ... or the lookup finds none, and one is made. *)
LoginFirst(c, p) ==
    /\ pc[c] = "idle"
    /\ KeysOf(p) = {}
    /\ pc' = [pc EXCEPT ![c] = "provision"]
    /\ dn' = [dn EXCEPT ![c] = p]
    /\ overlapped' = IF \E d \in Calls : dn[d] = p THEN overlapped \cup {p} ELSE overlapped
    /\ UNCHANGED <<keys, selected, script, secret, found, handed>>

Provision(c) == \E s \in Fresh :
    /\ pc[c] = "provision"
    /\ InsertAndHandOut(s, dn[c])
    /\ Return(c)
    /\ UNCHANGED <<selected, script, overlapped>>

(* The insertion fails, or the process dies. *)
ProvisionFails(c) ==
    /\ pc[c] = "provision"
    /\ Return(c)
    /\ UNCHANGED <<keys, selected, script, handed, overlapped>>

(* authenticate finds an active row for the raw key; any other is refused
   without a change. *)
Find(c, s) ==
    /\ pc[c] = "idle"
    /\ \E i \in Matching(s) : /\ keys[i].active
                              /\ found' = [found EXCEPT ![c] = i]
    /\ pc' = [pc EXCEPT ![c] = "touch"]
    /\ secret' = [secret EXCEPT ![c] = s]
    /\ UNCHANGED <<keys, selected, script, dn, handed, overlapped>>

(* Faulty variant: the row is written back as it was read. *)
Touch_WholeRow(c) ==
    /\ pc[c] = "touch"
    /\ keys' = [keys EXCEPT ![found[c]].used = TRUE, ![found[c]].active = TRUE]
    /\ Return(c)
    /\ UNCHANGED <<selected, script, handed, overlapped>>

(* ... and sets its last_used_at, the only column it writes. *)
Touch(c) ==
    /\ pc[c] = "touch"
    /\ keys' = [keys EXCEPT ![found[c]].used = TRUE]
    /\ Return(c)
    /\ UNCHANGED <<selected, script, handed, overlapped>>

(* Faulty variant: every row with a plaintext key is selected. *)
ScriptSelect_All ==
    /\ script # "running"
    /\ selected' = {i \in Ids : keys[i].key # NoSecret}
    /\ script' = "running"
    /\ UNCHANGED <<keys, calls, handed, overlapped>>

(* migrate_key_hashes selects the rows without a hash ... *)
ScriptSelect ==
    /\ script # "running"
    /\ selected' = {i \in Ids : keys[i].key # NoSecret /\ keys[i].key_hash = NoSecret}
    /\ script' = "running"
    /\ UNCHANGED <<keys, calls, handed, overlapped>>

(* Faulty variant: the plaintext goes before it was hashed. *)
ScriptCommit_LosesKey ==
    /\ script = "running"
    /\ keys' = [i \in Ids |-> IF i \in selected THEN [keys[i] EXCEPT !.key = NoSecret]
                                                ELSE keys[i]]
    /\ selected' = {} /\ script' = "done"
    /\ UNCHANGED <<calls, handed, overlapped>>

(* ... and commits their hashes, without their plaintext. *)
ScriptCommit ==
    /\ script = "running"
    /\ keys' = [i \in Ids |->
                   IF i \in selected
                     THEN [keys[i] EXCEPT !.key_hash = keys[i].key, !.key = NoSecret]
                     ELSE keys[i]]
    /\ selected' = {} /\ script' = "done"
    /\ UNCHANGED <<calls, handed, overlapped>>

(* The script dies, to be run again. *)
ScriptFails ==
    /\ script = "running"
    /\ selected' = {} /\ script' = "ready"
    /\ UNCHANGED <<keys, calls, handed, overlapped>>

Next == \/ CreateKey
        \/ \E i \in Ids : DeactivateKey(i)
        \/ \E p \in People : LoginAgain(p)
        \/ \E c \in Calls : \/ \E p \in People : LoginFirst(c, p)
                            \/ Provision(c) \/ ProvisionFails(c)
                            \/ \E s \in Secrets : Find(c, s)
                            \/ Touch(c)
        \/ ScriptSelect \/ ScriptCommit \/ ScriptFails

Spec == Init /\ [][Next]_vars

-------------------------------------------------------------------------------
(* Properties. *)

Row == [key : Secrets \cup {NoSecret}, key_hash : Secrets \cup {NoSecret},
        active : BOOLEAN, ldap_dn : People \cup {NoDN}, used : BOOLEAN]

(* Type invariant: what the script is about to update is still unhashed, and a
   call in flight knows its person or its row. *)
TypeOK ==
    /\ \E n \in 0..MaxRows : keys \in [1..n -> Row]
    /\ script \in {"ready", "running", "done"}
    /\ selected \subseteq {i \in Ids : keys[i].key # NoSecret /\ keys[i].key_hash = NoSecret}
    /\ pc \in [Calls -> {"idle", "provision", "touch"}]
    /\ dn \in [Calls -> People \cup {NoDN}]
    /\ secret \in [Calls -> Secrets \cup {NoSecret}]
    /\ found \in [Calls -> Ids \cup {0}]
    /\ \A c \in Calls : /\ dn[c] # NoDN <=> pc[c] = "provision"
                        /\ found[c] # 0 <=> pc[c] = "touch"
    /\ handed \subseteq [secret : Secrets, id : Ids]
    /\ overlapped \subseteq People

(* Whatever happened to the table since, the migration of its row included, a
   raw key that was handed out is found, and names the row it was made for. *)
HandedOutIsFound == \A h \in handed : Matching(h.secret) = {h.id}

(* Authentication, migration and deactivation write the same rows at the same
   time; a deactivated key is never active again. *)
StaysDeactivated ==
    [][\A i \in Ids : ~keys[i].active => i \in Ids' /\ ~keys'[i].active]_vars

(* A login always finds the plaintext of the person's key, which is why it
   can return it: the script never takes it from a provisioned row.  (The
   branch of ldap_authenticate_and_provision that replaces a key of which
   only the hash is left is never taken.) *)
ProvisionedKeepsPlaintext ==
    \A i \in Ids : keys[i].ldap_dn # NoDN => keys[i].key # NoSecret

ActiveKeys(p) == {i \in Ids : keys[i].active /\ keys[i].ldap_dn = p}

(* A person whose logins never overlapped has at most one active key. *)
OneKeyEach ==
    \A p \in People \ overlapped : Cardinality(ActiveKeys(p)) <= 1

-------------------------------------------------------------------------------
(* What the documentation says and the code does not do. *)

(* "On first login, auto-provisions a new API key.  On subsequent logins,
   returns the existing key" (main.py:892). *)
OneKeyEver == \A p \in People : Cardinality(ActiveKeys(p)) <= 1

(* "After running, plaintext keys are gone" (migrate_key_hashes.py:16), said
   of the rows the script found in the table. *)
PlaintextGone ==
    [][ScriptCommit => \A i \in Ids : keys'[i].key = NoSecret]_vars

===============================================================================
