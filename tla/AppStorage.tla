---------------------------- MODULE AppStorage ----------------------------
(***************************************************************************)
(* The key-value store of an app: a JSON file /sd/apps/<app_id>/.kv.json    *)
(* staged through .kv.json.tmp.  One app runs at a time and calls one       *)
(* operation at a time; every call on the file system is a step.            *)
(* The store is a set of pairs: {} is a file that is missing, empty or cut  *)
(* short, which no reader tells apart.                                      *)
(***************************************************************************)
EXTENDS AppIds, FiniteSets, Naturals

CONSTANTS Keys, Values,
          ReadMax    \* pairs that fit the 2048 byte buffer of a read

ASSUME StorageAssumption == ReadMax \in Nat

VARIABLES kv,        \* .kv.json
          tmp,       \* .kv.json.tmp
          pc,        \* what the app's call is doing
          arg,       \* what it is writing
          kvTold,    \* the store as the calls that were carried out make it
          kvAsked    \* and as the call under way makes it

told == <<kvTold, kvAsked>>
kvVars == <<kv, tmp, pc, arg, told>>

Stores == {m \in SUBSET (Keys \X Values) : \A p, q \in m : p[1] = q[1] => p = q}

KvInit ==
  /\ kv = {} /\ tmp = {}
  /\ pc = "idle" /\ arg = {}
  /\ kvTold = {} /\ kvAsked = {}

\* What fread and cJSON_Parse make of the file: an object cut off by the end
\* of the buffer does not parse.
Parsed(m) == IF Cardinality(m) <= ReadMax THEN m ELSE {}

\* jpp_sdk_kv_get: the value of a key, if it has one.
KvGet(k) == {p[2] : p \in {q \in Parsed(kv) : q[1] = k}}

Without(m, k) == {p \in m : p[1] # k}

OnlyThis(m, k, v) == {<<k, v>>}

\* cJSON_DeleteItemFromObject, then cJSON_AddStringToObject.
With(m, k, v) == Without(m, k) \union {<<k, v>>}

----------------------------------------------------------------------------
\* sd_kv_write_cb, and sd_kv_delete_cb where there is something to rewrite.

KvSet(k, v) ==
  /\ pc = "idle"
  /\ pc' = "kv_open"
  /\ arg' = With(Parsed(kv), k, v)
  /\ kvAsked' = {p \in Parsed(kvTold) : p[1] # k} \union {<<k, v>>}
  /\ UNCHANGED <<kv, tmp, kvTold>>

\* A store that is missing or does not parse is left alone, and the call succeeds:
\* no step.
KvDelete(k) ==
  /\ pc = "idle"
  /\ Parsed(kv) # {}
  /\ pc' = "kv_open"
  /\ arg' = Without(Parsed(kv), k)
  /\ kvAsked' = {p \in kvTold : p[1] # k}
  /\ UNCHANGED <<kv, tmp, kvTold>>

KvOpenKept ==
  /\ pc = "kv_open"
  /\ pc' = "kv_put"
  /\ UNCHANGED <<kv, tmp, arg, told>>

KvOpen ==
  /\ pc = "kv_open"
  /\ tmp' = {} /\ pc' = "kv_put"
  /\ UNCHANGED <<kv, arg, told>>

\* Nothing is written, and the call succeeds all the same.
KvOpenFails ==
  /\ MayFail /\ pc = "kv_open"
  /\ pc' = "idle"
  /\ UNCHANGED <<kv, tmp, arg, told>>

\* The result of fputs is not looked at.
KvPut ==
  /\ pc = "kv_put"
  /\ tmp' = arg \/ (MayFail /\ UNCHANGED tmp)
  /\ pc' = "kv_remove"
  /\ UNCHANGED <<kv, arg, told>>

KvRemove ==
  /\ pc = "kv_remove"
  /\ kv' = {} /\ pc' = "kv_rename"
  /\ UNCHANGED <<tmp, arg, told>>

KvRename ==
  /\ pc = "kv_rename"
  /\ kv' = tmp /\ tmp' = {} /\ pc' = "idle"
  /\ kvTold' = IF tmp = arg THEN kvAsked ELSE {}
  /\ UNCHANGED <<arg, kvAsked>>

\* The power fails, a headless run is killed by a restart, or the task of an
\* app whose card was ejected is deleted: the call goes no further.
Interrupted ==
  /\ MayFail /\ pc # "idle"
  /\ pc' = "idle"
  /\ kvTold' = IF pc = "kv_rename" THEN {} ELSE kvTold
  /\ UNCHANGED <<kv, tmp, arg, kvAsked>>

KvNext ==
  \/ \E k \in Keys, v \in Values : KvSet(k, v)
  \/ \E k \in Keys : KvDelete(k)
  \/ KvOpen \/ KvOpenFails \/ KvPut \/ KvRemove \/ KvRename
  \/ Interrupted

KvSpec == KvInit /\ [][KvNext]_kvVars

----------------------------------------------------------------------------
KvTypeOK ==
  /\ kv \in Stores /\ tmp \in Stores /\ kvTold \in Stores /\ kvAsked \in Stores
  /\ pc \in {"idle", "kv_open", "kv_put", "kv_remove", "kv_rename"}
  /\ arg \in Stores

\* docs/sdk/storage.md: the store "Survives app restarts".  Between calls
\* kv_get gives for every key what the calls made of it: the rewrite of
\* sd_kv_write_cb keeps every other key.  A call whose fopen fails changes
\* nothing; one that writes too little, or is interrupted after it removed the
\* file, empties the store; and a store that outgrew the buffer of a read reads
\* as empty, and the next set starts it afresh.  Nothing else is ever lost.
KvIsWhatWasSet ==
  pc = "idle" => \A k \in Keys : KvGet(k) = {v \in Values : <<k, v>> \in Parsed(kvTold)}

\* Whatever fails, what gets into .kv.json is what the call under way put
\* together from it: a staging file left behind by an interrupted call never
\* comes back, neither as a whole nor after a short write of a later call.
NoOldStagingReturns == [][kv' \in {kv, {}, arg}]_kvVars
=============================================================================
