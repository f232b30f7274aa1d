---------------------------- MODULE MCAppStores ----------------------------
\* The four stores kept for apps, side by side: they share no file and no
\* variable, so the first step settles which of them a behaviour is about, and
\* the interleavings left out would tell nothing.
\*
\* Scheduler: two entries for two apps of up to two tasks: a full table and a
\* dropped task; the clock goes through two minutes and one interval, so that
\* every task can be due twice; one save fails at a time.  Consent: two tier 1
\* capabilities, so that persisting one rewrites the other; two origins and room
\* for one.  Key-value store: three keys, two of which fit the buffer of a read:
\* a call changes one and has to keep the other, and a store can outgrow the
\* buffer.  Mailboxes: three messages, so that two wait for one app, from one
\* sender or from two, sent in one tick or in two.
EXTENDS BgScheduler, Consent, AppStorage, IpcMailbox, TLC

VARIABLE store   \* the store this behaviour is about

vars == <<bgVars, consentVars, kvVars, ipcVars, store>>

Init ==
  /\ BgInit /\ ConsentInit /\ KvInit /\ IpcInit
  /\ store \in {"schedule", "consent", "kv", "ipc"}

\* No save fails until another is made, or the runs forgotten are made again.
OneFailureAtATime == (SaveFails \/ SavePut) /\ stale' => ~stale /\ forgotten = {}

Next ==
  \/ /\ store = "schedule" /\ BgNext /\ OneFailureAtATime
     /\ UNCHANGED <<consentVars, kvVars, ipcVars, store>>
  \/ store = "consent" /\ ConsentNext /\ UNCHANGED <<bgVars, kvVars, ipcVars, store>>
  \/ store = "kv" /\ KvNext /\ UNCHANGED <<bgVars, consentVars, ipcVars, store>>
  \/ store = "ipc" /\ IpcNext /\ UNCHANGED <<bgVars, consentVars, kvVars, store>>

Spec == Init /\ [][Next]_vars

TypeOK == BgTypeOK /\ ConsentTypeOK /\ KvTypeOK /\ IpcTypeOK

\* No action and no property tells two apps, two names or two origins apart.
Symmetry ==
  Permutations(Apps) \union Permutations(Names) \union Permutations(Origins)
=============================================================================
