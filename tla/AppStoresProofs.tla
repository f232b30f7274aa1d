--------------------------- MODULE AppStoresProofs ---------------------------
(***************************************************************************)
(* Proofs about the stores kept for apps: that no app uses a capability    *)
(* its user did not allow and none whose grant was written is asked for    *)
(* again, that the key-value store is what its calls made of it, that a    *)
(* message arrives once, and that the schedule's file is the schedule, for *)
(* all sets of apps, capabilities, keys and values, with failing calls and *)
(* power losses.                                                           *)
(***************************************************************************)
EXTENDS MCAppStores, TLAPS, FiniteSetTheorems, WellFoundedInduction

-----------------------------------------------------------------------------
(* Capability consent (jpp_sdk_ensure_cap, jpp_capability.c).               *)
(*                                                                         *)
(* A grant passes through the prompt, the list that rewrites the file, the *)
(* file and the session of a later launch.  The invariant follows it along *)
(* the way: each holds only what the one before it held (Granted), and     *)
(* what was saved is still in the file, or in the list while the file is   *)
(* empty (Kept).                                                           *)

Lists == [cap : Tier1, list : SUBSET Tier1]

Sessions == [app : Apps \union {None}, headless : BOOLEAN, caller : SUBSET Caps, pending : SUBSET Caps]

Fields ==
  /\ grants \in [Apps -> SUBSET Tier1] /\ allowed \in [Apps -> SUBSET Tier1]
  /\ saved \in [Apps -> SUBSET Tier1]
  /\ stage \in {"idle", "running", "prompt", "persist", "persisting", "origin"}
  /\ session \in Sessions
  /\ stage # "idle" => session.app \in Apps
  /\ stage = "prompt" => asked \in Caps
  /\ stage = "persist" => asked \in Tier1
  /\ stage = "persisting" => asked \in Lists
  /\ session.headless => stage = "running"

Granted ==
  /\ \A a \in Apps : grants[a] \subseteq allowed[a]
  /\ stage = "persist" => asked \in allowed[session.app]
  /\ stage = "persisting" => asked.list \subseteq allowed[session.app] /\ asked.cap \in asked.list
  /\ OnlyAllowedCaps

Kept ==
  /\ \A a \in Apps : saved[a] \subseteq grants[a] \/ (stage = "persisting" /\ a = session.app)
  /\ stage = "persisting" => saved[session.app] \subseteq asked.list
  /\ stage # "idle" => \A c \in session.pending \intersect saved[session.app] : c \in session.caller

ConsentInv == Fields /\ Granted /\ Kept

-----------------------------------------------------------------------------
\* Whatever joins a session, the rest of it stays.
LEMMA JoinsSession ==
  ASSUME session \in Sessions, NEW c \in Caps, session' = [session EXCEPT !.caller = @ \union {c}]
  PROVE  /\ session' \in Sessions /\ session'.caller = session.caller \union {c}
         /\ session'.app = session.app /\ session'.headless = session.headless
         /\ session'.pending = session.pending
  BY DEF Sessions

\* A session starts with what the files of its app hold.
LEMMA LaunchKeepsInv ==
  ASSUME ConsentInv, NEW a \in Apps, NEW declared \in SUBSET Caps, NEW headless \in BOOLEAN,
         Launch(a, declared, headless)
  PROVE  ConsentInv'
<1> DEFINE old == declared \intersect Tier1 \intersect grants[a]
<1>1. /\ stage = "idle" /\ stage' = "running" /\ here' = {}
      /\ UNCHANGED <<grants, asked, allowed, saved>>
      /\ session' = [app |-> a, headless |-> headless, caller |-> old, pending |-> declared \ old]
  BY DEF Launch, GrantedAtLaunch, grantFiles
<1>2. /\ session'.app = a /\ session'.headless = headless
      /\ session'.caller = old /\ session'.pending = declared \ old
  BY <1>1
<1>3. Fields'
  <2>1. session' \in Sessions
    BY <1>1 DEF Sessions, ConsentInv, Fields
  <2> QED BY <1>1, <1>2, <2>1 DEF ConsentInv, Fields
<1>4. Granted'
  BY <1>1, <1>2, ConsentAssumption DEF ConsentInv, Granted, OnlyAllowedCaps, Fields
<1>5. Kept'
  BY <1>1, <1>2 DEF ConsentInv, Kept, Fields
<1> QED BY <1>3, <1>4, <1>5 DEF ConsentInv

\* The end of a session takes nothing along; it does not come while a file is
\* written.
LEMMA EndKeepsInv ==
  ASSUME ConsentInv, End
  PROVE  ConsentInv'
<1>1. /\ stage \in {"running", "prompt", "origin"} /\ stage' = "idle" /\ session' = NoSession
      /\ UNCHANGED <<grants, allowed, saved, here>>
  BY DEF End, grantFiles, history
<1>2. session'.caller = {} /\ session'.headless = FALSE /\ session' \in Sessions
  BY <1>1 DEF NoSession, Sessions
<1> QED BY <1>1, <1>2 DEF ConsentInv, Fields, Granted, Kept, OnlyAllowedCaps

\* A prompt, and what is not allowed, changes nothing that is kept.
LEMMA PromptKeepsInv ==
  ASSUME ConsentInv,
         (\E c \in Caps : EnsureCap(c)) \/ (\E o \in Origins : HttpsRequest(o)) \/ Deny \/ AllowOrigin
  PROVE  ConsentInv'
<1>1. /\ stage \in {"running", "prompt", "origin"} /\ stage' \in {"running", "prompt", "origin"}
      /\ stage' = "prompt" => asked' \in Caps
      /\ session.headless => stage' = "running"
      /\ UNCHANGED <<grants, session, allowed, saved, here>>
  BY DEF EnsureCap, HttpsRequest, Deny, AllowOrigin, MayPrompt, grantFiles, history,
         ConsentInv, Fields
<1> QED BY <1>1 DEF ConsentInv, Fields, Granted, Kept, OnlyAllowedCaps

\* What the user allows is remembered before it is written or used.
LEMMA AllowKeepsInv ==
  ASSUME ConsentInv, AllowCap
  PROVE  ConsentInv'
<1> DEFINE who == session.app
<1>1. /\ stage = "prompt" /\ who \in Apps /\ asked \in Caps /\ ~session.headless
      /\ here' = here \union {asked}
      /\ UNCHANGED <<grants, saved>>
  BY DEF AllowCap, grantFiles, ConsentInv, Fields
<1>2. CASE asked \in Tier1
  <2>1. /\ allowed' = [allowed EXCEPT ![who] = @ \union {asked}] /\ stage' = "persist"
        /\ UNCHANGED <<session, asked>>
    BY <1>2 DEF AllowCap
  <2>2. /\ allowed' \in [Apps -> SUBSET Tier1] /\ asked \in allowed'[who]
        /\ \A a \in Apps : allowed[a] \subseteq allowed'[a]
    BY <1>1, <1>2, <2>1 DEF ConsentInv, Fields
  <2>3. Fields'
    BY <1>1, <1>2, <2>1, <2>2 DEF ConsentInv, Fields
  <2>4. Granted'
    BY <1>1, <2>1, <2>2 DEF ConsentInv, Granted, OnlyAllowedCaps
  <2>5. Kept'
    BY <1>1, <2>1 DEF ConsentInv, Kept
  <2> QED BY <2>3, <2>4, <2>5 DEF ConsentInv
<1>3. CASE asked \notin Tier1
  <2>1. /\ session' = [session EXCEPT !.caller = @ \union {asked}]
        /\ stage' = "running" /\ UNCHANGED allowed
    BY <1>3 DEF AllowCap
  <2>2. /\ session' \in Sessions /\ session'.caller = session.caller \union {asked}
        /\ session'.app = who /\ session'.headless = session.headless
        /\ session'.pending = session.pending
    BY <1>1, <2>1, JoinsSession DEF ConsentInv, Fields
  <2>3. asked \in Tier2
    BY <1>1, <1>3 DEF Caps
  <2>4. Fields'
    BY <1>1, <2>1, <2>2 DEF ConsentInv, Fields
  <2>5. Granted'
    BY <1>1, <1>3, <2>1, <2>2, <2>3 DEF ConsentInv, Granted, OnlyAllowedCaps
  <2>6. Kept'
    BY <1>1, <2>1, <2>2 DEF ConsentInv, Kept
  <2> QED BY <2>4, <2>5, <2>6 DEF ConsentInv
<1> QED BY <1>2, <1>3

-----------------------------------------------------------------------------
\* The file is emptied; its list, with the new capability, is in hand.
LEMMA OpenKeepsInv ==
  ASSUME ConsentInv, PersistOpen
  PROVE  ConsentInv'
<1> DEFINE who == session.app
<1>1. /\ stage = "persist" /\ stage' = "persisting" /\ who \in Apps /\ asked \in Tier1
      /\ asked' = [cap |-> asked, list |-> grants[who] \union {asked}]
      /\ grants' = [grants EXCEPT ![who] = {}]
      /\ ~session.headless
      /\ UNCHANGED <<session, allowed, saved, here>>
  BY DEF PersistOpen, Rebuilt, history, ConsentInv, Fields
<1>2. grants[who] \subseteq Tier1 /\ grants[who] \subseteq allowed[who] /\ asked \in allowed[who]
  BY <1>1 DEF ConsentInv, Fields, Granted
<1>3. /\ asked' \in Lists /\ asked'.cap = asked /\ asked'.list = grants[who] \union {asked}
  BY <1>1, <1>2 DEF Lists
<1>4. /\ grants' \in [Apps -> SUBSET Tier1] /\ grants'[who] = {}
      /\ \A a \in Apps : a # who => grants'[a] = grants[a]
  BY <1>1 DEF ConsentInv, Fields
<1>5. Fields'
  BY <1>1, <1>3, <1>4 DEF ConsentInv, Fields
<1>6. Granted'
  BY <1>1, <1>2, <1>3, <1>4 DEF ConsentInv, Granted, OnlyAllowedCaps
<1>7. saved[who] \subseteq grants[who]
  BY <1>1 DEF ConsentInv, Kept
<1>8. Kept'
  BY <1>1, <1>3, <1>4, <1>7 DEF ConsentInv, Kept
<1> QED BY <1>5, <1>6, <1>8 DEF ConsentInv

\* The list reaches the file, and the capability the session.
LEMMA PutKeepsInv ==
  ASSUME ConsentInv, PersistPut
  PROVE  ConsentInv'
<1> DEFINE who == session.app
           cap == asked.cap
<1>1. /\ stage = "persisting" /\ stage' = "running" /\ who \in Apps /\ asked \in Lists
      /\ grants' = [grants EXCEPT ![who] = asked.list]
      /\ saved' = [saved EXCEPT ![who] = @ \union {cap}]
      /\ session' = [session EXCEPT !.caller = @ \union {cap}]
      /\ ~session.headless
      /\ UNCHANGED <<allowed, here>>
  BY DEF PersistPut, ConsentInv, Fields
<1>2. /\ cap \in Tier1 /\ cap \in asked.list /\ asked.list \subseteq Tier1
      /\ asked.list \subseteq allowed[who] /\ saved[who] \subseteq asked.list
  BY <1>1 DEF Lists, ConsentInv, Granted, Kept
<1>3. cap \in Caps /\ cap \notin Tier2
  BY <1>2, ConsentAssumption DEF Caps
<1>4. /\ session' \in Sessions /\ session'.caller = session.caller \union {cap}
      /\ session'.app = who /\ session'.headless = session.headless
      /\ session'.pending = session.pending
  BY <1>1, <1>3, JoinsSession DEF ConsentInv, Fields
<1>5. /\ grants' \in [Apps -> SUBSET Tier1] /\ grants'[who] = asked.list
      /\ saved' \in [Apps -> SUBSET Tier1] /\ saved'[who] = saved[who] \union {cap}
      /\ \A a \in Apps : a # who => grants'[a] = grants[a] /\ saved'[a] = saved[a]
  BY <1>1, <1>2 DEF ConsentInv, Fields
<1>6. Fields'
  BY <1>1, <1>4, <1>5 DEF ConsentInv, Fields
<1>7. Granted'
  BY <1>1, <1>2, <1>3, <1>4, <1>5 DEF ConsentInv, Granted, OnlyAllowedCaps
<1>8. Kept'
  BY <1>1, <1>2, <1>4, <1>5 DEF ConsentInv, Kept
<1> QED BY <1>6, <1>7, <1>8 DEF ConsentInv

\* A file that does not open keeps what it held.
LEMMA FailKeepsInv ==
  ASSUME ConsentInv, PersistFails
  PROVE  ConsentInv'
<1>1. /\ stage = "persist" /\ stage' = "running" /\ asked \in Tier1 /\ ~session.headless
      /\ asked \in allowed[session.app]
      /\ session' = [session EXCEPT !.caller = @ \union {asked}]
      /\ UNCHANGED <<grants, allowed, saved, here>>
  BY DEF PersistFails, grantFiles, history, ConsentInv, Fields, Granted
<1>2. asked \in Caps /\ asked \notin Tier2
  BY <1>1, ConsentAssumption DEF Caps
<1>3. /\ session' \in Sessions /\ session'.caller = session.caller \union {asked}
      /\ session'.app = session.app /\ session'.headless = session.headless
      /\ session'.pending = session.pending
  BY <1>1, <1>2, JoinsSession DEF ConsentInv, Fields
<1>4. Fields'
  BY <1>1, <1>3 DEF ConsentInv, Fields
<1>5. Granted'
  BY <1>1, <1>2, <1>3 DEF ConsentInv, Granted, OnlyAllowedCaps
<1>6. Kept'
  BY <1>1, <1>3 DEF ConsentInv, Kept
<1> QED BY <1>4, <1>5, <1>6 DEF ConsentInv

\* Power that fails while the file is empty takes what was in it.
LEMMA PowerLossKeepsInv ==
  ASSUME ConsentInv, PowerLoss
  PROVE  ConsentInv'
<1>1. /\ stage # "idle" /\ stage' = "idle" /\ session' = NoSession
      /\ saved' = (IF stage = "persisting" THEN [saved EXCEPT ![session.app] = {}] ELSE saved)
      /\ UNCHANGED <<grants, allowed, here>>
  BY DEF PowerLoss, grantFiles
<1>2. session'.caller = {} /\ session'.headless = FALSE /\ session' \in Sessions
  BY <1>1 DEF NoSession, Sessions
<1>3. /\ saved' \in [Apps -> SUBSET Tier1]
      /\ \A a \in Apps : saved'[a] \subseteq grants[a]
  BY <1>1 DEF ConsentInv, Fields, Kept
<1>4. Fields' /\ Granted'
  BY <1>1, <1>2, <1>3 DEF ConsentInv, Fields, Granted, OnlyAllowedCaps
<1>5. Kept'
  BY <1>1, <1>3 DEF Kept
<1> QED BY <1>4, <1>5 DEF ConsentInv

-----------------------------------------------------------------------------
\* The device comes without grants.
LEMMA ConsentInitHasInv == ConsentInit => ConsentInv
<1> SUFFICES ASSUME ConsentInit PROVE ConsentInv
  OBVIOUS
<1>1. session \in Sessions /\ session.headless = FALSE
  BY DEF ConsentInit, NoSession, Sessions
<1>2. Fields /\ Granted /\ Kept
  BY <1>1 DEF ConsentInit, Fields, Granted, Kept, OnlyAllowedCaps
<1> QED BY <1>2 DEF ConsentInv

\* One lemma for each kind of step.
LEMMA ConsentStepKeepsInv == ConsentInv /\ [ConsentNext]_consentVars => ConsentInv'
<1> SUFFICES ASSUME ConsentInv, [ConsentNext]_consentVars PROVE ConsentInv'
  OBVIOUS
<1>1. CASE UNCHANGED consentVars
  BY <1>1 DEF consentVars, grantFiles, history, ConsentInv, Fields, Granted, Kept, OnlyAllowedCaps
<1>2. ASSUME NEW a \in Apps, NEW declared \in SUBSET Caps, NEW headless \in BOOLEAN,
             Launch(a, declared, headless)
      PROVE  ConsentInv'
  BY <1>2, LaunchKeepsInv
<1> QED BY <1>1, <1>2, EndKeepsInv, PromptKeepsInv, AllowKeepsInv, OpenKeepsInv, PutKeepsInv,
           FailKeepsInv, PowerLossKeepsInv DEF ConsentNext

\* jpp_sdk_ensure_cap and apply_consent: whatever an app can use, its user
\* allowed it, in an earlier session only what is prompted once.
THEOREM NothingUsedUnasked == ConsentSpec => []OnlyAllowedCaps
<1>1. ConsentInv => OnlyAllowedCaps
  BY DEF ConsentInv, Granted
<1> QED BY ConsentInitHasInv, ConsentStepKeepsInv, <1>1, PTL DEF ConsentSpec

\* A headless run gains and writes nothing, and jpp_sdk_ensure_cap prompts for no
\* capability whose grant was written, whichever were written after it.
THEOREM GrantsLast == ConsentSpec => GrantsAreTheUsers
<1>1. ConsentInv /\ [ConsentNext]_consentVars => [HeadlessGainsNothing /\ NotAskedAgain]_consentVars
  <2> SUFFICES ASSUME ConsentInv, ConsentNext PROVE HeadlessGainsNothing /\ NotAskedAgain
    OBVIOUS
  <2>1. ASSUME session.headless, session'.app = session.app
        PROVE  session'.caller = session.caller /\ UNCHANGED grantFiles
    <3>1. stage = "running" /\ session.app \in Apps
      BY <2>1 DEF ConsentInv, Fields
    <3>2. session' # NoSession
      BY <2>1, <3>1, ConsentAssumption DEF NoSession
    <3>3. ~MayPrompt
      BY <2>1 DEF MayPrompt
    <3> QED BY <3>1, <3>2, <3>3 DEF ConsentNext, Launch, EnsureCap, HttpsRequest, End, Deny, AllowCap,
                PersistOpen, PersistPut, PersistFails, AllowOrigin, PowerLoss
  <2>2. ASSUME NEW c \in Tier1, EnsureCap(c) PROVE c \notin saved[session.app]
    BY <2>2 DEF EnsureCap, ConsentInv, Kept
  <2> QED BY <2>1, <2>2 DEF HeadlessGainsNothing, NotAskedAgain
<1> QED BY ConsentInitHasInv, ConsentStepKeepsInv, <1>1, PTL DEF ConsentSpec, GrantsAreTheUsers

-----------------------------------------------------------------------------
(* The key-value store (sd_kv_write_cb, sd_kv_delete_cb).                   *)
(*                                                                         *)
(* The file is the store its calls made, but for the gap between remove    *)
(* and rename; what is being written is what the call asked for.            *)

KvInv ==
  /\ pc # "kv_rename" => kv = kvTold
  /\ pc = "kv_rename" => kv = {}
  /\ pc # "idle" => arg = kvAsked

StagingInv ==
  /\ pc = "kv_put" => tmp = {}
  /\ pc \in {"kv_remove", "kv_rename"} => tmp \in {arg, {}}

LEMMA StoreChanges ==
  ASSUME NEW m \in Stores, NEW k \in Keys, NEW v \in Values
  PROVE  /\ Parsed(m) \in Stores /\ {} \in Stores
         /\ Without(m, k) \in Stores /\ With(m, k, v) \in Stores
  BY DEF Stores, Parsed, Without, With

LEMMA KvTypeStep == KvTypeOK /\ [KvNext]_kvVars => KvTypeOK'
<1> SUFFICES ASSUME KvTypeOK, [KvNext]_kvVars PROVE KvTypeOK'
  OBVIOUS
<1>1. ASSUME NEW k \in Keys, NEW v \in Values, KvSet(k, v) PROVE KvTypeOK'
  <2>1. kvAsked' = With(Parsed(kvTold), k, v)
    BY <1>1 DEF KvSet, With, Without
  <2> QED BY <1>1, <2>1, StoreChanges DEF KvSet, KvTypeOK
<1>2. ASSUME NEW k \in Keys, KvDelete(k) PROVE KvTypeOK'
  <2>1. kvAsked' = Without(kvTold, k)
    BY <1>2 DEF KvDelete, Without
  <2>2. \A m \in Stores : Without(m, k) \in Stores
    BY DEF Stores, Without
  <2>3. Without(Parsed(kv), k) \in Stores /\ kvAsked' \in Stores
    BY <2>1, <2>2 DEF Stores, Parsed, KvTypeOK
  <2> QED BY <1>2, <2>3 DEF KvDelete, KvTypeOK
<1>3. {} \in Stores /\ Parsed(kv) \in Stores
  BY DEF Stores, Parsed, KvTypeOK
<1>4. CASE KvOpen \/ KvOpenFails \/ KvPut \/ KvRemove \/ KvRename \/ Interrupted
  BY <1>3, <1>4 DEF KvOpen, KvOpenFails, KvPut, KvRemove, KvRename, Interrupted, KvTypeOK, told
<1>5. CASE UNCHANGED kvVars
  BY <1>5 DEF kvVars, told, KvTypeOK
<1> QED BY <1>1, <1>2, <1>4, <1>5 DEF KvNext

LEMMA StagingStep == KvTypeOK /\ StagingInv /\ [KvNext]_kvVars => StagingInv' /\ kv' \in {kv, {}, arg}
<1> SUFFICES ASSUME KvTypeOK, StagingInv, [KvNext]_kvVars PROVE StagingInv' /\ kv' \in {kv, {}, arg}
  OBVIOUS
<1> QED BY DEF KvNext, KvSet, KvDelete, KvOpen, KvOpenFails, KvPut, KvRemove, KvRename, Interrupted,
              kvVars, told, StagingInv

LEMMA ToldStep == KvTypeOK /\ KvInv /\ StagingInv /\ [KvNext]_kvVars => KvInv'
<1> SUFFICES ASSUME KvTypeOK, KvInv, StagingInv, [KvNext]_kvVars PROVE KvInv'
  OBVIOUS
<1>1. ASSUME NEW k \in Keys, NEW v \in Values, KvSet(k, v) PROVE KvInv'
  BY <1>1 DEF KvSet, With, Without, KvInv
<1>2. ASSUME NEW k \in Keys, KvDelete(k) PROVE KvInv'
  <2>1. Parsed(kv) = kv
    BY <1>2 DEF KvDelete, Parsed
  <2> QED BY <1>2, <2>1 DEF KvDelete, Without, KvInv
<1>3. CASE KvOpen \/ KvOpenFails \/ KvPut \/ KvRemove \/ Interrupted
  BY <1>3 DEF KvOpen, KvOpenFails, KvPut, KvRemove, Interrupted, KvInv, told
<1>4. CASE KvRename
  BY <1>4 DEF KvRename, KvInv, StagingInv
<1>5. CASE UNCHANGED kvVars
  BY <1>5 DEF kvVars, told, KvInv
<1> QED BY <1>1, <1>2, <1>3, <1>4, <1>5 DEF KvNext

LEMMA KvInitHasInv == KvInit => KvTypeOK /\ KvInv /\ StagingInv
  BY DEF KvInit, KvTypeOK, Stores, KvInv, StagingInv

\* Whatever fails, the rewrite of sd_kv_write_cb puts into .kv.json only what it
\* made of it; a staging file left behind never comes back.
THEOREM StagingNeverReturns == KvSpec => NoOldStagingReturns
<1>1. KvTypeOK /\ StagingInv /\ [KvNext]_kvVars => [kv' \in {kv, {}, arg}]_kvVars
  BY StagingStep
<1> QED BY <1>1, KvInitHasInv, KvTypeStep, StagingStep, PTL DEF KvSpec, NoOldStagingReturns

\* Between calls jpp_sdk_kv_get gives what the calls made of the store, where a
\* call that failed to open changed nothing, one that wrote too little emptied
\* it, and a store too large for the buffer of a read is as good as empty.
THEOREM StoreIsWhatWasSet == KvSpec => []KvIsWhatWasSet
<1>1. KvTypeOK /\ KvInv => KvIsWhatWasSet
  <2> SUFFICES ASSUME KvTypeOK, KvInv, pc = "idle", NEW k \in Keys
               PROVE  KvGet(k) = {v \in Values : <<k, v>> \in Parsed(kvTold)}
    BY DEF KvIsWhatWasSet
  <2>1. kvTold = kv /\ Parsed(kv) \subseteq Keys \X Values
    BY DEF KvInv, KvTypeOK, Stores, Parsed
  <2> QED BY <2>1 DEF KvGet
<1> QED BY <1>1, KvInitHasInv, KvTypeStep, StagingStep, ToldStep, PTL DEF KvSpec

-----------------------------------------------------------------------------
(* Mailboxes (jpp_sdk_ipc_send, jpp_sdk_ipc_recv).                          *)
(*                                                                         *)
(* A text is in one file, or with a send that has not put it there yet, or *)
(* has been received; never in two of these.                               *)

BoxInv ==
  /\ \A f \in box : f.text \in 0..count
  /\ \A f \in box : f.text # Blank => [to |-> f.to, from |-> f.from, text |-> f.text] \in sent
  /\ \A f, g \in box : f.text = g.text /\ f.text # Blank => f = g
  /\ \A f \in box : f.text # Blank => [to |-> f.to, text |-> f.text] \notin got
  /\ \A r \in got : r.text \in 0..count

CallInv ==
  /\ \A f, g \in ipcCur : f = g
  /\ ipcPc = "delete" => app # NoApp /\ ipcCur \subseteq Mailbox
  /\ ipcPc = "put" =>
       \A f \in ipcCur :
         /\ f.text = count /\ count # Blank
         /\ [to |-> f.to, from |-> f.from, text |-> f.text] \in sent
         /\ \A g \in box : g.text # f.text
         /\ \A r \in got : r.text # f.text

MailInv == IpcTypeOK /\ BoxInv /\ CallInv

\* A new message empties the file it goes to; its text is newer than any other.
LEMMA SendOpenKeepsInv == ASSUME MailInv, NEW to \in Apps, SendOpen(to) PROVE MailInv'
<1> DEFINE f == [to |-> to, from |-> app, tick |-> tick, text |-> count + 1]
           blank == [f EXCEPT !.text = Blank]
<1>1. /\ app \in Apps /\ tick \in 0..TickMax /\ count \in Nat /\ count + 1 \in 0..SendMax
      /\ count + 1 # Blank /\ Blank \in 0..SendMax /\ Blank <= count + 1
  <2>1. app \in Apps /\ tick \in 0..TickMax
    BY DEF SendOpen, MailInv, IpcTypeOK
  <2>2. count \in 0..SendMax /\ count < SendMax
    BY DEF SendOpen, MailInv, IpcTypeOK
  <2> QED BY <2>1, <2>2, MailboxAssumption DEF Blank
<1>2. /\ count' = count + 1 /\ ipcCur' = {f} /\ ipcPc' = "put" /\ UNCHANGED <<app, tick, got>>
      /\ box' = OtherFiles(f) \union {blank}
      /\ sent' = sent \union {[to |-> to, from |-> app, text |-> count + 1]}
  BY DEF SendOpen, MessageFile
<1>3. /\ f \in File /\ blank \in File /\ f.text = count + 1 /\ blank.text = Blank /\ Path(f) = Path(blank)
      /\ f.to = to /\ f.from = app
  BY <1>1 DEF File, Path
<1> HIDE DEF f, blank
<1>4. box \subseteq File /\ (\A g, h \in box : Path(g) = Path(h) => g = h)
  BY DEF MailInv, IpcTypeOK
<1>5. \A g \in OtherFiles(f) : g \in box /\ Path(g) # Path(f)
  BY DEF OtherFiles
<1>6. \A g \in box' : g = blank \/ (g \in box /\ Path(g) # Path(blank))
  BY <1>2, <1>3, <1>5
<1>7. IpcTypeOK'
  <2>1. box' \subseteq File /\ ipcCur' \subseteq File
    BY <1>2, <1>3, <1>4, <1>6
  <2>2. \A g, h \in box' : Path(g) = Path(h) => g = h
    BY <1>4, <1>6
  <2> QED BY <1>1, <1>2, <2>1, <2>2 DEF MailInv, IpcTypeOK
<1>8. /\ \A g \in box : g.text \in 0..(count + 1) /\ g.text # count + 1
      /\ \A r \in got : r.text \in 0..(count + 1) /\ r.text # count + 1
  <2>1. /\ \A g \in box : g.text \in 0..count
        /\ \A r \in got : r.text \in 0..count
    BY DEF MailInv, BoxInv
  <2> QED BY <1>1, <2>1
<1>9. blank.text \in 0..(count + 1)
  BY <1>1, <1>3
<1>10. BoxInv'
  <2>1. \A g \in box' : g.text \in 0..count'
    BY <1>2, <1>6, <1>8, <1>9
  <2>2. \A g \in box' : g.text # Blank => g \in box
    BY <1>3, <1>6
  <2>3. \A r \in got' : r.text \in 0..count'
    BY <1>2, <1>8
  <2> QED BY <1>2, <2>1, <2>2, <2>3 DEF MailInv, BoxInv
<1>11. CallInv'
  BY <1>1, <1>2, <1>3, <1>6, <1>8 DEF CallInv
<1> QED BY <1>7, <1>10, <1>11 DEF MailInv

LEMMA SendPutKeepsInv == ASSUME MailInv, SendPut PROVE MailInv'
<1>1. PICK f \in ipcCur : box' = OtherFiles(f) \union {f}
  BY DEF SendPut
<1>2. ipcPc = "put" /\ ipcPc' = "idle" /\ ipcCur' = {} /\ UNCHANGED <<app, tick, count, sent, got>>
  BY DEF SendPut
<1>3. \A g \in box' : g = f \/ (g \in box /\ Path(g) # Path(f))
  BY <1>1 DEF OtherFiles
<1>4. f \in File /\ box \subseteq File
  BY DEF MailInv, IpcTypeOK
<1>5. /\ f.text = count /\ [to |-> f.to, from |-> f.from, text |-> f.text] \in sent
      /\ \A g \in box : g.text # f.text
      /\ \A r \in got : r.text # f.text
  BY <1>2 DEF MailInv, CallInv
<1>6. IpcTypeOK'
  BY <1>2, <1>3, <1>4 DEF MailInv, IpcTypeOK
<1>7. BoxInv'
  <2>1. \A g \in box' : g.text \in 0..count'
    <3>1. count \in 0..count
      BY MailboxAssumption DEF MailInv, IpcTypeOK
    <3> QED BY <1>2, <1>3, <1>5, <3>1 DEF MailInv, BoxInv
  <2> QED BY <1>2, <1>3, <1>5, <2>1 DEF MailInv, BoxInv
<1> QED BY <1>2, <1>6, <1>7 DEF MailInv, CallInv

LEMMA RecvKeepsInv == ASSUME MailInv, RecvRead \/ RecvDelete PROVE MailInv'
<1>1. CASE RecvRead
  BY <1>1 DEF RecvRead, Mailbox, MailInv, IpcTypeOK, BoxInv, CallInv
<1>2. CASE RecvDelete
  <2>1. ipcPc = "delete" /\ ipcPc' = "idle" /\ ipcCur' = {} /\ UNCHANGED <<app, tick, count, sent>>
    BY <1>2 DEF RecvDelete
  <2>2. CASE UNCHANGED <<box, got>>
    BY <2>1, <2>2 DEF MailInv, IpcTypeOK, BoxInv, CallInv
  <2>3. CASE box' = Deleted /\ got' = got \union {[to |-> f.to, text |-> f.text] : f \in ipcCur}
    <3>1. box' \subseteq box /\ \A f \in box' : f \notin ipcCur
      BY <2>3 DEF Deleted
    <3>2. \A r \in got' : r \in got \/ \E f \in ipcCur : f \in box /\ r = [to |-> f.to, text |-> f.text]
      BY <2>1, <2>3 DEF MailInv, CallInv, Mailbox
    <3>3. IpcTypeOK'
      BY <2>1, <3>1 DEF MailInv, IpcTypeOK
    <3>4. \A f \in box' : f.text # Blank => [to |-> f.to, text |-> f.text] \notin got'
      BY <3>1, <3>2 DEF MailInv, BoxInv
    <3>5. \A r \in got' : r.text \in 0..count'
      <4>1. /\ \A f \in box : f.text \in 0..count
            /\ \A r \in got : r.text \in 0..count
        BY DEF MailInv, BoxInv
      <4>2. count' = count
        BY <2>1
      <4>3. ASSUME NEW f \in ipcCur, f \in box, NEW r, r = [to |-> f.to, text |-> f.text]
            PROVE  r.text \in 0..count
        <5>1. r.text = f.text
          BY <4>3
        <5> QED BY <4>1, <4>3, <5>1
      <4> QED BY <3>2, <4>1, <4>2, <4>3
    <3>6. BoxInv'
      BY <2>1, <3>1, <3>4, <3>5 DEF MailInv, BoxInv
    <3> QED BY <2>1, <3>3, <3>6 DEF MailInv, CallInv
  <2> QED BY <1>2, <2>2, <2>3 DEF RecvDelete
<1> QED BY <1>1, <1>2

LEMMA MailStep == MailInv /\ [IpcNext]_ipcVars => MailInv'
<1> SUFFICES ASSUME MailInv, [IpcNext]_ipcVars PROVE MailInv'
  OBVIOUS
<1>1. CASE RecvNothing \/ UNCHANGED ipcVars
  BY <1>1 DEF RecvNothing, ipcVars, MailInv, IpcTypeOK, BoxInv, CallInv, Mailbox
<1>2. ASSUME NEW a \in Apps, IpcOpenApp(a) PROVE MailInv'
  BY <1>2 DEF IpcOpenApp, MailInv, IpcTypeOK, BoxInv, CallInv, Mailbox
<1>3. CASE CloseApp
  BY <1>3 DEF CloseApp, MailInv, IpcTypeOK, BoxInv, CallInv, Mailbox
<1>4. CASE IpcTick
  <2>1. tick' \in 0..TickMax
    BY <1>4, MailboxAssumption DEF IpcTick, MailInv, IpcTypeOK
  <2> QED BY <1>4, <2>1 DEF IpcTick, MailInv, IpcTypeOK, BoxInv, CallInv, Mailbox
<1>5. CASE IpcRestart
  <2>1. 0 \in 0..TickMax
    BY MailboxAssumption
  <2> QED BY <1>5, <2>1 DEF IpcRestart, MailInv, IpcTypeOK, BoxInv, CallInv
<1> QED BY <1>1, <1>2, <1>3, <1>4, <1>5, SendOpenKeepsInv, SendPutKeepsInv, RecvKeepsInv DEF IpcNext

LEMMA MailInit == IpcInit => MailInv
<1>1. 0 \in 0..TickMax /\ 0 \in 0..SendMax
  BY MailboxAssumption
<1> QED BY <1>1 DEF IpcInit, MailInv, IpcTypeOK, BoxInv, CallInv

\* What jpp_sdk_ipc_recv hands to an app was sent to it, and it gets it once, over
\* all launches, restarts and failed deletions.
THEOREM MailOnce == IpcSpec => MailArrivesOnce
<1>1. ASSUME MailInv, RecvDelete, NEW f \in ipcCur
      PROVE  f.text = Blank \/ (OnlySentIsReceived(f) /\ NotReceivedBefore(f))
  <2>1. f \in box /\ f.to = app
    BY <1>1 DEF RecvDelete, MailInv, CallInv, Mailbox
  <2> QED BY <1>1, <2>1 DEF MailInv, BoxInv, OnlySentIsReceived, NotReceivedBefore
<1>2. MailInv /\ [IpcNext]_ipcVars =>
        [RecvDelete =>
           \A f \in ipcCur :
             f.text = Blank \/ (OnlySentIsReceived(f) /\ NotReceivedBefore(f))]_ipcVars
  BY <1>1
<1> QED BY <1>2, MailInit, MailStep, PTL DEF IpcSpec, MailArrivesOnce

-----------------------------------------------------------------------------
(* The schedule and its file (save_schedule, jpp_bg_scheduler_init).        *)

LEMMA ScheduleStep == FileIsTheSchedule /\ [BgNext]_bgVars => FileIsTheSchedule'
<1> SUFFICES ASSUME FileIsTheSchedule, [BgNext]_bgVars PROVE FileIsTheSchedule'
  OBVIOUS
<1> USE DEF FileIsTheSchedule, Saving, Loaded, bgHistory
<1>1. ASSUME NEW a \in Apps, NEW ts \in Manifests, BgOpenApp(a, ts) PROVE FileIsTheSchedule'
  BY <1>1 DEF BgOpenApp
<1>2. CASE Register \/ AppEnds \/ AppTornDown
  BY <1>2 DEF Register, AppEnds, AppTornDown
<1>3. CASE SaveOpen
  BY <1>3 DEF SaveOpen
<1>4. CASE SavePut
  <2>1. CASE schedFile' = <<entries>> /\ entries' = entries
    <3>1. schedFile' # Unreadable /\ schedFile'[1] = entries'
      BY <2>1 DEF Unreadable
    <3> QED BY <3>1
  <2> QED BY <1>4, <2>1 DEF SavePut
<1>5. CASE SaveFails \/ FindDue \/ MarkRun \/ LaunchRun \/ RunEnds
  BY <1>5 DEF SaveFails, FindDue, MarkRun, StageAfterMark, LaunchRun, RunEnds
<1>6. CASE BgRestart
  BY <1>6 DEF BgRestart
<1>7. CASE BgTick \/ UNCHANGED bgVars
  BY <1>7 DEF BgTick, bgVars
<1> QED BY <1>1, <1>2, <1>3, <1>4, <1>5, <1>6, <1>7 DEF BgNext

\* Outside of save_schedule a restart loads what was in force, wherever an
\* earlier save was cut off, unless the latest save failed.
THEOREM RestartKeepsTheSchedule == BgSpec => []FileIsTheSchedule
<1>1. BgInit => FileIsTheSchedule
  BY DEF BgInit, FileIsTheSchedule, Loaded
<1> QED BY <1>1, ScheduleStep, PTL DEF BgSpec

-----------------------------------------------------------------------------
(* What a sync makes of the table (jpp_bg_scheduler_sync_app).              *)

\* The loop of jpp_bg_scheduler_sync_app that closes the gaps keeps exactly the
\* entries of other apps: each of them is in one place, and no place is free.
LEMMA KeptIsOthers ==
  ASSUME NEW S, NEW es \in Seq(S), NEW a
  PROVE  /\ WithoutApp(es, a) \in Seq(S) /\ Len(WithoutApp(es, a)) <= Len(es)
         /\ \A w \in DOMAIN WithoutApp(es, a) :
              \E i \in OfOthers(es, a) : WithoutApp(es, a)[w] = es[i] /\ Place(es, a, i) = w
         /\ \A i \in OfOthers(es, a) : \E w \in DOMAIN WithoutApp(es, a) : WithoutApp(es, a)[w] = es[i]
<1> DEFINE O == OfOthers(es, a)
           c == Cardinality(O)
           P == [i \in O |-> Place(es, a, i)]
           UpTo(i) == {j \in O : j <= i}
<1>1. Len(es) \in Nat /\ DOMAIN es = 1..Len(es)
  OBVIOUS
<1>2. O \in SUBSET (1..Len(es)) /\ O \subseteq Nat
  BY <1>1 DEF OfOthers
<1>3. IsFiniteSet(1..Len(es)) /\ Cardinality(1..Len(es)) = Len(es)
  BY <1>1, FS_Interval
<1>4. IsFiniteSet(O) /\ c \in Nat /\ c <= Len(es)
  BY <1>2, <1>3, FS_Subset, FS_CardinalityType
<1>5. \A i \in O : UpTo(i) \in SUBSET O /\ i \in UpTo(i) /\ P[i] = Cardinality(UpTo(i))
  BY <1>2 DEF Place
<1> HIDE DEF O, c, P, UpTo
<1>6. ASSUME NEW i \in O PROVE IsFiniteSet(UpTo(i)) /\ P[i] \in 1..c
  <2>1. IsFiniteSet(UpTo(i)) /\ Cardinality(UpTo(i)) <= c
    BY <1>4, <1>5, FS_Subset DEF c
  <2>2. Cardinality(UpTo(i)) \in Nat /\ Cardinality(UpTo(i)) # 0
    BY <2>1, <1>5, FS_CardinalityType, FS_EmptySet
  <2> QED BY <2>1, <2>2, <1>4, <1>5
<1>7. ASSUME NEW i \in O, NEW j \in O, i < j PROVE P[i] # P[j]
  <2>1. i \in Nat /\ j \in Nat /\ j \in UpTo(j) /\ UpTo(i) \subseteq Nat
    BY <1>2, <1>5
  <2>2. UpTo(i) \subseteq UpTo(j)
    BY <1>2, <1>7, <2>1 DEF UpTo
  <2>3. j \notin UpTo(i)
    BY <1>7, <2>1 DEF UpTo
  <2> QED BY <2>1, <2>2, <2>3, <1>5, <1>6, FS_Subset
<1>8. \A i, j \in O : P[i] = P[j] => i = j
  BY <1>2, <1>7
<1>9. DOMAIN P = O /\ P = [i \in O |-> P[i]]
  BY DEF P
<1>10. P \in [O -> 1..c]
  BY <1>6, <1>9
<1>11. P \in Injection(O, 1..c)
  BY <1>8, <1>10 DEF Injection, IsInjective
<1>12. IsFiniteSet(1..c) /\ Cardinality(1..c) = c
  BY <1>4, FS_Interval
<1>13. P \in Surjection(O, 1..c)
  BY <1>4, <1>11, <1>12, FS_Injection DEF c
<1>14. ASSUME NEW w \in 1..c PROVE \E i \in O : P[i] = w
  BY <1>13 DEF Surjection
<1>15. DOMAIN WithoutApp(es, a) = 1..c /\ WithoutApp(es, a) = [w \in DOMAIN WithoutApp(es, a) |-> WithoutApp(es, a)[w]]
  BY DEF WithoutApp, c, O
<1>16. ASSUME NEW w \in 1..c
       PROVE  \E i \in O : WithoutApp(es, a)[w] = es[i] /\ P[i] = w /\ es[i] \in S
  <2>1. PICK k \in O : P[k] = w
    BY <1>14
  <2>2. Place(es, a, k) = w
    BY <2>1 DEF P
  <2> DEFINE i == CHOOSE j \in O : Place(es, a, j) = w
  <2>3. i \in O /\ Place(es, a, i) = w
    BY <2>2
  <2>4. WithoutApp(es, a)[w] = es[i]
    BY DEF WithoutApp, O, c
  <2> HIDE DEF i
  <2>5. P[i] = w
    BY <2>3 DEF P
  <2> QED BY <2>3, <2>4, <2>5, <1>1, <1>2
<1>18. WithoutApp(es, a) \in Seq(S) /\ Len(WithoutApp(es, a)) = c
  <2>1. \A w \in 1..c : WithoutApp(es, a)[w] \in S
    BY <1>16
  <2>2. WithoutApp(es, a) \in [1..c -> S]
    BY <1>15, <2>1
  <2> QED BY <2>2, <1>4, <1>15
<1>19. ASSUME NEW i \in O PROVE \E w \in 1..c : WithoutApp(es, a)[w] = es[i]
  <2>1. PICK k \in O : WithoutApp(es, a)[P[i]] = es[k] /\ P[k] = P[i]
    BY <1>6, <1>16
  <2> QED BY <2>1, <1>6, <1>8
<1> QED BY <1>4, <1>9, <1>15, <1>16, <1>18, <1>19 DEF O, P

-----------------------------------------------------------------------------
(* The schedule's invariant.                                                *)
(*                                                                         *)
(* A table knows for each task a last_run that is not before its latest    *)
(* run that is remembered and not in the future (SoundTable); this holds   *)
(* for tables without two entries for one task, for the table in memory    *)
(* always, and for the file unless its latest save failed (LoadedSound).   *)
(* Between the mark and the launch the table has the mark already          *)
(* (CurKnown), and the time that was found due is still good (RunIsDue):    *)
(* the clock only goes on.                                                  *)

TypedTable(es) == es \in Seq(Entry) /\ Len(es) <= Capacity

SchedTyped ==
  /\ TypedTable(entries) /\ TypedTable(Loaded)
  /\ schedFile = Unreadable \/ schedFile = <<Loaded>>
  /\ clock \in 0..ClockMax /\ granted \subseteq Apps
  /\ bgStage \in {"idle", "app", "sync_open", "sync_put", "mark", "mark_open",
                  "mark_put", "launch", "run"}
  /\ bgStage = "app" => bgCur \in [app : Apps, tasks : Manifests]
  /\ bgStage \in {"mark", "mark_open", "mark_put", "launch"} => bgCur \in Entry
  /\ stale \in BOOLEAN
  /\ fired \in [TaskKeys -> 0..ClockMax] /\ forgotten \subseteq TaskKeys

Key(e) == <<e.app, e.name>>

UniqueKeys(es) == \A i, j \in DOMAIN es : Key(es[i]) = Key(es[j]) => i = j

\* No two entries of a table are for one task, and none has run since its last_run.
SoundAt(es, t, f) ==
  /\ UniqueKeys(es)
  /\ \A i \in DOMAIN es : es[i].last <= t /\ f[Key(es[i])] <= es[i].last

\* The runs known of: 0 for a task whose latest run a restart forgot.
Remembered == [k \in TaskKeys |-> IF k \in forgotten THEN 0 ELSE fired[k]]
Never == [k \in TaskKeys |-> 0]

SoundTable(es) == SoundAt(es, clock, Remembered)
LoadedSound == SoundAt(Loaded, clock, Never) /\ (stale \/ SoundTable(Loaded))

\* The table already holds the time the task under way was marked at.
CurKnown ==
  bgStage \in {"mark", "mark_open", "mark_put", "launch"} =>
    \E i \in DOMAIN entries : Key(entries[i]) = Key(bgCur) /\ entries[i].last = bgCur.last

\* Time enough has gone by at t since the task under way last ran.
NotTooEarly(t) ==
  LET f == Remembered[Key(bgCur)]
  IN  \/ f = 0
      \/ bgCur.interval > 0 /\ t >= f + bgCur.interval
      \/ bgCur.interval = 0 /\ MinuteOf(t) > MinuteOf(f)

RunIsDue ==
  /\ bgStage = "mark" => NotTooEarly(clock)
  /\ bgStage \in {"mark_open", "mark_put", "launch"} => NotTooEarly(bgCur.last)

\* History speaks of scheduled tasks only.
FiredScheduled == \A k \in TaskKeys : k \notin Scheduled(entries) => Remembered[k] = 0

SchedInv ==
  /\ SoundTable(entries) /\ LoadedSound
  /\ CurKnown /\ RunIsDue /\ FiredScheduled /\ FileIsTheSchedule

\* One sequence behind another.
LEMMA Behind ==
  ASSUME NEW R, NEW s \in Seq(R), NEW t \in Seq(R)
  PROVE  /\ Len(s \o t) = Len(s) + Len(t)
         /\ DOMAIN (s \o t) = 1..(Len(s) + Len(t))
         /\ s \o t = [i \in DOMAIN (s \o t) |-> (s \o t)[i]]
         /\ \A i \in 1..Len(s) : (s \o t)[i] = s[i]
         /\ \A i \in 1..Len(t) : (s \o t)[Len(s) + i] = t[i]
<1>1. s \o t \in Seq(R) /\ Len(s \o t) = Len(s) + Len(t)
  OBVIOUS
<1>2. DOMAIN (s \o t) = 1..(Len(s) + Len(t))
  BY <1>1
<1>3. s \o t = [i \in DOMAIN (s \o t) |-> (s \o t)[i]]
  <2> DEFINE c == s \o t
  <2>1. c \in Seq(R)
    BY <1>1
  <2> HIDE DEF c
  <2>2. c \in [1..Len(c) -> R]
    BY <2>1
  <2>3. c = [i \in DOMAIN c |-> c[i]]
    BY <2>2
  <2> QED BY <2>3 DEF c
<1>4. \A i \in 1..Len(s) : (s \o t)[i] = s[i]
  OBVIOUS
<1>5. ASSUME NEW i \in 1..Len(t) PROVE (s \o t)[Len(s) + i] = t[i]
  <2>1. Len(s) \in Nat /\ Len(t) \in Nat /\ i \in Nat
    OBVIOUS
  <2>2. \A j \in 1..(Len(s) + Len(t)) : j > Len(s) => (s \o t)[j] = t[j - Len(s)]
    OBVIOUS
  <2>3. Len(s) + i \in 1..(Len(s) + Len(t)) /\ Len(s) + i > Len(s) /\ (Len(s) + i) - Len(s) = i
    BY <2>1
  <2> QED BY <2>2, <2>3
<1> QED BY <1>1, <1>2, <1>3, <1>4, <1>5

\* The least of some natural numbers.
LEMMA LeastNatural ==
  ASSUME NEW T, T \subseteq Nat, T # {}
  PROVE  \E n \in T : \A m \in T : n <= m
<1> DEFINE R == OpToRel(<, Nat)
<1>1. IsWellFoundedOn(R, Nat)
  BY NatLessThanWellFounded
<1>2. R = {ss \in Nat \X Nat : ss[1] < ss[2]}
  BY DEF OpToRel
<1> HIDE DEF R
<1>3. PICK x \in T : \A y \in T : ~ (<<y, x>> \in R)
  BY <1>1, WFMin
<1>4. \A y \in T : x <= y
  <2> TAKE y \in T
  <2>1. x \in Nat /\ y \in Nat /\ <<y, x>> \notin R
    BY <1>3
  <2>2. <<y, x>> \in Nat \X Nat /\ <<y, x>>[1] = y /\ <<y, x>>[2] = x
    BY <2>1
  <2>3. ~ (y < x)
    BY <1>2, <2>1, <2>2
  <2> QED BY <2>1, <2>3
<1> QED BY <1>3, <1>4

\* An app's task keeps the last_run it had, or begins without one if it is new.
LEMMA LastIsCarried ==
  ASSUME NEW es \in Seq(Entry), NEW a, NEW name
  PROVE  \/ LastCarried(es, a, name) = 0 /\ <<a, name>> \notin Scheduled(es)
         \/ \E i \in DOMAIN es : Key(es[i]) = <<a, name>> /\ LastCarried(es, a, name) = es[i].last
<1> DEFINE old == {i \in DOMAIN es : es[i].app = a /\ es[i].name = name}
<1>1. CASE old = {}
  <2>1. <<a, name>> \notin Scheduled(es)
    BY <1>1 DEF Scheduled
  <2> QED BY <1>1, <2>1 DEF LastCarried
<1>2. CASE old # {}
  <2> DEFINE least == CHOOSE i \in old : \A j \in old : i <= j
  <2>1. LastCarried(es, a, name) = es[least].last
    BY <1>2 DEF LastCarried
  <2>2. old \subseteq Nat
    OBVIOUS
  <2>3. least \in old
    <3> HIDE DEF old
    <3>1. \E i \in old : \A j \in old : i <= j
      BY <1>2, <2>2, LeastNatural
    <3> QED BY <3>1
  <2>4. \E i \in DOMAIN es : es[i].app = a /\ es[i].name = name /\ LastCarried(es, a, name) = es[i].last
    <3> HIDE DEF least
    <3> QED BY <2>1, <2>3
  <2> QED BY <2>4 DEF Key
<1> QED BY <1>1, <1>2

\* What the app's new entry i in the table of a sync is.
NewEntry(es, a, ts, i) ==
  [app |-> a, name |-> ts[i].name, interval |-> ts[i].interval,
   last |-> LastCarried(es, a, ts[i].name)]

\* What is in the table after a sync: the entries of other apps, and some of the
\* app's tasks.
LEMMA SyncedShape ==
  ASSUME NEW es \in Seq(Entry), Len(es) <= Capacity, NEW a, NEW ts \in Seq(Task)
  PROVE  \E k \in 0..Capacity, n \in Nat :
           /\ k = Len(WithoutApp(es, a)) /\ n <= Len(ts) /\ k + n <= Capacity
           /\ Len(Synced(es, a, ts)) = k + n
           /\ DOMAIN Synced(es, a, ts) = 1..(k + n)
           /\ Synced(es, a, ts) = [i \in DOMAIN Synced(es, a, ts) |-> Synced(es, a, ts)[i]]
           /\ \A i \in 1..k : Synced(es, a, ts)[i] = WithoutApp(es, a)[i]
           /\ \A i \in 1..n :
                Synced(es, a, ts)[k + i] = NewEntry(es, a, ts, i)
<1> DEFINE kept == WithoutApp(es, a)
           k == Len(kept)
           n == IF Len(ts) < Capacity - k THEN Len(ts) ELSE Capacity - k
           T(i) == NewEntry(es, a, ts, i)
           new == [i \in 1..n |-> T(i)]
<1>1. kept \in Seq(Entry) /\ k <= Len(es) /\ k \in Nat
  BY KeptIsOthers
<1>2. k \in 0..Capacity /\ Capacity - k \in Nat
  BY <1>1, SchedulerAssumption
<1>3. Synced(es, a, ts) = kept \o new
  BY DEF Synced, Room, NewEntry
<1> HIDE DEF T, kept
<1>4. n \in Nat /\ n <= Len(ts) /\ k + n <= Capacity
  BY <1>1, <1>2, SchedulerAssumption
<1> HIDE DEF n
<1>5. \A i \in 1..n : new[i] = T(i)
  OBVIOUS
<1> DEFINE R == Entry \union {T(i) : i \in 1..n}
<1>6. \A i \in 1..n : new[i] \in R
  BY <1>5
<1>7. new = [i \in 1..n |-> new[i]]
  OBVIOUS
<1>8. kept \in Seq(R)
  BY <1>1
<1> HIDE DEF new, R
<1>9. new \in Seq(R) /\ Len(new) = n
  <2>1. new \in [1..n -> R]
    BY <1>6, <1>7
  <2> QED BY <2>1, <1>4
<1> DEFINE s == kept \o new
<1>10. /\ Len(s) = k + n /\ DOMAIN s = 1..(k + n) /\ s = [i \in DOMAIN s |-> s[i]]
       /\ \A i \in 1..k : s[i] = kept[i]
       /\ \A i \in 1..n : s[k + i] = new[i]
  <2>1. PICK u \in Seq(R), v \in Seq(R) : u = kept /\ v = new
    BY <1>8, <1>9
  <2>2. Len(u \o v) = Len(u) + Len(v) /\ DOMAIN (u \o v) = 1..(Len(u) + Len(v))
    BY <2>1, Behind
  <2>3. u \o v = [i \in DOMAIN (u \o v) |-> (u \o v)[i]]
    BY <2>1, Behind
  <2>4. \A i \in 1..Len(u) : (u \o v)[i] = u[i]
    BY <2>1, Behind
  <2>5. \A i \in 1..Len(v) : (u \o v)[Len(u) + i] = v[i]
    BY <2>1, Behind
  <2>6. s = u \o v /\ k = Len(u) /\ n = Len(v)
    BY <2>1, <1>9
  <2> HIDE DEF s
  <2> QED BY <2>1, <2>2, <2>3, <2>4, <2>5, <2>6
<1>11. s = Synced(es, a, ts)
  BY <1>3
<1> HIDE DEF s
<1>12. \A i \in 1..n : s[k + i] = T(i)
  BY <1>5, <1>10
<1>13. /\ k \in 0..Capacity /\ n \in Nat /\ k = Len(kept) /\ n <= Len(ts) /\ k + n <= Capacity
       /\ Len(s) = k + n /\ DOMAIN s = 1..(k + n) /\ s = [i \in DOMAIN s |-> s[i]]
       /\ \A i \in 1..k : s[i] = kept[i]
  BY <1>2, <1>4, <1>10
<1> USE DEF T, kept
<1> QED BY <1>11, <1>12, <1>13

UniqueNames(ts) == \A i, j \in DOMAIN ts : ts[i].name = ts[j].name => i = j

\* An entry of a table after a sync: one of another app, which was in the table
\* before, or one of the app's tasks, with the last_run of an entry it had.
FromOthers(es, a, e, i) ==
  \E u \in DOMAIN es : e = es[u] /\ es[u].app # a /\ Place(es, a, u) = i

FromTasks(es, a, ts, e, w) ==
  /\ e.app = a /\ e.name = ts[w].name
  /\ \/ e.last = 0 /\ Key(e) \notin Scheduled(es)
     \/ \E u \in DOMAIN es : Key(es[u]) = Key(e) /\ e.last = es[u].last

LEMMA SyncedEntries ==
  ASSUME NEW old \in Seq(Entry), Len(old) <= Capacity,
         NEW a \in Apps, NEW ts \in Seq(Task),
         NEW es, es = Synced(old, a, ts)
  PROVE  /\ es \in Seq(Entry) /\ Len(es) <= Capacity
         /\ \E k \in Nat : \A i \in DOMAIN es :
              \/ i \in 1..k /\ FromOthers(old, a, es[i], i)
              \/ i > k /\ \E w \in DOMAIN ts : i = k + w /\ FromTasks(old, a, ts, es[i], w)
<1>1. PICK k \in 0..Capacity, n \in Nat :
        /\ k = Len(WithoutApp(old, a)) /\ n <= Len(ts) /\ k + n <= Capacity
        /\ Len(es) = k + n
        /\ DOMAIN es = 1..(k + n)
        /\ es = [i \in DOMAIN es |-> es[i]]
        /\ \A i \in 1..k : es[i] = WithoutApp(old, a)[i]
        /\ \A i \in 1..n : es[k + i] = NewEntry(old, a, ts, i)
  BY SyncedShape
<1>2. /\ k \in Nat /\ n \in Nat /\ DOMAIN es = 1..(k + n) /\ Len(es) = k + n
      /\ Len(ts) \in Nat /\ DOMAIN ts = 1..Len(ts) /\ n <= Len(ts)
  BY <1>1, SchedulerAssumption
<1>3. DOMAIN WithoutApp(old, a) = 1..k
  BY <1>1, KeptIsOthers
<1>4. ASSUME NEW w \in 1..k PROVE es[w] \in Entry /\ FromOthers(old, a, es[w], w)
  <2>1. PICK i \in OfOthers(old, a) : WithoutApp(old, a)[w] = old[i] /\ Place(old, a, i) = w
    <3>1. \A v \in DOMAIN WithoutApp(old, a) :
            \E i \in OfOthers(old, a) : WithoutApp(old, a)[v] = old[i] /\ Place(old, a, i) = v
      BY KeptIsOthers
    <3> QED BY <1>3, <3>1
  <2>2. i \in DOMAIN old /\ old[i].app # a /\ es[w] = old[i]
    BY <1>1, <2>1 DEF OfOthers
  <2>3. old[i] \in Entry
    BY <2>2
  <2> QED BY <2>1, <2>2, <2>3 DEF FromOthers
<1>5. ASSUME NEW w \in 1..n PROVE es[k + w] \in Entry /\ FromTasks(old, a, ts, es[k + w], w)
  <2>1. w \in DOMAIN ts /\ ts[w] \in Task
    BY <1>1, <1>2
  <2>2. ts[w].name \in Names /\ ts[w].interval \in Intervals
    BY <2>1 DEF Task
  <2> DEFINE l == LastCarried(old, a, ts[w].name)
             key == <<a, ts[w].name>>
  <2>3. /\ es[k + w].app = a /\ es[k + w].name = ts[w].name /\ es[k + w].last = l
        /\ es[k + w] = [app |-> a, name |-> ts[w].name, interval |-> ts[w].interval, last |-> l]
    BY <1>1 DEF NewEntry
  <2>4. Key(es[k + w]) = key
    BY <2>3 DEF Key
  <2>5. \/ l = 0 /\ key \notin Scheduled(old)
        \/ \E i \in DOMAIN old : Key(old[i]) = key /\ l = old[i].last
    BY LastIsCarried
  <2> HIDE DEF l, key
  <2>6. l \in 0..ClockMax
    <3>1. \A i \in DOMAIN old : old[i].last \in 0..ClockMax
      <4> TAKE i \in DOMAIN old
      <4>1. old[i] \in Entry
        OBVIOUS
      <4> QED BY <4>1 DEF Entry
    <3> QED BY <2>5, <3>1, SchedulerAssumption
  <2>7. es[k + w] \in Entry
    BY <2>2, <2>3, <2>6 DEF Entry
  <2> QED BY <2>3, <2>4, <2>5, <2>7 DEF FromTasks
<1>6. ASSUME NEW i \in DOMAIN es
      PROVE  i \in 1..k \/ (i > k /\ \E w \in 1..n : i = k + w)
  <2>1. i \in 1..(k + n)
    BY <1>2
  <2>2. CASE i <= k
    BY <1>2, <2>1, <2>2
  <2>3. CASE i > k
    <3>1. i - k \in 1..n /\ i = k + (i - k)
      BY <1>2, <2>1, <2>3
    <3> QED BY <2>3, <3>1
  <2> QED BY <1>2, <2>1, <2>2, <2>3
<1>7. \A i \in DOMAIN es : es[i] \in Entry
  BY <1>4, <1>5, <1>6
<1>8. es \in Seq(Entry)
  <2>1. es \in [1..(k + n) -> Entry]
    BY <1>1, <1>2, <1>7
  <2> QED BY <1>2, <2>1
<1>9. ASSUME NEW i \in DOMAIN es
      PROVE  \/ i \in 1..k /\ FromOthers(old, a, es[i], i)
             \/ i > k /\ \E w \in DOMAIN ts : i = k + w /\ FromTasks(old, a, ts, es[i], w)
  <2>1. \A w \in 1..n : w \in DOMAIN ts
    BY <1>1, <1>2
  <2> QED BY <1>4, <1>5, <1>6, <2>1
<1> QED BY <1>1, <1>2, <1>8, <1>9

LEMMA SyncedIsSound ==
  ASSUME SchedTyped, SoundTable(entries), FiredScheduled,
         NEW a \in Apps, NEW ts \in Seq(Task), UniqueNames(ts),
         NEW es, es = Synced(entries, a, ts)
  PROVE  SoundTable(es)
<1>1. entries \in Seq(Entry) /\ Len(entries) <= Capacity /\ UniqueKeys(entries)
  BY DEF SchedTyped, TypedTable, SoundTable, SoundAt
<1>2. es \in Seq(Entry)
  BY <1>1, SyncedEntries
<1>3. PICK k \in Nat : \A i \in DOMAIN es :
         \/ i \in 1..k /\ FromOthers(entries, a, es[i], i)
         \/ i > k /\ \E w \in DOMAIN ts : i = k + w /\ FromTasks(entries, a, ts, es[i], w)
  BY <1>1, SyncedEntries
<1>4. ASSUME NEW i \in DOMAIN es
      PROVE  es[i].last <= clock /\ Remembered[Key(es[i])] <= es[i].last
  <2>1. CASE \E u \in DOMAIN entries : Key(entries[u]) = Key(es[i]) /\ es[i].last = entries[u].last
    BY <2>1 DEF SoundTable, SoundAt
  <2>2. CASE es[i].last = 0 /\ Key(es[i]) \notin Scheduled(entries)
    <3>1. es[i] \in Entry
      BY <1>2
    <3>2. Key(es[i]) \in TaskKeys
      BY <3>1 DEF Key, TaskKeys, Entry
    <3>3. Remembered[Key(es[i])] = 0
      BY <2>2, <3>2 DEF FiredScheduled
    <3>4. clock \in Nat
      BY SchedulerAssumption DEF SchedTyped
    <3> QED BY <2>2, <3>3, <3>4
  <2>3. CASE FromOthers(entries, a, es[i], i)
    BY <2>1, <2>3 DEF FromOthers
  <2>4. CASE \E w \in DOMAIN ts : FromTasks(entries, a, ts, es[i], w)
    BY <2>1, <2>2, <2>4 DEF FromTasks
  <2> QED BY <1>3, <2>3, <2>4
<1>5. ASSUME NEW i \in DOMAIN es, NEW j \in DOMAIN es, Key(es[i]) = Key(es[j])
      PROVE  i = j
  <2>1. es[i].app = es[j].app /\ es[i].name = es[j].name
    BY <1>5 DEF Key
  <2>2. CASE FromOthers(entries, a, es[i], i) /\ FromOthers(entries, a, es[j], j)
    <3>1. PICK u \in DOMAIN entries : es[i] = entries[u] /\ Place(entries, a, u) = i
      BY <2>2 DEF FromOthers
    <3>2. PICK v \in DOMAIN entries : es[j] = entries[v] /\ Place(entries, a, v) = j
      BY <2>2 DEF FromOthers
    <3>3. u = v
      BY <1>1, <1>5, <3>1, <3>2 DEF UniqueKeys
    <3> QED BY <3>1, <3>2, <3>3
  <2>3. CASE /\ \E w \in DOMAIN ts : i = k + w /\ FromTasks(entries, a, ts, es[i], w)
             /\ \E w \in DOMAIN ts : j = k + w /\ FromTasks(entries, a, ts, es[j], w)
    <3>1. PICK u \in DOMAIN ts : i = k + u /\ es[i].name = ts[u].name
      BY <2>3 DEF FromTasks
    <3>2. PICK v \in DOMAIN ts : j = k + v /\ es[j].name = ts[v].name
      BY <2>3 DEF FromTasks
    <3>3. u = v
      BY <2>1, <3>1, <3>2 DEF UniqueNames
    <3> QED BY <3>1, <3>2, <3>3
  <2>4. \A n \in DOMAIN es : FromOthers(entries, a, es[n], n) => es[n].app # a
    BY DEF FromOthers
  <2>5. \A n \in DOMAIN es :
          (\E w \in DOMAIN ts : FromTasks(entries, a, ts, es[n], w)) => es[n].app = a
    BY DEF FromTasks
  <2> QED BY <1>3, <2>1, <2>2, <2>3, <2>4, <2>5
<1> QED BY <1>4, <1>5 DEF SoundTable, SoundAt, UniqueKeys

-----------------------------------------------------------------------------
\* A table keeps its type whatever a mark changes in it.
LEMMA MarkedIsTyped ==
  ASSUME SchedTyped
  PROVE  Marked \in Seq(Entry) /\ Len(Marked) = Len(entries) /\ DOMAIN Marked = DOMAIN entries
<1>1. entries \in Seq(Entry) /\ clock \in 0..ClockMax
  BY DEF SchedTyped, TypedTable
<1>2. DOMAIN entries = 1..Len(entries) /\ Len(entries) \in Nat
  BY <1>1
<1>3. ASSUME NEW i \in DOMAIN entries
      PROVE  entries[i] \in Entry /\ [entries[i] EXCEPT !.last = clock] \in Entry
  <2>1. entries[i] \in Entry
    BY <1>1
  <2> QED BY <1>1, <2>1 DEF Entry
<1>4. DOMAIN Marked = DOMAIN entries /\ Marked = [i \in DOMAIN entries |-> Marked[i]]
  BY DEF Marked
<1>5. \A i \in DOMAIN entries : Marked[i] \in Entry
  BY <1>3 DEF Marked
<1>6. Marked \in [1..Len(entries) -> Entry]
  BY <1>2, <1>4, <1>5
<1>7. Marked \in Seq(Entry) /\ Len(Marked) = Len(entries)
  BY <1>2, <1>6
<1> QED BY <1>4, <1>7

LEMMA ScheduleInitTyped == BgInit => SchedTyped
<1>1. <<>> \in Seq(Entry) /\ Len(<<>>) = 0
  OBVIOUS
<1>2. 0 <= Capacity /\ Minute \in 0..ClockMax /\ 0 \in 0..ClockMax
  BY SchedulerAssumption
<1> QED BY <1>1, <1>2 DEF BgInit, SchedTyped, TypedTable, Loaded

\* What an app declares is a list of tasks, none twice unless manifests may.
LEMMA DeclaredTasks ==
  ASSUME SchedTyped, bgStage = "app"
  PROVE  /\ bgCur.app \in Apps /\ DeclaredNow \in Seq(Task)
         /\ ~Duplicates => UniqueNames(DeclaredNow)
<1>1. bgCur.app \in Apps /\ bgCur.tasks \in Manifests
  BY DEF SchedTyped
<1>2. PICK n \in 0..TaskMax : bgCur.tasks \in [1..n -> Task]
  BY <1>1 DEF Manifests
<1>3. bgCur.tasks \in Seq(Task)
  BY <1>2, SchedulerAssumption
<1>4. <<>> \in Seq(Task) /\ UniqueNames(<<>>)
  BY DEF UniqueNames
<1>5. ~Duplicates => UniqueNames(bgCur.tasks)
  BY <1>1 DEF Manifests, UniqueNames
<1> QED BY <1>1, <1>3, <1>4, <1>5 DEF DeclaredNow

\* The history of tasks that are still scheduled.
LEMMA StillTyped ==
  ASSUME SchedTyped, NEW es
  PROVE  /\ StillScheduled(es) \in [TaskKeys -> 0..ClockMax]
         /\ \A k \in TaskKeys : /\ k \in Scheduled(es) => StillScheduled(es)[k] = fired[k]
                                /\ k \notin Scheduled(es) => StillScheduled(es)[k] = 0
<1>1. \A k \in TaskKeys : fired[k] \in 0..ClockMax
  BY DEF SchedTyped
<1>2. 0 \in 0..ClockMax
  BY SchedulerAssumption
<1> QED BY <1>1, <1>2 DEF StillScheduled

\* What is remembered is what was run, unless it was forgotten.
LEMMA RememberedTyped ==
  ASSUME SchedTyped
  PROVE  /\ Remembered \in [TaskKeys -> 0..ClockMax] /\ Never \in [TaskKeys -> 0..ClockMax]
         /\ \A k \in TaskKeys : /\ k \in forgotten => Remembered[k] = 0
                                /\ k \notin forgotten => Remembered[k] = fired[k]
                                /\ Never[k] = 0
<1>1. \A k \in TaskKeys : fired[k] \in 0..ClockMax
  BY DEF SchedTyped
<1>2. 0 \in 0..ClockMax
  BY SchedulerAssumption
<1> QED BY <1>1, <1>2 DEF Remembered, Never

LEMMA ScheduleTypeStep == SchedTyped /\ [BgNext]_bgVars => SchedTyped'
<1> SUFFICES ASSUME SchedTyped, [BgNext]_bgVars PROVE SchedTyped'
  OBVIOUS
<1>a. /\ TypedTable(entries) /\ TypedTable(Loaded)
      /\ schedFile = Unreadable \/ schedFile = <<Loaded>>
      /\ clock \in 0..ClockMax /\ granted \subseteq Apps
      /\ fired \in [TaskKeys -> 0..ClockMax] /\ forgotten \subseteq TaskKeys
      /\ stale \in BOOLEAN
  BY DEF SchedTyped
<1>b. ASSUME UNCHANGED schedFile PROVE Loaded' = Loaded
  BY <1>b DEF Loaded
<1>1. ASSUME NEW a \in Apps, NEW ts \in Manifests, BgOpenApp(a, ts) PROVE SchedTyped'
  BY <1>a, <1>b, <1>1 DEF BgOpenApp, bgHistory, SchedTyped, TypedTable
<1>2. CASE Register
  <2>1. bgCur.app \in Apps
    BY <1>2 DEF Register, SchedTyped
  <2>2. granted' \subseteq Apps
    BY <1>a, <1>2, <2>1 DEF Register
  <2> QED BY <1>a, <1>b, <1>2, <2>2 DEF Register, bgHistory, SchedTyped, TypedTable
<1>3. CASE AppEnds
  <2>1. bgStage = "app"
    BY <1>3 DEF AppEnds
  <2>2. bgCur.app \in Apps /\ DeclaredNow \in Seq(Task)
    BY <2>1, DeclaredTasks
  <2>3. entries' = Synced(entries, bgCur.app, DeclaredNow)
    BY <1>3 DEF AppEnds
  <2>4. TypedTable(entries')
    BY <1>a, <2>2, <2>3, SyncedEntries DEF TypedTable
  <2>5. fired' \in [TaskKeys -> 0..ClockMax]
    BY <1>3, StillTyped DEF AppEnds
  <2>6. bgStage' = "sync_open" /\ Loaded' = Loaded /\ schedFile' = schedFile
        /\ clock' = clock /\ granted' = granted /\ stale' = stale /\ forgotten' \subseteq forgotten
    BY <1>3, <1>b DEF AppEnds
  <2> QED BY <1>a, <2>4, <2>5, <2>6 DEF SchedTyped, TypedTable
<1>4. CASE AppTornDown \/ RunEnds
  BY <1>a, <1>b, <1>4 DEF AppTornDown, RunEnds, bgHistory, SchedTyped, TypedTable
<1>5. CASE SaveOpen
  <2>1. schedFile' = Unreadable /\ Loaded' = <<>>
    BY <1>5 DEF SaveOpen, Loaded
  <2>2. TypedTable(<<>>)
    BY SchedulerAssumption DEF TypedTable
  <2>3. /\ entries' = entries /\ clock' = clock /\ granted' = granted /\ fired' = fired
        /\ bgCur' = bgCur /\ stale' = stale /\ forgotten' = forgotten
        /\ \/ bgStage = "sync_open" /\ bgStage' = "sync_put"
           \/ bgStage = "mark_open" /\ bgStage' = "mark_put"
    BY <1>5 DEF SaveOpen, bgHistory
  <2> QED BY <1>a, <2>1, <2>2, <2>3 DEF SchedTyped, TypedTable
<1>6. CASE SaveFails \/ SavePut
  <2>1. /\ entries' = entries /\ clock' = clock /\ granted' = granted /\ fired' = fired
        /\ stale' \in BOOLEAN /\ forgotten' = forgotten
        /\ \/ bgStage' = "idle"
           \/ bgStage \in {"mark_open", "mark_put"} /\ bgStage' = "launch" /\ bgCur' = bgCur
    BY <1>6 DEF SaveFails, SavePut, SaveReturns, bgHistory
  <2>2. CASE schedFile' = <<entries>>
    <3>1. Loaded' = entries /\ schedFile' = <<Loaded'>>
      BY <2>1, <2>2 DEF Loaded, Unreadable
    <3> QED BY <1>a, <2>1, <3>1 DEF SchedTyped, TypedTable
  <2>3. CASE schedFile' = schedFile
    <3>1. Loaded' = Loaded
      BY <1>b, <2>3
    <3>2. TypedTable(Loaded') /\ (schedFile' = Unreadable \/ schedFile' = <<Loaded'>>)
      BY <1>a, <2>3, <3>1
    <3> QED BY <1>a, <2>1, <3>2 DEF SchedTyped, TypedTable
  <2> QED BY <1>6, <2>2, <2>3 DEF SaveFails, SavePut
<1>7. CASE FindDue
  <2>1. bgCur' \in Entry
    <3>1. PICK i \in DOMAIN entries : bgCur' = entries[i]
      BY <1>7 DEF FindDue
    <3> QED BY <1>a, <3>1 DEF TypedTable
  <2> QED BY <1>a, <1>b, <1>7, <2>1 DEF FindDue, bgHistory, SchedTyped, TypedTable
<1>8. CASE MarkRun
  <2>1. TypedTable(entries')
    BY <1>a, <1>8, MarkedIsTyped DEF MarkRun, TypedTable
  <2>2. bgCur \in Entry
    BY <1>8 DEF MarkRun, SchedTyped
  <2>3. bgCur' \in Entry
    BY <1>a, <1>8, <2>2 DEF MarkRun, Entry
  <2>4. /\ clock' = clock /\ granted' = granted /\ fired' = fired /\ schedFile' = schedFile
        /\ bgStage' = "mark_open" /\ Loaded' = Loaded /\ stale' = stale /\ forgotten' = forgotten
    BY <1>8, <1>b DEF MarkRun, StageAfterMark, bgHistory
  <2> QED BY <1>a, <2>1, <2>3, <2>4 DEF SchedTyped, TypedTable
<1>9. CASE LaunchRun
  <2>1. bgCur \in Entry
    BY <1>9 DEF LaunchRun, SchedTyped
  <2>2. fired' \in [TaskKeys -> 0..ClockMax] /\ forgotten' \subseteq forgotten
    <3>1. bgCur.last \in 0..ClockMax
      BY <2>1 DEF Entry
    <3> QED BY <1>a, <1>9, <3>1 DEF LaunchRun, bgHistory
  <2> QED BY <1>a, <1>b, <1>9, <2>2 DEF LaunchRun, bgHistory, SchedTyped, TypedTable
<1>10. CASE BgRestart
  <2>1. fired' \in [TaskKeys -> 0..ClockMax]
    BY <1>10, StillTyped DEF BgRestart
  <2>2. forgotten' \subseteq TaskKeys /\ stale' \in BOOLEAN
    BY <1>a, <1>10 DEF BgRestart, Behindhand
  <2>3. /\ entries' = Loaded /\ Loaded' = Loaded /\ schedFile' = schedFile
        /\ clock' = clock /\ granted' = granted /\ bgStage' = "idle"
    BY <1>10, <1>b DEF BgRestart
  <2> QED BY <1>a, <2>1, <2>2, <2>3 DEF SchedTyped, TypedTable
<1>11. CASE BgTick
  <2>1. clock' \in 0..ClockMax
    BY <1>a, <1>11, SchedulerAssumption DEF BgTick
  <2>2. /\ entries' = entries /\ Loaded' = Loaded /\ schedFile' = schedFile /\ granted' = granted
        /\ bgStage' = bgStage /\ bgCur' = bgCur /\ fired' = fired
        /\ stale' = stale /\ forgotten' = forgotten
    BY <1>11, <1>b DEF BgTick, bgHistory
  <2> QED BY <1>a, <2>1, <2>2 DEF SchedTyped, TypedTable
<1>12. CASE UNCHANGED bgVars
  BY <1>a, <1>b, <1>12 DEF bgVars, bgHistory, SchedTyped, TypedTable
<1> QED BY <1>1, <1>2, <1>3, <1>4, <1>5, <1>6, <1>7, <1>8, <1>9, <1>10, <1>11, <1>12 DEF BgNext

-----------------------------------------------------------------------------
(* No run before its time.                                                  *)

\* A later second is not in an earlier minute.
LEMMA MinutesGoOn ==
  ASSUME NEW s \in Nat, NEW t \in Nat, s <= t
  PROVE  MinuteOf(s) \in Nat /\ MinuteOf(t) \in Nat /\ MinuteOf(s) <= MinuteOf(t)
<1> DEFINE m == Minute
           q == s \div m
           r == t \div m
<1>1. m \in Nat \ {0}
  BY SchedulerAssumption
<1> HIDE DEF m
<1>2. q \in Nat /\ r \in Nat
  BY <1>1
<1>3. /\ s = m * q + (s % m) /\ t = m * r + (t % m)
      /\ s % m \in 0..(m - 1) /\ t % m \in 0..(m - 1)
  BY <1>1
<1>4. \A a, b \in Nat : a >= b + 1 => m * a >= m * b + m
  BY <1>1
<1>5. ASSUME q >= r + 1 PROVE FALSE
  <2>1. m * q >= m * r + m
    BY <1>2, <1>4, <1>5
  <2>2. m * q \in Nat /\ m * r \in Nat
    BY <1>1, <1>2
  <2> HIDE DEF q, r
  <2> QED BY <1>1, <1>3, <2>1, <2>2
<1>6. MinuteOf(s) = q /\ MinuteOf(t) = r
  BY DEF MinuteOf, m
<1> HIDE DEF q, r
<1>7. q <= r
  BY <1>2, <1>5
<1> QED BY <1>2, <1>6, <1>7

\* The sum of last_run and an interval does not wrap.
Unwrapped == \A i \in Intervals : i + ClockMax < Wrap

LEMMA SumIsPlain ==
  ASSUME Unwrapped, NEW l \in 0..ClockMax, NEW i \in Intervals
  PROVE  (l + i) % Wrap = l + i
<1>1. l + i \in Nat /\ l + i < Wrap /\ Wrap \in Nat
  BY SchedulerAssumption DEF Unwrapped
<1>2. \A x, w \in Nat : x < w => x % w = x
  OBVIOUS
<1> QED BY <1>1, <1>2

\* What jpp_bg_scheduler_due finds due is due with respect to its latest run.
LEMMA DueIsLate ==
  ASSUME SchedTyped, SoundTable(entries), Unwrapped,
         NEW i \in DOMAIN entries, IsDue(entries[i])
  PROVE  LET f == Remembered[Key(entries[i])] IN
         \/ f = 0
         \/ entries[i].interval > 0 /\ clock >= f + entries[i].interval
         \/ entries[i].interval = 0 /\ MinuteOf(clock) > MinuteOf(f)
<1> DEFINE e == entries[i]
           f == Remembered[Key(e)]
<1>1. e \in Entry
  BY DEF SchedTyped, TypedTable
<1>2. e.last <= clock /\ f <= e.last
  BY DEF SoundTable, SoundAt
<1>3. IsDue(e)
  OBVIOUS
<1>4. f = Remembered[Key(e)]
  OBVIOUS
<1> HIDE DEF e, f
<1>5. /\ e.interval \in Intervals /\ e.interval \in Nat
      /\ e.last \in 0..ClockMax /\ e.last \in Nat /\ Key(e) \in TaskKeys
  <2>1. /\ e.app \in Apps /\ e.name \in Names
        /\ e.interval \in Intervals /\ e.last \in 0..ClockMax
    BY <1>1 DEF Entry
  <2>2. Key(e) \in TaskKeys
    BY <2>1 DEF Key, TaskKeys
  <2>3. e.interval \in Nat
    BY <2>1, SchedulerAssumption
  <2>4. e.last \in Nat
    BY <2>1, SchedulerAssumption
  <2> QED BY <2>1, <2>2, <2>3, <2>4
<1>6. f \in 0..ClockMax /\ f \in Nat /\ clock \in Nat
  BY <1>4, <1>5, RememberedTyped, SchedulerAssumption DEF SchedTyped
<1>7. CASE e.interval > 0
  <2>1. e.last = 0 \/ clock >= (e.last + e.interval) % Wrap
    BY <1>3, <1>7 DEF IsDue, IntervalDue
  <2>2. (e.last + e.interval) % Wrap = e.last + e.interval
    BY <1>5, SumIsPlain
  <2>3. f = 0 \/ clock >= f + e.interval
    BY <1>2, <1>5, <1>6, <2>1, <2>2
  <2> QED BY <1>7, <2>3 DEF e, f
<1>8. CASE e.interval = 0
  <2>1. MinuteOf(clock) # MinuteOf(e.last)
    BY <1>3, <1>8 DEF IsDue, CronDue
  <2>2. MinuteOf(e.last) <= MinuteOf(clock) /\ MinuteOf(e.last) \in Nat /\ MinuteOf(clock) \in Nat
    BY <1>2, <1>5, <1>6, MinutesGoOn
  <2>3. MinuteOf(f) <= MinuteOf(e.last) /\ MinuteOf(f) \in Nat
    BY <1>2, <1>5, <1>6, MinutesGoOn
  <2>4. MinuteOf(clock) > MinuteOf(f)
    BY <2>1, <2>2, <2>3
  <2> QED BY <1>8, <2>4 DEF e, f
<1> QED BY <1>5, <1>7, <1>8

\* A table stays sound while time goes on and runs are forgotten.
LEMMA LaterIsSound ==
  ASSUME NEW es, TypedTable(es), NEW t \in Nat, NEW u \in Nat, t <= u,
         NEW f \in [TaskKeys -> 0..ClockMax], NEW g \in [TaskKeys -> 0..ClockMax],
         \A k \in TaskKeys : g[k] = f[k] \/ g[k] = 0,
         SoundAt(es, t, f)
  PROVE  SoundAt(es, u, g)
<1> SUFFICES ASSUME NEW i \in DOMAIN es PROVE es[i].last <= u /\ g[Key(es[i])] <= es[i].last
  BY DEF SoundAt
<1>1. es[i] \in Entry
  BY DEF TypedTable
<1>2. es[i].app \in Apps /\ es[i].name \in Names /\ es[i].last \in 0..ClockMax
  BY <1>1 DEF Entry
<1>3. Key(es[i]) \in TaskKeys
  BY <1>2 DEF Key, TaskKeys
<1> DEFINE l == es[i].last
           a == f[Key(es[i])]
           b == g[Key(es[i])]
<1>4. l <= t /\ a <= l
  BY DEF SoundAt
<1>5. a \in 0..ClockMax /\ (b = a \/ b = 0)
  BY <1>3
<1>6. l \in 0..ClockMax
  BY <1>2
<1> HIDE DEF l, a, b
<1>7. l <= u /\ b <= l
  BY <1>4, <1>5, <1>6, SchedulerAssumption
<1> QED BY <1>7 DEF l, b

\* What jpp_bg_scheduler_mark_run does to a table without duplicates.
LEMMA MarkedIsSound ==
  ASSUME SchedTyped, SoundTable(entries), bgCur \in Entry,
         \E i \in DOMAIN entries : Key(entries[i]) = Key(bgCur)
  PROVE  /\ SoundTable(Marked)
         /\ \E i \in DOMAIN Marked : Key(Marked[i]) = Key(bgCur) /\ Marked[i].last = clock
         /\ Scheduled(Marked) = Scheduled(entries)
<1>1. PICK c \in DOMAIN entries : Key(entries[c]) = Key(bgCur)
  OBVIOUS
<1>2. \A i \in DOMAIN entries : IsCur(entries[i]) <=> i = c
  <2>1. \A i \in DOMAIN entries : IsCur(entries[i]) <=> Key(entries[i]) = Key(bgCur)
    BY DEF IsCur, Key
  <2> QED BY <1>1, <2>1 DEF SoundTable, SoundAt, UniqueKeys
<1>3. entries \in Seq(Entry) /\ DOMAIN entries \subseteq Nat
  BY DEF SchedTyped, TypedTable
<1>4. \A j \in 1..(c - 1) : j \in DOMAIN entries /\ j # c
  BY <1>1, <1>3
<1>5. DOMAIN Marked = DOMAIN entries
  BY DEF Marked
<1>6. Marked[c] = [entries[c] EXCEPT !.last = clock]
  BY <1>1, <1>2, <1>4 DEF Marked
<1>7. \A i \in DOMAIN entries : i # c => Marked[i] = entries[i]
  BY <1>2 DEF Marked
<1>8. entries[c] \in Entry
  BY <1>3
<1>9. /\ Marked[c].app = entries[c].app /\ Marked[c].name = entries[c].name
      /\ Marked[c].last = clock
  BY <1>6, <1>8 DEF Entry
<1>10. \A i \in DOMAIN entries : Key(Marked[i]) = Key(entries[i])
  BY <1>7, <1>9 DEF Key
<1>11. UniqueKeys(Marked)
  BY <1>5, <1>10 DEF SoundTable, SoundAt, UniqueKeys
<1>12. ASSUME NEW i \in DOMAIN entries
       PROVE  Marked[i].last <= clock /\ Remembered[Key(Marked[i])] <= Marked[i].last
  <2>1. entries[i].last <= clock /\ Remembered[Key(entries[i])] <= entries[i].last
    BY DEF SoundTable, SoundAt
  <2>2. CASE i = c
    <3>1. entries[c].last \in 0..ClockMax /\ entries[c].app \in Apps /\ entries[c].name \in Names
      BY <1>8 DEF Entry
    <3>2. Key(entries[c]) \in TaskKeys
      BY <3>1 DEF Key, TaskKeys
    <3>3. Remembered[Key(entries[c])] \in 0..ClockMax /\ clock \in 0..ClockMax
      BY <3>2, RememberedTyped DEF SchedTyped
    <3>4. Remembered[Key(entries[c])] <= clock
      BY <2>1, <2>2, <3>1, <3>3, SchedulerAssumption
    <3>5. clock <= clock
      BY <3>3, SchedulerAssumption
    <3> QED BY <1>9, <1>10, <2>2, <3>4, <3>5
  <2>3. CASE i # c
    BY <1>7, <2>1, <2>3
  <2> QED BY <2>2, <2>3
<1>13. SoundTable(Marked)
  BY <1>5, <1>11, <1>12 DEF SoundTable, SoundAt
<1>14. Scheduled(Marked) = Scheduled(entries)
  BY <1>5, <1>10 DEF Scheduled, Key
<1> QED BY <1>1, <1>5, <1>9, <1>10, <1>13, <1>14

LEMMA ScheduleInitSound == BgInit => SchedInv
<1> SUFFICES ASSUME BgInit PROVE SchedInv
  OBVIOUS
<1>1. entries = <<>> /\ Loaded = <<>> /\ bgStage = "idle"
  BY DEF BgInit, Loaded
<1>2. SoundTable(<<>>) /\ SoundAt(<<>>, clock, Never)
  BY DEF SoundTable, SoundAt, UniqueKeys
<1>3. FiredScheduled
  BY DEF BgInit, FiredScheduled, Remembered
<1> QED BY <1>1, <1>2, <1>3 DEF SchedInv, LoadedSound, CurKnown, RunIsDue, FileIsTheSchedule

\* Steps that run nothing leave what is remembered.
LEMMA SameHistory == ASSUME UNCHANGED bgHistory PROVE Remembered' = Remembered
  BY DEF bgHistory, Remembered

\* The loaded table's entries are dated by now, whatever was forgotten.
LEMMA NeverIsSound ==
  ASSUME SchedTyped, SoundTable(entries)
  PROVE  SoundAt(entries, clock, Never)
<1>1. TypedTable(entries) /\ clock \in Nat /\ clock <= clock
  BY SchedulerAssumption DEF SchedTyped
<1>2. /\ Remembered \in [TaskKeys -> 0..ClockMax] /\ Never \in [TaskKeys -> 0..ClockMax]
      /\ \A k \in TaskKeys : Never[k] = Remembered[k] \/ Never[k] = 0
  BY RememberedTyped
<1>3. SoundAt(entries, clock, Remembered)
  BY DEF SoundTable
<1> HIDE DEF Remembered, Never
<1> QED BY <1>1, <1>2, <1>3, LaterIsSound

\* After the sync of an app's end only what is scheduled still is remembered.
LEMMA StillRemembered ==
  ASSUME SchedTyped, NEW es, fired' = StillScheduled(es), forgotten' = forgotten \intersect Scheduled(es)
  PROVE  \A k \in TaskKeys : /\ k \in Scheduled(es) => Remembered'[k] = Remembered[k]
                             /\ k \notin Scheduled(es) => Remembered'[k] = 0
<1>1. \A k \in TaskKeys : Remembered'[k] = IF k \in forgotten' THEN 0 ELSE fired'[k]
  BY DEF Remembered
<1>2. \A k \in TaskKeys : Remembered[k] = IF k \in forgotten THEN 0 ELSE fired[k]
  BY DEF Remembered
<1>3. \A k \in TaskKeys : /\ k \in Scheduled(es) => fired'[k] = fired[k]
                          /\ k \notin Scheduled(es) => fired'[k] = 0
  BY StillTyped
<1> HIDE DEF Remembered
<1> QED BY <1>1, <1>2, <1>3

\* A restart forgets what the table it loads does not have.
LEMMA RestartSound ==
  ASSUME SchedTyped, SchedTyped', LoadedSound, BgRestart
  PROVE  /\ SoundAt(Loaded, clock, Remembered')
         /\ \A k \in TaskKeys : k \notin Scheduled(Loaded) => Remembered'[k] = 0
<1>1. /\ fired' = StillScheduled(Loaded) /\ forgotten \intersect Scheduled(Loaded) \subseteq forgotten'
      /\ stale => Behindhand(Loaded) \subseteq forgotten'
  BY DEF BgRestart
<1>2. \A k \in TaskKeys : /\ k \in Scheduled(Loaded) => fired'[k] = fired[k]
                          /\ k \notin Scheduled(Loaded) => fired'[k] = 0
  BY <1>1, StillTyped
<1>3. \A k \in TaskKeys : Remembered'[k] = IF k \in forgotten' THEN 0 ELSE fired'[k]
  BY DEF Remembered
<1>4. \A k \in TaskKeys : Remembered[k] = IF k \in forgotten THEN 0 ELSE fired[k]
  BY DEF Remembered
<1>5. TypedTable(Loaded) /\ fired \in [TaskKeys -> 0..ClockMax]
  BY DEF SchedTyped
<1>6. UniqueKeys(Loaded) /\ \A i \in DOMAIN Loaded : Loaded[i].last <= clock /\ Never[Key(Loaded[i])] <= Loaded[i].last
  BY DEF LoadedSound, SoundAt
<1> HIDE DEF Remembered
<1>7. ASSUME NEW i \in DOMAIN Loaded PROVE Remembered'[Key(Loaded[i])] <= Loaded[i].last
  <2> DEFINE e == Loaded[i]
             k == Key(e)
  <2>1. e \in Entry
    BY <1>5 DEF TypedTable
  <2>2. e.app \in Apps /\ e.name \in Names /\ e.last \in 0..ClockMax
    BY <2>1 DEF Entry
  <2>3. k \in TaskKeys /\ k \in Scheduled(Loaded) /\ e.last \in Nat
    BY <2>2, SchedulerAssumption DEF Key, TaskKeys, Scheduled
  <2>4. fired'[k] = fired[k] /\ fired[k] \in 0..ClockMax
    BY <1>2, <1>5, <2>3
  <2>5. CASE k \in forgotten'
    BY <1>3, <2>3, <2>5
  <2>6. CASE k \notin forgotten' /\ stale
    <3>1. k \notin Behindhand(Loaded)
      BY <1>1, <2>6
    <3>2. ~(e.last < fired[k])
      BY <2>3, <3>1 DEF Behindhand, Key
    <3>3. fired[k] <= e.last
      BY <2>3, <2>4, <3>2, SchedulerAssumption
    <3> QED BY <1>3, <2>3, <2>4, <2>6, <3>3
  <2>7. CASE k \notin forgotten' /\ ~stale
    <3>1. SoundTable(Loaded)
      BY <2>7 DEF LoadedSound
    <3>2. Remembered[k] <= e.last
      BY <3>1 DEF SoundTable, SoundAt
    <3>3. k \notin forgotten
      BY <1>1, <2>3, <2>7
    <3>4. Remembered[k] = fired[k] /\ Remembered'[k] = fired[k]
      BY <1>3, <1>4, <2>3, <2>4, <2>7, <3>3
    <3> QED BY <3>2, <3>4
  <2> QED BY <2>5, <2>6, <2>7
<1>8. \A k \in TaskKeys : k \notin Scheduled(Loaded) => Remembered'[k] = 0
  BY <1>2, <1>3
<1> QED BY <1>6, <1>7, <1>8 DEF SoundAt

LEMMA ScheduleSoundStep ==
  ASSUME ~Duplicates, Unwrapped, SchedTyped, SchedInv, [BgNext]_bgVars
  PROVE  SchedInv'
<1>a. /\ TypedTable(entries) /\ TypedTable(Loaded)
      /\ clock \in Nat /\ clock <= clock /\ clock <= ClockMax /\ stale \in BOOLEAN
      /\ Remembered \in [TaskKeys -> 0..ClockMax] /\ Never \in [TaskKeys -> 0..ClockMax]
  BY RememberedTyped, SchedulerAssumption DEF SchedTyped
<1>b. /\ SoundTable(entries) /\ LoadedSound
      /\ CurKnown /\ RunIsDue /\ FiredScheduled /\ FileIsTheSchedule
  BY DEF SchedInv
<1>c. FileIsTheSchedule'
  BY <1>b, ScheduleStep
<1>d. SchedTyped' /\ Remembered' \in [TaskKeys -> 0..ClockMax] /\ Never' = Never
  <2>1. SchedTyped'
    BY ScheduleTypeStep
  <2>2. \A k \in TaskKeys : fired'[k] \in 0..ClockMax
    BY <2>1 DEF SchedTyped
  <2>3. 0 \in 0..ClockMax
    BY SchedulerAssumption
  <2> QED BY <2>1, <2>2, <2>3 DEF Remembered, Never
<1>e. ASSUME UNCHANGED schedFile PROVE Loaded' = Loaded
  BY <1>e DEF Loaded
<1>h. ASSUME UNCHANGED bgHistory PROVE Remembered' = Remembered
  BY <1>h, SameHistory
<1> HIDE DEF Remembered, Never
\* Steps that leave table, file, clock and history alone.
<1>f. ASSUME UNCHANGED <<entries, schedFile, clock, stale, bgHistory>>, CurKnown', RunIsDue'
      PROVE  SchedInv'
  <2>1. Loaded' = Loaded /\ Remembered' = Remembered
    BY <1>e, <1>f, <1>h
  <2> QED BY <1>b, <1>c, <1>d, <1>f, <2>1
          DEF SchedInv, SoundTable, LoadedSound, FiredScheduled
<1>1. ASSUME NEW a \in Apps, NEW ts \in Manifests, BgOpenApp(a, ts) PROVE SchedInv'
  BY <1>1, <1>f DEF BgOpenApp, CurKnown, RunIsDue
<1>2. CASE Register
  BY <1>2, <1>f DEF Register, CurKnown, RunIsDue
<1>3. CASE AppTornDown \/ RunEnds
  BY <1>3, <1>f DEF AppTornDown, RunEnds, CurKnown, RunIsDue
<1>4. CASE AppEnds
  <2>1. /\ bgStage = "app" /\ entries' = Synced(entries, bgCur.app, DeclaredNow)
        /\ fired' = StillScheduled(entries') /\ forgotten' = forgotten \intersect Scheduled(entries')
        /\ bgStage' = "sync_open" /\ clock' = clock /\ stale' = stale /\ Loaded' = Loaded
    BY <1>4, <1>e DEF AppEnds
  <2>2. bgCur.app \in Apps /\ DeclaredNow \in Seq(Task) /\ UniqueNames(DeclaredNow)
    BY <2>1, DeclaredTasks
  <2>3. SoundAt(entries', clock, Remembered)
    BY <1>b, <2>1, <2>2, SyncedIsSound DEF SoundTable
  <2>4. \A k \in TaskKeys : /\ k \in Scheduled(entries') => Remembered'[k] = Remembered[k]
                            /\ k \notin Scheduled(entries') => Remembered'[k] = 0
    BY <2>1, StillRemembered
  <2>5. \A k \in TaskKeys : Remembered'[k] = Remembered[k] \/ Remembered'[k] = 0
    BY <2>4
  <2>6. TypedTable(entries')
    BY <1>d DEF SchedTyped, TypedTable
  <2>7. SoundAt(entries', clock, Remembered')
    BY <1>a, <1>d, <2>3, <2>5, <2>6, LaterIsSound
  <2>8. stale \/ SoundAt(Loaded, clock, Remembered')
    <3> SUFFICES ASSUME ~stale PROVE SoundAt(Loaded, clock, Remembered')
      OBVIOUS
    <3>1. SoundAt(Loaded, clock, Remembered)
      BY <1>b DEF LoadedSound, SoundTable
    <3> QED BY <1>a, <1>d, <2>5, <3>1, LaterIsSound
  <2>9. FiredScheduled'
    BY <2>4 DEF FiredScheduled, Scheduled
  <2> QED BY <1>b, <1>c, <1>d, <2>1, <2>7, <2>8, <2>9
          DEF SchedInv, SoundTable, LoadedSound, CurKnown, RunIsDue
<1>5. CASE SaveOpen
  <2>1. /\ Loaded' = <<>> /\ entries' = entries /\ clock' = clock /\ Remembered' = Remembered
        /\ bgCur' = bgCur /\ stale' = stale
        /\ \/ bgStage = "sync_open" /\ bgStage' = "sync_put"
           \/ bgStage = "mark_open" /\ bgStage' = "mark_put"
    BY <1>5, <1>h DEF SaveOpen, Loaded
  <2>2. SoundAt(<<>>, clock', Remembered') /\ SoundAt(<<>>, clock', Never')
    BY DEF SoundAt, UniqueKeys
  <2>3. CurKnown'
    BY <1>b, <2>1 DEF CurKnown
  <2>4. RunIsDue'
    BY <1>b, <2>1 DEF RunIsDue, NotTooEarly
  <2> QED BY <1>b, <1>c, <2>1, <2>2, <2>3, <2>4 DEF SchedInv, SoundTable, LoadedSound, FiredScheduled
<1>6. CASE SaveFails \/ SavePut
  <2>1. /\ entries' = entries /\ clock' = clock /\ Remembered' = Remembered
        /\ \/ bgStage' = "idle"
           \/ bgStage \in {"mark_open", "mark_put"} /\ bgStage' = "launch" /\ bgCur' = bgCur
    BY <1>6, <1>h DEF SaveFails, SavePut, SaveReturns
  <2>2. CurKnown'
    BY <1>b, <2>1 DEF CurKnown
  <2>3. RunIsDue'
    BY <1>b, <2>1 DEF RunIsDue, NotTooEarly
  <2>4. CASE schedFile' = <<entries>>
    <3>1. Loaded' = entries
      BY <2>1, <2>4 DEF Loaded, Unreadable
    <3>2. SoundAt(entries, clock, Never)
      BY <1>b, NeverIsSound
    <3> QED BY <1>b, <1>c, <1>d, <2>1, <2>2, <2>3, <3>1, <3>2
            DEF SchedInv, SoundTable, LoadedSound, FiredScheduled
  <2>5. CASE schedFile' = schedFile /\ stale'
    <3>1. Loaded' = Loaded
      BY <1>e, <2>5
    <3> QED BY <1>b, <1>c, <1>d, <2>1, <2>2, <2>3, <2>5, <3>1
            DEF SchedInv, SoundTable, LoadedSound, FiredScheduled
  <2> QED BY <1>6, <2>4, <2>5 DEF SaveFails, SavePut
<1>7. CASE FindDue
  <2>1. PICK i \in DOMAIN entries : IsDue(entries[i]) /\ bgCur' = entries[i]
    BY <1>7 DEF FindDue
  <2>2. bgStage' = "mark" /\ UNCHANGED <<entries, schedFile, clock, stale, bgHistory>>
        /\ Remembered' = Remembered
    BY <1>7, <1>h DEF FindDue
  <2>3. CurKnown'
    BY <2>1, <2>2 DEF CurKnown
  <2>4. NotTooEarly(clock)'
    BY <1>b, <2>1, <2>2, DueIsLate DEF NotTooEarly
  <2>5. RunIsDue'
    BY <2>2, <2>4 DEF RunIsDue
  <2> QED BY <1>f, <2>2, <2>3, <2>5
<1>8. CASE MarkRun
  <2>1. /\ bgStage = "mark" /\ entries' = Marked /\ bgCur' = [bgCur EXCEPT !.last = clock]
        /\ bgStage' = "mark_open" /\ clock' = clock /\ Remembered' = Remembered
        /\ Loaded' = Loaded /\ stale' = stale
    BY <1>8, <1>e, <1>h DEF MarkRun, StageAfterMark
  <2>2. bgCur \in Entry
    BY <2>1 DEF SchedTyped
  <2>3. /\ bgCur'.app = bgCur.app /\ bgCur'.name = bgCur.name /\ bgCur'.interval = bgCur.interval
        /\ bgCur'.last = clock
    BY <2>1, <2>2 DEF Entry
  <2>4. \E i \in DOMAIN entries : Key(entries[i]) = Key(bgCur)
    BY <1>b, <2>1 DEF CurKnown
  <2>5. /\ SoundTable(Marked)
        /\ \E i \in DOMAIN Marked : Key(Marked[i]) = Key(bgCur) /\ Marked[i].last = clock
        /\ Scheduled(Marked) = Scheduled(entries)
    BY <1>b, <2>2, <2>4, MarkedIsSound
  <2>6. CurKnown'
    BY <2>1, <2>3, <2>5 DEF CurKnown, Key
  <2>7. RunIsDue'
    BY <1>b, <2>1, <2>3 DEF RunIsDue, NotTooEarly, Key
  <2>8. FiredScheduled'
    BY <1>b, <2>1, <2>5 DEF FiredScheduled, Scheduled
  <2> QED BY <1>b, <1>c, <1>d, <2>1, <2>5, <2>6, <2>7, <2>8 DEF SchedInv, SoundTable, LoadedSound
<1>9. CASE LaunchRun
  <2>1. bgStage = "launch" /\ UNCHANGED <<entries, schedFile, clock, stale>>
        /\ bgStage' \in {"run", "idle"} /\ Loaded' = Loaded
    BY <1>9, <1>e DEF LaunchRun
  <2>2. CurKnown' /\ RunIsDue'
    BY <2>1 DEF CurKnown, RunIsDue
  <2>3. CASE UNCHANGED bgHistory
    BY <1>f, <2>1, <2>2, <2>3
  <2>4. CASE /\ fired' = [fired EXCEPT ![<<bgCur.app, bgCur.name>>] = bgCur.last]
             /\ forgotten' = forgotten \ {<<bgCur.app, bgCur.name>>}
    <3>1. PICK c \in DOMAIN entries : Key(entries[c]) = Key(bgCur) /\ entries[c].last = bgCur.last
      BY <1>b, <2>1 DEF CurKnown
    <3>2. stale \/ Loaded = entries
      BY <1>b, <2>1 DEF FileIsTheSchedule, Saving
    <3>3. \A i \in DOMAIN entries : Key(entries[i]) = Key(bgCur) => i = c
      BY <1>b, <3>1 DEF SoundTable, SoundAt, UniqueKeys
    <3>5. bgCur \in Entry
      BY <2>1 DEF SchedTyped
    <3>6. Key(bgCur) \in TaskKeys /\ bgCur.last \in Nat
      <4>1. bgCur.app \in Apps /\ bgCur.name \in Names /\ bgCur.last \in 0..ClockMax
        BY <3>5 DEF Entry
      <4>2. bgCur.last \in Nat
        BY <4>1, SchedulerAssumption
      <4> QED BY <4>1, <4>2 DEF Key, TaskKeys
    <3>4. Remembered' = [Remembered EXCEPT ![Key(bgCur)] = bgCur.last]
      <4> DEFINE c0 == Key(bgCur)
      <4>1. fired' = [fired EXCEPT ![c0] = bgCur.last] /\ forgotten' = forgotten \ {c0}
        BY <2>4 DEF Key
      <4>2. fired \in [TaskKeys -> 0..ClockMax] /\ c0 \in TaskKeys
        BY <3>6 DEF SchedTyped
      <4> HIDE DEF c0
      <4> USE DEF Remembered
      <4>3. \A k \in TaskKeys : Remembered'[k] = IF k = c0 THEN bgCur.last ELSE Remembered[k]
        BY <4>1, <4>2
      <4>4. Remembered' = [k \in TaskKeys |-> Remembered'[k]]
        OBVIOUS
      <4>5. [Remembered EXCEPT ![c0] = bgCur.last]
              = [k \in TaskKeys |-> IF k = c0 THEN bgCur.last ELSE Remembered[k]]
        OBVIOUS
      <4> HIDE DEF Remembered
      <4>6. Remembered' = [Remembered EXCEPT ![c0] = bgCur.last]
        BY <4>3, <4>4, <4>5
      <4> QED BY <4>6 DEF c0
    <3>7. ASSUME NEW i \in DOMAIN entries
          PROVE  entries[i].last <= clock /\ Remembered'[Key(entries[i])] <= entries[i].last
      <4>1. entries[i].last <= clock /\ Remembered[Key(entries[i])] <= entries[i].last
        BY <1>b DEF SoundTable, SoundAt
      <4>2. entries[i] \in Entry
        BY <1>a DEF TypedTable
      <4>3. Key(entries[i]) \in TaskKeys
        BY <4>2 DEF Key, TaskKeys, Entry
      <4>4. CASE i = c
        <5>1. Remembered'[Key(entries[i])] = bgCur.last /\ entries[i].last = bgCur.last
          BY <1>a, <3>1, <3>4, <3>6, <4>4
        <5>2. bgCur.last <= bgCur.last
          BY <3>6
        <5> QED BY <4>1, <5>1, <5>2
      <4>5. CASE i # c
        <5>1. Remembered'[Key(entries[i])] = Remembered[Key(entries[i])]
          BY <1>a, <3>3, <3>4, <4>3, <4>5
        <5> QED BY <4>1, <5>1
      <4> QED BY <4>4, <4>5
    <3>8. SoundAt(entries, clock, Remembered')
      BY <1>b, <3>7 DEF SoundTable, SoundAt
    <3>9. FiredScheduled'
      <4>1. Key(bgCur) \in Scheduled(entries)
        BY <3>1 DEF Scheduled, Key
      <4>2. ASSUME NEW k \in TaskKeys, k \notin Scheduled(entries) PROVE Remembered'[k] = 0
        BY <1>a, <1>b, <3>4, <4>1, <4>2 DEF FiredScheduled
      <4> QED BY <2>1, <4>2 DEF FiredScheduled, Scheduled
    <3> QED BY <1>b, <1>c, <1>d, <2>1, <2>2, <3>2, <3>8, <3>9 DEF SchedInv, SoundTable, LoadedSound
  <2> QED BY <1>9, <2>3, <2>4 DEF LaunchRun
<1>10. CASE BgRestart
  <2>1. /\ entries' = Loaded /\ bgStage' = "idle" /\ clock' = clock /\ Loaded' = Loaded
    BY <1>10, <1>e DEF BgRestart
  <2>2. /\ SoundAt(Loaded, clock, Remembered')
        /\ \A k \in TaskKeys : k \notin Scheduled(Loaded) => Remembered'[k] = 0
    BY <1>10, <1>b, <1>d, RestartSound
  <2>3. FiredScheduled'
    BY <2>1, <2>2 DEF FiredScheduled, Scheduled
  <2> QED BY <1>b, <1>c, <1>d, <2>1, <2>2, <2>3 DEF SchedInv, SoundTable, LoadedSound, CurKnown, RunIsDue
<1>11. CASE BgTick
  <2>1. /\ entries' = entries /\ Loaded' = Loaded /\ bgStage' = bgStage /\ bgCur' = bgCur
        /\ Remembered' = Remembered /\ clock' = clock + 1 /\ stale' = stale
    BY <1>11, <1>e, <1>h DEF BgTick
  <2>2. clock' \in Nat /\ clock <= clock'
    BY <1>a, <2>1
  <2>3. ASSUME NEW es, NEW f \in [TaskKeys -> 0..ClockMax], TypedTable(es), SoundAt(es, clock, f)
        PROVE  SoundAt(es, clock', f)
    BY <1>a, <2>2, <2>3, LaterIsSound
  <2>7. SoundTable(entries)' /\ LoadedSound'
    <3>1. SoundAt(entries, clock, Remembered) /\ SoundAt(Loaded, clock, Never)
          /\ (stale \/ SoundAt(Loaded, clock, Remembered))
      BY <1>b DEF SoundTable, LoadedSound
    <3>2. SoundAt(entries, clock', Remembered) /\ SoundAt(Loaded, clock', Never)
          /\ (stale \/ SoundAt(Loaded, clock', Remembered))
      BY <1>a, <2>3, <3>1
    <3> QED BY <1>d, <2>1, <3>2 DEF SoundTable, LoadedSound
  <2>4. CurKnown'
    BY <1>b, <2>1 DEF CurKnown
  <2>5. ASSUME bgStage = "mark" PROVE NotTooEarly(clock)'
    <3> DEFINE f == Remembered[Key(bgCur)]
    <3>1. bgCur \in Entry
      BY <2>5 DEF SchedTyped
    <3>2. Key(bgCur) \in TaskKeys /\ bgCur.interval \in Nat
      <4>1. bgCur.app \in Apps /\ bgCur.name \in Names /\ bgCur.interval \in Intervals
        BY <3>1 DEF Entry
      <4>2. bgCur.interval \in Nat
        BY <4>1, SchedulerAssumption
      <4> QED BY <4>1, <4>2 DEF Key, TaskKeys
    <3>3. f \in Nat
      <4>1. f \in 0..ClockMax
        BY <1>a, <3>2
      <4> QED BY <4>1, SchedulerAssumption
    <3>4. \/ f = 0
          \/ bgCur.interval > 0 /\ clock >= f + bgCur.interval
          \/ bgCur.interval = 0 /\ MinuteOf(clock) > MinuteOf(f)
      BY <1>b, <2>5 DEF RunIsDue, NotTooEarly
    <3>5. MinuteOf(clock) <= MinuteOf(clock') /\ MinuteOf(clock) \in Nat /\ MinuteOf(clock') \in Nat
      BY <1>a, <2>2, MinutesGoOn
    <3>6. MinuteOf(f) \in Nat
      BY <3>3, MinutesGoOn
    <3> HIDE DEF f
    <3>7. \/ f = 0
          \/ bgCur.interval > 0 /\ clock' >= f + bgCur.interval
          \/ bgCur.interval = 0 /\ MinuteOf(clock') > MinuteOf(f)
      BY <1>a, <2>2, <3>2, <3>3, <3>4, <3>5, <3>6
    <3>8. Remembered'[Key(bgCur')] = f /\ bgCur' = bgCur
      BY <2>1 DEF f
    <3> QED BY <3>7, <3>8 DEF NotTooEarly, Key, MinuteOf
  <2>6. RunIsDue'
    BY <1>b, <2>1, <2>5 DEF RunIsDue, NotTooEarly
  <2> QED BY <1>b, <1>c, <2>1, <2>4, <2>6, <2>7 DEF SchedInv, FiredScheduled
<1>12. CASE UNCHANGED bgVars
  <2>1. UNCHANGED <<entries, schedFile, clock, stale, bgHistory>> /\ Remembered' = Remembered
        /\ bgStage' = bgStage /\ bgCur' = bgCur
    BY <1>12, <1>h DEF bgVars
  <2>2. CurKnown'
    BY <1>b, <2>1 DEF CurKnown
  <2>3. RunIsDue'
    BY <1>b, <2>1 DEF RunIsDue, NotTooEarly
  <2> QED BY <1>f, <2>1, <2>2, <2>3
<1> QED BY <1>1, <1>2, <1>3, <1>4, <1>5, <1>6, <1>7, <1>8, <1>9, <1>10, <1>11, <1>12 DEF BgNext

\* Between two runs of a task goes its interval, or for a cron task the minute of
\* the first, whatever syncs, interrupted saves and restarts come between them,
\* unless the save of the first failed and a restart forgot it; as long as no app
\* declares a task twice and no sum of last_run and an interval passes 2^32.
THEOREM RunsKeepTheirTime ==
  ASSUME ~Duplicates, Unwrapped
  PROVE  BgSpec => OnlyFailedSavesForget
<1>1. SchedTyped /\ SchedInv /\ [BgNext]_bgVars => SchedInv'
  BY ScheduleSoundStep
<1>2. ASSUME SchedTyped, SchedInv, LaunchRun
      PROVE  LET k == <<bgCur.app, bgCur.name>>
             IN  k \in forgotten \/ InItsTime(fired[k])
  <2>1. bgStage = "launch" /\ bgCur \in Entry
    BY <1>2 DEF LaunchRun, SchedTyped
  <2>2. bgCur.app \in Apps /\ bgCur.name \in Names /\ bgCur.last \in 0..ClockMax
    BY <2>1 DEF Entry
  <2>3. Key(bgCur) \in TaskKeys /\ Key(bgCur) = <<bgCur.app, bgCur.name>>
    BY <2>2 DEF Key, TaskKeys
  <2> DEFINE f == Remembered[Key(bgCur)]
  <2>4. f \in 0..ClockMax
    <3>1. Remembered \in [TaskKeys -> 0..ClockMax]
      BY <1>2, RememberedTyped
    <3> QED BY <2>3, <3>1
  <2>5. \/ f = 0
        \/ bgCur.interval > 0 /\ bgCur.last >= f + bgCur.interval
        \/ bgCur.interval = 0 /\ MinuteOf(bgCur.last) > MinuteOf(f)
    BY <1>2, <2>1 DEF SchedInv, RunIsDue, NotTooEarly
  <2>6. f \in Nat /\ bgCur.last \in Nat
    BY <2>2, <2>4, SchedulerAssumption
  <2>7. f <= f /\ bgCur.last <= bgCur.last
    BY <2>6
  <2>8. MinuteOf(f) \in Nat /\ MinuteOf(bgCur.last) \in Nat
    BY <2>6, <2>7, MinutesGoOn
  <2>9. MinuteOf(bgCur.last) > MinuteOf(f) => MinuteOf(bgCur.last) # MinuteOf(f)
    BY <2>8
  <2>10. Key(bgCur) \in forgotten \/ f = fired[Key(bgCur)]
    BY <1>2, <2>3, RememberedTyped
  <2>11. InItsTime(f)
    BY <2>5, <2>9 DEF InItsTime
  <2> HIDE DEF f
  <2> QED BY <2>3, <2>10, <2>11
<1>3. SchedTyped /\ SchedInv /\ [BgNext]_bgVars =>
        [Launches =>
           LET k == <<bgCur.app, bgCur.name>>
           IN  k \in forgotten \/ InItsTime(fired[k])]_bgVars
  BY <1>2 DEF Launches
<1> QED BY <1>1, <1>3, ScheduleInitTyped, ScheduleInitSound, ScheduleTypeStep, PTL
        DEF BgSpec, OnlyFailedSavesForget

-----------------------------------------------------------------------------
(* The four stores side by side.                                            *)

\* No app has more origins than its file holds; what is being asked is one.
OriginsFit ==
  /\ origins \in [Apps -> SUBSET Origins]
  /\ \A a \in Apps : IsFiniteSet(origins[a]) /\ Cardinality(origins[a]) <= OriginMax
  /\ stage = "origin" => asked \in Origins

LEMMA OriginsInitFit == ConsentInit => OriginsFit
  BY FS_EmptySet, ConsentAssumption DEF ConsentInit, OriginsFit

LEMMA OriginsStep == ConsentInv /\ OriginsFit /\ [ConsentNext]_consentVars => OriginsFit'
<1> SUFFICES ASSUME ConsentInv, OriginsFit, [ConsentNext]_consentVars PROVE OriginsFit'
  OBVIOUS
<1>1. CASE AllowOrigin
  <2>1. stage = "origin" /\ stage' = "running" /\ session.app \in Apps /\ asked \in Origins
    BY <1>1 DEF AllowOrigin, OriginsFit, ConsentInv, Fields
  <2> DEFINE a == session.app
             os == origins[a]
  <2>2. IsFiniteSet(os) /\ os \subseteq Origins /\ Cardinality(os) <= OriginMax
    BY <2>1 DEF OriginsFit
  <2>3. CASE OriginRoom(os) /\ origins' = [origins EXCEPT ![a] = @ \union {asked}]
    <3>1. /\ IsFiniteSet(os \union {asked})
          /\ Cardinality(os \union {asked}) = IF asked \in os THEN Cardinality(os) ELSE Cardinality(os) + 1
      BY <2>2, FS_AddElement
    <3>2. Cardinality(os) \in Nat /\ Cardinality(os) < OriginMax
      BY <2>2, <2>3, FS_CardinalityType DEF OriginRoom
    <3>3. Cardinality(os \union {asked}) <= OriginMax
      BY <3>1, <3>2, ConsentAssumption
    <3>4. origins'[a] = os \union {asked} /\ \A b \in Apps : b # a => origins'[b] = origins[b]
      BY <2>1, <2>3 DEF OriginsFit
    <3>5. origins' \in [Apps -> SUBSET Origins]
      BY <2>1, <2>3 DEF OriginsFit
    <3> QED BY <2>1, <3>1, <3>3, <3>4, <3>5 DEF OriginsFit
  <2>4. CASE UNCHANGED origins
    BY <2>1, <2>4 DEF OriginsFit
  <2> QED BY <1>1, <2>3, <2>4 DEF AllowOrigin
<1>2. ASSUME NEW o \in Origins, HttpsRequest(o) PROVE OriginsFit'
  BY <1>2 DEF HttpsRequest, grantFiles, OriginsFit
<1>3. ASSUME NEW a \in Apps, NEW declared \in SUBSET Caps, NEW headless \in BOOLEAN,
             Launch(a, declared, headless)
      PROVE  OriginsFit'
  BY <1>3 DEF Launch, grantFiles, OriginsFit
<1>4. ASSUME NEW c \in Caps, EnsureCap(c) PROVE OriginsFit'
  BY <1>4 DEF EnsureCap, grantFiles, OriginsFit
<1>5. CASE End \/ Deny \/ AllowCap
  BY <1>5 DEF End, Deny, AllowCap, grantFiles, OriginsFit
<1>6. CASE PersistOpen \/ PersistPut
  BY <1>6 DEF PersistOpen, PersistPut, OriginsFit
<1>7. CASE PersistFails \/ PowerLoss
  BY <1>7 DEF PersistFails, PowerLoss, grantFiles, OriginsFit
<1>8. CASE UNCHANGED consentVars
  BY <1>8 DEF consentVars, grantFiles, OriginsFit
<1> QED BY <1>1, <1>2, <1>3, <1>4, <1>5, <1>6, <1>7, <1>8 DEF ConsentNext

\* A step is one of the store a behaviour is about.
LEMMA StepOfEachStore ==
  ASSUME [Next]_vars
  PROVE  [BgNext]_bgVars /\ [ConsentNext]_consentVars /\ [KvNext]_kvVars /\ [IpcNext]_ipcVars
  BY DEF Next, vars

\* The stores keep every variable in its type: no table, list of origins or count
\* outgrows its bound, and no two messages are one file.
THEOREM StoresKeepTypes == Spec => []TypeOK
<1>1. Init => BgInit /\ ConsentInit /\ KvInit /\ IpcInit
  BY DEF Init
<1>2. [Next]_vars => [BgNext]_bgVars /\ [ConsentNext]_consentVars /\ [KvNext]_kvVars /\ [IpcNext]_ipcVars
  BY StepOfEachStore
<1>3. SchedTyped => BgTypeOK
  <2>1. SchedTyped /\ schedFile = <<Loaded>> => schedFile[1] = Loaded
    OBVIOUS
  <2> QED BY <2>1 DEF SchedTyped, TypedTable, BgTypeOK
<1>4. ConsentInv /\ OriginsFit => ConsentTypeOK
  BY DEF ConsentInv, Fields, Sessions, OriginsFit, ConsentTypeOK
<1>5. MailInv => IpcTypeOK
  BY DEF MailInv
<1> QED BY <1>1, <1>2, <1>3, <1>4, <1>5, ScheduleInitTyped, ScheduleTypeStep, ConsentInitHasInv,
           ConsentStepKeepsInv, OriginsInitFit, OriginsStep, KvInitHasInv, KvTypeStep,
           MailInit, MailStep, PTL DEF Spec, TypeOK
=============================================================================
