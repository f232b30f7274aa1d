------------------------------ MODULE Consent ------------------------------
(***************************************************************************)
(* Capability consent: what an app's session may use, the prompts at first  *)
(* use, the grants kept in /data/grants across launches and restarts, and   *)
(* the per-origin grants of https.request.  Every call on the file system   *)
(* is a step; the power may fail, or the session be torn down by an         *)
(* ejected card, while a prompt waits.                                      *)
(***************************************************************************)
EXTENDS AppIds, Naturals, FiniteSets

CONSTANTS Tier1, Tier2,   \* capabilities prompted once, and once per session
          Https,          \* "https.request", of tier 1
          Origins,
          OriginMax       \* origins that fit ORIGIN_GRANTS_MAX_BYTES

None == "none"

ASSUME ConsentAssumption ==
  /\ Tier1 \intersect Tier2 = {} /\ Https \in Tier1
  /\ OriginMax \in Nat
  /\ None \notin Apps

Caps == Tier1 \union Tier2

VARIABLES grants,    \* the capabilities in each app's <app_id>.json
          origins,   \* the origins in each app's <app_id>.origins
          session,   \* the app running, its capabilities, whether headless
          stage,     \* what its task is doing
          asked,     \* the capability or origin in question
          allowed,   \* tier 1 capabilities the user ever allowed each app
          saved,     \* those persisted, and not lost with the power since
          here       \* capabilities allowed in this session

grantFiles == <<grants, origins>>
history == <<allowed, saved, here>>
consentVars == <<grantFiles, session, stage, asked, history>>

NoSession == [app |-> None, headless |-> FALSE, caller |-> {}, pending |-> {}]

ConsentInit ==
  /\ grants = [a \in Apps |-> {}] /\ origins = [a \in Apps |-> {}]
  /\ session = NoSession /\ stage = "idle" /\ asked = None
  /\ allowed = [a \in Apps |-> {}] /\ saved = [a \in Apps |-> {}]
  /\ here = {}

----------------------------------------------------------------------------
DeclaredAtOnce(a, declared) == declared

\* apply_consent: the persisted tier 1 capabilities are granted at launch, the
\* rest is deferred to first use.
GrantedAtLaunch(a, declared) == declared \intersect Tier1 \intersect grants[a]

Launch(a, declared, headless) ==
  /\ stage = "idle"
  /\ session' = [app |-> a, headless |-> headless,
                 caller |-> GrantedAtLaunch(a, declared),
                 pending |-> declared \ GrantedAtLaunch(a, declared)]
  /\ stage' = "running"
  /\ here' = {}
  /\ UNCHANGED <<grantFiles, asked, allowed, saved>>

\* The session ends, or is torn down while a prompt waits for a key.
End ==
  /\ stage \in {"running", "prompt", "origin"}
  /\ session' = NoSession /\ stage' = "idle" /\ asked' = None
  /\ UNCHANGED <<grantFiles, history>>

----------------------------------------------------------------------------
\* jpp_sdk_ensure_cap: a call or request_cap needs a capability the session
\* does not have.  One that is not declared, or any one in a headless run, is
\* denied without a prompt and leaves everything as it is.

MayPrompt == ~session.headless

EnsureCap(c) ==
  /\ stage = "running"
  /\ c \in session.pending \ session.caller
  /\ MayPrompt
  /\ stage' = "prompt" /\ asked' = c
  /\ UNCHANGED <<grantFiles, session, history>>

Deny ==
  /\ stage \in {"prompt", "origin"}
  /\ stage' = "running" /\ asked' = None
  /\ UNCHANGED <<grantFiles, session, history>>

\* The capability joins the session; a tier 1 capability is persisted first.
AllowCap ==
  /\ stage = "prompt"
  /\ here' = here \union {asked}
  /\ IF asked \in Tier1
     THEN /\ allowed' = [allowed EXCEPT ![session.app] = @ \union {asked}]
          /\ stage' = "persist"
          /\ UNCHANGED <<session, asked>>
     ELSE /\ session' = [session EXCEPT !.caller = @ \union {asked}]
          /\ stage' = "running" /\ asked' = None
          /\ UNCHANGED allowed
  /\ UNCHANGED <<grantFiles, saved>>

OnlyNew(old, c) == {c}

\* grant_persist rebuilds the file from what it reads in it.
Rebuilt(old, c) == old \union {c}

\* fopen "w" empties the file; what to write was read before.
PersistOpen ==
  /\ stage = "persist"
  /\ stage' = "persisting"
  /\ asked' = [cap |-> asked, list |-> Rebuilt(grants[session.app], asked)]
  /\ grants' = [grants EXCEPT ![session.app] = {}]
  /\ UNCHANGED <<origins, session, history>>

PersistPut ==
  /\ stage = "persisting"
  /\ grants' = [grants EXCEPT ![session.app] = asked.list]
  /\ saved' = [saved EXCEPT ![session.app] = @ \union {asked.cap}]
  /\ session' = [session EXCEPT !.caller = @ \union {asked.cap}]
  /\ stage' = "running" /\ asked' = None
  /\ UNCHANGED <<origins, allowed, here>>

\* fopen fails: logged, and the capability is the session's all the same.
PersistFails ==
  /\ MayFail /\ stage = "persist"
  /\ session' = [session EXCEPT !.caller = @ \union {asked}]
  /\ stage' = "running" /\ asked' = None
  /\ UNCHANGED <<grantFiles, history>>

----------------------------------------------------------------------------
\* jpp_sdk_https_request past its capability check: jpp_app_origin_prompt.
HttpsRequest(o) ==
  /\ stage = "running" /\ Https \in session.caller
  /\ o \notin origins[session.app]
  /\ MayPrompt
  /\ stage' = "origin" /\ asked' = o
  /\ UNCHANGED <<grantFiles, session, history>>


\* The size of the file has to stay within ORIGIN_GRANTS_MAX_BYTES.
OriginRoom(os) == Cardinality(os) < OriginMax

\* origin_persist appends a line, unless the file is full or does not open.
AllowOrigin ==
  /\ stage = "origin"
  /\ \/ /\ OriginRoom(origins[session.app])
        /\ origins' = [origins EXCEPT ![session.app] = @ \union {asked}]
     \/ /\ MayFail \/ ~OriginRoom(origins[session.app])
        /\ UNCHANGED origins
  /\ stage' = "running" /\ asked' = None
  /\ UNCHANGED <<grants, session, history>>

PowerLoss ==
  /\ MayFail /\ stage # "idle"
  /\ saved' = IF stage = "persisting" THEN [saved EXCEPT ![session.app] = {}] ELSE saved
  /\ session' = NoSession /\ stage' = "idle" /\ asked' = None
  /\ UNCHANGED <<grantFiles, allowed, here>>

ConsentNext ==
  \/ \E a \in Apps, declared \in SUBSET Caps, headless \in BOOLEAN :
       Launch(a, declared, headless)
  \/ \E c \in Caps : EnsureCap(c)
  \/ \E o \in Origins : HttpsRequest(o)
  \/ End \/ Deny \/ AllowCap \/ PersistOpen \/ PersistPut
  \/ PersistFails \/ AllowOrigin \/ PowerLoss

ConsentSpec == ConsentInit /\ [][ConsentNext]_consentVars

----------------------------------------------------------------------------
ConsentTypeOK ==
  /\ grants \in [Apps -> SUBSET Tier1] /\ origins \in [Apps -> SUBSET Origins]
  /\ session \in [app : Apps \union {None}, headless : BOOLEAN,
                  caller : SUBSET Caps, pending : SUBSET Caps]
  /\ stage \in {"idle", "running", "prompt", "persist", "persisting", "origin"}
  /\ \A a \in Apps : Cardinality(origins[a]) <= OriginMax

\* Whatever an app is launched with or gains, the user allowed that app: a tier
\* 1 capability in this or an earlier session, a tier 2 capability in this one.
OnlyAllowedCaps ==
  stage # "idle" =>
    /\ session.caller \intersect Tier1 \subseteq allowed[session.app]
    /\ session.caller \intersect Tier2 \subseteq here

HeadlessGainsNothing ==
  session.headless /\ session'.app = session.app
    => session'.caller = session.caller /\ UNCHANGED grantFiles

NotAskedAgain ==
  \A c \in Tier1 : EnsureCap(c) => c \notin saved[session.app]

\* A headless run ends with the capabilities it was launched with, and nothing
\* it calls writes a grant: jpp_app_consent_prompt and jpp_app_origin_prompt
\* refuse while one is active.  And docs/manifest.md: a tier 1 grant is saved
\* "and the app is not asked again on future launches": jpp_sdk_ensure_cap
\* prompts for no capability whose grant was written, whichever are written
\* after it; only a power loss while grant_persist writes the file again takes
\* what was in it.
GrantsAreTheUsers == [][HeadlessGainsNothing /\ NotAskedAgain]_consentVars
=============================================================================
