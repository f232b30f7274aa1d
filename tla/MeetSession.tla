----------------------------- MODULE MeetSession -----------------------------
(***************************************************************************)
(* MeetApp: one badge leads, those that answer its PING take part, and all *)
(* of them sign one text.  run_leader and run_participant of meetapp.c,    *)
(* the rounds of meetapp_ble.c, and what the MuSig2 functions of           *)
(* jpp_crypto_core.c compute, as records: a nonce is its owner and the     *)
(* number of the owner's run, a partial signature names what it signs.     *)
(* Keys and nicknames do not change.  Any connect, read, write or save may *)
(* fail, and messages are whole (BleMessage), or cut off.                  *)
(***************************************************************************)
EXTENDS Naturals, FiniteSets

CONSTANTS
  Sessions,      \* session nonces, each with a badge of its own that leads it
  Participants,  \* badges that take part
  RunMax         \* bound on how often badges take part, all of them together

NoOne == "no one"

ASSUME MeetAssumption ==
  RunMax \in Nat /\ IsFiniteSet(Participants) /\ NoOne \notin Participants

VARIABLES
  overlap,  \* whether two leaders are ever at it at once
  lead,     \* the leader of each session
  part,     \* the participants: where run_participant is, its locals
  meetTx,       \* the value each participant last published
  meetRx,       \* what a participant has been written since and not yet taken
  signed,   \* history: the partial signatures made by participants
  saved     \* history: the proof written last

meetVars == <<overlap, lead, part, meetTx, meetRx, signed, saved>>

NoValue == [kind |-> "none"]
Unset == [of |-> NoValue]
Cut == [of |-> [kind |-> "cut"]]

NoProof == [kind |-> "none"]
Proof(s, c, f) == [kind |-> "proof", session |-> s, of |-> c, final |-> f]

Nonce(p, n) == [kind |-> "nonce", by |-> p, run |-> n]
PartSig(nonce, c) == [kind |-> "sig", nonce |-> nonce, of |-> c]

\* What a signature is made over: the text, the aggregate nonce, the key list.
Challenge(s) == [session |-> s, nonces |-> {lead[s].nonce[p] : p \in lead[s].peers}]
Final(s) == [of |-> Challenge(s), sigs |-> {lead[s].sig[p] : p \in lead[s].peers}]

\* jpp_crypto_musig2_verify: the sum is over all of the list, and nothing else.
Verifies(f, c) == f.of = c /\ f.sigs = {PartSig(n, c) : n \in c.nonces}

Advertises(p) == part[p].stage # "idle"

\* Locals, before and after a run.
Leader(stage) ==
  [stage |-> stage, peers |-> {}, todo |-> {}, asked |-> NoOne,
   nonce |-> [p \in Participants |-> NoValue],
   sig |-> [p \in Participants |-> NoValue]]
Away(n) == [stage |-> "idle", run |-> n, session |-> NoValue, nonce |-> NoValue, ask |-> NoValue]

MeetInit ==
  /\ overlap \in BOOLEAN
  /\ lead = [s \in Sessions |-> Leader("off")]
  /\ part = [p \in Participants |-> Away(0)]
  /\ meetTx = [p \in Participants |-> NoValue]
  /\ meetRx = [p \in Participants |-> Unset]
  /\ signed = {} /\ saved = NoProof

-----------------------------------------------------------------------------
(* Taking part.                                                            *)

\* The runs there have been, within the bound.
Runs == Cardinality({r \in Participants \X (1..RunMax) : r[2] <= part[r[1]].run})

OldNonce(p) == Nonce(p, 1)
FreshNonce(p) == Nonce(p, part[p].run + 1)

\* A PING is heard; the nonce is made and published, the receive buffer
\* cleared, and the badge answers PONG and waits for round 1.5.
Join(p, s) ==
  /\ part[p].stage = "idle" /\ Runs < RunMax
  /\ lead[s].stage = "discover"
  /\ part' = [part EXCEPT ![p] = [stage |-> "waiting", run |-> @.run + 1, session |-> s,
                                  nonce |-> FreshNonce(p), ask |-> NoValue]]
  /\ meetTx' = [meetTx EXCEPT ![p] = FreshNonce(p)]
  /\ meetRx' = [meetRx EXCEPT ![p] = Unset]
  /\ UNCHANGED <<overlap, lead, signed, saved>>

Sign(p) ==
  /\ part[p].stage = "computing"
  /\ part' = [part EXCEPT ![p].stage = "signed"]
  /\ LET sig == PartSig(part[p].nonce, part[p].ask) IN
     /\ meetTx' = [meetTx EXCEPT ![p] = sig]
     /\ signed' = signed \cup {sig}
  /\ UNCHANGED <<overlap, lead, meetRx, saved>>

Leave(p) ==
  /\ part' = [part EXCEPT ![p] = Away(@.run)]
  /\ meetRx' = [meetRx EXCEPT ![p] = Unset]
  /\ UNCHANGED <<overlap, lead, meetTx, signed>>

\* The proof is rebuilt from the session nonce of the PING and the rest of
\* round 1.5, and is not checked.  A DATA frame of a round 1.5 begins like a
\* final signature and may be long enough to be taken for one.
TakeFinal(p) ==
  /\ part[p].stage = "signed" /\ meetRx[p] # Unset
  /\ Leave(p)
  /\ \/ saved' = Proof(part[p].session, part[p].ask, meetRx[p])
     \/ UNCHANGED saved

TimeOut(p) ==
  /\ part[p].stage \in {"waiting", "signed"}
  /\ part[p].stage = "signed" => meetRx[p] = Unset
  /\ Leave(p)
  /\ UNCHANGED saved

-----------------------------------------------------------------------------
(* Leading.                                                                *)

Initiate(s) ==
  /\ lead[s].stage = "off"
  /\ overlap \/ \A t \in Sessions : lead[t].stage \in {"off", "over"}
  /\ lead' = [lead EXCEPT ![s].stage = "discover"]
  /\ UNCHANGED <<overlap, part, meetTx, meetRx, signed, saved>>

AnswersAny(p, s) == TRUE
Answers(p, s) == part[p].session = s

\* meetapp_ble_scan_pongs.
FindPeer(s, p) ==
  /\ lead[s].stage = "discover" /\ p \notin lead[s].peers
  /\ Advertises(p) /\ Answers(p, s)
  /\ lead' = [lead EXCEPT ![s].peers = @ \cup {p}]
  /\ UNCHANGED <<overlap, part, meetTx, meetRx, signed, saved>>

\* Nobody came, or the user cancels while looking or when asked to go on.
GiveUp(s) ==
  /\ lead[s].stage = "discover"
  /\ lead' = [lead EXCEPT ![s] = Leader("over")]
  /\ UNCHANGED <<overlap, part, meetTx, meetRx, signed, saved>>

NextStage(s, stage) ==
  lead' = [lead EXCEPT ![s].stage = stage, ![s].todo = lead[s].peers]

Proceed(s) ==
  /\ lead[s].stage = "discover" /\ lead[s].peers # {}
  /\ NextStage(s, "gather")
  /\ UNCHANGED <<overlap, part, meetTx, meetRx, signed, saved>>

\* Round A reads a nonce; a badge that cannot be read is passed over.
Gather(s, p) ==
  /\ lead[s].stage = "gather" /\ p \in lead[s].todo
  /\ \E n \in {NoValue} \cup {v \in {meetTx[p]} : Advertises(p) /\ v.kind = "nonce"} :
       lead' = [lead EXCEPT ![s].todo = @ \ {p}, ![s].nonce[p] = n]
  /\ UNCHANGED <<overlap, part, meetTx, meetRx, signed, saved>>

\* A key of zeros makes jpp_crypto_musig2_partial_sign fail, which ends the run.
BeginSign(s) ==
  /\ lead[s].stage = "gather" /\ lead[s].todo = {}
  /\ IF \E p \in lead[s].peers : lead[s].nonce[p] = NoValue
     THEN lead' = [lead EXCEPT ![s] = Leader("over")]
     ELSE NextStage(s, "sign")
  /\ UNCHANGED <<overlap, part, meetTx, meetRx, signed, saved>>

\* Round 1.5 reaches p: what it waits for, or frames it takes for another thing.
Asked(p, c) ==
  IF part[p].stage = "waiting"
  THEN part' = [part EXCEPT ![p].stage = "computing", ![p].ask = c] /\ UNCHANGED meetRx
  ELSE meetRx' = [meetRx EXCEPT ![p] = Cut] /\ UNCHANGED part

\* Only some of its frames do.
AskedInPart(p) ==
  /\ meetRx' = IF part[p].stage = "waiting" THEN meetRx ELSE [meetRx EXCEPT ![p] = Cut]
  /\ UNCHANGED part

\* Round B sends; a badge that cannot be reached, or whose link ends before the
\* last answer, is passed over without a signature.
Request(s, p) ==
  /\ lead[s].stage = "sign" /\ p \in lead[s].todo /\ lead[s].asked = NoOne
  /\ \/ Advertises(p) /\ Asked(p, Challenge(s)) /\ lead' = [lead EXCEPT ![s].asked = p]
     \/ /\ \/ UNCHANGED <<part, meetRx>>
           \/ Advertises(p) /\ (Asked(p, Challenge(s)) \/ AskedInPart(p))
        /\ lead' = [lead EXCEPT ![s].todo = @ \ {p}]
  /\ UNCHANGED <<overlap, meetTx, signed, saved>>

\* 800 ms later the value is read, over the same link.
ReadSig(s) ==
  /\ lead[s].stage = "sign" /\ lead[s].asked # NoOne
  /\ LET p == lead[s].asked IN
     \E v \in {NoValue} \cup {v \in {meetTx[p]} : v.kind = "sig"} :
       lead' = [lead EXCEPT ![s].todo = @ \ {p}, ![s].asked = NoOne, ![s].sig[p] = v]
  /\ UNCHANGED <<overlap, part, meetTx, meetRx, signed, saved>>

BeginDeliver(s) ==
  /\ lead[s].stage = "sign" /\ lead[s].todo = {}
  /\ NextStage(s, "deliver")
  /\ UNCHANGED <<overlap, part, meetTx, meetRx, signed, saved>>

\* Round C, whose results are ignored.  A badge still waiting for round 1.5
\* drops it: it looks like data without a beginning.
DeliverFinal(s, p) ==
  /\ lead[s].stage = "deliver" /\ p \in lead[s].todo
  /\ lead' = [lead EXCEPT ![s].todo = @ \ {p}]
  /\ \/ part[p].stage \in {"computing", "signed"} /\ meetRx' = [meetRx EXCEPT ![p] = Final(s)]
     \/ UNCHANGED meetRx
  /\ UNCHANGED <<overlap, part, meetTx, signed, saved>>

SaveProof(s) ==
  /\ lead[s].stage = "deliver" /\ lead[s].todo = {}
  /\ lead' = [lead EXCEPT ![s] = Leader("over")]
  /\ \/ saved' = Proof(s, Challenge(s), Final(s))
     \/ UNCHANGED saved
  /\ UNCHANGED <<overlap, part, meetTx, meetRx, signed>>

-----------------------------------------------------------------------------

MeetNext ==
  \/ \E s \in Sessions, p \in Participants :
       Join(p, s) \/ FindPeer(s, p) \/ Gather(s, p) \/ Request(s, p) \/ DeliverFinal(s, p)
  \/ \E p \in Participants : Sign(p) \/ TakeFinal(p) \/ TimeOut(p)
  \/ \E s \in Sessions :
       \/ Initiate(s) \/ GiveUp(s) \/ Proceed(s) \/ BeginSign(s) \/ ReadSig(s)
       \/ BeginDeliver(s) \/ SaveProof(s)

MeetSpec == MeetInit /\ [][MeetNext]_meetVars

MeetTypeOK ==
  /\ \A s \in Sessions :
       /\ lead[s].stage \in {"off", "discover", "gather", "sign", "deliver", "over"}
       /\ lead[s].todo \subseteq lead[s].peers /\ lead[s].peers \subseteq Participants
       /\ lead[s].asked \in lead[s].todo \cup {NoOne}
  /\ \A p \in Participants :
       /\ part[p].stage \in {"idle", "waiting", "computing", "signed"}
       /\ part[p].run \in 0..RunMax
       /\ meetTx[p].kind \in {"none", "nonce", "sig"}

(* No nonce is ever put under two different texts, which would give the    *)
(* secret key away, whichever badges lead, time out and start again        *)
(* (nonce_gen in run_participant, meetapp.c).                              *)
NonceSignsOnce == \A a, b \in signed : a.nonce = b.nonce => a = b

(* While one badge leads at a time: what is saved is the text the leader   *)
(* signed, under a signature of that text, and one that verifies when each *)
(* of the partial signatures came in; a session nonce never ends up under  *)
(* the signature of another session (the filter of meetapp_ble_scan_pongs, *)
(* the rebuilt text of run_participant).                                   *)
SavedTextIsSigned ==
  ~overlap /\ saved # NoProof =>
    /\ saved.session = saved.of.session /\ saved.final.of = saved.of
    /\ NoValue \notin saved.final.sigs => Verifies(saved.final, saved.of)

(* run_participant: "makes the rebuilt message hash to exactly what was    *)
(* signed, so the saved proof verifies".                                   *)
SavedProofVerifies ==
  saved # NoProof =>
    saved.session = saved.of.session /\ Verifies(saved.final, saved.of)
=============================================================================
