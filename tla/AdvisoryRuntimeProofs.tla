------------------------ MODULE AdvisoryRuntimeProofs -----------------------
(***************************************************************************)
(* Proofs about AdvisoryRuntime for any episodes, commands, releases and   *)
(* delays: a sequence names one request and never rolls back, what the     *)
(* service stores can be loaded again, the request shows the band, and a   *)
(* reset has one result, CLEARED only when the Gateway confirmed it.       *)
(* And about the condition model that apply_episode runs                   *)
(* (ConditionHistory): its counters give the band its history gives.       *)
(***************************************************************************)
EXTENDS AdvisoryRuntime, ConditionHistory, SequenceTheorems, TLAPS

Results == {"CLEARED", "REJECTED", "FAILED"}

Resets == [command: Commands, version: Versions, ack: Results \cup {None},
           previous: Seq(Ids) \cup {None}, delivered: BOOLEAN]

Documents == [seq: Nat, model: Models \cup {None}, mirror: Nat, req: Requests \cup {None},
              gw: SUBSET GatewayStates, reset: Resets \cup {None}]

Statuses == [seq: Nat, state: GatewayStates]

TypeOK ==
  /\ version \in Versions \cup {None}
  /\ wire \subseteq Requests /\ target \in Nat /\ posted \subseteq Commands \X Results
  /\ status = None \/ status \in Statuses

(* The fields of a document, sequence a, model m with its mirrored         *)
(* sequence i, request q and reset x, go together: the document can be     *)
(* loaded, its request is older than its sequence and shows the band, and  *)
(* a pending reset owns the request.                                       *)
Matching(a, m, i, q, x) ==
  /\ q # None => q.seq < a
  /\ m # None => i = a /\ (q = None => m.band = Good) /\ (q # None => q.band = m.band)
  /\ m = None => (q # None => q.band = Good)
  /\ x # None => (x.delivered => x.ack # None)
  /\ x # None /\ x.ack = None => m = None /\ q # None /\ q.decision = x.command

Sound(s) == s \in Documents /\ Matching(s.seq, s.model, s.mirror, s.req, s.reset)

(* A request q against the requests W that were sent and the sequence T of *)
(* the one that the broker holds: none is newer, and only q has its number. *)
SentBefore(q, W, T) ==
  /\ \A r \in W : q \in Requests /\ r.seq <= q.seq /\ (r.seq = q.seq => r = q)
  /\ T = 0 \/ (q \in Requests /\ T <= q.seq)

(* A reset x against the confirmed sequences C and the posted results P:   *)
(* CLEARED was confirmed, and a result that was posted is its result.      *)
ResultKnown(x, W, C, P) ==
  /\ x # None /\ x.ack = "CLEARED" => \E r \in W : r.seq \in C /\ r.decision = x.command
  /\ \A p \in P : x # None /\ x.command = p[1] => x.ack = p[2]

(* What may replace a document: the same request or a newer one, and the   *)
(* same result of the same command.                                        *)
Newer(q, r) == r = q \/ (r \in Requests /\ (q \in Requests => q.seq < r.seq))

SameResult(x, y) ==
  x # None /\ x.ack # None /\ y # None /\ y.command = x.command => y.ack = x.ack

Follows(s, u) == Newer(s.req, u.req) /\ SameResult(s.reset, u.reset)

Consistent(s) == SentBefore(s.req, wire, target) /\ ResultKnown(s.reset, wire, cleared, posted)

DocumentInv == Sound(st) /\ Consistent(st)

(* The document of a commit that threw may come back at the next start. *)
UncertainInv ==
  \/ uncertain = None
  \/ Sound(uncertain) /\ Consistent(uncertain) /\ Follows(st, uncertain)

BoundTo(x) == Up /\ x # None /\ x.ack = None => x.version = version

(* A CLEARED that is on its way answers a request that was sent. *)
StatusInv ==
  status # None /\ status.state = "CLEARED" =>
    \E r \in wire : r.seq = status.seq /\ r.seq \in cleared

AInv == /\ TypeOK /\ DocumentInv /\ UncertainInv /\ BoundTo(st.reset) /\ StatusInv
        /\ SequenceNamesOneRequest /\ OneResultPerCommand

-----------------------------------------------------------------------------
(* Requests and resets. *)

LEMMA FreshRequest ==
  ASSUME NEW W, W \subseteq Requests, NEW T \in Nat, NEW q, SentBefore(q, W, T),
         NEW n \in Nat, q \in Requests => q.seq < n,
         NEW r \in Requests, r.seq = n
  PROVE  SentBefore(r, W, T) /\ Newer(q, r)
BY DEF SentBefore, Newer, Requests

(* Sending q again, or for the first time, is consistent with q and with   *)
(* whatever may replace it.                                                *)
LEMMA SentNow ==
  ASSUME NEW W, W \subseteq Requests, NEW T \in Nat, NEW q \in Requests, SentBefore(q, W, T),
         NEW u, SentBefore(u, W, T), Newer(q, u)
  PROVE  /\ SentBefore(u, W \cup {q}, q.seq) /\ T <= q.seq /\ q.seq \in Nat
         /\ \A r \in W : r.seq = q.seq => r = q
<1>1. q.seq \in Nat /\ T <= q.seq
  BY DEF SentBefore, Requests
<1>2. \A r \in W : r.seq = q.seq => r = q
  BY DEF SentBefore
<1>3. SentBefore(u, W \cup {q}, q.seq)
  <2>1. CASE u = q
    BY <2>1, <1>1 DEF SentBefore
  <2>2. CASE u \in Requests /\ q.seq < u.seq
    <3>1. u.seq \in Nat /\ u.seq # q.seq /\ q.seq <= u.seq
      BY <1>1, <2>2 DEF Requests
    <3> QED BY <2>2, <3>1 DEF SentBefore
  <2> QED BY <2>1, <2>2 DEF Newer
<1> QED BY <1>1, <1>2, <1>3

LEMMA NewerSame == \A q, x : Newer(q, q) /\ SameResult(x, x)
BY DEF Newer, SameResult

(* More requests and confirmations take nothing back. *)
LEMMA ResultStays ==
  ASSUME NEW x, NEW W, NEW V, NEW C, NEW D, NEW P, W \subseteq V, C \subseteq D,
         ResultKnown(x, W, C, P)
  PROVE  ResultKnown(x, V, D, P)
BY DEF ResultKnown

(* A pending reset gets its result, which nobody has seen yet. *)
LEMMA ResultGiven ==
  ASSUME NEW x \in Resets, x # None, x.ack = None, NEW W, NEW C, NEW P, P \subseteq Commands \X Results,
         ResultKnown(x, W, C, P), NEW a \in Results,
         a = "CLEARED" => \E r \in W : r.seq \in C /\ r.decision = x.command,
         NEW y, y = [x EXCEPT !.ack = a]
  PROVE  /\ y \in Resets /\ y.command = x.command /\ y.version = x.version /\ y.ack = a
         /\ y.delivered = x.delivered /\ a # None
         /\ ResultKnown(y, W, C, P) /\ SameResult(x, y)
<1>1. y \in Resets /\ y.command = x.command /\ y.version = x.version /\ y.ack = a /\ y.delivered = x.delivered
  BY DEF Resets
<1>2. a # None /\ None \notin Results
  BY TimingAssumption DEF Results
<1>3. ASSUME NEW p \in P, x.command = p[1] PROVE FALSE
  <2>1. p[2] \in Results
    OBVIOUS
  <2> QED BY <1>2, <1>3, <2>1 DEF ResultKnown
<1> QED BY <1>1, <1>2, <1>3 DEF ResultKnown, SameResult

-----------------------------------------------------------------------------
(* Documents. *)

LEMMA SoundMade ==
  ASSUME NEW a \in Nat, NEW m \in Models \cup {None}, NEW i \in Nat,
         NEW q \in Requests \cup {None}, NEW g \in SUBSET GatewayStates, NEW x \in Resets \cup {None},
         Matching(a, m, i, q, x),
         NEW k, k = [seq |-> a, model |-> m, mirror |-> i, req |-> q, gw |-> g, reset |-> x]
  PROVE  Sound(k) /\ k.req = q /\ k.reset = x
<1>1. k \in Documents /\ k.seq = a /\ k.model = m /\ k.mirror = i /\ k.req = q /\ k.reset = x
  BY DEF Documents
<1> QED BY <1>1 DEF Sound

LEMMA SoundFields ==
  ASSUME NEW s, Sound(s)
  PROVE  /\ s \in Documents /\ s.seq \in Nat /\ s.model \in Models \cup {None} /\ s.mirror \in Nat
         /\ s.req \in Requests \cup {None} /\ s.gw \in SUBSET GatewayStates
         /\ s.reset \in Resets \cup {None}
         /\ s = [seq |-> s.seq, model |-> s.model, mirror |-> s.mirror, req |-> s.req,
                 gw |-> s.gw, reset |-> s.reset]
BY DEF Sound, Documents

(* The model after an episode. *)
LEMMA AssessType ==
  ASSUME NEW m \in [band: Bands, better: Bands, count: Int, last: Ids \cup {NoId}, recent: Seq(Ids)],
         NEW raw \in RawBands, NEW id \in Ids
  PROVE  Assess(m, raw, id) \in Models
<1>1. PICK b : b = Banded(m, raw)
  OBVIOUS
<1>2. b \in [band: RawBands, better: Bands, count: Int, last: Ids \cup {NoId}, recent: Seq(Ids)]
  <2>1. PICK n \in Int : n = IF m.better = raw THEN m.count + 1 ELSE 1
    OBVIOUS
  <2>2. NotEvaluated \in Bands /\ RawBands \subseteq Bands /\ \A x \in Bands : x # NotEvaluated => x \in RawBands
    BY DEF Bands
  <2>3. \E x \in RawBands, y \in Bands, z \in Int : b = [m EXCEPT !.band = x, !.better = y, !.count = z]
    <3>0. 0 \in Int
      OBVIOUS
    <3>1. CASE b = [m EXCEPT !.band = raw, !.better = NotEvaluated, !.count = 0]
      BY <2>2, <3>0, <3>1
    <3>2. CASE m.band # NotEvaluated /\ b = [m EXCEPT !.better = NotEvaluated, !.count = 0]
      <4>1. m.band \in RawBands /\ b = [m EXCEPT !.band = m.band, !.better = NotEvaluated, !.count = 0]
        BY <2>2, <3>2
      <4> QED BY <2>2, <3>0, <4>1
    <3>3. CASE m.band # NotEvaluated /\ b = [m EXCEPT !.better = raw, !.count = n]
      <4>1. m.band \in RawBands /\ b = [m EXCEPT !.band = m.band, !.better = raw, !.count = n]
        BY <2>2, <3>3
      <4> QED BY <2>1, <2>2, <4>1
    <3> QED BY <1>1, <2>1, <3>1, <3>2, <3>3 DEF Banded
  <2> QED BY <2>3
<1>3. PICK w : w = Remember(m.recent, id)
  OBVIOUS
<1>4. w \in Seq(Ids)
  <2>1. m.recent \in Seq(Ids)
    OBVIOUS
  <2>2. PICK r : r = Append(m.recent, id)
    OBVIOUS
  <2>3. r \in Seq(Ids) /\ r # <<>>
    BY <2>1, <2>2
  <2>4. Tail(r) \in Seq(Ids)
    BY <2>3
  <2> QED BY <1>3, <2>2, <2>3, <2>4 DEF Remember
<1>5. Assess(m, raw, id) = [b EXCEPT !.last = id, !.recent = w]
  BY <1>1, <1>3 DEF Assess
<1> QED BY <1>2, <1>4, <1>5 DEF Models

LEMMA BaseType ==
  ASSUME NEW s, Sound(s)
  PROVE  Base(s) \in [band: Bands, better: Bands, count: Int, last: Ids \cup {NoId}, recent: Seq(Ids)]
<1>1. s.model \in Models \cup {None} /\ s.reset \in Resets \cup {None}
  BY SoundFields
<1>2. CASE s.model # None
  BY <1>1, <1>2 DEF Base, Models, Bands
<1>3. CASE s.model = None
  <2>1. PICK c : c = Consumed(s)
    OBVIOUS
  <2>2. c \in Seq(Ids)
    <3>1. <<>> \in Seq(Ids)
      BY EmptySeq, Zenon
    <3>2. s.reset # None => s.reset.previous \in Seq(Ids) \cup {None}
      BY <1>1 DEF Resets
    <3> QED BY <2>1, <3>1, <3>2 DEF Consumed
  <2>3. Base(s) = [FreshModel EXCEPT !.recent = c]
    BY <1>3, <2>1 DEF Base
  <2>4. [FreshModel EXCEPT !.recent = c] =
          [band |-> -1, better |-> -1, count |-> 0, last |-> NoId, recent |-> c]
    BY DEF FreshModel, NotEvaluated
  <2>5. -1 \in Bands
    BY DEF Bands, NotEvaluated
  <2> QED BY <2>2, <2>3, <2>4, <2>5
<1> QED BY <1>2, <1>3

-----------------------------------------------------------------------------
(* One commit: the new document takes effect, and its request may go out   *)
(* at once, or the commit throws and the document may come back later.     *)

Keeps(k) == Sound(k) /\ Consistent(k) /\ Follows(st, k) /\ BoundTo(k.reset)

LEMMA Committed ==
  ASSUME AInv, NEW k, Keeps(k),
         \/ /\ st' = k /\ uncertain' = None
            /\ \/ UNCHANGED <<wire, target>>
               \/ k.req \in Requests /\ wire' = wire \cup {k.req} /\ target' = k.req.seq
         \/ uncertain' \in {k, uncertain} /\ st' = st /\ UNCHANGED <<wire, target>>,
         UNCHANGED <<version, status, cleared, posted>>
  PROVE  AInv' /\ target' >= target
<1>1. /\ TypeOK /\ SequenceNamesOneRequest /\ OneResultPerCommand /\ StatusInv
      /\ wire \subseteq Requests /\ target \in Nat
  BY DEF AInv, TypeOK
<1>2. CASE UNCHANGED <<wire, target>>
  <2>1. TypeOK' /\ SequenceNamesOneRequest' /\ OneResultPerCommand' /\ StatusInv' /\ target' >= target
    BY <1>1, <1>2 DEF TypeOK, SequenceNamesOneRequest, OneResultPerCommand, StatusInv
  <2>2. CASE st' = k /\ uncertain' = None
    <3>1. DocumentInv' /\ UncertainInv'
      BY <1>2, <2>2 DEF Keeps, DocumentInv, UncertainInv, Consistent
    <3>2. BoundTo(st.reset)'
      BY <2>2 DEF Keeps, BoundTo, Up
    <3> QED BY <2>1, <3>1, <3>2 DEF AInv
  <2>3. CASE uncertain' \in {k, uncertain} /\ st' = st
    <3>1. DocumentInv' /\ UncertainInv'
      BY <1>2, <2>3 DEF AInv, Keeps, DocumentInv, UncertainInv, Consistent
    <3>2. BoundTo(st.reset)'
      BY <2>3 DEF AInv, BoundTo, Up
    <3> QED BY <2>1, <3>1, <3>2 DEF AInv
  <2> QED BY <1>2, <2>2, <2>3
<1>3. CASE /\ st' = k /\ uncertain' = None
           /\ k.req \in Requests /\ wire' = wire \cup {k.req} /\ target' = k.req.seq
  <2>1. PICK q \in Requests : q = k.req
    BY <1>3
  <2>2. SentBefore(q, wire, target)
    BY <2>1 DEF Keeps, Consistent
  <2>3. /\ SentBefore(q, wire \cup {q}, q.seq) /\ target <= q.seq /\ q.seq \in Nat
        /\ \A r \in wire : r.seq = q.seq => r = q
    BY <1>1, <2>2, SentNow, NewerSame
  <2>4. ResultKnown(k.reset, wire \cup {q}, cleared, posted)
    BY ResultStays DEF Keeps, Consistent
  <2>5. DocumentInv' /\ UncertainInv'
    BY <1>3, <2>1, <2>3, <2>4 DEF Keeps, DocumentInv, UncertainInv, Consistent
  <2>6. BoundTo(st.reset)'
    BY <1>3 DEF Keeps, BoundTo, Up
  <2>7. TypeOK' /\ target' >= target
    BY <1>1, <1>3, <2>1, <2>3 DEF TypeOK
  <2>8. SequenceNamesOneRequest'
    BY <1>1, <1>3, <2>1, <2>3 DEF SequenceNamesOneRequest
  <2>9. OneResultPerCommand' /\ StatusInv'
    BY <1>1, <1>3 DEF OneResultPerCommand, StatusInv
  <2> QED BY <2>5, <2>6, <2>7, <2>8, <2>9 DEF AInv
<1> QED BY <1>2, <1>3

(* The current request goes out again; what a start may find instead of    *)
(* the document stays consistent.                                          *)
LEMMA Resent ==
  ASSUME AInv, st.req \in Requests, Emit(st.req),
         UNCHANGED <<st, uncertain, version, status, cleared, posted>>
  PROVE  AInv' /\ target' >= target
<1>1. /\ TypeOK /\ SequenceNamesOneRequest /\ OneResultPerCommand /\ StatusInv
      /\ wire \subseteq Requests /\ target \in Nat /\ DocumentInv /\ UncertainInv
  BY DEF AInv, TypeOK
<1>2. CASE UNCHANGED <<wire, target>>
  BY <1>1, <1>2 DEF AInv, TypeOK, SequenceNamesOneRequest, OneResultPerCommand, StatusInv,
                    DocumentInv, UncertainInv, Consistent, BoundTo, Up
<1>3. CASE wire' = wire \cup {st.req} /\ target' = st.req.seq
  <2>1. PICK q \in Requests : q = st.req
    OBVIOUS
  <2>2. SentBefore(q, wire, target)
    BY <1>1, <2>1 DEF DocumentInv, Consistent
  <2>3. /\ SentBefore(q, wire \cup {q}, q.seq) /\ target <= q.seq /\ q.seq \in Nat
        /\ \A r \in wire : r.seq = q.seq => r = q
    BY <1>1, <2>2, SentNow, NewerSame
  <2>4. \A x : ResultKnown(x, wire, cleared, posted) => ResultKnown(x, wire \cup {q}, cleared, posted)
    BY ResultStays
  <2>5. DocumentInv'
    BY <1>1, <1>3, <2>1, <2>3, <2>4 DEF DocumentInv, Consistent
  <2>6. UncertainInv'
    <3>1. CASE uncertain = None
      BY <3>1 DEF UncertainInv
    <3>2. CASE uncertain # None
      <4>1. Sound(uncertain) /\ Consistent(uncertain) /\ Follows(st, uncertain)
        BY <1>1, <3>2 DEF UncertainInv
      <4>2. PICK u : u = uncertain.req
        OBVIOUS
      <4>3. SentBefore(u, wire, target) /\ Newer(q, u)
        BY <2>1, <4>1, <4>2 DEF Consistent, Follows
      <4>4. SentBefore(u, wire \cup {q}, q.seq)
        BY <1>1, <2>2, <4>3, SentNow
      <4> QED BY <1>3, <2>1, <2>4, <4>1, <4>2, <4>4 DEF UncertainInv, Consistent
    <3> QED BY <3>1, <3>2
  <2>7. TypeOK' /\ target' >= target
    BY <1>1, <1>3, <2>1, <2>3 DEF TypeOK
  <2>8. SequenceNamesOneRequest'
    BY <1>1, <1>3, <2>1, <2>3 DEF SequenceNamesOneRequest
  <2>9. OneResultPerCommand' /\ StatusInv' /\ BoundTo(st.reset)'
    BY <1>1, <1>3 DEF AInv, OneResultPerCommand, StatusInv, BoundTo, Up
  <2> QED BY <2>5, <2>6, <2>7, <2>8, <2>9 DEF AInv
<1> QED BY <1>2, <1>3 DEF Emit

-----------------------------------------------------------------------------
(* The documents that the methods commit. *)

(* A request with a fresh sequence, over a model and a reset that go with it. *)
LEMMA Renewed ==
  ASSUME AInv, NEW q \in Requests, q.seq = st.seq, NEW m \in Models \cup {None}, NEW i \in Nat,
         NEW x \in Resets \cup {None}, NEW a, a = st.seq + 1, Matching(a, m, i, q, x),
         BoundTo(x), ResultKnown(x, wire, cleared, posted), SameResult(st.reset, x),
         NEW k, k = [seq |-> a, model |-> m, mirror |-> i, req |-> q, gw |-> {}, reset |-> x]
  PROVE  Keeps(k) /\ k.req \in Requests
<1>1. Sound(st) /\ Consistent(st) /\ wire \subseteq Requests /\ target \in Nat
  BY DEF AInv, DocumentInv, TypeOK
<1>2. st.seq \in Nat /\ st.req \in Requests \cup {None} /\ (st.req # None => st.req.seq < st.seq)
  BY <1>1, SoundFields DEF Sound, Matching
<1>3. a \in Nat /\ q \in Requests \cup {None} /\ {} \in SUBSET GatewayStates
  BY <1>2
<1>4. Sound(k) /\ k.req = q /\ k.reset = x
  <2>1. PICK g \in SUBSET GatewayStates : g = {}
    BY <1>3, Zenon
  <2>2. k = [seq |-> a, model |-> m, mirror |-> i, req |-> q, gw |-> g, reset |-> x]
    BY <2>1, Zenon
  <2> QED BY <1>3, <2>2, SoundMade
<1>5. st.req \in Requests => st.req.seq < st.seq
  BY <1>2, TimingAssumption
<1>6. SentBefore(q, wire, target) /\ Newer(st.req, q)
  BY <1>1, <1>2, <1>5, FreshRequest DEF Consistent
<1> QED BY <1>4, <1>6 DEF Keeps, Consistent, Follows

(* A commit that leaves the request alone. *)
LEMMA Rewritten ==
  ASSUME AInv, NEW a, a = st.seq, NEW q, q = st.req, NEW m \in Models \cup {None}, NEW i \in Nat,
         NEW g \in SUBSET GatewayStates, NEW x \in Resets \cup {None}, Matching(a, m, i, q, x),
         BoundTo(x), ResultKnown(x, wire, cleared, posted), SameResult(st.reset, x),
         NEW k, k = [seq |-> a, model |-> m, mirror |-> i, req |-> q, gw |-> g, reset |-> x]
  PROVE  Keeps(k)
<1>1. Sound(st) /\ Consistent(st)
  BY DEF AInv, DocumentInv
<1>2. a \in Nat /\ q \in Requests \cup {None}
  BY <1>1, SoundFields
<1>3. Sound(k) /\ k.req = q /\ k.reset = x
  BY <1>2, SoundMade
<1> QED BY <1>1, <1>3, NewerSame DEF Keeps, Consistent, Follows

(* What holds of the current document, in the form that the methods need. *)
LEMMA Current ==
  ASSUME AInv
  PROVE  /\ st.seq \in Nat /\ st.model \in Models \cup {None} /\ st.mirror \in Nat
         /\ st.req \in Requests \cup {None} /\ st.gw \in SUBSET GatewayStates
         /\ st.reset \in Resets \cup {None}
         /\ st = [seq |-> st.seq, model |-> st.model, mirror |-> st.mirror, req |-> st.req,
                  gw |-> st.gw, reset |-> st.reset]
         /\ Matching(st.seq, st.model, st.mirror, st.req, st.reset) /\ BoundTo(st.reset)
         /\ ResultKnown(st.reset, wire, cleared, posted) /\ SameResult(st.reset, st.reset)
<1>1. Sound(st) /\ Consistent(st) /\ BoundTo(st.reset)
  BY DEF AInv, DocumentInv
<1> QED BY <1>1, SoundFields, NewerSame DEF Sound, Consistent

-----------------------------------------------------------------------------
(* Every step keeps the invariant and never lowers the broker's sequence. *)

LEMMA ApplyNext ==
  ASSUME AInv, NEW id \in Ids, NEW raw \in RawBands, apply_episode(id, raw)
  PROVE  AInv' /\ target' >= target
<1>1. /\ st.seq \in Nat /\ st.model \in Models \cup {None} /\ st.mirror \in Nat
      /\ st.req \in Requests \cup {None} /\ st.gw \in SUBSET GatewayStates
      /\ st.reset \in Resets \cup {None}
      /\ Matching(st.seq, st.model, st.mirror, st.req, st.reset) /\ BoundTo(st.reset)
      /\ ResultKnown(st.reset, wire, cleared, posted) /\ SameResult(st.reset, st.reset)
  BY Current
<1>2. st = [seq |-> st.seq, model |-> st.model, mirror |-> st.mirror, req |-> st.req,
            gw |-> st.gw, reset |-> st.reset]
  BY Current
<1>3. Up /\ ~reset_pending(st) /\ version \in Versions
  BY DEF apply_episode, Applicable, AInv, TypeOK, Up
<1>4. PICK m : m = Assess(Base(st), raw, id)
  OBVIOUS
<1>5. m \in Models /\ m.band \in RawBands
  <2>1. Sound(st)
    BY DEF AInv, DocumentInv
  <2>2. m \in Models
    BY <1>4, <2>1, BaseType, AssessType
  <2> QED BY <2>2 DEF Models
<1>6. UNCHANGED <<version, status, cleared, posted, wire, target>>
  BY DEF apply_episode, outside
<1>7. CASE Asks(Band(st), m.band)
  <2>1. PICK q : q = Request(st.seq, id, m.band)
    OBVIOUS
  <2>2. q \in Requests /\ q.seq = st.seq /\ q.band = m.band
    BY <1>1, <1>3, <1>5, <2>1 DEF Request, Requests
  <2>3. PICK a \in Nat : a = st.seq + 1
    BY <1>1
  <2>4. PICK k : k = WriteModel(WithRequest(st, id, m.band), m)
    OBVIOUS
  <2>5. k = [seq |-> a, model |-> m, mirror |-> a, req |-> q, gw |-> {}, reset |-> st.reset]
    BY <1>2, <2>1, <2>3, <2>4 DEF WriteModel, WithRequest
  <2>6. Matching(a, m, a, q, st.reset)
    BY <1>1, <1>3, <1>5, <2>2, <2>3, TimingAssumption DEF Matching, reset_pending
  <2>7. Keeps(k)
    BY <1>1, <1>5, <2>2, <2>3, <2>5, <2>6, Renewed
  <2>8. \/ st' = k /\ uncertain' = None
        \/ uncertain' \in {k, uncertain} /\ st' = st
    BY <1>4, <1>7, <2>4 DEF apply_episode, Commit
  <2> QED BY <1>6, <2>7, <2>8, Committed
<1>8. CASE ~Asks(Band(st), m.band)
  <2>1. PICK k : k = WriteModel(st, m)
    OBVIOUS
  <2>2. PICK a \in Nat : a = st.seq
    BY <1>1
  <2>3. PICK q : q = st.req
    OBVIOUS
  <2>4. k = [seq |-> a, model |-> m, mirror |-> a, req |-> q, gw |-> st.gw, reset |-> st.reset]
    BY <1>2, <2>1, <2>2, <2>3 DEF WriteModel
  <2>5. Matching(a, m, a, q, st.reset)
    <3>1. /\ q = None => m.band = Good
          /\ q # None => q.band = m.band
      <4>1. CASE st.model = None
        <5>1. m.band = Good
          BY <1>5, <1>8, <4>1 DEF Asks, Band, RawBands, NotEvaluated, Good, Inspection, Replacement
        <5> QED BY <1>1, <2>3, <4>1, <5>1 DEF Matching
      <4>2. CASE st.model # None
        <5>1. st.model.band \in RawBands /\ Band(st) = st.model.band
          BY <1>1, <4>2 DEF Band, Models
        <5>2. m.band = st.model.band
          BY <1>5, <1>8, <5>1 DEF Asks, RawBands, NotEvaluated, Good, Inspection, Replacement
        <5> QED BY <1>1, <2>3, <4>2, <5>2 DEF Matching
      <4> QED BY <4>1, <4>2
    <3>2. q # None => q.seq < a
      BY <1>1, <2>2, <2>3 DEF Matching
    <3>3. st.reset # None => (st.reset.delivered => st.reset.ack # None)
      BY <1>1 DEF Matching
    <3>4. ~(st.reset # None /\ st.reset.ack = None)
      BY <1>3 DEF reset_pending
    <3>5. m = None => (q # None => q.band = Good)
      BY <1>5, TimingAssumption
    <3> QED BY <3>1, <3>2, <3>3, <3>4, <3>5 DEF Matching
  <2>6. Keeps(k)
    BY <1>1, <1>5, <2>2, <2>3, <2>4, <2>5, Rewritten
  <2>7. \/ st' = k /\ uncertain' = None
        \/ uncertain' \in {k, uncertain} /\ st' = st
    BY <1>4, <1>8, <2>1 DEF apply_episode, Commit
  <2> QED BY <1>6, <2>6, <2>7, Committed
<1> QED BY <1>7, <1>8

LEMMA ResetAdvisoryNext == ASSUME AInv, ResetAdvisory PROVE AInv' /\ target' >= target
<1>1. /\ st.seq \in Nat /\ st.model \in Models \cup {None} /\ st.mirror \in Nat
      /\ st.req \in Requests \cup {None} /\ st.gw \in SUBSET GatewayStates
      /\ st.reset \in Resets \cup {None}
      /\ Matching(st.seq, st.model, st.mirror, st.req, st.reset) /\ BoundTo(st.reset)
      /\ ResultKnown(st.reset, wire, cleared, posted) /\ SameResult(st.reset, st.reset)
  BY Current
<1>2. st = [seq |-> st.seq, model |-> st.model, mirror |-> st.mirror, req |-> st.req,
            gw |-> st.gw, reset |-> st.reset]
  BY Current
<1>3. Up /\ st.reset # None /\ st.reset.ack = None /\ version \in Versions
  BY DEF ResetAdvisory, reset_pending, AInv, TypeOK, Up
<1>4. st.reset \in Resets /\ st.reset.command \in Commands /\ st.model = None /\ st.req \in Requests
  BY <1>1, <1>3 DEF Resets, Matching
<1>5. UNCHANGED <<version, status, cleared, posted>>
  BY DEF ResetAdvisory
<1>6. CASE Due(refresh, ResetRefresh)
  <2>1. PICK q : q = Request(st.seq, st.reset.command, Good)
    OBVIOUS
  <2>2. q \in Requests /\ q.seq = st.seq /\ q.band = Good /\ q.decision = st.reset.command
    <3>1. Good \in RawBands /\ st.reset.command \in Ids \cup Commands
      BY <1>4 DEF RawBands
    <3> QED BY <1>1, <1>3, <2>1, <3>1 DEF Request, Requests
  <2>3. PICK a \in Nat : a = st.seq + 1
    BY <1>1
  <2>4. PICK k : k = WithRequest(st, st.reset.command, Good)
    OBVIOUS
  <2>5. k = [seq |-> a, model |-> st.model, mirror |-> st.mirror, req |-> q, gw |-> {}, reset |-> st.reset]
    BY <1>2, <2>1, <2>3, <2>4 DEF WithRequest
  <2>6. Matching(a, st.model, st.mirror, q, st.reset)
    BY <1>1, <1>3, <1>4, <2>2, <2>3, TimingAssumption DEF Matching
  <2>7. Keeps(k) /\ k.req \in Requests
    BY <1>1, <2>2, <2>3, <2>5, <2>6, Renewed
  <2>8. \/ st' = k /\ uncertain' = None /\ Emit(k.req)
        \/ st' = k /\ uncertain' = None /\ UNCHANGED <<wire, target>>
        \/ uncertain' \in {k, uncertain} /\ st' = st /\ UNCHANGED <<wire, target>>
    BY <1>6, <2>4 DEF ResetAdvisory, Commit
  <2> QED BY <1>5, <2>7, <2>8, Committed DEF Emit
<1>7. CASE ~Due(refresh, ResetRefresh)
  <2>1. Emit(st.req) /\ UNCHANGED <<st, uncertain>>
    BY <1>7 DEF ResetAdvisory, durable
  <2> QED BY <1>4, <1>5, <2>1, Resent
<1> QED BY <1>6, <1>7

LEMMA ResendNext == ASSUME AInv, ResendAdvisory PROVE AInv' /\ target' >= target
<1>1. st.req \in Requests \cup {None}
  BY Current
<1>2. /\ st.req # None /\ Emit(st.req)
      /\ UNCHANGED <<st, uncertain, version, status, cleared, posted>>
  BY DEF ResendAdvisory, LeaseRunning, durable
<1> QED BY <1>1, <1>2, Resent

LEMMA RenewLeaseNext == ASSUME AInv, RenewLease PROVE AInv' /\ target' >= target
<1>1. /\ st.seq \in Nat /\ st.model \in Models \cup {None} /\ st.mirror \in Nat
      /\ st.req \in Requests \cup {None} /\ st.gw \in SUBSET GatewayStates
      /\ st.reset \in Resets \cup {None}
      /\ Matching(st.seq, st.model, st.mirror, st.req, st.reset) /\ BoundTo(st.reset)
      /\ ResultKnown(st.reset, wire, cleared, posted) /\ SameResult(st.reset, st.reset)
  BY Current
<1>2. st = [seq |-> st.seq, model |-> st.model, mirror |-> st.mirror, req |-> st.req,
            gw |-> st.gw, reset |-> st.reset]
  BY Current
<1>3. Up /\ ~(st.reset # None /\ st.reset.ack = None) /\ st.model # None /\ version \in Versions
  BY DEF RenewLease, reset_pending, AInv, TypeOK, Up
<1>4. PICK m \in Models : m = st.model
  BY <1>1, <1>3
<1>5. m.band \in RawBands /\ m.last \in Ids
  BY DEF Models
<1>6. UNCHANGED <<version, status, cleared, posted>>
  BY DEF RenewLease
<1>7. PICK q : q = Request(st.seq, m.last, m.band)
  OBVIOUS
<1>8. q \in Requests /\ q.seq = st.seq /\ q.band = m.band
  BY <1>1, <1>3, <1>5, <1>7 DEF Request, Requests
<1>9. PICK a \in Nat : a = st.seq + 1
  BY <1>1
<1>10. PICK k : k = WriteModel(WithRequest(st, st.model.last, st.model.band), st.model)
  OBVIOUS
<1>11. k = [seq |-> a, model |-> m, mirror |-> a, req |-> q, gw |-> {}, reset |-> st.reset]
  BY <1>2, <1>4, <1>7, <1>9, <1>10 DEF WriteModel, WithRequest
<1>12. Matching(a, m, a, q, st.reset)
  BY <1>1, <1>3, <1>4, <1>8, <1>9, TimingAssumption DEF Matching
<1>13. Keeps(k) /\ k.req \in Requests
  BY <1>1, <1>8, <1>9, <1>11, <1>12, Renewed
<1>14. \/ st' = k /\ uncertain' = None /\ Emit(k.req)
       \/ st' = k /\ uncertain' = None /\ UNCHANGED <<wire, target>>
       \/ uncertain' \in {k, uncertain} /\ st' = st /\ UNCHANGED <<wire, target>>
  BY <1>10 DEF RenewLease, Commit
<1> QED BY <1>6, <1>13, <1>14, Committed DEF Emit

LEMMA Emptied ==
  ASSUME NEW a, NEW m, NEW i, NEW q, NEW g, NEW y, NEW x, NEW n, NEW s, NEW t,
         s = [seq |-> a, model |-> m, mirror |-> i, req |-> q, gw |-> g, reset |-> y],
         t = [s EXCEPT !.model = n, !.reset = x]
  PROVE  t = [seq |-> a, model |-> n, mirror |-> i, req |-> q, gw |-> g, reset |-> x]
OBVIOUS

LEMMA CommandNext == ASSUME AInv, NEW c \in Commands, demo_control_command(c) PROVE AInv' /\ target' >= target
<1>1. /\ st.seq \in Nat /\ st.model \in Models \cup {None} /\ st.mirror \in Nat
      /\ st.req \in Requests \cup {None} /\ st.gw \in SUBSET GatewayStates
      /\ st.reset \in Resets \cup {None}
      /\ Matching(st.seq, st.model, st.mirror, st.req, st.reset) /\ BoundTo(st.reset)
      /\ ResultKnown(st.reset, wire, cleared, posted) /\ SameResult(st.reset, st.reset)
  BY Current
<1>2. st = [seq |-> st.seq, model |-> st.model, mirror |-> st.mirror, req |-> st.req,
            gw |-> st.gw, reset |-> st.reset]
  BY Current
<1>3. Up /\ version \in Versions /\ issued[c] = version /\ \A p \in posted : p[1] # c
  BY DEF demo_control_command, Offered, AInv, TypeOK, Up
<1>4. st.reset # None => st.reset.command # c
  BY DEF demo_control_command
<1>5. PICK w : w = IF st.model = None THEN None ELSE st.model.recent
  OBVIOUS
<1>6. w \in Seq(Ids) \cup {None}
  BY <1>1, <1>5 DEF Models
<1>7. PICK x : x = [command |-> c, version |-> version, ack |-> None, previous |-> w, delivered |-> FALSE]
  OBVIOUS
<1>8. x \in Resets /\ x.command = c /\ x.version = version /\ x.ack = None /\ ~x.delivered
  BY <1>3, <1>6, <1>7 DEF Resets
<1>9. PICK q : q = Request(st.seq, c, Good)
  OBVIOUS
<1>10. q \in Requests /\ q.seq = st.seq /\ q.band = Good /\ q.decision = c
  <2>1. Good \in RawBands
    BY DEF RawBands
  <2> QED BY <1>1, <1>3, <1>9, <2>1 DEF Request, Requests
<1>11. PICK a \in Nat : a = st.seq + 1
  BY <1>1
<1>12. PICK k : k = [seq |-> a, model |-> None, mirror |-> st.mirror, req |-> q, gw |-> {}, reset |-> x]
  OBVIOUS
<1>13. [Cleared(st, c) EXCEPT !.model = None,
          !.reset = [command |-> c, version |-> issued[c], ack |-> None,
                     previous |-> IF st.model = None THEN None ELSE st.model.recent,
                     delivered |-> FALSE]] = k
  <2>1. Cleared(st, c) = [seq |-> a, model |-> st.model, mirror |-> st.mirror, req |-> q, gw |-> {},
                          reset |-> st.reset]
    <3>1. PICK s : s = WithRequest(st, c, Good)
      OBVIOUS
    <3>2. s = [seq |-> a, model |-> st.model, mirror |-> st.mirror, req |-> q, gw |-> {},
               reset |-> st.reset]
      BY <1>2, <1>9, <1>11, <3>1 DEF WithRequest
    <3> QED BY <3>1, <3>2 DEF Cleared
  <2>2. PICK s : s = Cleared(st, c)
    OBVIOUS
  <2>3. [s EXCEPT !.model = None, !.reset = x] = k
    <3>1. PICK t : t = [s EXCEPT !.model = None, !.reset = x]
      OBVIOUS
    <3>2. t = [seq |-> a, model |-> None, mirror |-> st.mirror, req |-> q, gw |-> {}, reset |-> x]
      <4>1. s = [seq |-> a, model |-> st.model, mirror |-> st.mirror, req |-> q, gw |-> {},
                 reset |-> st.reset]
        BY <2>1, <2>2, Zenon
      <4> QED BY <3>1, <4>1, Emptied
    <3> QED BY <1>12, <3>1, <3>2
  <2>4. x = [command |-> c, version |-> issued[c], ack |-> None,
             previous |-> IF st.model = None THEN None ELSE st.model.recent, delivered |-> FALSE]
    BY <1>3, <1>5, <1>7
  <2> QED BY <2>2, <2>3, <2>4
<1>14. Matching(a, None, st.mirror, q, x)
  BY <1>1, <1>8, <1>10, <1>11, TimingAssumption DEF Matching
<1>15. ResultKnown(x, wire, cleared, posted) /\ SameResult(st.reset, x) /\ BoundTo(x)
  BY <1>3, <1>4, <1>8, TimingAssumption DEF ResultKnown, SameResult, BoundTo
<1>16. Keeps(k)
  BY <1>1, <1>8, <1>10, <1>11, <1>12, <1>14, <1>15, Renewed
<1>17. \/ st' = k /\ uncertain' = None
       \/ uncertain' \in {k, uncertain} /\ st' = st
  BY <1>13 DEF demo_control_command, Commit
<1>18. UNCHANGED <<version, status, cleared, posted, wire, target>>
  BY DEF demo_control_command, outside
<1> QED BY <1>16, <1>17, <1>18, Committed

Answered(s, r, g) == [s EXCEPT !.reset.ack = r, !.gw = g]

(* A pending reset gets its result: CLEARED from the Gateway or FAILED     *)
(* when it expires.                                                        *)
LEMMA Resolved ==
  ASSUME AInv, st.reset # None, st.reset.ack = None, NEW r \in Results, NEW g \in SUBSET GatewayStates,
         r = "CLEARED" => \E q \in wire : q.seq \in cleared /\ q.decision = st.reset.command,
         NEW k, k = Answered(st, r, g)
  PROVE  Keeps(k)
<1>1. /\ st.seq \in Nat /\ st.model \in Models \cup {None} /\ st.mirror \in Nat
      /\ st.req \in Requests \cup {None} /\ st.gw \in SUBSET GatewayStates
      /\ st.reset \in Resets \cup {None}
      /\ Matching(st.seq, st.model, st.mirror, st.req, st.reset) /\ BoundTo(st.reset)
      /\ ResultKnown(st.reset, wire, cleared, posted) /\ SameResult(st.reset, st.reset)
  BY Current
<1>2. st = [seq |-> st.seq, model |-> st.model, mirror |-> st.mirror, req |-> st.req,
            gw |-> st.gw, reset |-> st.reset]
  BY Current
<1>3. st.reset \in Resets
  BY <1>1
<1>4. PICK x : x = [st.reset EXCEPT !.ack = r]
  OBVIOUS
<1>5. posted \subseteq Commands \X Results
  BY DEF AInv, TypeOK
<1>6. /\ x \in Resets /\ x.ack = r /\ x.delivered = st.reset.delivered /\ r # None
      /\ ResultKnown(x, wire, cleared, posted) /\ SameResult(st.reset, x)
  BY <1>1, <1>3, <1>4, <1>5, ResultGiven
<1>7. k = [seq |-> st.seq, model |-> st.model, mirror |-> st.mirror, req |-> st.req, gw |-> g, reset |-> x]
  BY <1>2, <1>4 DEF Answered
<1>8. Matching(st.seq, st.model, st.mirror, st.req, x) /\ BoundTo(x)
  BY <1>1, <1>6 DEF Matching, BoundTo
<1>9. st.model \in Models \cup {None} /\ st.mirror \in Nat /\ x \in Resets \cup {None}
  BY <1>1, <1>6
<1>10. ResultKnown(x, wire, cleared, posted) /\ SameResult(st.reset, x)
  BY <1>6
<1> QED BY <1>7, <1>8, <1>9, <1>10, Rewritten

LEMMA ExpireNext == ASSUME AInv, ExpireReset PROVE AInv' /\ target' >= target
<1>1. st.reset # None /\ st.reset.ack = None /\ UNCHANGED <<version, status, cleared, posted, wire, target>>
  BY DEF ExpireReset, reset_pending, outside
<1>2. PICK k : k = [st EXCEPT !.reset.ack = "FAILED"]
  OBVIOUS
<1>3. k = Answered(st, "FAILED", st.gw) /\ st.gw \in SUBSET GatewayStates
  BY <1>2, Current DEF Answered
<1>4. Keeps(k)
  BY <1>1, <1>3, Resolved DEF Results
<1>5. \/ st' = k /\ uncertain' = None
      \/ uncertain' \in {k, uncertain} /\ st' = st
  BY <1>2 DEF ExpireReset, Commit
<1> QED BY <1>1, <1>4, <1>5, Committed

LEMMA ClearedNext == ASSUME AInv, status # None, ResetCleared(status) PROVE AInv' /\ target' >= target
<1>1. /\ st.reset # None /\ st.reset.ack = None /\ status.state = "CLEARED" /\ status.seq = st.req.seq
      /\ st.req.decision = st.reset.command /\ st.req # None
      /\ UNCHANGED <<version, status, cleared, posted, wire, target>>
  BY DEF ResetCleared, Correlated, ForReset, reset_pending, outside
<1>2. PICK r \in wire : r.seq = status.seq /\ r.seq \in cleared
  BY <1>1 DEF AInv, StatusInv
<1>3. r = st.req
  BY <1>1, <1>2 DEF AInv, DocumentInv, Consistent, SentBefore
<1>4. \E q \in wire : q.seq \in cleared /\ q.decision = st.reset.command
  BY <1>1, <1>2, <1>3
<1>5. {"CLEARED"} \in SUBSET GatewayStates
  BY <1>1 DEF AInv, TypeOK, Statuses
<1>6. PICK k : k = [st EXCEPT !.reset.ack = "CLEARED", !.gw = {"CLEARED"}]
  OBVIOUS
<1>7. Keeps(k)
  BY <1>1, <1>4, <1>5, <1>6, Resolved DEF Results, Answered
<1>8. \/ st' = k /\ uncertain' = None
      \/ uncertain' \in {k, uncertain} /\ st' = st
  BY <1>6 DEF ResetCleared, Commit
<1> QED BY <1>1, <1>7, <1>8, Committed

LEMMA RecordedNext == ASSUME AInv, status # None, StatusRecorded(status) PROVE AInv' /\ target' >= target
<1>1. /\ st.seq \in Nat /\ st.model \in Models \cup {None} /\ st.mirror \in Nat
      /\ st.req \in Requests \cup {None} /\ st.gw \in SUBSET GatewayStates
      /\ st.reset \in Resets \cup {None}
      /\ Matching(st.seq, st.model, st.mirror, st.req, st.reset) /\ BoundTo(st.reset)
      /\ ResultKnown(st.reset, wire, cleared, posted) /\ SameResult(st.reset, st.reset)
  BY Current
<1>2. st = [seq |-> st.seq, model |-> st.model, mirror |-> st.mirror, req |-> st.req,
            gw |-> st.gw, reset |-> st.reset]
  BY Current
<1>3. status.state \in GatewayStates
  BY DEF AInv, TypeOK, Statuses
<1>4. PICK g \in SUBSET GatewayStates : g = st.gw \cup {status.state}
  BY <1>1, <1>3
<1>5. PICK k : k = [st EXCEPT !.gw = @ \cup {status.state}]
  OBVIOUS
<1>6. k = [seq |-> st.seq, model |-> st.model, mirror |-> st.mirror, req |-> st.req, gw |-> g, reset |-> st.reset]
  BY <1>2, <1>4, <1>5
<1>7. Keeps(k)
  BY <1>1, <1>6, Rewritten
<1>8. \/ st' = k /\ uncertain' = None
      \/ uncertain' \in {k, uncertain} /\ st' = st
  BY <1>5 DEF StatusRecorded, Commit
<1>9. UNCHANGED <<version, status, cleared, posted, wire, target>>
  BY DEF StatusRecorded, outside
<1> QED BY <1>7, <1>8, <1>9, Committed

(* The result that the backend now sees is the result of every document    *)
(* that a start may find.                                                  *)
LEMMA ResultShown ==
  ASSUME NEW x, x # None, x.ack # None, NEW y, SameResult(x, y), NEW W, NEW C, NEW P,
         ResultKnown(y, W, C, P)
  PROVE  ResultKnown(y, W, C, P \cup {<<x.command, x.ack>>})
BY DEF ResultKnown, SameResult

(* The command's result is delivered once the backend has confirmed it. *)
Delivered(s) == [s EXCEPT !.reset.delivered = TRUE]

LEMMA DeliveredKept ==
  ASSUME AInv, st.reset # None, st.reset.ack # None, NEW k, k = Delivered(st)
  PROVE  Keeps(k)
<1>1. /\ st.seq \in Nat /\ st.model \in Models \cup {None} /\ st.mirror \in Nat
      /\ st.req \in Requests \cup {None} /\ st.gw \in SUBSET GatewayStates
      /\ st.reset \in Resets
      /\ Matching(st.seq, st.model, st.mirror, st.req, st.reset) /\ BoundTo(st.reset)
      /\ ResultKnown(st.reset, wire, cleared, posted) /\ SameResult(st.reset, st.reset)
  BY Current
<1>2. st = [seq |-> st.seq, model |-> st.model, mirror |-> st.mirror, req |-> st.req,
            gw |-> st.gw, reset |-> st.reset]
  BY Current
<1>3. PICK x : x = [st.reset EXCEPT !.delivered = TRUE]
  OBVIOUS
<1>4. x \in Resets /\ x.ack = st.reset.ack /\ x.command = st.reset.command
  BY <1>1, <1>3 DEF Resets
<1>5. k = [seq |-> st.seq, model |-> st.model, mirror |-> st.mirror, req |-> st.req, gw |-> st.gw, reset |-> x]
  BY <1>2, <1>3 DEF Delivered
<1>6. Matching(st.seq, st.model, st.mirror, st.req, x) /\ BoundTo(x)
  BY <1>1, <1>4 DEF Matching, BoundTo
<1>7. ResultKnown(x, wire, cleared, posted) /\ SameResult(st.reset, x)
  BY <1>1, <1>4 DEF ResultKnown, SameResult
<1>8. /\ st.model \in Models \cup {None} /\ st.mirror \in Nat
      /\ st.gw \in SUBSET GatewayStates /\ x \in Resets \cup {None}
  BY <1>1, <1>4
<1> QED BY <1>5, <1>6, <1>7, <1>8, Rewritten

LEMMA PostNext == ASSUME AInv, NEW ok \in BOOLEAN, PostResult(ok) PROVE AInv' /\ target' >= target
<1>1. /\ st.reset # None /\ st.reset.ack # None
      /\ posted' = posted \cup {<<st.reset.command, st.reset.ack>>}
      /\ UNCHANGED <<version, status, cleared, wire, target>>
  BY DEF PostResult
<1>2. /\ TypeOK /\ SequenceNamesOneRequest /\ OneResultPerCommand /\ StatusInv
      /\ target \in Nat /\ posted \subseteq Commands \X Results
      /\ DocumentInv /\ UncertainInv /\ BoundTo(st.reset)
  BY DEF AInv, TypeOK
<1>3. st.reset \in Resets /\ st.reset.command \in Commands /\ st.reset.ack \in Results
  BY <1>1, Current DEF Resets
<1>4. PICK k : k = Delivered(st)
  OBVIOUS
<1>5. Keeps(k)
  BY <1>1, <1>4, DeliveredKept
<1>6. \A s : Consistent(s) /\ SameResult(st.reset, s.reset) => Consistent(s)'
  <2>1. \A y : ResultKnown(y, wire, cleared, posted) /\ SameResult(st.reset, y)
                 => ResultKnown(y, wire, cleared, posted')
    BY <1>1, ResultShown
  <2> QED BY <1>1, <2>1 DEF Consistent
<1>7. TypeOK' /\ target' >= target /\ SequenceNamesOneRequest' /\ StatusInv'
  <2>1. posted' \subseteq Commands \X Results
    BY <1>1, <1>2, <1>3
  <2> QED BY <1>1, <1>2, <2>1 DEF TypeOK, SequenceNamesOneRequest, StatusInv
<1>8. OneResultPerCommand'
  <2>1. \A p \in posted : p[1] = st.reset.command => p = <<st.reset.command, st.reset.ack>>
    <3>1. \A p \in posted : p = <<p[1], p[2]>>
      BY <1>2
    <3>2. \A p \in posted : st.reset.command = p[1] => st.reset.ack = p[2]
      BY <1>1, <1>2 DEF DocumentInv, Consistent, ResultKnown
    <3> QED BY <3>1, <3>2
  <2> QED BY <1>1, <1>2, <2>1 DEF OneResultPerCommand
<1>9. \/ st' = k /\ uncertain' = None
      \/ uncertain' = k /\ st' = st
      \/ st' = st /\ uncertain' = uncertain
  BY <1>4 DEF PostResult, Commit, durable, Delivered
<1>10. DocumentInv'
  BY <1>2, <1>5, <1>6, <1>9, NewerSame DEF DocumentInv, Keeps, Follows
<1>11. UncertainInv'
  <2>1. CASE st' = k /\ uncertain' = None
    BY <2>1 DEF UncertainInv
  <2>2. CASE uncertain' = k /\ st' = st
    BY <1>5, <1>6, <2>2 DEF UncertainInv, Keeps, Follows
  <2>3. CASE st' = st /\ uncertain' = uncertain
    BY <1>2, <1>6, <2>3 DEF UncertainInv, Follows
  <2> QED BY <1>9, <2>1, <2>2, <2>3
<1>12. BoundTo(st.reset)'
  BY <1>1, <1>2, <1>5, <1>9 DEF BoundTo, Up, Keeps
<1> QED BY <1>7, <1>8, <1>10, <1>11, <1>12 DEF AInv

(* A start loads the document, or the one of a commit that threw, and      *)
(* rejects a pending reset of another binding.                             *)
LEMMA StartNext ==
  ASSUME AInv, NEW v \in Versions, NEW s \in {st, uncertain}, Start(v, s)
  PROVE  AInv' /\ target' >= target
<1>1. /\ ~Up /\ s # None /\ UNCHANGED <<wire, target, status, cleared, posted>>
  BY DEF Start, Loadable, outside
<1>2. /\ TypeOK /\ SequenceNamesOneRequest /\ OneResultPerCommand /\ StatusInv
      /\ target \in Nat /\ posted \subseteq Commands \X Results
      /\ DocumentInv /\ UncertainInv /\ version = None
  BY <1>1 DEF AInv, TypeOK, Up
<1>3. Sound(s) /\ Consistent(s)
  BY <1>1, <1>2 DEF DocumentInv, UncertainInv
<1>4. PICK k : k = [s EXCEPT !.reset.ack = "REJECTED"]
  OBVIOUS
<1>5. ASSUME Foreign(v, s)
      PROVE  Sound(k) /\ Consistent(k) /\ Follows(s, k) /\ k.reset.ack # None
  <2>1. s.reset # None /\ s.reset.ack = None
    BY <1>5 DEF Foreign, reset_pending
  <2>2. /\ s.seq \in Nat /\ s.model \in Models \cup {None} /\ s.mirror \in Nat
        /\ s.req \in Requests \cup {None} /\ s.gw \in SUBSET GatewayStates
        /\ s.reset \in Resets
    BY <1>3, <2>1, SoundFields
  <2>3. s = [seq |-> s.seq, model |-> s.model, mirror |-> s.mirror, req |-> s.req,
             gw |-> s.gw, reset |-> s.reset]
    BY <1>3, SoundFields
  <2>4. Matching(s.seq, s.model, s.mirror, s.req, s.reset)
        /\ ResultKnown(s.reset, wire, cleared, posted) /\ SentBefore(s.req, wire, target)
    BY <1>3 DEF Sound, Consistent
  <2>5. PICK x : x = [s.reset EXCEPT !.ack = "REJECTED"]
    OBVIOUS
  <2>6. /\ x \in Resets /\ x.ack = "REJECTED" /\ x.delivered = s.reset.delivered /\ x.ack # None
        /\ ResultKnown(x, wire, cleared, posted) /\ SameResult(s.reset, x)
    <3>1. "REJECTED" \in Results /\ "REJECTED" # "CLEARED"
      BY DEF Results
    <3> QED BY <1>2, <2>1, <2>2, <2>4, <2>5, <3>1, ResultGiven
  <2>7. k = [seq |-> s.seq, model |-> s.model, mirror |-> s.mirror, req |-> s.req, gw |-> s.gw, reset |-> x]
    BY <1>4, <2>3, <2>5
  <2>8. Matching(s.seq, s.model, s.mirror, s.req, x)
    BY <2>4, <2>6 DEF Matching
  <2>9. Sound(k) /\ k.req = s.req /\ k.reset = x
    <3>1. PICK a \in Nat, m \in Models \cup {None}, i \in Nat, q \in Requests \cup {None},
               g \in SUBSET GatewayStates :
               a = s.seq /\ m = s.model /\ i = s.mirror /\ q = s.req /\ g = s.gw
      BY <2>2, Zenon
    <3>2. k = [seq |-> a, model |-> m, mirror |-> i, req |-> q, gw |-> g, reset |-> x]
      BY <2>7, <3>1, Zenon
    <3>3. Matching(a, m, i, q, x)
      BY <2>8, <3>1, Zenon
    <3>4. x \in Resets \cup {None}
      BY <2>6, Zenon
    <3>5. Sound(k) /\ k.req = q /\ k.reset = x
      BY <3>2, <3>3, <3>4, SoundMade
    <3> QED BY <3>1, <3>5, Zenon
  <2> QED BY <2>4, <2>6, <2>9, NewerSame DEF Consistent, Follows
<1>6. TypeOK' /\ target' >= target /\ SequenceNamesOneRequest' /\ OneResultPerCommand' /\ StatusInv'
  <2>1. version' \in Versions \cup {None}
    BY <1>2 DEF Start
  <2> QED BY <1>1, <1>2, <2>1 DEF TypeOK, SequenceNamesOneRequest, OneResultPerCommand, StatusInv
<1>7. \/ /\ st' = (IF Foreign(v, s) THEN k ELSE s) /\ version' = v /\ uncertain' = None
      \/ /\ Foreign(v, s) /\ st' = s /\ uncertain' = k /\ version' = version
  BY <1>4 DEF Start
<1>8. DocumentInv' /\ UncertainInv'
  <2>1. \A d : Consistent(d) => Consistent(d)'
    BY <1>1 DEF Consistent
  <2>2. DocumentInv'
    BY <1>3, <1>5, <1>7, <2>1 DEF DocumentInv
  <2>3. UncertainInv'
    <3>1. CASE uncertain' = None
      BY <3>1 DEF UncertainInv
    <3>2. CASE Foreign(v, s) /\ st' = s /\ uncertain' = k
      BY <1>5, <2>1, <3>2 DEF UncertainInv
    <3> QED BY <1>7, <3>1, <3>2
  <2> QED BY <2>2, <2>3
<1>9. BoundTo(st.reset)'
  <2>1. CASE version' = v /\ st' = k /\ Foreign(v, s)
    BY <1>5, <2>1 DEF BoundTo
  <2>2. CASE version' = v /\ st' = s /\ ~Foreign(v, s)
    BY <2>2 DEF BoundTo, Foreign, reset_pending
  <2>3. CASE version' = version
    BY <1>2, <2>3 DEF BoundTo, Up
  <2> QED BY <1>7, <2>1, <2>2, <2>3
<1> QED BY <1>6, <1>8, <1>9 DEF AInv

(* What the rest of the system does leaves the documents alone. *)
LEMMA OutsideNext ==
  ASSUME AInv, UNCHANGED <<st, uncertain, wire, target, posted>>, version' \in {version, None},
         \/ UNCHANGED <<status, cleared>>
         \/ \E req \in wire, state \in GatewayStates : Answer(req, state)
  PROVE  AInv' /\ target' >= target
<1>1. /\ TypeOK /\ SequenceNamesOneRequest /\ OneResultPerCommand /\ StatusInv
      /\ target \in Nat /\ wire \subseteq Requests /\ DocumentInv /\ UncertainInv /\ BoundTo(st.reset)
  BY DEF AInv, TypeOK
<1>2. cleared \subseteq cleared' /\ TypeOK' /\ StatusInv'
  <2>1. CASE UNCHANGED <<status, cleared>>
    BY <1>1, <2>1 DEF TypeOK, StatusInv
  <2>2. CASE \E req \in wire, state \in GatewayStates : Answer(req, state)
    <3>1. PICK req \in wire, state \in GatewayStates : Answer(req, state)
      BY <2>2
    <3>2. /\ status' = [seq |-> req.seq, state |-> state]
          /\ cleared' = IF state = "CLEARED" THEN cleared \cup {req.seq} ELSE cleared
      BY <3>1 DEF Answer
    <3>3. req.seq \in Nat
      BY <1>1 DEF Requests
    <3>4. status' \in Statuses /\ status'.seq = req.seq /\ status'.state = state
      BY <3>2, <3>3 DEF Statuses
    <3>5. TypeOK'
      BY <1>1, <3>4 DEF TypeOK, Statuses
    <3>6. StatusInv'
      BY <3>2, <3>4 DEF StatusInv
    <3> QED BY <3>2, <3>5, <3>6
  <2> QED BY <2>1, <2>2
<1>3. \A d : Consistent(d) => Consistent(d)'
  <2>1. \A x : ResultKnown(x, wire, cleared, posted) => ResultKnown(x, wire, cleared', posted)
    BY <1>2, ResultStays
  <2> QED BY <2>1 DEF Consistent
<1>4. DocumentInv' /\ UncertainInv'
  BY <1>1, <1>3 DEF DocumentInv, UncertainInv
<1>5. BoundTo(st.reset)'
  BY <1>1 DEF BoundTo, Up
<1>6. SequenceNamesOneRequest' /\ OneResultPerCommand' /\ target' >= target
  BY <1>1 DEF SequenceNamesOneRequest, OneResultPerCommand
<1> QED BY <1>2, <1>4, <1>5, <1>6 DEF AInv

-----------------------------------------------------------------------------
LEMMA AInvInit == Init => AInv
<1> SUFFICES ASSUME Init PROVE AInv
  OBVIOUS
<1>1. /\ st = InitialState /\ uncertain = None /\ version \in Versions
      /\ target = 0 /\ wire = {} /\ status = None /\ cleared = {} /\ posted = {}
  BY DEF Init
<1>2. TypeOK /\ StatusInv /\ SequenceNamesOneRequest /\ OneResultPerCommand /\ UncertainInv
  BY <1>1 DEF TypeOK, StatusInv, SequenceNamesOneRequest, OneResultPerCommand, UncertainInv
<1>3. PICK a \in Nat : a = 1
  OBVIOUS
<1>4. st = [seq |-> a, model |-> None, mirror |-> a, req |-> None, gw |-> {}, reset |-> None]
  BY <1>1, <1>3 DEF InitialState
<1>5. Matching(a, None, a, None, None)
  BY DEF Matching
<1>6. Sound(st) /\ st.req = None /\ st.reset = None
  <2>1. None \in Models \cup {None} /\ None \in Requests \cup {None} /\ None \in Resets \cup {None}
        /\ {} \in SUBSET GatewayStates
    OBVIOUS
  <2> QED BY <1>3, <1>4, <1>5, <2>1, SoundMade
<1>7. Consistent(st) /\ BoundTo(st.reset)
  BY <1>1, <1>6 DEF Consistent, SentBefore, ResultKnown, BoundTo
<1> QED BY <1>2, <1>6, <1>7 DEF AInv, DocumentInv

LEMMA AInvNext == AInv /\ [Next]_vars => AInv' /\ target' >= target
<1> SUFFICES ASSUME AInv, [Next]_vars PROVE AInv' /\ target' >= target
  OBVIOUS
<1>1. CASE \E id \in Ids, raw \in RawBands : apply_episode(id, raw)
  BY <1>1, ApplyNext
<1>2. CASE Advisory
  BY <1>2, ResetAdvisoryNext, ResendNext, RenewLeaseNext DEF Advisory
<1>3. CASE status # None /\ gateway_status(status)
  BY <1>3, ClearedNext, RecordedNext DEF gateway_status
<1>4. CASE \E c \in Commands : demo_control_command(c)
  BY <1>4, CommandNext
<1>5. CASE ExpireReset
  BY <1>5, ExpireNext
<1>6. CASE \E ok \in BOOLEAN : PostResult(ok)
  BY <1>6, PostNext
<1>7. CASE Restart
  BY <1>7, StartNext DEF Restart
<1>8. CASE Stop
  <2>1. UNCHANGED <<st, uncertain, wire, target, posted, status, cleared>> /\ version' = None
    BY <1>8 DEF Stop, durable, outside
  <2> QED BY <2>1, OutsideNext
<1>9. CASE Tick
  <2>1. UNCHANGED <<st, uncertain, wire, target, posted, status, cleared, version>>
    BY <1>9 DEF Tick, durable
  <2> QED BY <2>1, OutsideNext
<1>10. CASE \E c \in Commands : Issue(c)
  <2>1. UNCHANGED <<st, uncertain, wire, target, posted, status, cleared, version>>
    BY <1>10 DEF Issue, durable
  <2> QED BY <2>1, OutsideNext
<1>11. CASE \E req \in wire, state \in GatewayStates : Answer(req, state)
  <2>1. UNCHANGED <<st, uncertain, wire, target, posted, version>>
    BY <1>11 DEF Answer, durable
  <2> QED BY <1>11, <2>1, OutsideNext
<1>12. CASE UNCHANGED vars
  <2>1. UNCHANGED <<st, uncertain, wire, target, posted, status, cleared, version>>
    BY <1>12 DEF vars
  <2> QED BY <2>1, OutsideNext
<1> QED BY <1>1, <1>2, <1>3, <1>4, <1>5, <1>6, <1>7, <1>8, <1>9, <1>10, <1>11, <1>12 DEF Next

LEMMA AInvAlways == Spec => []AInv
BY AInvInit, AInvNext, PTL DEF Spec

-----------------------------------------------------------------------------
(* A sequence number names one request for ever, over crashes, commits     *)
(* that threw and resets (next_advisory, apply_episode,                    *)
(* demo_control_command).                                                  *)
THEOREM SequenceTheorem == Spec => []SequenceNamesOneRequest
<1>1. AInv => SequenceNamesOneRequest
  BY DEF AInv
<1> QED BY <1>1, AInvAlways, PTL

(* The broker never goes back to an older request (next_advisory). *)
THEOREM RollbackTheorem == Spec => SequenceNeverRollsBack
<1>1. AInv /\ [Next]_vars => [target' >= target]_vars
  BY AInvNext
<1> QED BY <1>1, AInvAlways, PTL DEF Spec, SequenceNeverRollsBack

(* With an evaluated model the request shows its band, and a warning has a *)
(* request (apply_episode, next_advisory).                                 *)
THEOREM BandTheorem == Spec => []RequestShowsBand
<1>1. AInv => RequestShowsBand
  <2> SUFFICES ASSUME AInv, st.model # None
               PROVE  /\ st.req = None => Band(st) = Good
                      /\ st.req # None => st.req.band = Band(st)
    BY DEF RequestShowsBand
  <2>1. Matching(st.seq, st.model, st.mirror, st.req, st.reset)
    BY Current
  <2> QED BY <2>1 DEF Matching, Band
<1> QED BY <1>1, AInvAlways, PTL

(* Every document that is stored, or may have been stored by a commit that *)
(* threw, passes validate_state at the next start; a pending reset is      *)
(* alone with its own request and has the binding of the running process.  *)
THEOREM DocumentTheorem == Spec => []DocumentsAreSound
<1>1. ASSUME NEW s, Sound(s) PROVE validate_state(s)
  <2>1. Matching(s.seq, s.model, s.mirror, s.req, s.reset)
    BY <1>1 DEF Sound
  <2> QED BY <2>1 DEF Matching, validate_state
<1>2. AInv => DocumentsAreSound
  <2> SUFFICES ASSUME AInv PROVE DocumentsAreSound
    OBVIOUS
  <2>1. validate_state(st) /\ (uncertain # None => validate_state(uncertain))
    BY <1>1 DEF AInv, DocumentInv, UncertainInv
  <2>2. ASSUME reset_pending(st)
        PROVE  /\ st.model = None /\ st.req.decision = st.reset.command
               /\ Up => st.reset.version = version
    <3>1. Matching(st.seq, st.model, st.mirror, st.req, st.reset) /\ BoundTo(st.reset)
      BY Current
    <3> QED BY <2>2, <3>1 DEF reset_pending, Matching, BoundTo
  <2> QED BY <2>1, <2>2 DEF DocumentsAreSound
<1> QED BY <1>2, AInvAlways, PTL

(* A reset is reported CLEARED only when the Gateway confirmed a CLEAR     *)
(* that carried that command (gateway_status).                             *)
THEOREM ClearedTheorem == Spec => []ClearedIsConfirmed
<1>1. AInv => ClearedIsConfirmed
  BY Current DEF ClearedIsConfirmed, ResultKnown
<1> QED BY <1>1, AInvAlways, PTL

(* The backend never sees two results for one command, whatever the        *)
(* crashes, expiries and repeated posts (demo_control_ack).                *)
THEOREM OneResultTheorem == Spec => []OneResultPerCommand
<1>1. AInv => OneResultPerCommand
  BY DEF AInv
<1> QED BY <1>1, AInvAlways, PTL

-----------------------------------------------------------------------------
(* The condition model that apply_episode runs, over every history of      *)
(* episodes.                                                               *)

Judged == [raw: RawBands, band: RawBands]

ModelStates == [band: Bands, better: Bands, count: Int, last: Ids \cup {NoId}, recent: Seq(Ids)]

BandNow == IF past = <<>> THEN NotEvaluated ELSE past[Len(past)].band

(* The n-th raw band was r, and the band was b and stayed so. *)
Waited(n, r, b) == n \in DOMAIN past /\ past[n].raw = r /\ BandBefore(n) = b /\ past[n].band = b

(* The counter is the length of the current row of better raw bands. *)
CounterOK ==
  /\ model.count \in {0, 1, 2}
  /\ model.count # 0 => model.better < model.band /\ Waited(Len(past), model.better, model.band)
  /\ model.count = 2 => Waited(Len(past) - 1, model.better, model.band)
  /\ \A r \in RawBands : r < model.band /\ Waited(Len(past), r, model.band) =>
       /\ model.better = r /\ model.count # 0
       /\ Waited(Len(past) - 1, r, model.band) => model.count = 2

HInv ==
  /\ model \in ModelStates /\ past \in Seq(Judged) /\ model.band = BandNow
  /\ CounterOK /\ BandFollowsHistory

(* What assess makes of the band and its counter. *)
LEMMA AssessFields ==
  ASSUME NEW m \in ModelStates, NEW raw \in RawBands, NEW id \in Ids,
         NEW a, a = Assess(m, raw, id), NEW n, n = (IF m.better = raw THEN m.count + 1 ELSE 1)
  PROVE  /\ a \in ModelStates /\ a.band \in RawBands
         /\ m.band = NotEvaluated \/ raw > m.band =>
              a.band = raw /\ a.better = NotEvaluated /\ a.count = 0
         /\ m.band # NotEvaluated /\ raw = m.band =>
              a.band = m.band /\ a.better = NotEvaluated /\ a.count = 0
         /\ m.band # NotEvaluated /\ raw < m.band /\ n >= 3 =>
              a.band = raw /\ a.better = NotEvaluated /\ a.count = 0
         /\ m.band # NotEvaluated /\ raw < m.band /\ n < 3 =>
              a.band = m.band /\ a.better = raw /\ a.count = n
<1>1. a \in Models
  BY AssessType DEF ModelStates
<1>2. a \in ModelStates /\ a.band \in RawBands
  BY <1>1 DEF Models, ModelStates, Bands
<1>3. PICK b : b = Banded(m, raw)
  OBVIOUS
<1>4. PICK w : w = Remember(m.recent, id)
  OBVIOUS
<1>5. a = [b EXCEPT !.last = id, !.recent = w]
  BY <1>3, <1>4 DEF Assess
<1>6. \/ b = [m EXCEPT !.band = raw, !.better = NotEvaluated, !.count = 0]
      \/ b = [m EXCEPT !.better = NotEvaluated, !.count = 0]
      \/ b = [m EXCEPT !.better = raw, !.count = n]
  BY <1>3 DEF Banded
<1>7. a.band = b.band /\ a.better = b.better /\ a.count = b.count
  <2>1. DOMAIN b = DOMAIN m /\ DOMAIN m = {"band", "better", "count", "last", "recent"}
    BY <1>6 DEF ModelStates
  <2> QED BY <1>5, <2>1
<1>8. m.band \in Int /\ raw \in Int /\ n \in Int
  BY DEF ModelStates, Bands, RawBands, Good, Inspection, Replacement, NotEvaluated
<1>9. CASE m.band = NotEvaluated \/ raw > m.band
  <2>1. b = [m EXCEPT !.band = raw, !.better = NotEvaluated, !.count = 0]
    BY <1>3, <1>9 DEF Banded
  <2>2. b.band = raw /\ b.better = NotEvaluated /\ b.count = 0
    BY <2>1 DEF ModelStates
  <2> QED BY <1>2, <1>7, <1>8, <1>9, <2>2
<1>10. CASE m.band # NotEvaluated /\ raw = m.band
  <2>1. b = [m EXCEPT !.better = NotEvaluated, !.count = 0]
    BY <1>3, <1>8, <1>10 DEF Banded
  <2>2. b.band = m.band /\ b.better = NotEvaluated /\ b.count = 0
    BY <2>1 DEF ModelStates
  <2> QED BY <1>2, <1>7, <1>8, <1>10, <2>2
<1>11. CASE m.band # NotEvaluated /\ raw < m.band /\ n >= 3
  <2>1. b = [m EXCEPT !.band = raw, !.better = NotEvaluated, !.count = 0]
    BY <1>3, <1>8, <1>11 DEF Banded
  <2>2. b.band = raw /\ b.better = NotEvaluated /\ b.count = 0
    BY <2>1 DEF ModelStates
  <2> QED BY <1>2, <1>7, <1>8, <1>11, <2>2
<1>12. CASE m.band # NotEvaluated /\ raw < m.band /\ n < 3
  <2>1. b = [m EXCEPT !.better = raw, !.count = n]
    BY <1>3, <1>8, <1>12 DEF Banded
  <2>2. b.band = m.band /\ b.better = raw /\ b.count = n
    BY <2>1 DEF ModelStates
  <2> QED BY <1>2, <1>7, <1>8, <1>12, <2>2
<1> QED BY <1>8, <1>9, <1>10, <1>11, <1>12

(* One episode more: what was recorded stays, and the last record is new. *)
LEMMA HistoryGrows ==
  ASSUME HInv, NEW raw \in RawBands, NEW b \in RawBands, NEW L, L = Len(past),
         past' = Append(past, [raw |-> raw, band |-> b])
  PROVE  /\ past' \in Seq(Judged) /\ Len(past') = L + 1 /\ L \in Nat
         /\ DOMAIN past = 1..L /\ DOMAIN past' = 1..(L + 1)
         /\ past'[L + 1].raw = raw /\ past'[L + 1].band = b
         /\ BandNow' = b /\ BandBefore(L + 1)' = model.band
         /\ \A n \in 1..L : past'[n] = past[n] /\ BandBefore(n)' = BandBefore(n)
<1>1. past \in Seq(Judged) /\ model.band = BandNow
  BY DEF HInv
<1>2. PICK x : x = [raw |-> raw, band |-> b]
  OBVIOUS
<1>3. x \in Judged /\ x.raw = raw /\ x.band = b
  BY <1>2 DEF Judged
<1>4. past' = Append(past, x)
  BY <1>2
<1>5. /\ past' \in Seq(Judged) /\ Len(past') = L + 1 /\ L \in Nat
      /\ DOMAIN past = 1..L /\ DOMAIN past' = 1..(L + 1)
      /\ past'[L + 1] = x /\ \A n \in 1..L : past'[n] = past[n]
  BY <1>1, <1>3, <1>4
<1>6. BandNow' = b
  BY <1>3, <1>5 DEF BandNow
<1>7. BandBefore(L + 1)' = model.band
  <2>1. past = <<>> <=> L = 0
    BY <1>1
  <2>2. CASE L = 0
    BY <1>1, <2>1, <2>2 DEF BandBefore, BandNow
  <2>3. CASE L # 0
    <3>1. L \in 1..L /\ L + 1 # 1 /\ (L + 1) - 1 = L
      BY <1>5, <2>3
    <3>2. BandBefore(L + 1)' = past'[L].band
      BY <3>1 DEF BandBefore
    <3> QED BY <1>1, <1>5, <2>1, <2>3, <3>1, <3>2 DEF BandNow
  <2> QED BY <2>2, <2>3
<1>8. ASSUME NEW n \in 1..L PROVE BandBefore(n)' = BandBefore(n)
  <2>1. n = 1 \/ n - 1 \in 1..L
    BY <1>5
  <2> QED BY <1>5, <2>1 DEF BandBefore
<1> QED BY <1>3, <1>5, <1>6, <1>7, <1>8

LEMMA HInvNext == HInv /\ [ConditionNext]_conditionVars => HInv'
<1> SUFFICES ASSUME HInv, [ConditionNext]_conditionVars PROVE HInv'
  OBVIOUS
<1>1. CASE UNCHANGED conditionVars
  BY <1>1 DEF conditionVars, HInv, BandNow, CounterOK, Waited, BandBefore, BandFollowsHistory, ThirdBetter
<1>2. ASSUME NEW f, NEW samples, NEW id \in Ids, Apply(f, samples, id) PROVE HInv'
  <2>1. PICK raw \in RawBands : raw = Raw(Score(f))
    BY DEF Raw, RawBands
  <2>2. PICK a : a = Assess(model, raw, id)
    OBVIOUS
  <2>3. model' = a /\ past' = Append(past, [raw |-> raw, band |-> a.band])
    BY <1>2, <2>1, <2>2 DEF Apply
  <2>4. PICK c \in Int, m \in Bands :
          c = (IF model.better = raw THEN model.count + 1 ELSE 1) /\ m = model.band
    BY DEF HInv, ModelStates
  <2>5. /\ a \in ModelStates /\ a.band \in RawBands
        /\ m = NotEvaluated \/ raw > m =>
             a.band = raw /\ a.better = NotEvaluated /\ a.count = 0
        /\ m # NotEvaluated /\ raw = m =>
             a.band = m /\ a.better = NotEvaluated /\ a.count = 0
        /\ m # NotEvaluated /\ raw < m /\ c >= 3 =>
             a.band = raw /\ a.better = NotEvaluated /\ a.count = 0
        /\ m # NotEvaluated /\ raw < m /\ c < 3 =>
             a.band = m /\ a.better = raw /\ a.count = c
    BY <2>2, <2>4, AssessFields DEF HInv
  <2>6. PICK L : L = Len(past)
    OBVIOUS
  <2>7. /\ past' \in Seq(Judged) /\ Len(past') = L + 1 /\ L \in Nat
        /\ DOMAIN past = 1..L /\ DOMAIN past' = 1..(L + 1)
        /\ past'[L + 1].raw = raw /\ past'[L + 1].band = a.band
        /\ BandNow' = a.band /\ BandBefore(L + 1)' = model.band
        /\ \A n \in 1..L : past'[n] = past[n] /\ BandBefore(n)' = BandBefore(n)
    BY <2>3, <2>5, <2>6, HistoryGrows
  <2>8. /\ m \in Int /\ model.better \in Int /\ raw \in Int /\ a.band \in Int /\ c \in Int
        /\ \A r \in RawBands : r \in Int /\ r > NotEvaluated
        /\ m \in RawBands \cup {NotEvaluated} /\ NotEvaluated \in Int
    BY <2>4, <2>5 DEF HInv, ModelStates, Bands, RawBands, Good, Inspection, Replacement, NotEvaluated
  <2>9. /\ \A n \in 1..L : \A r, b : Waited(n, r, b)' <=> Waited(n, r, b)
        /\ \A r, b : Waited(L + 1, r, b)' <=> raw = r /\ m = b /\ a.band = b
        /\ \A n, r, b : Waited(n, r, b) => n \in 1..L
        /\ \A n, r, b : Waited(n, r, b)' => n \in 1..(L + 1)
    BY <2>4, <2>7 DEF Waited
  <2>10. /\ L = 0 => m = NotEvaluated
         /\ L # 0 => m \in RawBands /\ past[L].band = m
    <3>1. past \in Seq(Judged) /\ m = BandNow
      BY <2>4 DEF HInv
    <3>2. L = 0 => past = <<>>
      <4>1. Len(past) = 0 => past = <<>>
        BY <3>1
      <4> QED BY <2>6, <4>1
    <3>3. L # 0 => past # <<>> /\ past[L] \in Judged
      BY <2>6, <2>7, <3>1
    <3>4. L # 0 => BandNow = past[L].band
      BY <2>6, <3>3 DEF BandNow
    <3>5. L = 0 => BandNow = NotEvaluated
      BY <3>2 DEF BandNow
    <3> QED BY <3>1, <3>3, <3>4, <3>5 DEF Judged
  <2>11. /\ model.count \in {0, 1, 2}
         /\ model.count # 0 => model.better < m /\ Waited(L, model.better, m)
         /\ model.count = 2 => Waited(L - 1, model.better, m)
         /\ \A r \in RawBands : r < m /\ Waited(L, r, m) =>
              /\ model.better = r /\ model.count # 0
              /\ Waited(L - 1, r, m) => model.count = 2
    BY <2>4, <2>6 DEF HInv, CounterOK
  <2>12. CounterOK'
    <3>0. PICK k \in Int : k = L + 1 /\ k - 1 = L
      BY <2>7
    <3>1. SUFFICES
            /\ a.count \in {0, 1, 2}
            /\ a.count # 0 => a.better < a.band /\ Waited(k, a.better, a.band)'
            /\ a.count = 2 => Waited(L, a.better, a.band)'
            /\ \A r \in RawBands : r < a.band /\ Waited(k, r, a.band)' =>
                 /\ a.better = r /\ a.count # 0
                 /\ Waited(L, r, a.band)' => a.count = 2
      BY <2>3, <2>7, <3>0 DEF CounterOK
    <3>2. CASE a.count = 0
      <4>1. ASSUME NEW r \in RawBands, r < a.band, raw = r, m = a.band PROVE FALSE
        BY <2>4, <2>5, <2>8, <2>11, <3>2, <4>1
      <4>2. ASSUME NEW r \in RawBands, r < a.band, Waited(L + 1, r, a.band)' PROVE FALSE
        BY <2>9, <4>1, <4>2
      <4> QED BY <3>0, <3>2, <4>2
    <3>3. CASE a.count # 0
      <4>1. /\ m # NotEvaluated /\ raw < m /\ c < 3
            /\ a.band = m /\ a.better = raw /\ a.count = c
        BY <2>5, <2>8, <3>3
      <4>2. c \in {1, 2} /\ (c = 2 <=> model.better = raw /\ model.count = 1)
        BY <2>4, <2>11, <4>1
      <4>3. Waited(L + 1, raw, m)'
        BY <2>9, <4>1
      <4>4. c = 2 => Waited(L, raw, m)'
        BY <2>9, <2>11, <4>2
      <4>5. Waited(L, raw, m)' => c = 2
        <5> SUFFICES ASSUME Waited(L, raw, m)' PROVE c = 2
          OBVIOUS
        <5>1. L \in 1..L
          BY <2>7, <2>9
        <5>2. Waited(L, raw, m)
          BY <2>9, <5>1
        <5>3. model.better = raw /\ model.count # 0
          BY <2>11, <4>1, <5>2
        <5> QED BY <2>4, <2>11, <4>1, <4>2, <5>3
      <4>6. \A r : Waited(L + 1, r, m)' => r = raw
        BY <2>9
      <4> QED BY <3>0, <4>1, <4>2, <4>3, <4>4, <4>5, <4>6
    <3> QED BY <3>2, <3>3, <2>5 DEF ModelStates
  <2>13. ASSUME NEW n \in 1..L PROVE ThirdBetter(n)' <=> ThirdBetter(n)
    <3>1. n >= 3 => n - 2 \in 1..L /\ n - 1 \in 1..L
      BY <2>7
    <3> QED BY <2>7, <3>1 DEF ThirdBetter
  <2>14. ThirdBetter(L + 1)' <=> L >= 2 /\ raw < m /\ Waited(L, raw, m) /\ Waited(L - 1, raw, m)
    <3>1. CASE L < 2
      BY <2>7, <3>1 DEF ThirdBetter
    <3>2. CASE L >= 2
      <4>1. PICK i \in 1..L, j \in 1..L : i = L - 1 /\ j = L /\ i + 1 = j /\ j + 1 = L + 1
        BY <2>7, <3>2
      <4>2. ThirdBetter(L + 1)' <=>
              /\ raw < m
              /\ past[i].raw = raw /\ BandBefore(i) = m
              /\ past[j].raw = raw /\ BandBefore(j) = m
        <5>1. (L + 1) - 2 = i /\ (L + 1) - 1 = j /\ L + 1 >= 3
          BY <2>7, <3>2, <4>1
        <5>2. ThirdBetter(L + 1)' <=>
                /\ past'[L + 1].raw < BandBefore(L + 1)'
                /\ \A q \in {i, j} : /\ past'[q].raw = past'[L + 1].raw
                                     /\ BandBefore(q)' = BandBefore(L + 1)'
          BY <5>1 DEF ThirdBetter
        <5> QED BY <2>4, <2>7, <4>1, <5>2
      <4>3. past[j].band = m
        BY <2>10, <3>2, <4>1, <2>7
      <4>4. BandBefore(j) = past[i].band
        BY <2>7, <3>2, <4>1 DEF BandBefore
      <4> QED BY <2>7, <3>2, <4>1, <4>2, <4>3, <4>4 DEF Waited
    <3> QED BY <2>7, <3>1, <3>2
  <2>15. raw < m /\ m # NotEvaluated => (c >= 3 <=> ThirdBetter(L + 1)')
    <3> SUFFICES ASSUME raw < m, m # NotEvaluated PROVE c >= 3 <=> ThirdBetter(L + 1)'
      OBVIOUS
    <3>1. c >= 3 <=> model.better = raw /\ model.count = 2
      BY <2>4, <2>11
    <3>2. model.better = raw /\ model.count = 2 => ThirdBetter(L + 1)'
      <4> SUFFICES ASSUME model.better = raw, model.count = 2 PROVE ThirdBetter(L + 1)'
        OBVIOUS
      <4>1. Waited(L, raw, m) /\ Waited(L - 1, raw, m)
        BY <2>11
      <4>2. L - 1 \in 1..L
        BY <2>9, <4>1
      <4> QED BY <2>7, <2>14, <4>1, <4>2
    <3>3. ThirdBetter(L + 1)' => model.better = raw /\ model.count = 2
      BY <2>11, <2>14
    <3> QED BY <3>1, <3>2, <3>3
  <2>16. ASSUME NEW n \in 1..L
         PROVE  past'[n].band = IF n = 1 \/ past'[n].raw > BandBefore(n)' \/ ThirdBetter(n)'
                                THEN past'[n].raw ELSE BandBefore(n)'
    <3>1. past[n].band = IF n = 1 \/ past[n].raw > BandBefore(n) \/ ThirdBetter(n)
                         THEN past[n].raw ELSE BandBefore(n)
      BY <2>7 DEF HInv, BandFollowsHistory
    <3> QED BY <2>7, <2>13, <3>1
  <2>17. a.band = IF L + 1 = 1 \/ raw > m \/ ThirdBetter(L + 1)' THEN raw ELSE m
    <3>1. CASE m = NotEvaluated
      BY <2>5, <2>7, <2>8, <2>10, <3>1
    <3>2. CASE m # NotEvaluated /\ raw > m
      BY <2>5, <3>2
    <3>3. CASE m # NotEvaluated /\ raw = m
      BY <2>5, <3>3
    <3>4. CASE m # NotEvaluated /\ raw < m
      <4>1. L + 1 # 1 /\ ~(raw > m)
        BY <2>7, <2>8, <2>10, <3>4
      <4> QED BY <2>5, <2>8, <2>15, <3>4, <4>1
    <3> QED BY <2>8, <3>1, <3>2, <3>3, <3>4
  <2>18. BandFollowsHistory'
    <3>1. ASSUME NEW n \in 1..(L + 1)
          PROVE  past'[n].band = IF n = 1 \/ past'[n].raw > BandBefore(n)' \/ ThirdBetter(n)'
                                 THEN past'[n].raw ELSE BandBefore(n)'
      <4>1. CASE n = L + 1
        BY <2>4, <2>7, <2>17, <4>1
      <4>2. CASE n # L + 1
        <5>1. n \in 1..L
          BY <2>7, <4>2
        <5> QED BY <2>16, <5>1
      <4> QED BY <4>1, <4>2
    <3> QED BY <2>7, <3>1 DEF BandFollowsHistory
  <2> QED BY <2>3, <2>5, <2>7, <2>12, <2>18 DEF HInv
<1> QED BY <1>1, <1>2 DEF ConditionNext

LEMMA HInvInit == ConditionInit => HInv
<1> SUFFICES ASSUME ConditionInit PROVE HInv
  OBVIOUS
<1>1. past = <<>> /\ model = FreshModel
  BY DEF ConditionInit
<1>2. past \in Seq(Judged) /\ Len(past) = 0 /\ DOMAIN past = {}
  BY <1>1
<1>3. model \in ModelStates
  <2>0. <<>> \in Seq(Ids)
    OBVIOUS
  <2>1. PICK z \in Seq(Ids) : z = <<>>
    BY <2>0, Zenon
  <2>2. PICK i \in Ids \cup {NoId} : i = NoId
    OBVIOUS
  <2>3. PICK b \in Bands : b = NotEvaluated
    BY DEF Bands
  <2>4. PICK c \in Int : c = 0
    OBVIOUS
  <2>5. model = [band |-> b, better |-> b, count |-> c, last |-> i, recent |-> z]
    BY <1>1, <2>1, <2>2, <2>3, <2>4 DEF FreshModel
  <2> QED BY <2>5 DEF ModelStates
<1>4. model.band = BandNow /\ model.count = 0
  BY <1>1 DEF FreshModel, BandNow
<1>5. CounterOK
  BY <1>2, <1>4 DEF CounterOK, Waited
<1> QED BY <1>2, <1>3, <1>4, <1>5 DEF HInv, BandFollowsHistory

(* However long the sequence of episodes that apply_episode assesses, the   *)
(* accepted band that the counters of ModelState give is the one that the   *)
(* history of raw bands alone gives.                                        *)
THEOREM BandFollows == ConditionSpec => []BandFollowsHistory
<1>1. HInv => BandFollowsHistory
  BY DEF HInv
<1> QED BY HInvInit, HInvNext, <1>1, PTL DEF ConditionSpec
=============================================================================
