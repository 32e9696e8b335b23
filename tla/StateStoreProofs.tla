-------------------------- MODULE StateStoreProofs --------------------------
(***************************************************************************)
(* Proofs about StateStore for any states, messages and limits: the type   *)
(* invariant, and for any number of failing calls the two facts that make  *)
(* the journal worth its syncs, that a committed state survives and that   *)
(* the checksum never refuses the store's own writes; and, over power      *)
(* losses alone, that an accepted message survives until its receipt.      *)
(*                                                                         *)
(* The first two are about the root directory alone, so the argument is    *)
(* made over `Roots', the root directories of the crash images: a change   *)
(* of the namespace adds one, a sync of the root leaves only the visible   *)
(* one.  The last is about the outboxes of the images in the same way.     *)
(***************************************************************************)
EXTENDS StateStore, TLAPS, WellFoundedInduction

JobOps == {"txn", "state", "sha", "msg", "commit", "remove_txn"}

(* Which operation may be under way in which phase, and with what data. *)
ControlOK ==
  /\ stage # "open" => pc # "idle"
  /\ stage = "rename" => pc \notin Removes
  /\ phase \in {"down", "loading", "failed"} => pc = "idle"
  /\ phase = "creating" => pc \in {"state", "sha"}
  /\ phase = "replaying" => pc \in JobOps \ {"txn"}
  /\ pc \in JobOps => job \in Txn
  /\ pc \in {"ack", "blocked"} => key \in Keys
  /\ pc = "msg" /\ stage # "open" => \E m \in left : m.key = key

TInv == TypeOK /\ ControlOK

-----------------------------------------------------------------------------
Roots == {v.root : v \in images}

Recovers(r) == IF r.txn # None THEN r.txn.state ELSE r.state

(* Every root a crash may leave: what it recovers to is legitimate, its    *)
(* checksum matches unless a journal covers it, and a root without a state *)
(* has nothing else, which only happens before the first state is durable. *)
RootOK(r) ==
  /\ Recovers(r) \in may
  /\ r.txn = None /\ r.sha # None => r.sha = r.state
  /\ r.state = None => r.sha = None /\ r.txn = None /\ InitStates \subseteq may

(* What the visible root says about the others. *)
VisibleOK ==
  /\ disk.root.sha # None => \A r \in Roots : r.state # None
  /\ disk.root.txn = None /\ disk.root.sha # None =>
       \A r \in Roots : Recovers(r) = disk.root.state
  /\ phase = "ready" => disk.root.sha # None
  /\ phase = "loading" => disk.root.txn = None

(* How far the transaction or the first start under way has come. *)
ProgressOK ==
  /\ pc \in JobOps => job.state \in may
  /\ pc = "txn" /\ stage = "sync" => disk.root.txn = job
  /\ pc \in {"state", "sha", "msg", "commit"} /\ phase # "creating" => disk.root.txn = job
  /\ phase = "creating" => /\ disk.root.txn = None /\ mem = job.state
                           /\ pc = "state" => disk.root.sha = None
  /\ pc = "state" /\ stage = "sync" => disk.root.state = job.state
  /\ pc \in {"sha", "msg", "commit", "remove_txn"} =>
       \A r \in Roots : r.state = job.state /\ Recovers(r) = job.state
  /\ pc = "sha" /\ stage = "sync" => disk.root.sha = job.state
  /\ pc \in {"msg", "commit", "remove_txn"} => disk.root.sha = job.state
  /\ pc = "remove_txn" /\ stage = "sync" => disk.root.txn = None

RInv == (\A r \in Roots : RootOK(r)) /\ VisibleOK /\ ProgressOK

IInv == TInv /\ RInv

-----------------------------------------------------------------------------
(* Edits of a disk: the edited field changes, the others do not. *)

LEMMA EditRootTemp ==
  ASSUME NEW d \in Disk, NEW T \in SUBSET RootTemps
  PROVE  LET e == [d EXCEPT !.root.temp = T]
         IN  /\ e \in Disk /\ e.out = d.out
             /\ e.root.txn = d.root.txn /\ e.root.state = d.root.state
             /\ e.root.sha = d.root.sha
  BY DEF Disk, Root

LEMMA EditTxn ==
  ASSUME NEW d \in Disk, NEW t \in Txn \cup {None}
  PROVE  LET e == [d EXCEPT !.root.txn = t]
         IN  /\ e \in Disk /\ e.out = d.out
             /\ e.root.txn = t /\ e.root.state = d.root.state
             /\ e.root.sha = d.root.sha
  BY DEF Disk, Root

LEMMA EditState ==
  ASSUME NEW d \in Disk, NEW s \in States \cup {None}
  PROVE  LET e == [d EXCEPT !.root.state = s]
         IN  /\ e \in Disk /\ e.out = d.out
             /\ e.root.txn = d.root.txn /\ e.root.state = s
             /\ e.root.sha = d.root.sha
  BY DEF Disk, Root

LEMMA EditSha ==
  ASSUME NEW d \in Disk, NEW s \in States \cup {None}
  PROVE  LET e == [d EXCEPT !.root.sha = s]
         IN  /\ e \in Disk /\ e.out = d.out
             /\ e.root.txn = d.root.txn /\ e.root.state = d.root.state
             /\ e.root.sha = s
  BY DEF Disk, Root

LEMMA EditOutTemp ==
  ASSUME NEW d \in Disk, NEW T \in SUBSET OutboxTemps
  PROVE  LET e == [d EXCEPT !.out.temp = T]
         IN  e \in Disk /\ e.root = d.root /\ e.out.msg = d.out.msg /\ e.out.blocked = d.out.blocked
  BY DEF Disk, Outbox

LEMMA EditMsg ==
  ASSUME NEW d \in Disk, NEW k \in Keys, NEW b \in Bytes \cup {None}
  PROVE  LET e == [d EXCEPT !.out.msg[k] = b]
         IN  /\ e \in Disk /\ e.root = d.root /\ e.out.msg = [d.out.msg EXCEPT ![k] = b]
             /\ e.out.blocked = d.out.blocked
  BY DEF Disk, Outbox

LEMMA EditBlocked ==
  ASSUME NEW d \in Disk, NEW B \in SUBSET Keys
  PROVE  LET e == [d EXCEPT !.out.blocked = B]
         IN  e \in Disk /\ e.root = d.root /\ e.out.msg = d.out.msg /\ e.out.blocked = B
  BY DEF Disk, Outbox

(* Two roots that differ in temporaries only. *)
SameFiles(r, q) == r.txn = q.txn /\ r.state = q.state /\ r.sha = q.sha

LEMMA WithTempFacts ==
  ASSUME NEW d \in Disk, TInv, pc \notin Removes \cup {"idle", "msg"}
  PROVE  /\ WithTemp(d) \in Disk /\ SameFiles(WithTemp(d).root, d.root)
         /\ WithTemp(d).out.msg = d.out.msg /\ WithTemp(d).out.blocked = d.out.blocked
         /\ IF pc \in RootOps THEN WithTemp(d).out = d.out ELSE WithTemp(d).root = d.root
<1>1. CASE pc \in RootOps
  <2>1. d.root.temp \cup {pc} \in SUBSET RootTemps
    BY <1>1 DEF Disk, Root, RootOps, RootTemps, Removes
  <2> QED BY <1>1, <2>1, EditRootTemp DEF WithTemp, SameFiles
<1>2. CASE pc \notin RootOps
  <2>1. pc = "blocked" /\ key \in Keys
    BY <1>2 DEF TInv, TypeOK, ControlOK, RootOps, OutboxOps, Removes
  <2>2. d.out.temp \cup {<<pc, key>>} \in SUBSET OutboxTemps
    BY <2>1 DEF Disk, Outbox, OutboxTemps
  <2> QED BY <1>2, <2>2, EditOutTemp DEF WithTemp, SameFiles
<1> QED BY <1>1, <1>2

LEMMA WithoutTempFacts ==
  ASSUME NEW d \in Disk
  PROVE  /\ WithoutTemp(d) \in Disk /\ SameFiles(WithoutTemp(d).root, d.root)
         /\ WithoutTemp(d).out.msg = d.out.msg /\ WithoutTemp(d).out.blocked = d.out.blocked
         /\ IF pc \in RootOps THEN WithoutTemp(d).out = d.out ELSE WithoutTemp(d).root = d.root
<1>1. CASE pc \in RootOps
  <2>1. d.root.temp \ {pc} \in SUBSET RootTemps
    BY DEF Disk, Root
  <2> QED BY <1>1, <2>1, EditRootTemp DEF WithoutTemp, SameFiles
<1>2. CASE pc \notin RootOps
  <2>1. d.out.temp \ {<<pc, key>>} \in SUBSET OutboxTemps
    BY DEF Disk, Outbox
  <2> QED BY <1>2, <2>1, EditOutTemp DEF WithoutTemp, SameFiles
<1> QED BY <1>1, <1>2

(* The message that an outbox write is about. *)
LEMMA LeftMessage ==
  ASSUME TInv, pc = "msg", stage # "open"
  PROVE  key \in Keys /\ (CHOOSE m \in left : m.key = key).bytes \in Bytes
<1>1. \E m \in left : m.key = key
  BY DEF TInv, ControlOK
<1>2. (CHOOSE m \in left : m.key = key) \in left /\ (CHOOSE m \in left : m.key = key).key = key
  BY <1>1
<1>3. left \subseteq Message
  BY DEF TInv, TypeOK
<1> QED BY <1>2, <1>3 DEF Message

(* A rename installs one file, by the operation it belongs to. *)
LEMMA InstallFacts ==
  ASSUME NEW d \in Disk, TInv, stage = "rename"
  PROVE  /\ Install(d) \in Disk
         /\ Install(d).root.txn   = IF pc = "txn" THEN job ELSE d.root.txn
         /\ Install(d).root.state = IF pc = "state" THEN job.state ELSE d.root.state
         /\ Install(d).root.sha   = IF pc = "sha" THEN job.state ELSE d.root.sha
         /\ pc # "msg" => Install(d).out.msg = d.out.msg
         /\ pc = "msg" => Install(d).out.msg =
              [d.out.msg EXCEPT ![key] = (CHOOSE m \in left : m.key = key).bytes]
         /\ Install(d).out.blocked = IF pc = "blocked" THEN d.out.blocked \cup {key} ELSE d.out.blocked
         /\ IF pc \in RootOps THEN Install(d).out = d.out ELSE Install(d).root = d.root
<1>0. pc \in {"txn", "state", "sha", "commit", "msg", "blocked"}
  BY DEF TInv, TypeOK, ControlOK, RootOps, OutboxOps, Removes
<1>1. pc \in {"txn", "state", "sha"} => job \in Txn /\ job.state \in States
  BY DEF TInv, ControlOK, JobOps, Txn
<1>2. CASE pc = "txn"
  <2>1. Install(d) = [d EXCEPT !.root.txn = job]
    BY <1>2 DEF Install
  <2> QED BY <1>1, <1>2, <2>1, EditTxn DEF RootOps
<1>3. CASE pc = "state"
  <2>1. Install(d) = [d EXCEPT !.root.state = job.state]
    BY <1>3 DEF Install
  <2> QED BY <1>1, <1>3, <2>1, EditState DEF RootOps
<1>4. CASE pc = "sha"
  <2>1. Install(d) = [d EXCEPT !.root.sha = job.state]
    BY <1>4 DEF Install
  <2> QED BY <1>1, <1>4, <2>1, EditSha DEF RootOps
<1>5. CASE pc = "msg"
  <2>1. Install(d) = [d EXCEPT !.out.msg[key] = (CHOOSE m \in left : m.key = key).bytes]
    BY <1>5 DEF Install
  <2> QED BY <1>5, <2>1, LeftMessage, EditMsg DEF RootOps
<1>6. CASE pc = "blocked"
  <2>1. key \in Keys
    BY <1>6 DEF TInv, ControlOK
  <2>2. d.out.blocked \cup {key} \in SUBSET Keys
    BY <2>1 DEF Disk, Outbox
  <2>3. Install(d) = [d EXCEPT !.out.blocked = @ \cup {key}]
    BY <1>6 DEF Install
  <2> QED BY <1>6, <2>2, <2>3, EditBlocked DEF RootOps
<1>7. CASE pc = "commit"
  BY <1>7 DEF Install, RootOps
<1> QED BY <1>0, <1>2, <1>3, <1>4, <1>5, <1>6, <1>7

LEMMA UnlinkedFacts ==
  ASSUME NEW d \in Disk, TInv, pc \in Removes
  PROVE  /\ Unlinked(d) \in Disk
         /\ Unlinked(d).root.txn = IF pc = "remove_txn" THEN None ELSE d.root.txn
         /\ Unlinked(d).root.state = d.root.state
         /\ Unlinked(d).root.sha = d.root.sha
         /\ pc # "ack" => Unlinked(d).out.msg = d.out.msg
         /\ pc = "ack" => Unlinked(d).out.msg = [d.out.msg EXCEPT ![key] = None]
         /\ Unlinked(d).out.blocked = d.out.blocked
         /\ IF pc \in RootOps THEN Unlinked(d).out = d.out ELSE Unlinked(d).root = d.root
<1>1. CASE pc = "ack"
  <2>1. key \in Keys
    BY <1>1 DEF TInv, ControlOK
  <2> QED BY <1>1, <2>1, EditMsg DEF Unlinked, RootOps
<1>2. CASE pc = "remove_txn"
  BY <1>2, EditTxn DEF Unlinked, RootOps
<1> QED BY <1>1, <1>2 DEF Removes

-----------------------------------------------------------------------------
(* What the three ways to touch the disk do to its images. *)

DisksOK == /\ disk \in Disk /\ images \subseteq Disk /\ synced \in Disk
           /\ disk \in images /\ synced \in images

LEMMA SeeFacts ==
  ASSUME TInv, NEW d \in Disk, See(d)
  PROVE  DisksOK' /\ disk' = d /\ Roots' = Roots \cup {d.root}
<1>1. DisksOK' /\ disk' = d
  BY DEF See, TInv, TypeOK, DisksOK
<1>2. images' = images \cup {d}
  BY DEF See
<1> QED BY <1>1, <1>2 DEF Roots

LEMMA SyncRootFacts ==
  ASSUME TInv, SyncRoot, disk' = disk
  PROVE  DisksOK' /\ Roots' = {disk.root}
<1>1. DisksOK
  BY DEF TInv, TypeOK, DisksOK
<1>2. \A v \in Disk : /\ [v EXCEPT !.root = disk.root] \in Disk
                     /\ [v EXCEPT !.root = disk.root].root = disk.root
  BY <1>1 DEF DisksOK, Disk
<1>3. [disk EXCEPT !.root = disk.root] = disk
  BY <1>1 DEF DisksOK, Disk
<1>4. /\ images' = {[v EXCEPT !.root = disk.root] : v \in images}
      /\ synced' = [synced EXCEPT !.root = disk.root]
  BY DEF SyncRoot
<1>5. DisksOK'
  BY <1>1, <1>2, <1>3, <1>4 DEF DisksOK
<1>6. \A v \in images' : v.root = disk.root
  BY <1>1, <1>2, <1>4 DEF DisksOK
<1>7. disk \in images'
  BY <1>5 DEF DisksOK
<1> QED BY <1>5, <1>6, <1>7 DEF Roots

LEMMA SyncOutboxFacts ==
  ASSUME TInv, SyncOutbox, disk' = disk
  PROVE  DisksOK' /\ Roots' = Roots
<1>1. DisksOK
  BY DEF TInv, TypeOK, DisksOK
<1>2. \A v \in Disk : /\ [v EXCEPT !.out = disk.out] \in Disk
                     /\ [v EXCEPT !.out = disk.out].root = v.root
  BY <1>1 DEF DisksOK, Disk
<1>3. [disk EXCEPT !.out = disk.out] = disk
  BY <1>1 DEF DisksOK, Disk
<1>4. /\ images' = {[v EXCEPT !.out = disk.out] : v \in images}
      /\ synced' = [synced EXCEPT !.out = disk.out]
  BY DEF SyncOutbox
<1>5. DisksOK'
  BY <1>1, <1>2, <1>3, <1>4 DEF DisksOK
<1>6. \A v \in images : [v EXCEPT !.out = disk.out].root = v.root
  BY <1>1, <1>2 DEF DisksOK
<1>7. ASSUME NEW r \in Roots PROVE r \in Roots'
  <2>1. PICK v \in images : r = v.root
    BY DEF Roots
  <2>2. PICK w : w = [v EXCEPT !.out = disk.out]
    OBVIOUS
  <2>3. w \in images' /\ w.root = r
    BY <1>4, <1>6, <2>1, <2>2
  <2> QED BY <2>3 DEF Roots
<1>8. ASSUME NEW r \in Roots' PROVE r \in Roots
  <2>1. PICK w \in images' : r = w.root
    BY DEF Roots
  <2>2. PICK v \in images : w = [v EXCEPT !.out = disk.out]
    BY <1>4, <2>1
  <2>3. v.root = r
    BY <1>6, <2>1, <2>2
  <2> QED BY <2>3 DEF Roots
<1> QED BY <1>5, <1>7, <1>8

(* pending() returns a stored message: the outbox names are ordered, and   *)
(* a set of naturals that is not empty has a least element.                *)
LEMMA PendingMessage ==
  ASSUME TInv, Deliverable(disk.out) # {}
  PROVE  pending(disk.out) \in Message /\ pending(disk.out).key \in Deliverable(disk.out)
<1> DEFINE D == Deliverable(disk.out)
           k == CHOOSE i \in D : \A j \in D : i <= j
           Below == OpToRel(<, Nat)
<1>1. D \subseteq Keys /\ D \subseteq Nat
  BY StoreAssumption DEF Deliverable, Stored
<1>a. IsWellFoundedOn(Below, Nat)
  BY NatLessThanWellFounded
<1>b. \A i, j \in Nat : i < j => <<i, j>> \in Below
  BY DEF OpToRel
<1>c. D # {}
  OBVIOUS
<1>2. PICK i \in D : \A j \in D : ~(<<j, i>> \in Below)
  <2>1. \A S : S \subseteq Nat /\ S # {} =>
          \E x \in S : \A y \in S : ~(<<y, x>> \in Below)
    <3> HIDE DEF Below
    <3> SUFFICES ASSUME NEW S, S \subseteq Nat, S # {}
                 PROVE  \E x \in S : \A y \in S : ~(<<y, x>> \in Below)
      OBVIOUS
    <3> QED BY <1>a, WFMin
  <2> HIDE DEF D, Below
  <2> QED BY <1>1, <1>c, <2>1
<1>3. \A j \in D : i <= j
  <2> HIDE DEF D, Below
  <2> SUFFICES ASSUME NEW j \in D PROVE i <= j
    OBVIOUS
  <2>1. i \in Nat /\ j \in Nat
    BY <1>1, <1>2
  <2>2. ~(j < i)
    BY <1>b, <1>2, <2>1
  <2> QED BY <2>1, <2>2
<1>4. k \in D
  BY <1>3
<1>5. disk.out.msg \in [Keys -> Bytes \cup {None}] /\ disk.out.msg[k] # None
  BY <1>4 DEF TInv, TypeOK, Disk, Outbox, Deliverable, Stored
<1>6. disk.out.msg[k] \in Bytes
  BY <1>1, <1>4, <1>5
<1>7. pending(disk.out) = [key |-> k, bytes |-> disk.out.msg[k]]
  BY DEF pending
<1> QED BY <1>1, <1>4, <1>6, <1>7 DEF Message

-----------------------------------------------------------------------------
(* The type invariant is inductive together with ControlOK. *)

RunOK ==
  /\ phase \in {"down", "replaying", "loading", "creating", "ready", "failed"}
  /\ pc \in RootOps \cup OutboxOps \cup {"idle"}
  /\ stage \in {"open", "rename", "sync"}
  /\ job \in Txn \cup {None} /\ left \subseteq Message
  /\ key \in Keys \cup {None}
  /\ mem \in States \cup {None}
  /\ inflight \in Message \cup {None}
  /\ faults \in 0..MaxFaults
  /\ may \subseteq States \cup {None}
  /\ owed \subseteq Message

LEMMA TInvParts == TInv <=> DisksOK /\ RunOK /\ ControlOK
  BY DEF TInv, TypeOK, DisksOK, RunOK

(* An operation that ends, ends in a typed and idle store. *)
LEMMA FinishFacts ==
  ASSUME RunOK, Finish, phase' \in {"down", "loading", "ready", "failed"},
         mem' \in States \cup {None}, inflight' \in Message \cup {None},
         faults' \in 0..MaxFaults, may' \subseteq States \cup {None},
         owed' \subseteq Message
  PROVE  RunOK' /\ ControlOK'
  BY DEF RunOK, Finish, Go, ControlOK, JobOps, Removes

LEMMA ThrowFacts ==
  ASSUME RunOK, Throw, faults' \in 0..MaxFaults
  PROVE  RunOK' /\ ControlOK'
<1>1. /\ Finish /\ phase' \in {"ready", "failed"}
      /\ mem' = mem /\ inflight' = inflight /\ may' = may /\ owed' = owed
  BY DEF Throw, hist
<1> QED BY <1>1, FinishFacts DEF RunOK

LEMMA FaultFacts ==
  ASSUME RunOK, Fault
  PROVE  faults' \in 0..MaxFaults
  BY StoreAssumption DEF RunOK, Fault

LEMMA TInvNext == TInv /\ [Next]_vars => TInv'
<1> SUFFICES ASSUME TInv, [Next]_vars PROVE TInv'
  OBVIOUS
<1> USE DEF disks, run, hist
<1>0. DisksOK /\ RunOK /\ ControlOK
  BY TInvParts
<1>a. (DisksOK /\ RunOK /\ ControlOK)' => TInv'
  BY TInvParts DEF TInv, TypeOK, DisksOK, RunOK
<1>b. UNCHANGED disks => DisksOK'
  BY <1>0 DEF DisksOK
<1>1. CASE OpenTemp
  <2>1. DisksOK'
    BY <1>0, <1>1, WithTempFacts, SeeFacts DEF OpenTemp, DisksOK
  <2>2. RunOK' /\ ControlOK'
    BY <1>0, <1>1 DEF OpenTemp, RunOK, ControlOK
  <2> QED BY <1>a, <2>1, <2>2
<1>2. CASE Rename
  <2>1. DisksOK'
    BY <1>0, <1>2, WithoutTempFacts, InstallFacts, SeeFacts DEF Rename, DisksOK
  <2>2. RunOK' /\ ControlOK'
    BY <1>0, <1>2 DEF Rename, RunOK, ControlOK
  <2> QED BY <1>a, <2>1, <2>2
<1>3. CASE Unlink
  <2>1. DisksOK'
    BY <1>0, <1>3, UnlinkedFacts, SeeFacts DEF Unlink, DisksOK
  <2>2. RunOK' /\ ControlOK'
    BY <1>0, <1>3 DEF Unlink, RunOK, ControlOK, Removes
  <2> QED BY <1>a, <2>1, <2>2
<1>4. CASE TempInTheWay
  BY <1>0, <1>a, <1>b, <1>4, ThrowFacts DEF TempInTheWay, RunOK
<1>5. ASSUME NEW m \in left, OpenMessage(m) PROVE TInv'
  <2>1. m \in Message
    BY <1>0 DEF RunOK
  <2>2. disk.out.temp \cup {<<"msg", m.key>>} \in SUBSET OutboxTemps
    BY <1>0, <2>1 DEF DisksOK, Disk, Outbox, OutboxTemps, Message
  <2>3. DisksOK'
    BY <1>0, <1>5, <2>2, EditOutTemp, SeeFacts DEF OpenMessage, DisksOK
  <2>4. RunOK' /\ ControlOK'
    BY <1>0, <1>5, <2>1 DEF OpenMessage, RunOK, ControlOK, Message, Removes
  <2> QED BY <1>a, <2>3, <2>4
<1>6. ASSUME NEW m \in left, SkipMessage(m) PROVE TInv'
  <2>1. RunOK' /\ ControlOK'
    BY <1>0, <1>6 DEF SkipMessage, Go, RunOK, ControlOK, RootOps, OutboxOps, JobOps
  <2> QED BY <1>a, <1>b, <1>6, <2>1 DEF SkipMessage
<1>7. ASSUME NEW m \in left, ReplayConflict(m) PROVE TInv'
  BY <1>0, <1>a, <1>b, <1>7, ThrowFacts DEF ReplayConflict, RunOK
<1>8. CASE SyncJournal
  <2>1. DisksOK'
    BY <1>8, SyncRootFacts DEF SyncJournal
  <2>2. RunOK' /\ ControlOK'
    BY <1>0, <1>8 DEF SyncJournal, Go, RunOK, ControlOK, JobOps, RootOps
  <2> QED BY <1>a, <2>1, <2>2
<1>9. CASE SyncState
  <2>1. DisksOK'
    BY <1>9, SyncRootFacts DEF SyncState
  <2>2. RunOK' /\ ControlOK'
    BY <1>0, <1>9 DEF SyncState, Go, RunOK, ControlOK, JobOps, RootOps
  <2> QED BY <1>a, <2>1, <2>2
<1>10. CASE SyncSha
  <2>1. DisksOK'
    BY <1>10, SyncRootFacts DEF SyncSha
  <2>2. RunOK' /\ ControlOK'
    BY <1>0, <1>10 DEF SyncSha, AfterSha, Go, RunOK, ControlOK, JobOps, RootOps, OutboxOps
  <2> QED BY <1>a, <2>1, <2>2
<1>11. CASE SyncMessage
  <2>1. DisksOK'
    BY <1>11, SyncOutboxFacts DEF SyncMessage
  <2>2. RunOK' /\ ControlOK'
    BY <1>0, <1>11 DEF SyncMessage, Go, RunOK, ControlOK, JobOps, RootOps, OutboxOps
  <2> QED BY <1>a, <2>1, <2>2
<1>12. CASE SyncCommit
  <2>1. DisksOK'
    BY <1>12, SyncRootFacts DEF SyncCommit
  <2>2. job.state \in States
    BY <1>0, <1>12 DEF SyncCommit, ControlOK, JobOps, Txn
  <2>3. RunOK' /\ ControlOK'
    BY <1>0, <1>12, <2>2 DEF SyncCommit, Go, RunOK, ControlOK, JobOps, RootOps
  <2> QED BY <1>a, <2>1, <2>3
<1>13. CASE SyncRemoval
  <2>1. DisksOK'
    BY <1>13, SyncRootFacts DEF SyncRemoval
  <2>2. job.state \in States /\ job.messages \subseteq Message
    BY <1>0, <1>13 DEF SyncRemoval, ControlOK, JobOps, Txn
  <2>3. RunOK' /\ ControlOK'
    BY <1>0, <1>13, <2>2, FinishFacts DEF SyncRemoval, RunOK
  <2> QED BY <1>a, <2>1, <2>3
<1>14. CASE SyncAcknowledge
  <2>1. DisksOK'
    BY <1>14, SyncOutboxFacts DEF SyncAcknowledge
  <2>2. phase \notin {"creating", "replaying"}
    BY <1>0, <1>14 DEF SyncAcknowledge, ControlOK, JobOps
  <2>3. RunOK' /\ ControlOK'
    BY <1>0, <1>14, <2>2, FinishFacts DEF SyncAcknowledge, RunOK
  <2> QED BY <1>a, <2>1, <2>3
<1>15. CASE SyncCreated
  <2>1. DisksOK'
    BY <1>15, SyncRootFacts DEF SyncCreated
  <2>2. RunOK' /\ ControlOK'
    BY <1>0, <1>15, FinishFacts DEF SyncCreated, RunOK
  <2> QED BY <1>a, <2>1, <2>2
<1>16. CASE Start
  <2>1. disk.root.txn # None =>
          disk.root.txn \in Txn /\ disk.root.txn.messages \subseteq Message
    BY <1>0 DEF DisksOK, Disk, Root, Txn
  <2>2. RunOK' /\ ControlOK'
    BY <1>0, <1>16, <2>1 DEF Start, Go, RunOK, ControlOK, JobOps, RootOps
  <2> QED BY <1>a, <1>b, <1>16, <2>2 DEF Start
<1>17. CASE UnknownName
  <2>1. RunOK' /\ ControlOK'
    BY <1>0, <1>17 DEF UnknownName, RunOK, ControlOK
  <2> QED BY <1>a, <1>b, <1>17, <2>1 DEF UnknownName
<1>18. CASE Load
  <2>1. disk.root.state \in States \cup {None}
    BY <1>0 DEF DisksOK, Disk, Root
  <2>2. RunOK' /\ ControlOK'
    BY <1>0, <1>18, <2>1 DEF Load, RunOK, ControlOK
  <2> QED BY <1>a, <1>b, <1>18, <2>2 DEF Load
<1>19. ASSUME NEW s \in InitStates, Create(s) PROVE TInv'
  <2>1. s \in States /\ [state |-> s, messages |-> {}] \in Txn
    BY StoreAssumption DEF Txn
  <2>2. RunOK' /\ ControlOK'
    BY <1>0, <1>19, <2>1 DEF Create, Go, RunOK, ControlOK, RootOps
  <2> QED BY <1>a, <1>b, <1>19, <2>2 DEF Create
<1>20. ASSUME NEW next \in States, NEW batch \in Batches,
              NEW accepted \in SUBSET {batch[i] : i \in DOMAIN batch},
              commit(next, batch, accepted)
       PROVE  TInv'
  <2>1. \A i \in DOMAIN batch : batch[i] \in Message
    BY DEF Batches
  <2>2. accepted \subseteq Message /\ [state |-> next, messages |-> accepted] \in Txn
    BY <2>1 DEF Txn
  <2>3. RunOK' /\ ControlOK'
    BY <1>0, <1>20, <2>2 DEF commit, Idle, Go, RunOK, ControlOK, RootOps
  <2> QED BY <1>a, <1>b, <1>20, <2>3 DEF commit
<1>21. CASE NextMessage
  <2>1. inflight' \in Message
    BY <1>21, PendingMessage DEF NextMessage
  <2>2. RunOK' /\ ControlOK'
    BY <1>0, <1>21, <2>1 DEF NextMessage, RunOK, ControlOK
  <2> QED BY <1>a, <1>b, <1>21, <2>2 DEF NextMessage
<1>22. ASSUME NEW answer, acknowledge(answer) PROVE TInv'
  <2>1. inflight \in Message /\ inflight.key \in Keys
    BY <1>0, <1>22 DEF acknowledge, RunOK, Message
  <2>2. RunOK' /\ ControlOK'
    BY <1>0, <1>22, <2>1 DEF acknowledge, Idle, Go, RunOK, ControlOK, OutboxOps, JobOps
  <2> QED BY <1>a, <1>b, <1>22, <2>2 DEF acknowledge
<1>23. CASE CallFails
  <2>1. RunOK' /\ ControlOK'
    BY <1>0, <1>23, FaultFacts, ThrowFacts DEF CallFails
  <2>2. DisksOK'
    BY <1>0, <1>b, <1>23, WithoutTempFacts, SeeFacts DEF CallFails, DisksOK
  <2> QED BY <1>a, <2>1, <2>2
<1>24. ASSUME Down, faults' \in 0..MaxFaults PROVE RunOK' /\ ControlOK'
  BY <1>0, <1>24, FinishFacts DEF Down, RunOK
<1>25. CASE Kill
  BY <1>0, <1>a, <1>b, <1>24, <1>25, FaultFacts DEF Kill
<1>26. ASSUME NEW v \in images, PowerLoss(v) PROVE TInv'
  <2>1. DisksOK'
    BY <1>0, <1>26 DEF PowerLoss, DisksOK
  <2>2. RunOK' /\ ControlOK'
    BY <1>0, <1>24, <1>26 DEF PowerLoss, RunOK
  <2> QED BY <1>a, <2>1, <2>2
<1>27. CASE UNCHANGED vars
  BY <1>27 DEF vars, TInv, TypeOK, ControlOK
<1> QED BY <1>1, <1>2, <1>3, <1>4, <1>5, <1>6, <1>7, <1>8, <1>9, <1>10, <1>11,
       <1>12, <1>13, <1>14, <1>15, <1>16, <1>17, <1>18, <1>19, <1>20, <1>21,
       <1>22, <1>23, <1>25, <1>26, <1>27
    DEF Next, FileStep, Constructor, Operation

-----------------------------------------------------------------------------
(* The root directory.  A quiet step shows no root whose files differ from *)
(* those of one that a crash could already leave.                          *)

RootsOK == \A r \in Roots : RootOK(r)

VisibleRoots ==
  /\ disk.root.sha # None => \A r \in Roots : r.state # None
  /\ disk.root.txn = None /\ disk.root.sha # None =>
       \A r \in Roots : Recovers(r) = disk.root.state

Quiet ==
  /\ SameFiles(disk'.root, disk.root)
  /\ \A r \in Roots' : \E q \in Roots : SameFiles(r, q)

LEMMA VisibleRoot ==
  ASSUME TInv PROVE disk.root \in Roots /\ disk.root \in Root
  BY DEF TInv, TypeOK, Roots, Disk

LEMMA JobFacts ==
  ASSUME TInv, pc \in JobOps
  PROVE  job \in Txn /\ job # None /\ job.state \in States /\ job.state # None
<1>1. job \in Txn
  BY DEF TInv, ControlOK
<1>2. None \notin Txn /\ None \notin States
  BY NoneAssumption DEF Txn, Message
<1> QED BY <1>1, <1>2 DEF Txn

LEMMA SeenIsQuiet ==
  ASSUME TInv, NEW d \in Disk, See(d), SameFiles(d.root, disk.root)
  PROVE  Quiet
<1>1. disk' = d /\ Roots' = Roots \cup {d.root}
  BY SeeFacts
<1> QED BY <1>1, VisibleRoot DEF Quiet, SameFiles

LEMMA UnchangedIsQuiet ==
  ASSUME UNCHANGED disks
  PROVE  Quiet
<1>1. disk' = disk /\ Roots' = Roots
  BY DEF disks, Roots
<1> QED BY <1>1 DEF Quiet, SameFiles

LEMMA SyncRootIsQuiet ==
  ASSUME TInv, SyncRoot, disk' = disk
  PROVE  Quiet /\ Roots' = {disk.root}
  BY SyncRootFacts, VisibleRoot DEF Quiet, SameFiles

LEMMA SyncOutboxIsQuiet ==
  ASSUME TInv, SyncOutbox, disk' = disk
  PROVE  Quiet
  BY SyncOutboxFacts DEF Quiet, SameFiles

LEMMA QuietFacts ==
  ASSUME RootsOK, VisibleRoots, Quiet, may \subseteq may'
  PROVE  RootsOK' /\ VisibleRoots'
<1>1. \A r, q : SameFiles(r, q) => Recovers(r) = Recovers(q) /\ (RootOK(q) => RootOK(r)')
  BY DEF SameFiles, Recovers, RootOK
<1>2. RootsOK'
  BY <1>1 DEF RootsOK, Quiet
<1>3. VisibleRoots'
  BY <1>1 DEF VisibleRoots, Quiet, SameFiles
<1> QED BY <1>2, <1>3

LEMMA RInvParts ==
  RInv <=> /\ RootsOK /\ VisibleRoots /\ ProgressOK
           /\ phase = "ready" => disk.root.sha # None
           /\ phase = "loading" => disk.root.txn = None
  BY DEF RInv, RootsOK, VisibleRoots, VisibleOK
(* A quiet step that stays in its operation, or ends it, keeps RInv. *)
LEMMA QuietStays ==
  ASSUME RInv, Quiet, may' = may, UNCHANGED <<phase, pc, job, mem>>,
         stage' \in {stage, "rename"}
  PROVE  RInv'
<1>1. RootsOK' /\ VisibleRoots'
  BY RInvParts, QuietFacts
<1>2. ProgressOK'
  <2>1. \A r \in Roots' : \E q \in Roots : r.state = q.state /\ Recovers(r) = Recovers(q)
    BY DEF Quiet, SameFiles, Recovers
  <2>2. disk'.root.txn = disk.root.txn /\ disk'.root.state = disk.root.state
        /\ disk'.root.sha = disk.root.sha
    BY DEF Quiet, SameFiles
  <2> QED BY <2>1, <2>2 DEF RInv, ProgressOK
<1>3. /\ phase' = "ready" => disk'.root.sha # None
      /\ phase' = "loading" => disk'.root.txn = None
  BY DEF RInv, VisibleOK, Quiet, SameFiles
<1> QED BY <1>1, <1>2, <1>3 DEF RInv, RootsOK, VisibleRoots, VisibleOK

LEMMA QuietEnds ==
  ASSUME RInv, Quiet, may' = may, pc' = "idle", phase' # "creating",
         phase' = "ready" => phase = "ready" \/ disk.root.sha # None,
         phase' = "loading" => phase = "loading" \/ disk.root.txn = None
  PROVE  RInv'
<1>1. RootsOK' /\ VisibleRoots'
  BY RInvParts, QuietFacts
<1>2. ProgressOK'
  BY DEF ProgressOK, JobOps
<1>3. /\ phase' = "ready" => disk'.root.sha # None
      /\ phase' = "loading" => disk'.root.txn = None
  BY DEF RInv, VisibleOK, Quiet, SameFiles
<1> QED BY <1>1, <1>2, <1>3 DEF RInv, RootsOK, VisibleRoots, VisibleOK

LEMMA ThrowKeeps ==
  ASSUME RInv, Quiet, Throw
  PROVE  RInv'
  BY QuietEnds DEF Throw, Finish, Go, hist

(* The renames and the unlink that change the root. *)
LEMMA RenameKeeps ==
  ASSUME TInv, RInv, Rename
  PROVE  RInv'
<1> DEFINE d == Install(WithoutTemp(disk))
<1>0. /\ WithoutTemp(disk) \in Disk
      /\ SameFiles(WithoutTemp(disk).root, disk.root)
  BY WithoutTempFacts DEF TInv, TypeOK
<1>1. /\ d \in Disk
      /\ d.root.txn   = IF pc = "txn" THEN job ELSE disk.root.txn
      /\ d.root.state = IF pc = "state" THEN job.state ELSE disk.root.state
      /\ d.root.sha   = IF pc = "sha" THEN job.state ELSE disk.root.sha
  BY <1>0, InstallFacts DEF Rename, SameFiles
<1>2. disk' = d /\ Roots' = Roots \cup {d.root}
  <2>1. See(d)
    BY DEF Rename
  <2> HIDE DEF d
  <2> QED BY <1>1, <2>1, SeeFacts
<1>3. /\ stage = "rename" /\ stage' = "sync"
      /\ phase' = phase /\ pc' = pc /\ job' = job /\ mem' = mem /\ may' = may
  BY DEF Rename, hist
<1>4. disk.root \in Roots /\ RootOK(disk.root)
  BY VisibleRoot DEF RInv
<1> HIDE DEF d
<1>r. ASSUME RootOK(d.root) PROVE RootsOK'
  BY <1>2, <1>3, <1>r DEF RInv, RootsOK, RootOK
<1>5. CASE pc = "txn"
  <2>1. phase = "ready"
    BY <1>5 DEF TInv, TypeOK, ControlOK, JobOps
  <2>2. disk.root.sha # None /\ \A r \in Roots : r.state # None
    BY <2>1 DEF RInv, VisibleOK
  <2>3. job # None /\ job.state \in may
    BY <1>5, JobFacts DEF RInv, ProgressOK, JobOps
  <2>4. RootsOK'
    BY <1>1, <1>4, <1>5, <1>r, <2>2, <2>3 DEF RootOK, Recovers
  <2>5. VisibleOK'
    BY <1>1, <1>2, <1>3, <1>4, <1>5, <2>1, <2>2, <2>3 DEF VisibleOK
  <2>6. ProgressOK'
    BY <1>1, <1>2, <1>3, <1>5, <2>1, <2>3 DEF ProgressOK
  <2> QED BY <2>4, <2>5, <2>6 DEF RInv, RootsOK
<1>6. CASE pc = "state"
  <2>1. job # None /\ job.state # None /\ job.state \in may
    BY <1>6, JobFacts DEF RInv, ProgressOK, JobOps
  <2>2. /\ phase # "creating" => disk.root.txn = job
        /\ phase = "creating" => disk.root.txn = None /\ mem = job.state /\ disk.root.sha = None
    BY <1>6 DEF RInv, ProgressOK
  <2>3. phase # "loading"
    BY <1>6 DEF TInv, ControlOK
  <2>4. RootsOK'
    BY <1>1, <1>4, <1>6, <1>r, <2>1, <2>2 DEF RootOK, Recovers
  <2>5. VisibleOK'
    BY <1>1, <1>2, <1>3, <1>4, <1>6, <2>1, <2>2, <2>3 DEF RInv, VisibleOK
  <2>6. ProgressOK'
    BY <1>1, <1>2, <1>3, <1>6, <2>1, <2>2 DEF ProgressOK
  <2> QED BY <2>4, <2>5, <2>6 DEF RInv, RootsOK
<1>7. CASE pc = "sha"
  <2>1. job # None /\ job.state # None /\ job.state \in may
    BY <1>7, JobFacts DEF RInv, ProgressOK, JobOps
  <2>2. \A r \in Roots : r.state = job.state /\ Recovers(r) = job.state
    BY <1>7 DEF RInv, ProgressOK
  <2>3. /\ phase # "creating" => disk.root.txn = job
        /\ phase = "creating" => disk.root.txn = None /\ mem = job.state
    BY <1>7 DEF RInv, ProgressOK
  <2>4. phase # "loading"
    BY <1>7 DEF TInv, ControlOK
  <2>5. Recovers(d.root) = job.state /\ d.root.state = job.state /\ d.root.sha = job.state
    BY <1>1, <1>4, <1>7, <2>2 DEF Recovers
  <2>6. RootsOK'
    BY <1>r, <2>1, <2>5 DEF RootOK
  <2>7. VisibleOK'
    BY <1>2, <1>3, <2>1, <2>2, <2>4, <2>5 DEF VisibleOK
  <2>8. ProgressOK'
    BY <1>1, <1>2, <1>3, <1>7, <2>1, <2>2, <2>3, <2>5 DEF ProgressOK
  <2> QED BY <2>6, <2>7, <2>8 DEF RInv, RootsOK
<1>8. CASE pc \notin {"txn", "state", "sha"}
  <2>1. SameFiles(d.root, disk.root)
    BY <1>1, <1>8 DEF SameFiles
  <2>2. Quiet
    BY <1>2, <1>4, <2>1 DEF Quiet, SameFiles
  <2>3. RootsOK' /\ VisibleRoots'
    BY <1>3, <2>2, RInvParts, QuietFacts
  <2>4. /\ phase' = "ready" => disk'.root.sha # None
        /\ phase' = "loading" => disk'.root.txn = None
    BY <1>3, <2>2 DEF RInv, VisibleOK, Quiet, SameFiles
  <2>5. \A r \in Roots' : \E q \in Roots : r.state = q.state /\ Recovers(r) = Recovers(q)
    BY <2>2 DEF Quiet, SameFiles, Recovers
  <2>6. disk'.root.txn = disk.root.txn /\ disk'.root.state = disk.root.state
        /\ disk'.root.sha = disk.root.sha
    BY <2>2 DEF Quiet, SameFiles
  <2>7. pc # "remove_txn"
    BY <1>3 DEF TInv, ControlOK, Removes
  <2>8. ProgressOK'
    BY <1>3, <1>8, <2>5, <2>6, <2>7 DEF RInv, ProgressOK
  <2> QED BY <2>3, <2>4, <2>8 DEF RInv, RootsOK, VisibleRoots, VisibleOK
<1> QED BY <1>5, <1>6, <1>7, <1>8

LEMMA UnlinkKeeps ==
  ASSUME TInv, RInv, Unlink
  PROVE  RInv'
<1> DEFINE d == Unlinked(disk)
<1>1. /\ d \in Disk
      /\ d.root.txn = IF pc = "remove_txn" THEN None ELSE disk.root.txn
      /\ d.root.state = disk.root.state /\ d.root.sha = disk.root.sha
  BY UnlinkedFacts DEF Unlink, TInv, TypeOK
<1>2. disk' = d /\ Roots' = Roots \cup {d.root} /\ See(d)
  <2>1. See(d)
    BY DEF Unlink
  <2> HIDE DEF d
  <2> QED BY <1>1, <2>1, SeeFacts
<1>3. /\ stage = "open" /\ stage' = "sync" /\ pc \in {"remove_txn", "ack"}
      /\ phase' = phase /\ pc' = pc /\ job' = job /\ mem' = mem /\ may' = may
  BY DEF Unlink, hist, Removes
<1>4. disk.root \in Roots /\ RootOK(disk.root)
  BY VisibleRoot DEF RInv
<1> HIDE DEF d
<1>5. CASE pc = "remove_txn"
  <2>1. job # None /\ job.state # None /\ job.state \in may
    BY <1>5, JobFacts DEF RInv, ProgressOK, JobOps
  <2>2. /\ \A r \in Roots : r.state = job.state /\ Recovers(r) = job.state
        /\ disk.root.sha = job.state
    BY <1>5 DEF RInv, ProgressOK
  <2>3. phase # "creating"
    BY <1>5 DEF TInv, ControlOK
  <2>4. /\ d.root.txn = None /\ d.root.state = job.state /\ d.root.sha = job.state
        /\ Recovers(d.root) = job.state
    BY <1>1, <1>4, <1>5, <2>2 DEF Recovers
  <2>5. RootOK(d.root)
    BY <2>1, <2>4 DEF RootOK
  <2>6. RootsOK'
    BY <1>2, <1>3, <2>5 DEF RInv, RootsOK, RootOK
  <2>7. VisibleOK'
    BY <1>2, <1>3, <2>1, <2>2, <2>4 DEF VisibleOK
  <2>8. ProgressOK'
    BY <1>2, <1>3, <1>5, <2>1, <2>2, <2>3, <2>4 DEF ProgressOK
  <2> QED BY <2>6, <2>7, <2>8 DEF RInv, RootsOK
<1>6. CASE pc = "ack"
  <2>1. SameFiles(d.root, disk.root)
    BY <1>1, <1>6 DEF SameFiles
  <2>2. Quiet
    BY <1>2, <1>4, <2>1 DEF Quiet, SameFiles
  <2>3. RootsOK' /\ VisibleRoots'
    BY <1>3, <2>2, RInvParts, QuietFacts
  <2>4. /\ phase' = "ready" => disk'.root.sha # None
        /\ phase' = "loading" => disk'.root.txn = None
    BY <1>3, <2>2 DEF RInv, VisibleOK, Quiet, SameFiles
  <2>5. phase # "creating"
    BY <1>6 DEF TInv, ControlOK
  <2>6. ProgressOK'
    BY <1>3, <1>6, <2>5 DEF ProgressOK, JobOps
  <2> QED BY <2>3, <2>4, <2>6 DEF RInv, RootsOK, VisibleRoots, VisibleOK
<1> QED BY <1>3, <1>5, <1>6
(* A sync that moves an operation on to its next file. *)
LEMMA SyncMovesOn ==
  ASSUME TInv, RInv, Quiet, may' = may, ProgressOK', phase' = phase
  PROVE  RInv'
<1>1. RootsOK' /\ VisibleRoots'
  BY RInvParts, QuietFacts
<1>2. /\ phase' = "ready" => disk'.root.sha # None
      /\ phase' = "loading" => disk'.root.txn = None
  BY DEF RInv, VisibleOK, Quiet, SameFiles
<1> QED BY <1>1, <1>2 DEF RInv, RootsOK, VisibleRoots, VisibleOK

(* The steps after which a restart has one state to come up with. *)
LEMMA Settled ==
  ASSUME NEW s \in States, may' = {s}, pc' = "idle", phase' # "creating",
         \A r \in Roots' : Recovers(r) = s /\ r.state # None
                           /\ (r.txn = None /\ r.sha # None => r.sha = r.state),
         disk'.root.state = s, disk'.root.sha = s,
         phase' = "loading" => disk'.root.txn = None
  PROVE  RInv'
<1>0. s # None
  BY NoneAssumption
<1>1. RootsOK'
  BY DEF RootsOK, RootOK
<1>2. VisibleOK'
  BY <1>0 DEF VisibleOK
<1>3. ProgressOK'
  BY DEF ProgressOK, JobOps
<1> QED BY <1>1, <1>2, <1>3 DEF RInv, RootsOK

LEMMA RInvNext == TInv /\ RInv /\ [Next]_vars => RInv'
<1> SUFFICES ASSUME TInv, RInv, [Next]_vars PROVE RInv'
  OBVIOUS
<1> USE DEF disks, run, hist
<1>0. disk \in Disk /\ disk.root \in Roots /\ RootOK(disk.root)
  BY VisibleRoot DEF TInv, TypeOK, RInv
<1>1. CASE OpenTemp
  <2>1. Quiet
    BY <1>0, <1>1, WithTempFacts, SeenIsQuiet DEF OpenTemp
  <2> QED BY <1>1, <2>1, QuietStays DEF OpenTemp
<1>2. CASE Rename
  BY <1>2, RenameKeeps
<1>3. CASE Unlink
  BY <1>3, UnlinkKeeps
<1>4. CASE TempInTheWay
  BY <1>4, UnchangedIsQuiet, ThrowKeeps DEF TempInTheWay
<1>5. ASSUME NEW m \in left, OpenMessage(m) PROVE RInv'
  <2>1. disk.out.temp \cup {<<"msg", m.key>>} \in SUBSET OutboxTemps
    BY <1>0 DEF TInv, TypeOK, Disk, Outbox, OutboxTemps, Message
  <2>2. Quiet
    BY <1>0, <1>5, <2>1, EditOutTemp, SeenIsQuiet DEF OpenMessage, SameFiles
  <2> QED BY <1>5, <2>2, QuietStays DEF OpenMessage
<1>6. ASSUME NEW m \in left, SkipMessage(m) PROVE RInv'
  <2>1. /\ Quiet /\ Roots' = Roots /\ disk' = disk /\ pc = "msg" /\ pc' \in {"msg", "commit"}
        /\ stage' = "open" /\ may' = may /\ phase' = phase /\ job' = job
    BY <1>6, UnchangedIsQuiet DEF SkipMessage, Go, Roots
  <2>2. phase # "creating"
    BY <2>1 DEF TInv, ControlOK
  <2>3. ProgressOK'
    BY <2>1, <2>2 DEF RInv, ProgressOK, JobOps
  <2> QED BY <2>1, <2>3, SyncMovesOn
<1>7. ASSUME NEW m \in left, ReplayConflict(m) PROVE RInv'
  BY <1>7, UnchangedIsQuiet, ThrowKeeps DEF ReplayConflict
<1>8. CASE SyncJournal
  <2>1. /\ Quiet /\ Roots' = {disk.root} /\ disk' = disk
        /\ pc = "txn" /\ stage = "sync" /\ pc' = "state" /\ stage' = "open"
        /\ may' = may /\ phase' = phase /\ job' = job
    BY <1>8, SyncRootIsQuiet DEF SyncJournal, Go
  <2>2. phase # "creating"
    BY <2>1 DEF TInv, ControlOK
  <2>3. ProgressOK'
    BY <2>1, <2>2 DEF RInv, ProgressOK, JobOps
  <2> QED BY <2>1, <2>3, SyncMovesOn
<1>9. CASE SyncState
  <2>1. /\ Quiet /\ Roots' = {disk.root} /\ disk' = disk
        /\ pc = "state" /\ stage = "sync" /\ pc' = "sha" /\ stage' = "open"
        /\ may' = may /\ phase' = phase /\ job' = job /\ mem' = mem
    BY <1>9, SyncRootIsQuiet DEF SyncState, Go
  <2>2. job # None
    BY <2>1, JobFacts DEF JobOps
  <2>3. disk.root.state = job.state /\ Recovers(disk.root) = job.state
    BY <2>1, <2>2 DEF RInv, ProgressOK, Recovers
  <2>4. ProgressOK'
    BY <2>1, <2>3 DEF RInv, ProgressOK, JobOps
  <2> QED BY <2>1, <2>4, SyncMovesOn
<1>10. CASE SyncSha
  <2>1. /\ Quiet /\ Roots' = {disk.root} /\ disk' = disk
        /\ pc = "sha" /\ stage = "sync" /\ pc' \in {"msg", "commit"} /\ stage' = "open"
        /\ may' = may /\ phase' = phase /\ job' = job /\ phase # "creating"
    BY <1>10, SyncRootIsQuiet DEF SyncSha, Go, AfterSha
  <2>2. ProgressOK'
    BY <1>0, <2>1 DEF RInv, ProgressOK, JobOps
  <2> QED BY <2>1, <2>2, SyncMovesOn
<1>11. CASE SyncMessage
  <2>1. /\ Quiet /\ Roots' = Roots /\ disk' = disk
        /\ pc = "msg" /\ pc' \in {"msg", "commit"} /\ stage' = "open"
        /\ may' = may /\ phase' = phase /\ job' = job
    BY <1>11, SyncOutboxIsQuiet, SyncOutboxFacts DEF SyncMessage, Go
  <2>2. phase # "creating"
    BY <2>1 DEF TInv, ControlOK
  <2>3. ProgressOK'
    BY <2>1, <2>2 DEF RInv, ProgressOK, JobOps
  <2> QED BY <2>1, <2>3, SyncMovesOn
<1>12. CASE SyncCommit
  <2>1. /\ Quiet /\ Roots' = {disk.root} /\ disk' = disk
        /\ pc = "commit" /\ pc' = "remove_txn" /\ stage' = "open"
        /\ may' = may /\ phase' = phase /\ job' = job
    BY <1>12, SyncRootIsQuiet DEF SyncCommit, Go
  <2>2. phase # "creating"
    BY <2>1 DEF TInv, ControlOK
  <2>3. ProgressOK'
    BY <1>0, <2>1, <2>2 DEF RInv, ProgressOK, JobOps
  <2> QED BY <2>1, <2>3, SyncMovesOn
<1>13. CASE SyncRemoval
  <2>1. /\ Roots' = {disk.root} /\ disk' = disk /\ pc = "remove_txn" /\ stage = "sync"
        /\ pc' = "idle" /\ may' = {job.state} /\ phase' \in {"ready", "loading"}
    BY <1>13, SyncRootIsQuiet DEF SyncRemoval, Finish, Go
  <2>2. job.state \in States /\ job.state # None
    BY <2>1, JobFacts DEF JobOps
  <2>3. /\ disk.root.state = job.state /\ Recovers(disk.root) = job.state
        /\ disk.root.sha = job.state /\ disk.root.txn = None
    BY <1>0, <2>1 DEF RInv, ProgressOK
  <2> QED BY <2>1, <2>2, <2>3, Settled
<1>14. CASE SyncAcknowledge
  <2>1. Quiet
    BY <1>14, SyncOutboxIsQuiet DEF SyncAcknowledge
  <2>2. phase # "creating"
    BY <1>14 DEF SyncAcknowledge, TInv, ControlOK
  <2> QED BY <1>14, <2>1, <2>2, QuietEnds DEF SyncAcknowledge, Finish, Go
<1>15. CASE SyncCreated
  <2>1. /\ Roots' = {disk.root} /\ disk' = disk /\ pc = "sha" /\ stage = "sync"
        /\ pc' = "idle" /\ may' = {mem} /\ phase' \in {"ready", "failed"}
        /\ phase = "creating"
    BY <1>15, SyncRootIsQuiet DEF SyncCreated, Finish, Go
  <2>2. job.state \in States /\ job.state # None
    BY <2>1, JobFacts DEF JobOps
  <2>3. /\ disk.root.state = job.state /\ Recovers(disk.root) = job.state
        /\ disk.root.sha = job.state /\ mem = job.state
    BY <1>0, <2>1 DEF RInv, ProgressOK
  <2> QED BY <2>1, <2>2, <2>3, Settled
<1>16. CASE Start
  <2>1. Quiet /\ Roots' = Roots /\ disk' = disk /\ may' = may
    BY <1>16, UnchangedIsQuiet DEF Start, Roots
  <2>2. RootsOK' /\ VisibleRoots'
    BY <2>1, RInvParts, QuietFacts
  <2>3. CASE disk.root.txn # None
    <3>1. phase' = "replaying" /\ pc' = "state" /\ stage' = "open" /\ job' = disk.root.txn
      BY <1>16, <2>3 DEF Start, Go
    <3>2. disk.root.txn.state \in may
      BY <1>0, <2>3 DEF RootOK, Recovers
    <3>3. ProgressOK'
      BY <2>1, <3>1, <3>2 DEF ProgressOK
    <3> QED BY <2>2, <3>1, <3>3 DEF RInv, RootsOK, VisibleRoots, VisibleOK
  <2>4. CASE disk.root.txn = None
    <3>1. phase' = "loading" /\ pc' = "idle"
      BY <1>16, <2>4 DEF Start, TInv, ControlOK
    <3> QED BY <2>1, <2>4, <3>1, QuietEnds
  <2> QED BY <2>3, <2>4
<1>17. CASE UnknownName
  <2>1. pc' = "idle" /\ phase' = "failed" /\ may' = may
    BY <1>17 DEF UnknownName, TInv, ControlOK
  <2> QED BY <1>17, <2>1, UnchangedIsQuiet, QuietEnds DEF UnknownName
<1>18. CASE Load
  <2>1. /\ Roots' = Roots /\ disk' = disk /\ pc' = "idle" /\ phase = "loading"
        /\ disk.root.txn = None /\ disk.root.state # None /\ mem' = disk.root.state
    BY <1>18 DEF Load, Roots, TInv, ControlOK, RInv, VisibleOK
  <2>2. disk.root.state \in States
    BY <1>0, <2>1 DEF Disk, Root
  <2>3. CASE disk.root.sha = disk.root.state /\ validate_queue(disk.out)
    <3>1. phase' = "ready" /\ may' = {disk.root.state}
      BY <1>18, <2>1, <2>3 DEF Load
    <3>2. \A r \in Roots : Recovers(r) = disk.root.state /\ r.state # None
      BY <2>1, <2>3 DEF RInv, VisibleOK
    <3>3. \A r \in Roots : r.txn = None /\ r.sha # None => r.sha = r.state
      BY DEF RInv, RootOK
    <3> QED BY <2>1, <2>2, <2>3, <3>1, <3>2, <3>3, Settled
  <2>4. CASE ~(disk.root.sha = disk.root.state /\ validate_queue(disk.out))
    <3>1. phase' = "failed" /\ may' = may
      BY <1>18, <2>1, <2>4 DEF Load
    <3> QED BY <1>18, <2>1, <3>1, UnchangedIsQuiet, QuietEnds DEF Load
  <2> QED BY <2>3, <2>4
<1>19. ASSUME NEW s \in InitStates, Create(s) PROVE RInv'
  <2>1. /\ Quiet /\ Roots' = Roots /\ disk' = disk /\ may' = may /\ phase = "loading"
        /\ disk.root.state = None /\ disk.root.txn = None
    BY <1>19, UnchangedIsQuiet DEF Create, Roots, RInv, VisibleOK
  <2>2. CASE OutboxEmpty(disk.out)
    <3>1. /\ phase' = "creating" /\ pc' = "state" /\ stage' = "open" /\ mem' = s
          /\ job' = [state |-> s, messages |-> {}]
      BY <1>19, <2>2 DEF Create, Go
    <3>2. disk.root.sha = None /\ s \in may
      BY <1>0, <2>1 DEF RootOK
    <3>3. ProgressOK'
      BY <2>1, <3>1, <3>2 DEF ProgressOK
    <3>4. RootsOK' /\ VisibleRoots'
      BY <2>1, RInvParts, QuietFacts
    <3> QED BY <3>1, <3>3, <3>4 DEF RInv, RootsOK, VisibleRoots, VisibleOK
  <2>3. CASE ~OutboxEmpty(disk.out)
    <3>1. phase' = "failed" /\ pc' = "idle"
      BY <1>19, <2>3 DEF Create, TInv, ControlOK
    <3> QED BY <2>1, <3>1, QuietEnds
  <2> QED BY <2>2, <2>3
<1>20. ASSUME NEW next \in States, NEW batch, NEW accepted, commit(next, batch, accepted)
       PROVE  RInv'
  <2>1. /\ Quiet /\ disk' = disk /\ may' = may \cup {next} /\ phase' = phase
        /\ phase = "ready" /\ pc' = "txn" /\ stage' = "open"
        /\ job' = [state |-> next, messages |-> accepted]
    BY <1>20, UnchangedIsQuiet DEF commit, Idle, Go
  <2>2. RootsOK' /\ VisibleRoots'
    BY <2>1, RInvParts, QuietFacts
  <2>3. ProgressOK'
    BY <2>1 DEF ProgressOK
  <2> QED BY <2>1, <2>2, <2>3 DEF RInv, RootsOK, VisibleRoots, VisibleOK
<1>21. CASE NextMessage
  BY <1>21, UnchangedIsQuiet, QuietStays DEF NextMessage
<1>22. ASSUME NEW answer, acknowledge(answer) PROVE RInv'
  <2>1. /\ Quiet /\ disk' = disk /\ may' = may /\ phase' = phase /\ phase = "ready"
        /\ pc' \in {"ack", "blocked", "idle"}
    BY <1>22, UnchangedIsQuiet DEF acknowledge, Idle, Go
  <2>2. ProgressOK'
    BY <2>1 DEF ProgressOK, JobOps
  <2> QED BY <2>1, <2>2, SyncMovesOn
<1>23. CASE CallFails
  <2>1. Quiet
    BY <1>0, <1>23, WithoutTempFacts, SeenIsQuiet, UnchangedIsQuiet DEF CallFails
  <2> QED BY <1>23, <2>1, ThrowKeeps DEF CallFails
<1>24. CASE Kill
  BY <1>24, UnchangedIsQuiet, QuietEnds DEF Kill, Down, Finish, Go
<1>25. ASSUME NEW v \in images, PowerLoss(v) PROVE RInv'
  <2>1. /\ Roots' = {v.root} /\ disk' = v /\ may' = may /\ phase' = "down" /\ pc' = "idle"
    BY <1>25 DEF PowerLoss, Down, Finish, Go, Roots
  <2>2. RootOK(v.root)
    BY DEF RInv, Roots
  <2>3. RootsOK'
    BY <2>1, <2>2 DEF RootsOK, RootOK
  <2>4. VisibleOK'
    BY <2>1, <2>2 DEF VisibleOK, RootOK, Recovers
  <2>5. ProgressOK'
    BY <2>1 DEF ProgressOK, JobOps
  <2> QED BY <2>3, <2>4, <2>5 DEF RInv, RootsOK
<1>26. CASE UNCHANGED vars
  BY <1>26, UnchangedIsQuiet, QuietStays DEF vars
<1> QED BY <1>1, <1>2, <1>3, <1>4, <1>5, <1>6, <1>7, <1>8, <1>9, <1>10, <1>11,
       <1>12, <1>13, <1>14, <1>15, <1>16, <1>17, <1>18, <1>19, <1>20, <1>21,
       <1>22, <1>23, <1>24, <1>25, <1>26
    DEF Next, FileStep, Constructor, Operation

-----------------------------------------------------------------------------
LEMMA IInvInit == Init => IInv
<1> SUFFICES ASSUME Init PROVE IInv
  OBVIOUS
<1>1. EmptyDisk \in Disk
  BY DEF EmptyDisk, Disk, Root, Outbox
<1>2. TInv
  BY <1>1, StoreAssumption
     DEF Init, TInv, TypeOK, ControlOK, RootOps, OutboxOps, JobOps, Removes
<1>3. Roots = {EmptyDisk.root}
  BY DEF Init, Roots
<1>4. /\ EmptyDisk.root.txn = None /\ EmptyDisk.root.state = None
      /\ EmptyDisk.root.sha = None
  BY DEF EmptyDisk
<1>5. \A r \in Roots : RootOK(r)
  BY <1>3, <1>4 DEF Init, RootOK, Recovers
<1>6. VisibleOK /\ ProgressOK
  BY <1>4 DEF Init, VisibleOK, ProgressOK, JobOps
<1> QED BY <1>2, <1>5, <1>6 DEF IInv, RInv

(* The store never leaves the inductive invariant: whatever fails, is      *)
(* killed or loses power between two system calls of state.cpp.            *)
THEOREM StoreInvariant == Spec => []IInv
<1>1. IInv /\ [Next]_vars => IInv'
  BY TInvNext, RInvNext DEF IInv
<1> QED BY <1>1, IInvInit, PTL DEF Spec

(* Every variable of the store keeps its type, for any states, messages    *)
(* and limits and any number of failing calls.                             *)
THEOREM StoreTypeOK == Spec => []TypeOK
<1>1. IInv => TypeOK
  BY DEF IInv, TInv
<1> QED BY <1>1, StoreInvariant, PTL

(* A state whose commit() returned is what the next start recovers, or a   *)
(* later one whose commit had begun, in every image a power loss can leave *)
(* and however many system calls of write_durable_file fail.               *)
THEOREM CommittedSurvives == Spec => []CommittedStateSurvives
<1>1. IInv => CommittedStateSurvives
  BY DEF IInv, RInv, RootOK, Roots, Recovers, CommittedStateSurvives, RecoveredState
<1> QED BY <1>1, StoreInvariant, PTL

(* Without a journal to repair them, state.json and state.sha256 agree in  *)
(* every image, so the constructor's checksum test never refuses what the  *)
(* store itself wrote.                                                     *)
THEOREM ChecksumMatches == Spec => []ChecksumCovered
<1>1. IInv => ChecksumCovered
  BY DEF IInv, RInv, RootOK, Roots, ChecksumCovered
<1> QED BY <1>1, StoreInvariant, PTL

-----------------------------------------------------------------------------
(* The outbox, while no call fails and no process is killed: power may go  *)
(* at any time.  `Boxes' are the messages of the crash images.             *)

Boxes == {v.out.msg : v \in images}

Distinct(M) == \A m, n \in M : m.key = n.key => m = n

(* All messages of M are in every outbox that a crash can leave. *)
HasAll(M) == \A b \in Boxes, m \in M : b[m.key] = m.bytes

Unsettled == stage = "sync" /\ pc \in {"msg", "ack"}

(* The outboxes differ at most in the message whose sync is due. *)
Agree == \A b \in Boxes, k \in Keys : b[k] = disk.out.msg[k] \/ (Unsettled /\ k = key)

JournalsOK == \A r \in Roots : r.txn # None => Distinct(r.txn.messages)

(* What a transaction need not write any more is everywhere, a message is  *)
(* written only where there is none, and an acknowledged one is not owed.  *)
WritesOK ==
  /\ pc \in JobOps => /\ left \subseteq job.messages /\ Distinct(job.messages)
                      /\ HasAll(job.messages \ left)
  /\ pc \notin JobOps \/ pc \in {"commit", "remove_txn"} => left = {}
  /\ pc = "msg" /\ stage = "rename" => disk.out.msg[key] = None
  /\ pc = "msg" /\ stage = "sync" => \A m \in left : m.key = key => disk.out.msg[key] = m.bytes
  /\ pc = "ack" => \A m \in owed : m.key # key

MInv == MaxFaults = 0 /\ Agree /\ HasAll(owed) /\ JournalsOK /\ WritesOK

LEMMA VisibleBox ==
  ASSUME TInv
  PROVE  /\ disk \in Disk /\ disk.out.msg \in Boxes /\ disk.root \in Roots
         /\ disk.out.msg \in [Keys -> Bytes \cup {None}]
  BY DEF TInv, TypeOK, Boxes, Roots, Disk, Outbox

LEMMA SeeBoxes ==
  ASSUME TInv, NEW d \in Disk, See(d)
  PROVE  /\ disk' = d /\ Boxes' = Boxes \cup {d.out.msg} /\ Roots' = Roots \cup {d.root}
         /\ d.out.msg = disk.out.msg => Boxes' = Boxes
<1>1. images' = images \cup {d} /\ disk' = d
  BY DEF See
<1>2. Boxes' = Boxes \cup {d.out.msg} /\ Roots' = Roots \cup {d.root}
  BY <1>1 DEF Boxes, Roots
<1> QED BY <1>1, <1>2, VisibleBox

LEMMA SyncRootBoxes ==
  ASSUME TInv, SyncRoot
  PROVE  Boxes' = Boxes
<1>1. \A v \in images : [v EXCEPT !.root = disk.root].out = v.out
  BY DEF TInv, TypeOK, Disk
<1>2. images' = {[v EXCEPT !.root = disk.root] : v \in images}
  BY DEF SyncRoot
<1>3. ASSUME NEW b \in Boxes PROVE b \in Boxes'
  <2>1. PICK v \in images : b = v.out.msg
    BY DEF Boxes
  <2>2. PICK w : w = [v EXCEPT !.root = disk.root]
    OBVIOUS
  <2>3. w \in images' /\ w.out.msg = b
    BY <1>1, <1>2, <2>1, <2>2
  <2> QED BY <2>3 DEF Boxes
<1>4. ASSUME NEW b \in Boxes' PROVE b \in Boxes
  <2>1. PICK w \in images' : b = w.out.msg
    BY DEF Boxes
  <2>2. PICK v \in images : w = [v EXCEPT !.root = disk.root]
    BY <1>2, <2>1
  <2>3. v.out.msg = b
    BY <1>1, <2>1, <2>2
  <2> QED BY <2>3 DEF Boxes
<1> QED BY <1>3, <1>4

LEMMA SyncOutboxBoxes ==
  ASSUME TInv, SyncOutbox, disk' = disk
  PROVE  Boxes' = {disk.out.msg} /\ Roots' = Roots
<1>1. \A v \in images : [v EXCEPT !.out = disk.out].out = disk.out
  BY DEF TInv, TypeOK, Disk
<1>2. disk \in images
  BY DEF TInv, TypeOK
<1>3. images' = {[v EXCEPT !.out = disk.out] : v \in images}
  BY DEF SyncOutbox
<1>4. \A w \in images' : w.out = disk.out
  BY <1>1, <1>3
<1>5. \E w \in images' : TRUE
  BY <1>2, <1>3
<1>6. Boxes' = {disk.out.msg}
  BY <1>4, <1>5 DEF Boxes
<1> QED BY <1>6, SyncOutboxFacts

(* A step that leaves the messages alone and goes on in its operation. *)
LEMMA OutboxStays ==
  ASSUME MInv, Boxes' = Boxes, disk'.out.msg = disk.out.msg, JournalsOK',
         UNCHANGED <<owed, job, left, key>>, ~Unsettled, ~Unsettled',
         pc \in JobOps <=> pc' \in JobOps, pc' \in {"commit", "remove_txn"} => left = {},
         ~(pc' = "msg" /\ stage' = "rename"), pc' = "ack" => pc = "ack"
  PROVE  MInv'
<1>1. Agree'
  BY DEF MInv, Agree
<1>2. \A M : HasAll(M) => HasAll(M)'
  BY DEF HasAll
<1>3. HasAll(owed)'
  BY <1>2 DEF MInv, HasAll
<1>4. WritesOK'
  BY <1>2 DEF MInv, WritesOK, Unsettled, HasAll
<1> QED BY <1>1, <1>3, <1>4 DEF MInv

(* A step that ends its operation. *)
LEMMA OutboxEnds ==
  ASSUME MInv, Finish, Agree', HasAll(owed)', JournalsOK'
  PROVE  MInv'
<1>1. WritesOK'
  BY DEF WritesOK, Finish, Go, JobOps
<1> QED BY <1>1 DEF MInv

LEMMA MInvNext == TInv /\ MInv /\ [Next]_vars => MInv'
<1> SUFFICES ASSUME TInv, MInv, [Next]_vars PROVE MInv'
  OBVIOUS
<1> USE DEF disks, run, hist
<1>0. /\ disk \in Disk /\ disk.out.msg \in Boxes /\ disk.root \in Roots
      /\ disk.out.msg \in [Keys -> Bytes \cup {None}]
  BY VisibleBox
<1>m. Agree /\ HasAll(owed) /\ JournalsOK /\ WritesOK
  BY DEF MInv
<1>j. /\ Roots' \subseteq Roots => JournalsOK'
      /\ \A q : Roots' = Roots \cup {q} /\ q.txn = disk.root.txn => JournalsOK'
  BY <1>0, <1>m DEF JournalsOK
<1>s. UNCHANGED disks => /\ Boxes' = Boxes /\ Roots' = Roots
                         /\ disk'.out.msg = disk.out.msg /\ JournalsOK'
  <2>1. UNCHANGED disks => Boxes' = Boxes /\ Roots' = Roots
    BY DEF Boxes, Roots
  <2> QED BY <1>j, <2>1
<1>f. ~Fault
  BY DEF MInv, Fault, TInv, TypeOK
<1>h. \A M : Boxes' \subseteq Boxes /\ HasAll(M) => HasAll(M)'
  BY DEF HasAll
<1>t. ASSUME Throw, UNCHANGED disks, ~Unsettled PROVE MInv'
  <2>1. Finish /\ owed' = owed
    BY <1>t DEF Throw
  <2>2. Agree'
    BY <1>m, <1>s, <1>t DEF Agree
  <2>3. HasAll(owed)'
    BY <1>m, <1>s, <1>h, <1>t, <2>1 DEF HasAll
  <2> QED BY <1>s, <1>t, <2>1, <2>2, <2>3, OutboxEnds
<1>1. CASE OpenTemp
  <2>1. /\ pc \notin {"msg", "remove_txn", "ack", "idle"} /\ stage = "open" /\ stage' = "rename"
        /\ See(WithTemp(disk)) /\ UNCHANGED <<pc, owed, job, left, key>>
    BY <1>1 DEF OpenTemp, Removes
  <2>2. /\ WithTemp(disk) \in Disk /\ WithTemp(disk).out.msg = disk.out.msg
        /\ WithTemp(disk).root.txn = disk.root.txn
    BY <1>0, <2>1, WithTempFacts DEF SameFiles, Removes
  <2>3. Boxes' = Boxes /\ disk'.out.msg = disk.out.msg /\ JournalsOK'
    BY <1>j, <2>1, <2>2, SeeBoxes
  <2>4. pc' \in {"commit", "remove_txn"} => left = {}
    BY <1>m, <2>1 DEF WritesOK
  <2> QED BY <2>1, <2>3, <2>4, OutboxStays DEF Unsettled
<1>2. CASE Rename
  <2> DEFINE e == WithoutTemp(disk)
             d == Install(e)
  <2>1. /\ stage = "rename" /\ stage' = "sync" /\ See(d) /\ UNCHANGED <<pc, owed, job, left, key>>
    BY <1>2 DEF Rename
  <2>2. e \in Disk /\ SameFiles(e.root, disk.root) /\ e.out.msg = disk.out.msg
    BY <1>0, WithoutTempFacts
  <2> HIDE DEF e
  <2>3. /\ d \in Disk
        /\ d.root.txn = IF pc = "txn" THEN job ELSE disk.root.txn
        /\ pc # "msg" => d.out.msg = disk.out.msg
        /\ pc = "msg" => d.out.msg =
             [disk.out.msg EXCEPT ![key] = (CHOOSE m \in left : m.key = key).bytes]
    BY <2>1, <2>2, InstallFacts DEF SameFiles
  <2> HIDE DEF d
  <2>4. /\ disk' = d /\ Boxes' = Boxes \cup {d.out.msg} /\ Roots' = Roots \cup {d.root}
        /\ d.out.msg = disk.out.msg => Boxes' = Boxes
    BY <2>1, <2>3, SeeBoxes
  <2>5. JournalsOK'
    <3>1. CASE pc = "txn"
      BY <1>m, <2>3, <2>4, <3>1 DEF JournalsOK, WritesOK, JobOps
    <3>2. CASE pc # "txn"
      BY <1>j, <2>3, <2>4, <3>2
    <3> QED BY <3>1, <3>2
  <2>6. CASE pc # "msg"
    <3>1. pc # "ack" /\ pc # "remove_txn"
      BY <2>1 DEF TInv, ControlOK, Removes
    <3>2. pc' \in {"commit", "remove_txn"} => left = {}
      BY <1>m, <2>1 DEF WritesOK
    <3> QED BY <2>1, <2>3, <2>4, <2>5, <2>6, <3>1, <3>2, OutboxStays DEF Unsettled
  <2>7. CASE pc = "msg"
    <3>1. PICK w : w = CHOOSE m \in left : m.key = key
      OBVIOUS
    <3>2. w \in left /\ w.key = key /\ key \in Keys /\ disk.out.msg[key] = None
      <4>1. \E m \in left : m.key = key
        BY <2>1, <2>7 DEF TInv, ControlOK
      <4> QED BY <1>m, <2>1, <2>7, <3>1, <4>1, LeftMessage DEF WritesOK
    <3>3. w.bytes \in Bytes /\ w.bytes # None
      BY <3>2, NoneAssumption DEF TInv, TypeOK, Message
    <3>4. /\ left \subseteq job.messages /\ Distinct(job.messages) /\ HasAll(job.messages \ left)
      BY <1>m, <2>7 DEF WritesOK, JobOps
    <3>5. d.out.msg = [disk.out.msg EXCEPT ![key] = w.bytes]
      BY <2>3, <2>7, <3>1
    <3>6. d.out.msg[key] = w.bytes /\ \A k \in Keys : k # key => d.out.msg[k] = disk.out.msg[k]
      BY <1>0, <3>2, <3>5
    <3>7. ASSUME NEW M, M \subseteq Message, HasAll(M) PROVE HasAll(M)'
      <4>1. \A m \in M : disk.out.msg[m.key] = m.bytes /\ m.bytes # None /\ m.key \in Keys
        BY <1>0, <3>7, NoneAssumption DEF HasAll, Message
      <4>2. \A m \in M : d.out.msg[m.key] = m.bytes
        BY <3>2, <3>6, <4>1
      <4> QED BY <2>4, <3>7, <4>2 DEF HasAll
    <3>8. owed \subseteq Message /\ job.messages \ left \subseteq Message
      BY <2>7 DEF TInv, TypeOK, ControlOK, JobOps, Txn
    <3>9. HasAll(owed)' /\ HasAll(job.messages \ left)'
      <4>1. HasAll(owed)' <=> \A b \in Boxes', m \in owed : b[m.key] = m.bytes
        BY <2>1 DEF HasAll
      <4>2. HasAll(job.messages \ left)' <=> \A b \in Boxes', m \in job.messages \ left : b[m.key] = m.bytes
        BY <2>1 DEF HasAll
      <4>3. /\ \A b \in Boxes', m \in owed : b[m.key] = m.bytes
            /\ \A b \in Boxes', m \in job.messages \ left : b[m.key] = m.bytes
        <5>1. HasAll(owed)
          BY <1>m
        <5>2. \A M : M \subseteq Message /\ HasAll(M) => \A b \in Boxes', m \in M : b[m.key] = m.bytes
          BY <3>7 DEF HasAll
        <5> QED BY <3>4, <3>8, <5>1, <5>2, Zenon
      <4> QED BY <4>1, <4>2, <4>3
    <3>10. Agree'
      <4>1. \A b \in Boxes, k \in Keys : b[k] = disk.out.msg[k]
        BY <1>m, <2>1 DEF Agree, Unsettled
      <4> QED BY <2>1, <2>4, <2>7, <3>6, <4>1 DEF Agree, Unsettled
    <3>11. \A m \in left : m.key = key => d.out.msg[key] = m.bytes
      BY <3>2, <3>4, <3>6 DEF Distinct
    <3>12. WritesOK'
      BY <2>1, <2>4, <2>7, <3>4, <3>9, <3>11 DEF WritesOK, JobOps
    <3> QED BY <2>5, <3>9, <3>10, <3>12 DEF MInv
  <2> QED BY <2>6, <2>7
<1>3. CASE Unlink
  <2> DEFINE d == Unlinked(disk)
  <2>1. /\ pc \in Removes /\ stage = "open" /\ stage' = "sync" /\ See(d)
        /\ UNCHANGED <<pc, owed, job, left, key>>
    BY <1>3 DEF Unlink
  <2>2. /\ d \in Disk
        /\ d.root.txn = IF pc = "remove_txn" THEN None ELSE disk.root.txn
        /\ pc # "ack" => d.out.msg = disk.out.msg
        /\ pc = "ack" => d.out.msg = [disk.out.msg EXCEPT ![key] = None]
    BY <1>0, <2>1, UnlinkedFacts
  <2> HIDE DEF d
  <2>3. /\ disk' = d /\ Boxes' = Boxes \cup {d.out.msg} /\ Roots' = Roots \cup {d.root}
        /\ d.out.msg = disk.out.msg => Boxes' = Boxes
    BY <2>1, <2>2, SeeBoxes
  <2>4. JournalsOK'
    BY <1>0, <1>m, <2>2, <2>3 DEF JournalsOK
  <2>5. CASE pc = "remove_txn"
    <3>1. left = {}
      BY <1>m, <2>5 DEF WritesOK
    <3> QED BY <2>1, <2>2, <2>3, <2>4, <2>5, <3>1, OutboxStays DEF Unsettled
  <2>6. CASE pc = "ack"
    <3>1. key \in Keys /\ owed \subseteq Message
      BY <2>6 DEF TInv, TypeOK, ControlOK
    <3>2. \A k \in Keys : k # key => d.out.msg[k] = disk.out.msg[k]
      BY <1>0, <2>2, <2>6, <3>1
    <3>3. \A m \in owed : m.key # key /\ m.key \in Keys
      BY <1>m, <2>6, <3>1 DEF WritesOK, Message
    <3>4. HasAll(owed)'
      BY <1>0, <1>m, <2>1, <2>3, <3>2, <3>3 DEF HasAll
    <3>5. Agree'
      <4>1. \A b \in Boxes, k \in Keys : b[k] = disk.out.msg[k]
        BY <1>m, <2>1 DEF Agree, Unsettled
      <4> QED BY <2>1, <2>3, <2>6, <3>2, <4>1 DEF Agree, Unsettled
    <3>6. WritesOK'
      BY <1>m, <2>1, <2>6, <3>3 DEF WritesOK, JobOps
    <3> QED BY <2>4, <3>4, <3>5, <3>6 DEF MInv
  <2> QED BY <2>1, <2>5, <2>6 DEF Removes
<1>4. CASE TempInTheWay
  BY <1>4, <1>t DEF TempInTheWay, Unsettled
<1>5. ASSUME NEW m \in left, OpenMessage(m) PROVE MInv'
  <2> DEFINE d == [disk EXCEPT !.out.temp = @ \cup {<<"msg", m.key>>}]
  <2>1. /\ pc = "msg" /\ pc' = "msg" /\ stage = "open" /\ stage' = "rename" /\ key' = m.key
        /\ See(d) /\ disk.out.msg[m.key] = None /\ UNCHANGED <<owed, job, left>>
    BY <1>5 DEF OpenMessage
  <2>2. disk.out.temp \cup {<<"msg", m.key>>} \in SUBSET OutboxTemps
    BY <1>0 DEF TInv, TypeOK, Disk, Outbox, OutboxTemps, Message
  <2>3. d \in Disk /\ d.root = disk.root /\ d.out.msg = disk.out.msg
    BY <1>0, <2>2, EditOutTemp
  <2> HIDE DEF d
  <2>4. Boxes' = Boxes /\ disk'.out.msg = disk.out.msg /\ JournalsOK'
    BY <1>j, <2>1, <2>3, SeeBoxes
  <2>5. Agree' /\ HasAll(owed)' /\ HasAll(job.messages \ left)'
    BY <1>m, <2>1, <2>4 DEF Agree, Unsettled, HasAll, WritesOK, JobOps
  <2>6. WritesOK'
    BY <1>m, <2>1, <2>4, <2>5 DEF WritesOK, JobOps
  <2> QED BY <2>4, <2>5, <2>6 DEF MInv
<1>6. ASSUME NEW m \in left, SkipMessage(m) PROVE MInv'
  <2>1. /\ pc = "msg" /\ stage = "open" /\ stage' = "open" /\ UNCHANGED <<disks, owed, job>>
        /\ pc' = (IF left' = {} THEN "commit" ELSE "msg")
        /\ left' = left \ {m} /\ disk.out.msg[m.key] = m.bytes /\ m.key \in Keys
    BY <1>6 DEF SkipMessage, Go, TInv, TypeOK, Message
  <2>2. \A b \in Boxes : b[m.key] = m.bytes
    BY <1>m, <2>1 DEF Agree, Unsettled
  <2>3. HasAll(job.messages \ left)'
    BY <1>m, <1>s, <2>1, <2>2 DEF WritesOK, HasAll, JobOps
  <2>4. Agree' /\ HasAll(owed)'
    BY <1>m, <1>s, <2>1 DEF Agree, Unsettled, HasAll
  <2>5. WritesOK'
    BY <1>m, <2>1, <2>3 DEF WritesOK, JobOps
  <2> QED BY <1>s, <2>1, <2>4, <2>5 DEF MInv
<1>7. ASSUME NEW m \in left, ReplayConflict(m) PROVE MInv'
  BY <1>7, <1>t DEF ReplayConflict, Unsettled
<1>r. ASSUME SyncRoot, disk' = disk
      PROVE  Boxes' = Boxes /\ disk'.out.msg = disk.out.msg /\ JournalsOK'
  <2>1. Boxes' = Boxes /\ Roots' = {disk.root}
    BY <1>r, SyncRootBoxes, SyncRootFacts
  <2> QED BY <1>0, <1>j, <1>r, <2>1
<1>o. ASSUME SyncOutbox, disk' = disk
      PROVE  Boxes' = {disk.out.msg} /\ JournalsOK' /\ Agree'
  <2>1. Boxes' = {disk.out.msg} /\ Roots' = Roots
    BY <1>o, SyncOutboxBoxes
  <2> QED BY <1>j, <1>o, <2>1 DEF Agree
<1>8. CASE SyncJournal
  <2>1. /\ pc = "txn" /\ pc' = "state" /\ stage' = "open" /\ SyncRoot /\ disk' = disk
        /\ UNCHANGED <<owed, job, left, key>>
    BY <1>8 DEF SyncJournal, Go
  <2> QED BY <1>r, <2>1, OutboxStays DEF Unsettled, JobOps
<1>9. CASE SyncState
  <2>1. /\ pc = "state" /\ pc' = "sha" /\ stage' = "open" /\ SyncRoot /\ disk' = disk
        /\ UNCHANGED <<owed, job, left, key>>
    BY <1>9 DEF SyncState, Go
  <2> QED BY <1>r, <2>1, OutboxStays DEF Unsettled, JobOps
<1>10. CASE SyncSha
  <2>1. /\ pc = "sha" /\ pc' = (IF left = {} THEN "commit" ELSE "msg") /\ stage' = "open"
        /\ SyncRoot /\ disk' = disk /\ UNCHANGED <<owed, job, left, key>>
    BY <1>10 DEF SyncSha, Go, AfterSha
  <2> QED BY <1>r, <2>1, OutboxStays DEF Unsettled, JobOps
<1>11. CASE SyncMessage
  <2>1. /\ pc = "msg" /\ stage = "sync" /\ stage' = "open" /\ SyncOutbox /\ disk' = disk
        /\ pc' = (IF left' = {} THEN "commit" ELSE "msg")
        /\ left' = {m \in left : m.key # key} /\ UNCHANGED <<owed, job>>
    BY <1>11 DEF SyncMessage, Go
  <2>2. HasAll(owed)'
    BY <1>0, <1>m, <1>o, <2>1 DEF HasAll
  <2>3. \A m \in job.messages \ left' : disk.out.msg[m.key] = m.bytes
    BY <1>0, <1>m, <2>1 DEF WritesOK, JobOps, HasAll
  <2>4. HasAll(job.messages \ left)'
    BY <1>o, <2>1, <2>3 DEF HasAll
  <2>5. WritesOK'
    BY <1>m, <2>1, <2>4 DEF WritesOK, JobOps
  <2> QED BY <1>o, <2>1, <2>2, <2>5 DEF MInv
<1>12. CASE SyncCommit
  <2>1. /\ pc = "commit" /\ pc' = "remove_txn" /\ stage' = "open" /\ SyncRoot /\ disk' = disk
        /\ UNCHANGED <<owed, job, left, key>>
    BY <1>12 DEF SyncCommit, Go
  <2>2. left = {}
    BY <1>m, <2>1 DEF WritesOK
  <2> QED BY <1>r, <2>1, <2>2, OutboxStays DEF Unsettled, JobOps
<1>13. CASE SyncRemoval
  <2>1. /\ pc = "remove_txn" /\ SyncRoot /\ disk' = disk /\ Finish /\ owed' = owed \cup job.messages
    BY <1>13 DEF SyncRemoval
  <2>2. HasAll(job.messages \ left) /\ left = {}
    BY <1>m, <2>1 DEF WritesOK, JobOps
  <2>3. HasAll(owed)'
    BY <1>m, <1>r, <2>1, <2>2 DEF HasAll
  <2>4. Agree'
    BY <1>m, <1>r, <2>1 DEF Agree, Unsettled
  <2> QED BY <1>r, <2>1, <2>3, <2>4, OutboxEnds
<1>14. CASE SyncAcknowledge
  <2>1. SyncOutbox /\ disk' = disk /\ Finish /\ owed' = owed
    BY <1>14 DEF SyncAcknowledge
  <2>2. HasAll(owed)'
    BY <1>0, <1>m, <1>o, <2>1 DEF HasAll
  <2> QED BY <1>o, <2>1, <2>2, OutboxEnds
<1>15. CASE SyncCreated
  <2>1. pc = "sha" /\ SyncRoot /\ disk' = disk /\ Finish /\ owed' = owed
    BY <1>15 DEF SyncCreated
  <2>2. Agree' /\ HasAll(owed)'
    BY <1>m, <1>r, <2>1 DEF Agree, Unsettled, HasAll
  <2> QED BY <1>r, <2>1, <2>2, OutboxEnds
<1>i. phase \in {"down", "loading"} \/ Idle => pc = "idle" /\ stage = "open" /\ left = {}
  BY <1>m DEF TInv, TypeOK, ControlOK, WritesOK, Idle, JobOps
<1>u. UNCHANGED disks /\ pc = "idle" => Agree' /\ JournalsOK' /\ \A M : HasAll(M) => HasAll(M)'
  BY <1>m, <1>s, <1>h DEF Agree, Unsettled
<1>16. CASE Start
  <2>1. pc = "idle" /\ left = {} /\ UNCHANGED disks /\ owed' = owed
    BY <1>16, <1>i DEF Start
  <2>2. HasAll(owed)'
    BY <1>m, <1>s, <2>1 DEF HasAll
  <2>3. CASE disk.root.txn # None
    <3>1. pc' = "state" /\ stage' = "open" /\ job' = disk.root.txn /\ left' = disk.root.txn.messages
      BY <1>16, <2>3 DEF Start, Go
    <3>2. HasAll(job.messages \ left)'
      BY <3>1 DEF HasAll
    <3>3. Distinct(disk.root.txn.messages)
      BY <1>0, <1>m, <2>3 DEF JournalsOK
    <3>4. WritesOK'
      BY <3>1, <3>2, <3>3 DEF WritesOK, JobOps
    <3> QED BY <1>u, <2>1, <2>2, <3>4 DEF MInv
  <2>4. CASE disk.root.txn = None
    <3>1. UNCHANGED <<pc, stage, job, left>>
      BY <1>16, <2>4 DEF Start
    <3>2. WritesOK'
      BY <2>1, <3>1 DEF WritesOK, JobOps
    <3> QED BY <1>u, <2>1, <2>2, <3>2 DEF MInv
  <2> QED BY <2>3, <2>4
<1>17. CASE UnknownName \/ Load \/ NextMessage
  <2>1. pc = "idle" /\ stage = "open" /\ UNCHANGED <<disks, pc, stage, job, left, key, owed>>
    BY <1>17, <1>i DEF UnknownName, Load, NextMessage
  <2>2. HasAll(owed)' /\ WritesOK'
    BY <1>m, <1>s, <2>1 DEF HasAll, WritesOK, JobOps
  <2> QED BY <1>u, <2>1, <2>2 DEF MInv
<1>18. ASSUME NEW s \in InitStates, Create(s) PROVE MInv'
  <2>1. pc = "idle" /\ left = {} /\ UNCHANGED <<disks, left, owed>>
    BY <1>18, <1>i DEF Create
  <2>2. HasAll(owed)'
    BY <1>m, <1>s, <2>1 DEF HasAll
  <2>3. \/ pc' = "state" /\ stage' = "open" /\ job' = [state |-> s, messages |-> {}]
        \/ pc' = "idle"
    BY <1>18, <2>1 DEF Create, Go
  <2>4. WritesOK'
    <3>1. CASE pc' = "idle"
      BY <2>1, <3>1 DEF WritesOK, JobOps
    <3>2. CASE pc' = "state" /\ job' = [state |-> s, messages |-> {}]
      <4>1. job'.messages = {} /\ left' = {}
        BY <2>1, <3>2
      <4> QED BY <3>2, <4>1 DEF WritesOK, JobOps, Distinct, HasAll
    <3> QED BY <2>3, <3>1, <3>2
  <2> QED BY <1>u, <2>1, <2>2, <2>4 DEF MInv
<1>19. ASSUME NEW next \in States, NEW batch \in Batches,
              NEW accepted \in SUBSET {batch[i] : i \in DOMAIN batch},
              commit(next, batch, accepted)
       PROVE  MInv'
  <2>1. /\ pc = "idle" /\ pc' = "txn" /\ stage' = "open" /\ UNCHANGED <<disks, owed>>
        /\ job' = [state |-> next, messages |-> accepted] /\ left' = accepted
    BY <1>19, <1>i DEF commit, Go
  <2>2. HasAll(owed)'
    BY <1>m, <1>s, <2>1 DEF HasAll
  <2>3. Distinct(accepted)
    <3>1. \A i, j \in DOMAIN batch : i # j => batch[i].key # batch[j].key
      BY DEF Batches
    <3>2. \A m \in accepted : \E i \in DOMAIN batch : m = batch[i]
      OBVIOUS
    <3> QED BY <3>1, <3>2 DEF Distinct
  <2>4. job'.messages = accepted
    BY <2>1
  <2>5. WritesOK'
    BY <2>1, <2>3, <2>4 DEF WritesOK, JobOps, HasAll
  <2> QED BY <1>u, <2>1, <2>2, <2>5 DEF MInv
<1>20. ASSUME NEW answer, acknowledge(answer) PROVE MInv'
  <2>1. /\ pc = "idle" /\ left = {} /\ UNCHANGED <<disks, left>>
        /\ pc' \in {"ack", "blocked", "idle"} /\ owed' \subseteq owed
        /\ pc' = "ack" => /\ key' = inflight.key /\ owed' = owed \ {inflight}
                          /\ disk.out.msg[inflight.key] = inflight.bytes
    BY <1>20, <1>i DEF acknowledge, Go
  <2>2. HasAll(owed)'
    BY <1>m, <1>s, <2>1 DEF HasAll
  <2>3. inflight \in Message /\ owed \subseteq Message
    BY <1>20 DEF acknowledge, TInv, TypeOK
  <2>4. \A m \in owed : disk.out.msg[m.key] = m.bytes
    BY <1>0, <1>m DEF HasAll
  <2>5. \A m \in Message : m.key = inflight.key /\ m.bytes = inflight.bytes => m = inflight
    BY <2>3 DEF Message
  <2>6. pc' = "ack" => \A m \in owed' : m.key # key'
    BY <2>1, <2>3, <2>4, <2>5
  <2>7. WritesOK'
    BY <2>1, <2>6 DEF WritesOK, JobOps
  <2> QED BY <1>u, <2>1, <2>2, <2>7 DEF MInv
<1>21. CASE CallFails \/ Kill
  BY <1>21, <1>f DEF CallFails, Kill
<1>22. ASSUME NEW v \in images, PowerLoss(v) PROVE MInv'
  <2>1. /\ images' = {v} /\ disk' = v /\ Finish /\ owed' = owed
    BY <1>22 DEF PowerLoss, Down
  <2>2. Boxes' = {v.out.msg} /\ Roots' = {v.root} /\ v.out.msg \in Boxes /\ v.root \in Roots
    BY <2>1 DEF Boxes, Roots
  <2>3. JournalsOK' /\ Agree'
    BY <1>j, <2>1, <2>2 DEF Agree
  <2>4. HasAll(owed)'
    BY <1>m, <2>1, <2>2 DEF HasAll
  <2> QED BY <2>1, <2>3, <2>4, OutboxEnds
<1>23. CASE UNCHANGED vars
  BY <1>m, <1>s, <1>23 DEF vars, MInv, Agree, Unsettled, HasAll, WritesOK
<1> QED BY <1>1, <1>2, <1>3, <1>4, <1>5, <1>6, <1>7, <1>8, <1>9, <1>10, <1>11,
       <1>12, <1>13, <1>14, <1>15, <1>16, <1>17, <1>18, <1>19, <1>20, <1>21, <1>22, <1>23
    DEF Next, FileStep, Constructor, Operation

LEMMA MInvInit == Init /\ MaxFaults = 0 => MInv
<1> SUFFICES ASSUME Init, MaxFaults = 0 PROVE MInv
  OBVIOUS
<1>1. /\ images = {disk} /\ disk.root.txn = None /\ owed = {} /\ pc = "idle" /\ left = {}
  BY DEF Init, EmptyDisk
<1> QED BY <1>1 DEF MInv, Agree, HasAll, Boxes, Roots, JournalsOK, WritesOK, JobOps

(* While no call fails and no process is killed, a message of a commit     *)
(* that returned is never lost before its receipt, however often the power *)
(* goes between the system calls of replay() and acknowledge().            *)
THEOREM MessagesSurvive == Spec /\ MaxFaults = 0 => []AcceptedMessagesSurvive
<1>1. TInv /\ MInv /\ [Next]_vars => (TInv /\ MInv)'
  BY TInvNext, MInvNext
<1>2. Init /\ MaxFaults = 0 => TInv /\ MInv
  BY IInvInit, MInvInit DEF IInv
<1>3. TInv /\ MInv => AcceptedMessagesSurvive
  <2> SUFFICES ASSUME TInv, MInv, NEW v \in images, NEW m \in owed
               PROVE  RecoveredOutbox(v)[m.key] = m.bytes
    BY DEF AcceptedMessagesSurvive
  <2>1. m.key \in Keys /\ m.bytes # None
    BY NoneAssumption DEF TInv, TypeOK, Message
  <2>2. v.out.msg[m.key] = m.bytes
    BY DEF MInv, HasAll, Boxes
  <2> QED BY <2>1, <2>2 DEF RecoveredOutbox
<1> QED BY <1>1, <1>2, <1>3, PTL DEF Spec
=============================================================================
