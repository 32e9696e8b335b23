----------------------------- MODULE StateStore -----------------------------
(***************************************************************************)
(* The durable store of the service (src/state.cpp): a state document with *)
(* its checksum, a journal ("transaction.json") and an outbox directory    *)
(* of messages for the backend.  Every file is replaced by writing and     *)
(* syncing "<name>.next", renaming it and syncing its directory.  A crash  *)
(* may come between any two of these steps, and any of them may fail.      *)
(*                                                                         *)
(* `disk' is what a running process sees; `images' is the set of contents  *)
(* that a power loss may leave: every view since the last directory sync.  *)
(***************************************************************************)
EXTENDS Integers, Sequences, FiniteSets, FiniteSetsExt

CONSTANTS
  States,        \* state documents that pass validate_state
  InitStates,    \* those that initial() may produce (random producer epoch)
  Keys,          \* message keys (SHA-256 names), ordered as the names sort
  Bytes,         \* message bodies
  Size,          \* bytes of a body
  Capacity,      \* 256 in the code
  ByteCapacity,  \* 2097152 in the code
  MaxBatch,      \* bound: messages given to one commit (the code gives <= 2)
  MaxFaults,     \* bound: failing system calls and kills in one behaviour
  None           \* an absent file, an absent transaction, no key

ASSUME StoreAssumption ==
  /\ InitStates \subseteq States /\ InitStates # {}
  /\ Keys \subseteq Nat /\ IsFiniteSet(Keys)
  /\ Size \in [Bytes -> Nat]
  /\ Capacity \in Nat /\ ByteCapacity \in Nat
  /\ MaxBatch \in Nat /\ MaxFaults \in Nat

ASSUME NoneAssumption ==
  /\ None \notin States /\ None \notin Keys /\ None \notin Bytes
  /\ None \notin [state: States, messages: SUBSET [key: Keys, bytes: Bytes]]
  /\ None \notin [key: Keys, bytes: Bytes]

VARIABLES
  disk,      \* the files, as the process sees them
  images,    \* the files a power loss may leave
  synced,    \* the image that the directory syncs alone guarantee
  phase,     \* where the process is: constructor steps, ready, failed, down
  pc, stage, \* the file operation under way and its next system call
  job, left, \* the transaction under way and its messages not yet written
  key,       \* the message of an outbox operation
  mem,       \* StateStore::state_
  inflight,  \* the Pending the delivery thread holds while it POSTs
  faults,    \* failing system calls and kills so far
  may,       \* history: states a restart may legitimately come up with
  owed       \* history: messages of finished transactions, not yet acked

disks == <<disk, images, synced>>
run   == <<pc, stage, job, left, key>>
hist  == <<may, owed>>
vars  == <<disk, images, synced, phase, pc, stage, job, left, key, mem,
           inflight, faults, may, owed>>

Message == [key: Keys, bytes: Bytes]
Txn     == [state: States, messages: SUBSET Message]

RootTemps   == {"txn", "state", "sha", "commit"}
OutboxTemps == {"msg", "blocked"} \X Keys

(* commit.sha256 is written and never read: only its temporary matters. *)
Root   == [txn: Txn \cup {None}, state: States \cup {None},
           sha: States \cup {None}, temp: SUBSET RootTemps]
Outbox == [msg: [Keys -> Bytes \cup {None}], blocked: SUBSET Keys,
           temp: SUBSET OutboxTemps]
Disk   == [root: Root, out: Outbox]

EmptyDisk ==
  [root |-> [txn |-> None, state |-> None, sha |-> None, temp |-> {}],
   out  |-> [msg |-> [k \in Keys |-> None], blocked |-> {}, temp |-> {}]]

-----------------------------------------------------------------------------
(* What the code computes from the files. *)

Stored(msg) == {k \in Keys : msg[k] # None}

queued(msg) == Cardinality(Stored(msg))

QueuedBytes(msg) == MapThenSumSet(LAMBDA k : Size[msg[k]], Stored(msg))

(* validate_queue: only known names, no orphan marker, within the limits. *)
validate_queue(out) ==
  /\ out.temp = {}
  /\ out.blocked \subseteq Stored(out.msg)
  /\ queued(out.msg) <= Capacity
  /\ QueuedBytes(out.msg) <= ByteCapacity

(* The directory scan of the constructor: a temporary is tolerated only    *)
(* beside a journal, and never the journal's own.                          *)
NamesAllowed(root) == root.temp \subseteq (IF root.txn = None THEN {} ELSE {"state", "sha", "commit"})

OutboxEmpty(out) == Stored(out.msg) = {} /\ out.blocked = {} /\ out.temp = {}

Deliverable(out) == Stored(out.msg) \ out.blocked

(* pending: the first name in directory order that carries no marker. *)
pending(out) ==
  LET k == CHOOSE i \in Deliverable(out) : \A j \in Deliverable(out) : i <= j
  IN  [key |-> k, bytes |-> out.msg[k]]

(* One call passes the vector of messages of one operation; their keys     *)
(* differ because their message types or identities do.                    *)
Batches ==
  {b \in UNION {[1..n -> Message] : n \in 0..MaxBatch} :
     \A i, j \in DOMAIN b : i # j => b[i].key # b[j].key}

Conflict(msg, batch) ==
  \E i \in DOMAIN batch : msg[batch[i].key] \notin {None, batch[i].bytes}

Room(msg, taken, m) ==
  /\ queued(msg) + Cardinality(taken) < Capacity
  /\ QueuedBytes(msg) + MapThenSumSet(LAMBDA t : Size[t.bytes], taken)
       + Size[m.bytes] <= ByteCapacity

(* The loop of commit: in order, a message already stored is skipped, one  *)
(* that does not fit is dropped, the others are accepted.                  *)
Accepts(msg, batch, accepted) ==
  /\ accepted \subseteq {batch[i] : i \in DOMAIN batch}
  /\ \A i \in DOMAIN batch :
       batch[i] \in accepted <=>
         /\ msg[batch[i].key] = None
         /\ Room(msg, {batch[j] : j \in 1..(i - 1)} \cap accepted, batch[i])

-----------------------------------------------------------------------------
(* File operations.  A change of the namespace is seen at once and adds a  *)
(* possible crash image; a directory sync settles that directory.          *)

See(d) == disk' = d /\ images' = images \cup {d} /\ UNCHANGED synced

RootOps   == {"txn", "state", "sha", "commit", "remove_txn"}
OutboxOps == {"msg", "ack", "blocked"}
Removes   == {"remove_txn", "ack"}

SyncRoot   == /\ images' = {[v EXCEPT !.root = disk.root] : v \in images}
              /\ synced' = [synced EXCEPT !.root = disk.root]
SyncOutbox == /\ images' = {[v EXCEPT !.out = disk.out] : v \in images}
              /\ synced' = [synced EXCEPT !.out = disk.out]

TempExists == IF pc \in RootOps THEN pc \in disk.root.temp
                                ELSE <<pc, key>> \in disk.out.temp

WithTemp(d) == IF pc \in RootOps
               THEN [d EXCEPT !.root.temp = @ \cup {pc}]
               ELSE [d EXCEPT !.out.temp = @ \cup {<<pc, key>>}]

WithoutTemp(d) == IF pc \in RootOps
                  THEN [d EXCEPT !.root.temp = @ \ {pc}]
                  ELSE [d EXCEPT !.out.temp = @ \ {<<pc, key>>}]

(* Mutant of Install: the old state is written beside the new checksum. *)
InstallOldState(d) ==
  CASE pc = "txn"     -> [d EXCEPT !.root.txn = job]
    [] pc = "state"   -> [d EXCEPT !.root.state = IF mem = None THEN job.state ELSE mem]
    [] pc = "sha"     -> [d EXCEPT !.root.sha = @]
    [] pc = "msg"     -> [d EXCEPT !.out.msg[key] =
                            (CHOOSE m \in left : m.key = key).bytes]
    [] pc = "blocked" -> [d EXCEPT !.out.blocked = @ \cup {key}]
    [] OTHER          -> d

(* Mutant of Install: the journal has the state and not the messages, which *)
(* are written after it: a commit in two parts.                            *)
InstallWithoutMessages(d) ==
  CASE pc = "txn"     -> [d EXCEPT !.root.txn = [job EXCEPT !.messages = {}]]
    [] pc = "state"   -> [d EXCEPT !.root.state = job.state]
    [] pc = "sha"     -> [d EXCEPT !.root.sha = job.state]
    [] pc = "msg"     -> [d EXCEPT !.out.msg[key] =
                            (CHOOSE m \in left : m.key = key).bytes]
    [] pc = "blocked" -> [d EXCEPT !.out.blocked = @ \cup {key}]
    [] OTHER          -> d

(* The file that the rename of pc's temporary installs. *)
Install(d) ==
  CASE pc = "txn"     -> [d EXCEPT !.root.txn = job]
    [] pc = "state"   -> [d EXCEPT !.root.state = job.state]
    [] pc = "sha"     -> [d EXCEPT !.root.sha = job.state]
    [] pc = "msg"     -> [d EXCEPT !.out.msg[key] =
                            (CHOOSE m \in left : m.key = key).bytes]
    [] pc = "blocked" -> [d EXCEPT !.out.blocked = @ \cup {key}]
    [] OTHER          -> d

(* The file that an unlink of pc takes away. *)
Unlinked(d) == IF pc = "ack" THEN [d EXCEPT !.out.msg[key] = None]
                             ELSE [d EXCEPT !.root.txn = None]

(* Only replay() may reuse a temporary that an earlier attempt left. *)
Replaying == pc \in {"state", "sha", "msg", "commit"} /\ phase # "creating"

Go(to) == pc' = to /\ stage' = "open"

Finish == Go("idle") /\ job' = None /\ left' = {} /\ key' = None

(* An exception leaves the operation; in the constructor it leaves the     *)
(* runtime without a store until the next start.                           *)
Throw == /\ Finish
         /\ phase' = IF phase = "ready" THEN "ready" ELSE "failed"
         /\ UNCHANGED <<mem, inflight, hist>>

Fault == faults < MaxFaults /\ faults' = faults + 1

-----------------------------------------------------------------------------
(* write_durable_file and remove_durable, one system call per action. *)

OpenTemp ==
  /\ pc \notin Removes \cup {"idle", "msg"} /\ stage = "open"
  /\ ~TempExists \/ Replaying
  /\ See(WithTemp(disk))
  /\ stage' = "rename"
  /\ UNCHANGED <<phase, pc, job, left, key, mem, inflight, faults, hist>>

(* replay() looks at each message: absent, it is written; stored with the  *)
(* same bytes, it is left alone; stored with others, replay gives up.      *)
OpenMessage(m) ==
  /\ pc = "msg" /\ stage = "open" /\ m \in left
  /\ disk.out.msg[m.key] = None
  /\ key' = m.key /\ stage' = "rename"
  /\ See([disk EXCEPT !.out.temp = @ \cup {<<"msg", m.key>>}])
  /\ UNCHANGED <<phase, pc, job, left, mem, inflight, faults, hist>>

SkipMessage(m) ==
  /\ pc = "msg" /\ stage = "open" /\ m \in left
  /\ disk.out.msg[m.key] = m.bytes
  /\ left' = left \ {m}
  /\ Go(IF left' = {} THEN "commit" ELSE "msg")
  /\ UNCHANGED <<disks, phase, job, key, mem, inflight, faults, hist>>

ReplayConflict(m) ==
  /\ pc = "msg" /\ stage = "open" /\ m \in left
  /\ disk.out.msg[m.key] \notin {None, m.bytes}
  /\ Throw
  /\ UNCHANGED <<disks, faults>>

(* The temporary is written and synced, then renamed over its target. *)
Rename ==
  /\ stage = "rename"
  /\ See(Install(WithoutTemp(disk)))
  /\ stage' = "sync"
  /\ UNCHANGED <<phase, pc, job, left, key, mem, inflight, faults, hist>>

Unlink ==
  /\ pc \in Removes /\ stage = "open"
  /\ See(Unlinked(disk))
  /\ stage' = "sync"
  /\ UNCHANGED <<phase, pc, job, left, key, mem, inflight, faults, hist>>

(* O_EXCL meets a temporary that a failed unlink left behind. *)
TempInTheWay ==
  /\ pc \notin Removes \cup {"idle", "msg"} /\ stage = "open"
  /\ TempExists /\ ~Replaying
  /\ Throw
  /\ UNCHANGED <<disks, faults>>

(* A failing call.  After the open, the handler unlinks the temporary,     *)
(* without looking whether that worked and without syncing the directory.  *)
CallFails ==
  /\ pc # "idle" /\ Fault /\ Throw
  /\ \/ stage \in {"open", "sync"} /\ UNCHANGED disks
     \/ stage = "rename" /\ See(WithoutTemp(disk))
     \/ stage = "rename" /\ UNCHANGED disks

-----------------------------------------------------------------------------
(* The directory sync that ends each file operation, and what comes next.  *)

(* Mutant of SyncState: the checksum is not rewritten. *)
SyncStateNoChecksum ==
  /\ pc = "state" /\ stage = "sync" /\ SyncRoot
  /\ Go(IF phase = "creating" THEN "sha" ELSE IF left = {} THEN "commit" ELSE "msg")
  /\ UNCHANGED <<disk, phase, job, left, key, mem, inflight, faults, hist>>

(* Mutant of SyncMessage: the outbox directory is not synced. *)
SyncMessageUnsynced ==
  /\ pc = "msg" /\ stage = "sync" /\ UNCHANGED <<images, synced>>
  /\ left' = {m \in left : m.key # key}
  /\ key' = None
  /\ Go(IF left' = {} THEN "commit" ELSE "msg")
  /\ UNCHANGED <<disk, phase, job, mem, inflight, faults, hist>>

(* Mutant of SyncCommit: the journal object is adopted as the state. *)
SyncCommitAdoptsJournal ==
  /\ pc = "commit" /\ stage = "sync" /\ SyncRoot /\ Go("remove_txn")
  /\ mem' = job
  /\ UNCHANGED <<disk, phase, job, left, key, inflight, faults, hist>>

AfterSha == IF left = {} THEN "commit" ELSE "msg"

SyncJournal ==
  /\ pc = "txn" /\ stage = "sync" /\ SyncRoot /\ Go("state")
  /\ UNCHANGED <<disk, phase, job, left, key, mem, inflight, faults, hist>>

SyncState ==
  /\ pc = "state" /\ stage = "sync" /\ SyncRoot /\ Go("sha")
  /\ UNCHANGED <<disk, phase, job, left, key, mem, inflight, faults, hist>>

SyncSha ==
  /\ pc = "sha" /\ stage = "sync" /\ phase # "creating" /\ SyncRoot /\ Go(AfterSha)
  /\ UNCHANGED <<disk, phase, job, left, key, mem, inflight, faults, hist>>

SyncMessage ==
  /\ pc = "msg" /\ stage = "sync" /\ SyncOutbox
  /\ left' = {m \in left : m.key # key}
  /\ key' = None
  /\ Go(IF left' = {} THEN "commit" ELSE "msg")
  /\ UNCHANGED <<disk, phase, job, mem, inflight, faults, hist>>

(* replay() ends by adopting the new state, before the journal goes. *)
SyncCommit ==
  /\ pc = "commit" /\ stage = "sync" /\ SyncRoot /\ Go("remove_txn")
  /\ mem' = job.state
  /\ UNCHANGED <<disk, phase, job, left, key, inflight, faults, hist>>

(* commit() returns, or the constructor goes on to load the state. *)
SyncRemoval ==
  /\ pc = "remove_txn" /\ stage = "sync" /\ SyncRoot /\ Finish
  /\ phase' = IF phase = "ready" THEN "ready" ELSE "loading"
  /\ may' = {job.state}
  /\ owed' = owed \cup job.messages
  /\ UNCHANGED <<disk, mem, inflight, faults>>

SyncAcknowledge ==
  /\ pc \in {"ack", "blocked"} /\ stage = "sync" /\ SyncOutbox /\ Finish
  /\ UNCHANGED <<disk, phase, mem, inflight, faults, hist>>

-----------------------------------------------------------------------------
(* The constructor. *)

Start ==
  /\ phase = "down" /\ NamesAllowed(disk.root)
  /\ IF disk.root.txn # None
     THEN /\ phase' = "replaying" /\ Go("state")
          /\ job' = disk.root.txn /\ left' = disk.root.txn.messages
     ELSE phase' = "loading" /\ UNCHANGED <<pc, stage, job, left>>
  /\ UNCHANGED <<disks, key, mem, inflight, faults, hist>>

UnknownName ==
  /\ phase = "down" /\ ~NamesAllowed(disk.root)
  /\ phase' = "failed"
  /\ UNCHANGED <<disks, run, mem, inflight, faults, hist>>

Load ==
  /\ phase = "loading" /\ disk.root.state # None
  /\ mem' = disk.root.state
  /\ IF disk.root.sha = mem' /\ validate_queue(disk.out)
     THEN phase' = "ready" /\ may' = {mem'}
     ELSE phase' = "failed" /\ UNCHANGED may
  /\ UNCHANGED <<disks, run, inflight, faults, owed>>

(* First start: state.json and state.sha256 are written without a journal. *)
(* An outbox without a state is not a first start.                         *)
Create(s) ==
  /\ phase = "loading" /\ disk.root.state = None
  /\ IF OutboxEmpty(disk.out)
     THEN /\ phase' = "creating" /\ Go("state") /\ mem' = s
          /\ job' = [state |-> s, messages |-> {}]
     ELSE phase' = "failed" /\ UNCHANGED <<pc, stage, mem, job>>
  /\ UNCHANGED <<disks, left, key, inflight, faults, hist>>

SyncCreated ==
  /\ phase = "creating" /\ pc = "sha" /\ stage = "sync" /\ SyncRoot /\ Finish
  /\ phase' = IF validate_queue(disk.out) THEN "ready" ELSE "failed"
  /\ may' = {mem}
  /\ UNCHANGED <<disk, mem, inflight, faults, owed>>

-----------------------------------------------------------------------------
(* Operations of the running store; the runtime's mutex serialises them. *)

Idle == phase = "ready" /\ pc = "idle"

(* A conflict or an invalid queue throws before anything changes. *)
commit(next, batch, accepted) ==
  /\ Idle /\ validate_queue(disk.out)
  /\ ~Conflict(disk.out.msg, batch)
  /\ Accepts(disk.out.msg, batch, accepted)
  /\ job' = [state |-> next, messages |-> accepted]
  /\ left' = accepted
  /\ Go("txn")
  /\ may' = may \cup {next}
  /\ UNCHANGED <<disks, phase, key, mem, inflight, faults, owed>>

NextMessage ==
  /\ Idle /\ inflight = None /\ Deliverable(disk.out) # {}
  /\ inflight' = pending(disk.out)
  /\ UNCHANGED <<disks, phase, run, mem, faults, hist>>

(* acknowledge(): the POST ran without the mutex, so the record is read    *)
(* again.  A matching receipt removes it, a refusal marks it, anything     *)
(* else leaves it for the next round.                                      *)
acknowledge(answer) ==
  /\ Idle /\ inflight # None
  /\ inflight' = None
  /\ \/ /\ disk.out.msg[inflight.key] = inflight.bytes
        /\ answer = "matching"
        /\ Go("ack") /\ key' = inflight.key
        /\ owed' = owed \ {inflight}
     \/ /\ disk.out.msg[inflight.key] = inflight.bytes
        /\ answer = "refused"
        /\ Go("blocked") /\ key' = inflight.key
        /\ UNCHANGED owed
     \/ /\ answer = "other" \/ disk.out.msg[inflight.key] # inflight.bytes
        /\ UNCHANGED <<pc, stage, key, owed>>
  /\ UNCHANGED <<disks, phase, job, left, mem, faults, may>>

Down == /\ phase # "down" /\ phase' = "down" /\ Finish
        /\ mem' = None /\ inflight' = None /\ UNCHANGED hist

(* The process is killed: the files stay as they are seen, synced or not. *)
Kill == Down /\ Fault /\ UNCHANGED disks

(* The power goes: one of the images is what the next start finds. *)
PowerLoss(v) == Down /\ disk' = v /\ images' = {v} /\ synced' = v /\ UNCHANGED faults

-----------------------------------------------------------------------------
Init ==
  /\ disk = EmptyDisk /\ images = {EmptyDisk} /\ synced = EmptyDisk
  /\ phase = "down" /\ pc = "idle" /\ stage = "open"
  /\ job = None /\ left = {} /\ key = None
  /\ mem = None /\ inflight = None /\ faults = 0
  /\ may = InitStates \cup {None} /\ owed = {}

FileStep ==
  \/ OpenTemp \/ Rename \/ Unlink \/ TempInTheWay
  \/ \E m \in left : OpenMessage(m) \/ SkipMessage(m) \/ ReplayConflict(m)
  \/ SyncJournal \/ SyncState \/ SyncSha \/ SyncMessage \/ SyncCommit
  \/ SyncRemoval \/ SyncAcknowledge \/ SyncCreated

Constructor == Start \/ UnknownName \/ Load \/ \E s \in InitStates : Create(s)

Operation ==
  \/ \E next \in States, batch \in Batches :
       \E accepted \in SUBSET {batch[i] : i \in DOMAIN batch} : commit(next, batch, accepted)
  \/ NextMessage
  \/ \E answer \in {"matching", "refused", "other"} : acknowledge(answer)

Next ==
  \/ FileStep \/ Constructor \/ Operation
  \/ CallFails \/ Kill \/ \E v \in images : PowerLoss(v)

(* A thread inside an operation keeps running while the process lives, and *)
(* the supervisor starts a process that is down.                           *)
Spec == Init /\ [][Next]_vars /\ WF_vars(FileStep) /\ WF_vars(Constructor)

-----------------------------------------------------------------------------
(* Every variable has the shape its declaration promises. *)
TypeOK ==
  /\ disk \in Disk /\ images \subseteq Disk /\ synced \in Disk
  /\ disk \in images /\ synced \in images
  /\ phase \in {"down", "replaying", "loading", "creating", "ready", "failed"}
  /\ pc \in RootOps \cup OutboxOps \cup {"idle"}
  /\ stage \in {"open", "rename", "sync"}
  /\ job \in Txn \cup {None} /\ left \subseteq Message
  /\ key \in Keys \cup {None}
  /\ mem \in States \cup {None}
  /\ inflight \in Message \cup {None}
  /\ faults \in 0..MaxFaults
  /\ may \subseteq States \cup {None}
  /\ owed \subseteq Message

-----------------------------------------------------------------------------
(* What the constructor would make of an image. *)

RecoveredState(v) == IF v.root.txn # None THEN v.root.txn.state ELSE v.root.state

Journalled(v) == IF v.root.txn # None THEN v.root.txn.messages ELSE {}

RecoveredOutbox(v) ==
  [k \in Keys |->
     IF v.out.msg[k] = None /\ \E m \in Journalled(v) : m.key = k
     THEN (CHOOSE m \in Journalled(v) : m.key = k).bytes
     ELSE v.out.msg[k]]

(* A commit that returned is durable: whatever image a power loss leaves,  *)
(* the next start comes up with the last committed state, or with that of  *)
(* a commit that was still under way or failed after it.                   *)
CommittedStateSurvives == \A v \in images : RecoveredState(v) \in may

(* A message of a finished transaction is never lost before its receipt:   *)
(* every image has it in the outbox or in a journal that will be replayed. *)
AcceptedMessagesSurvive ==
  \A v \in images, m \in owed : RecoveredOutbox(v)[m.key] = m.bytes

(* Without a journal, state.json and state.sha256 agree in every image, so *)
(* the checksum test of the constructor never rejects the store's own      *)
(* writes; only the unjournalled first start can leave a lone state.json.  *)
ChecksumCovered ==
  \A v \in images :
    v.root.txn = None /\ v.root.sha # None => v.root.sha = v.root.state

(* A start fails only over what an interrupted write left outside a        *)
(* journal: a temporary, or the lone state.json of an interrupted first    *)
(* start.  Checksums, limits, markers and replay are never the reason.     *)
FailedOnlyByLeftovers ==
  phase = "failed" => \/ disk.root.temp # {} \/ disk.out.temp # {}
                      \/ disk.root.state # None /\ disk.root.sha = None

(* A store that has come up once comes up again at every later start. *)
RestartRetainsState == phase = "failed" => None \in may

(* The call under way, as its caller knows it: up to the sync that makes   *)
(* it durable, and from there to its return.  The constructor's first      *)
(* state is a commit too.                                                  *)
CallMode ==
  CASE phase = "creating" -> IF pc = "state" THEN "commit" ELSE "done"
    [] phase = "ready"    -> CASE pc = "idle"    -> "idle"
                               [] pc = "txn"     -> "commit"
                               [] pc = "ack"     -> "acknowledge"
                               [] pc = "blocked" -> "block"
                               [] OTHER          -> "done"
    [] OTHER              -> "down"

CallArgument ==
  CASE CallMode = "commit"                   -> job
    [] CallMode \in {"acknowledge", "block"} -> key
    [] OTHER                                 -> None

(* With no failing call, the store implements the atomic one: what a       *)
(* restart would recover changes only by the call under way, state and     *)
(* messages together, and a call returns only once its change is durable.  *)
Atomic == INSTANCE AtomicStore WITH
  state   <- RecoveredState(synced),
  outbox  <- RecoveredOutbox(synced),
  blocked <- synced.out.blocked,
  mode    <- CallMode,
  call    <- CallArgument

ImplementsAtomicStore == Atomic!Spec

=============================================================================
