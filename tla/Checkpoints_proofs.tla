--------------------------- MODULE Checkpoints_proofs ---------------------------
(***************************************************************************)
(* Proofs about Checkpoints for every number of calls, keys, checkpoints,  *)
(* commits and crashes: whatever was done to the repository was intended,  *)
(* once for each intent, what is recorded is a chain of the application's  *)
(* own commits, and an untouched worktree is where its record says or the  *)
(* journal tells why not.                                                  *)
(*                                                                         *)
(* The first argument (IInv) needs neither the lock nor an order of the    *)
(* steps. Commits, checkpoint refs, records and intents are only added     *)
(* (Grows), and each call carries from step to step what it has observed   *)
(* of them (CallInv), which stays true across its awaits, a crash and its  *)
(* orphan. The second (SerialInv) is about the lock: only the head of the  *)
(* queue works, so its key is not spent before it commits                  *)
(* (CommitsAreAttributed) and nobody else commits until its row is settled *)
(* (Tidy).                                                                 *)
(***************************************************************************)
EXTENDS Checkpoints, FiniteSetTheorems, SequenceTheorems, TLAPS

-----------------------------------------------------------------------------
(* What the steps leave alone, and what they build on                      *)

\* The base, or a recorded checkpoint: what the next checkpoint may stand on.
InChain(oid) == oid \in Oids /\ (oid = Base \/ \E id \in Ids : records[id] = oid)

\* A commit of the application for this checkpoint, on top of the chain.
IsCheckpoint(oid, id) ==
  /\ oid \in 1 .. Len(commits)
  /\ commits[oid].trailer = id /\ InChain(commits[oid].parent)

\* The journal has the intent of the commit, or of the checkpoint's ref.
Intended(key, id) ==
  /\ journal[<<key, "commit">>] # Null /\ journal[<<key, "commit">>].expected.id = id
RefIntended(key, id, oid) ==
  /\ journal[<<key, "ref">>] # Null
  /\ journal[<<key, "ref">>].expected = [op |-> "ref", id |-> id, oid |-> oid]

-----------------------------------------------------------------------------
(* The inductive invariant                                                 *)

RepositoryInv ==
  /\ commits \in Seq([parent : Oids, trailer : Ids \cup {Null}]) /\ Len(commits) <= MaxCommits
  /\ branch \in 0 .. Len(commits) \cup {Null}
  /\ head \in 0 .. Len(commits) \cup {Null} /\ (tree => head # Null)
  /\ refs \in [RefKinds -> [Ids -> Oids \cup {Null}]]

DatabaseInv ==
  /\ row # Null => InChain(row)
  /\ records \in [Ids -> Oids \cup {Null}] /\ journal \in [Slots -> Rows \cup {Null}]

\* A recorded checkpoint is what it should be, under its ref.
RecordInv(id) ==
  records[id] # Null =>
    refs["checkpoint"][id] = records[id] /\ IsCheckpoint(records[id], id)

\* An intent to commit stands on the chain; a result is the commit that was
\* intended, or the ref that was intended and is there.
CommitRowInv(key) ==
  LET r == journal[<<key, "commit">>]
  IN  r # Null => /\ InChain(r.expected.oid) /\ r.expected.id \in Ids
                  /\ r.result # Null => IsCheckpoint(r.result, r.expected.id)
RefRowInv(key) ==
  LET r == journal[<<key, "ref">>]
  IN  r # Null /\ r.result # Null =>
        /\ r.expected.id \in Ids /\ r.result = r.expected.oid
        /\ refs["checkpoint"][r.expected.id] = r.result

Kinds == {"ensure", "checkpoint", "protect"}
CallRecords == [kind : Kinds \cup {Null}, key : Keys \cup {Null}, id : Ids \cup {Null},
                expected : Oids \cup {Null}, oid : Oids \cup {Null}]
EnsureLabels == {"create", "attach", "added", "ensured"}
CommitLabels == {"check", "commit", "observe", "compare"}
RefLabels == {"readRef", "freeze", "frozen"}
DoneLabels == {"intendRef", "persist"}
ProtectLabels == {"protect", "protected", "return"}
Labels == {"idle", "resolving", "queued"} \cup EnsureLabels \cup CommitLabels \cup RefLabels
          \cup DoneLabels \cup ProtectLabels

CallsTyped == pc \in [Calls -> Labels] /\ call \in [Calls -> CallRecords]

\* What a call knows at its step.
CallInv(c) ==
  LET k == call[c]
      at == pc[c]
  IN  /\ at # "idle" => k.kind \in Kinds /\ k.key \in Keys
      /\ at # "idle" /\ k.kind # "ensure" => tree /\ k.id \in Ids /\ k.expected \in Oids
      /\ at # "idle" /\ k.kind = "checkpoint" => InChain(k.expected)
      /\ at \in EnsureLabels => k.kind = "ensure"
      /\ at \in ProtectLabels => k.kind = "protect"
      /\ at \in CommitLabels \cup RefLabels \cup DoneLabels => k.kind = "checkpoint"
      /\ at \in EnsureLabels \cup ProtectLabels => journal[<<k.key, "own">>] # Null
      /\ at \in CommitLabels => Intended(k.key, k.id)
      /\ at = "compare" => k.oid \in Oids
      /\ at \in RefLabels \cup DoneLabels => IsCheckpoint(k.oid, k.id)
      /\ at \in RefLabels => RefIntended(k.key, k.id, k.oid)
      /\ at = "persist" => refs["checkpoint"][k.id] = k.oid

\* A git command that was sent was intended, and may run when nobody waits for it.
CommandInv(command) ==
  \/ \E create \in BOOLEAN : command = [op |-> "add", create |-> create]
  \/ \E key \in Keys, id \in Ids :
       command = [op |-> "commit", id |-> id] /\ tree /\ Intended(key, id)
  \/ \E key \in Keys : \E id \in Ids, oid \in Oids :
       /\ command = [op |-> "ref", kind |-> "checkpoint", id |-> id, oid |-> oid]
       /\ RefIntended(key, id, oid)
  \/ \E id \in Ids, oid \in Oids :
       command = [op |-> "ref", kind |-> "candidate", id |-> id, oid |-> oid]

IInv ==
  /\ RepositoryInv /\ DatabaseInv
  /\ \A id \in Ids : RecordInv(id)
  /\ \A key \in Keys : CommitRowInv(key) /\ RefRowInv(key)
  /\ CallsTyped /\ \A c \in Calls : CallInv(c)
  /\ orphan # Null => CommandInv(orphan)
  /\ EffectsWereIntended

LEMMA NullIsApart == /\ Null \notin Oids /\ Null \notin Rows /\ Null \notin Ids
                     /\ MaxCommits \in Nat
BY ConstantsAssumption DEF ConstantsAssumption

\* Nothing that was committed, frozen, recorded or intended is lost or changed.
Grows ==
  /\ \A i \in 1 .. Len(commits) : i \in 1 .. Len(commits') /\ commits'[i] = commits[i]
  /\ tree => tree'
  /\ \A id \in Ids : refs["checkpoint"][id] # Null =>
       refs'["checkpoint"][id] = refs["checkpoint"][id]
  /\ \A id \in Ids : records[id] # Null => records'[id] = records[id]
  /\ \A slot \in Slots : journal[slot] # Null =>
       journal'[slot] # Null /\ journal'[slot].expected = journal[slot].expected

LEMMA KeySlots ==
  ASSUME NEW key \in Keys
  PROVE  <<key, "commit">> \in Slots /\ <<key, "ref">> \in Slots /\ <<key, "own">> \in Slots
BY DEF Slots

LEMMA ChainGrows == ASSUME Grows, NEW oid, InChain(oid) PROVE InChain(oid)'
BY NullIsApart DEF Grows, InChain

LEMMA CheckpointsStay ==
  ASSUME Grows, NEW oid, NEW id, IsCheckpoint(oid, id)
  PROVE  IsCheckpoint(oid, id)'
<1>1. oid \in 1 .. Len(commits') /\ commits'[oid] = commits[oid]
  BY DEF Grows, IsCheckpoint
<1> QED BY <1>1, ChainGrows DEF IsCheckpoint

LEMMA IntentsStay ==
  ASSUME Grows, NEW key \in Keys, NEW id
  PROVE  /\ Intended(key, id) => Intended(key, id)'
         /\ \A oid : RefIntended(key, id, oid) => RefIntended(key, id, oid)'
BY KeySlots DEF Grows, Intended, RefIntended

LEMMA CommandsStay ==
  ASSUME Grows, NEW command, CommandInv(command) PROVE CommandInv(command)'
<1>1. CASE \E create \in BOOLEAN : command = [op |-> "add", create |-> create]
  BY <1>1 DEF CommandInv
<1>2. CASE \E id \in Ids, oid \in Oids :
             command = [op |-> "ref", kind |-> "candidate", id |-> id, oid |-> oid]
  BY <1>2 DEF CommandInv
<1>3. ASSUME NEW key \in Keys, NEW id \in Ids,
             command = [op |-> "commit", id |-> id] /\ tree /\ Intended(key, id)
      PROVE  CommandInv(command)'
  BY <1>3, IntentsStay DEF CommandInv, Grows
<1>4. ASSUME NEW key \in Keys, NEW id \in Ids, NEW oid \in Oids,
             command = [op |-> "ref", kind |-> "checkpoint", id |-> id, oid |-> oid],
             RefIntended(key, id, oid)
      PROVE  CommandInv(command)'
  <2>1. RefIntended(key, id, oid)'
    BY <1>4, IntentsStay
  <2> QED BY <1>4, <2>1 DEF CommandInv
<1> QED BY <1>1, <1>2, <1>3, <1>4 DEF CommandInv

LEMMA CallsStay ==
  ASSUME RepositoryInv, Grows, NEW c \in Calls, CallInv(c), pc'[c] = pc[c], call'[c] = call[c]
  PROVE  CallInv(c)'
<1>1. tree => tree'
  BY DEF Grows
<1>2. \A oid : InChain(oid) => InChain(oid)'
  BY ChainGrows
<1>3. \A oid, id : IsCheckpoint(oid, id) => IsCheckpoint(oid, id)'
  BY CheckpointsStay
<1>4. call[c].key \in Keys =>
        /\ Intended(call[c].key, call[c].id) => Intended(call[c].key, call[c].id)'
        /\ RefIntended(call[c].key, call[c].id, call[c].oid) =>
             RefIntended(call[c].key, call[c].id, call[c].oid)'
  BY IntentsStay
<1>5. ASSUME pc[c] = "persist"
      PROVE  refs'["checkpoint"][call[c].id] = call[c].oid
  <2>1. /\ refs["checkpoint"][call[c].id] = call[c].oid /\ IsCheckpoint(call[c].oid, call[c].id)
        /\ call[c].id \in Ids
    BY <1>5 DEF CallInv, CommitLabels, RefLabels, DoneLabels
  <2>2. call[c].oid # Null
    BY <2>1, NullIsApart DEF IsCheckpoint, RepositoryInv, Oids, Base
  <2> QED BY <2>1, <2>2 DEF Grows
<1>6. call[c].key \in Keys /\ journal[<<call[c].key, "own">>] # Null =>
        journal'[<<call[c].key, "own">>] # Null
  BY KeySlots DEF Grows
<1>7. pc[c] \in EnsureLabels \cup ProtectLabels => pc[c] # "idle"
  BY DEF EnsureLabels, ProtectLabels
<1> QED BY <1>1, <1>2, <1>3, <1>4, <1>5, <1>6, <1>7
        DEF CallInv, CommitLabels, RefLabels, DoneLabels

LEMMA RecordsStay ==
  ASSUME Grows, NEW id \in Ids, RecordInv(id), records'[id] = records[id]
  PROVE  RecordInv(id)'
BY CheckpointsStay DEF RecordInv, Grows

LEMMA RowsStay ==
  ASSUME Grows, NEW key \in Keys
  PROVE  /\ CommitRowInv(key) /\ journal'[<<key, "commit">>] = journal[<<key, "commit">>] =>
              CommitRowInv(key)'
         /\ RefRowInv(key) /\ journal'[<<key, "ref">>] = journal[<<key, "ref">>] => RefRowInv(key)'
<1>1. \A oid : InChain(oid) => InChain(oid)'
  BY ChainGrows
<1>2. \A oid, id : IsCheckpoint(oid, id) => IsCheckpoint(oid, id)'
  BY CheckpointsStay
<1> QED BY <1>1, <1>2 DEF CommitRowInv, RefRowInv, Grows

\* A step is looked at where it changes something, the rest only grows.
LEMMA Assemble ==
  ASSUME IInv, Grows, RepositoryInv', DatabaseInv', EffectsWereIntended', CallsTyped',
         \A id \in Ids : records'[id] = records[id] \/ RecordInv(id)',
         \A key \in Keys :
           /\ journal'[<<key, "commit">>] = journal[<<key, "commit">>] \/ CommitRowInv(key)'
           /\ journal'[<<key, "ref">>] = journal[<<key, "ref">>] \/ RefRowInv(key)',
         \A c \in Calls : (pc'[c] = pc[c] /\ call'[c] = call[c]) \/ CallInv(c)',
         orphan' = orphan \/ (orphan' # Null => CommandInv(orphan)')
  PROVE  IInv'
<1>1. \A id \in Ids : RecordInv(id)'
  BY RecordsStay DEF IInv
<1>2. \A key \in Keys : CommitRowInv(key)' /\ RefRowInv(key)'
  BY RowsStay DEF IInv
<1>3. \A c \in Calls : CallInv(c)'
  BY CallsStay DEF IInv
<1>4. orphan' # Null => CommandInv(orphan)'
  <2>1. CASE orphan' = orphan /\ orphan # Null
    BY <2>1, CommandsStay DEF IInv, CommandInv
  <2> QED BY <2>1
<1> QED BY <1>1, <1>2, <1>3, <1>4 DEF IInv

-----------------------------------------------------------------------------
(* Git                                                                     *)

LEMMA DatabaseStays ==
  ASSUME IInv, Grows, UNCHANGED database PROVE DatabaseInv'
BY ChainGrows DEF IInv, DatabaseInv, database

LEMMA RepositoryStays ==
  ASSUME IInv, Grows, UNCHANGED repository PROVE RepositoryInv' /\ EffectsWereIntended'
<1>1. RepositoryInv'
  BY DEF IInv, RepositoryInv, repository
<1>2. UNCHANGED <<commits, refs>> /\ EffectsWereIntended
  BY DEF repository, IInv
<1>3. ASSUME NEW oid \in 1 .. Len(commits'), commits'[oid].trailer # Null
      PROVE  \E key \in Keys : /\ journal'[<<key, "commit">>] # Null
                               /\ journal'[<<key, "commit">>].expected.id = commits'[oid].trailer
  <2>1. PICK key \in Keys : Intended(key, commits[oid].trailer)
    BY <1>2, <1>3 DEF EffectsWereIntended, Intended
  <2>2. Intended(key, commits[oid].trailer)'
    BY <1>2, <2>1, KeySlots DEF Intended, Grows
  <2> QED BY <1>2, <2>2 DEF Intended
<1>4. ASSUME NEW id \in Ids, refs'["checkpoint"][id] \notin {Null, Base}
      PROVE  \E key \in Keys :
               /\ journal'[<<key, "ref">>] # Null
               /\ journal'[<<key, "ref">>].expected =
                    [op |-> "ref", id |-> id, oid |-> refs'["checkpoint"][id]]
  <2>1. PICK key \in Keys : RefIntended(key, id, refs["checkpoint"][id])
    BY <1>2, <1>4 DEF EffectsWereIntended, RefIntended
  <2>2. RefIntended(key, id, refs["checkpoint"][id])'
    BY <1>2, <2>1, KeySlots DEF RefIntended, Grows
  <2> QED BY <1>2, <2>2 DEF RefIntended
<1> QED BY <1>1, <1>3, <1>4 DEF EffectsWereIntended

LEMMA CommitEffect ==
  ASSUME IInv, NEW trailer \in Ids \cup {Null}, tree, Commit(trailer), UNCHANGED database,
         trailer # Null => \E key \in Keys : Intended(key, trailer)
  PROVE  Grows /\ RepositoryInv' /\ EffectsWereIntended'
<1> DEFINE C == [parent : Oids, trailer : Ids \cup {Null}]
           new == [parent |-> head, trailer |-> trailer]
<1>1. commits \in Seq(C) /\ Len(commits) \in Nat /\ Len(commits) < MaxCommits /\ MaxCommits \in Nat
  BY NullIsApart, LenProperties DEF IInv, RepositoryInv, Commit
<1>2. new \in C
  BY <1>1 DEF IInv, RepositoryInv, Oids, Base
<1>3. commits' = Append(commits, new)
  BY DEF Commit
<1> HIDE DEF C, new
<1>4. /\ commits' \in Seq(C) /\ Len(commits') = Len(commits) + 1
      /\ \A i \in 1 .. Len(commits) : commits'[i] = commits[i]
      /\ commits'[Len(commits) + 1] = new
  BY <1>1, <1>2, <1>3, AppendProperties
<1>5. Grows
  BY <1>1, <1>4 DEF Grows, Commit, database
<1>6. RepositoryInv'
  <2>1. head' = Len(commits) + 1 /\ head' # Null
    BY <1>1, <1>4, NullIsApart DEF Commit, Oids, Base
  <2>2. /\ branch \in 0 .. Len(commits) \cup {Null} /\ branch' \in {branch, head'}
        /\ refs' = refs /\ refs \in [RefKinds -> [Ids -> Oids \cup {Null}]]
    BY DEF IInv, RepositoryInv, Commit
  <2>3. /\ branch' \in 0 .. Len(commits') \cup {Null}
        /\ head' \in 0 .. Len(commits') \cup {Null} /\ Len(commits') <= MaxCommits
    BY <1>1, <1>4, <2>1, <2>2
  <2> QED BY <1>4, <2>1, <2>2, <2>3 DEF RepositoryInv, C
<1>7. ASSUME NEW oid \in 1 .. Len(commits'), commits'[oid].trailer # Null
      PROVE  \E key \in Keys : /\ journal'[<<key, "commit">>] # Null
                               /\ journal'[<<key, "commit">>].expected.id = commits'[oid].trailer
  <2>1. CASE oid \in 1 .. Len(commits)
    BY <1>4, <1>7, <2>1 DEF IInv, EffectsWereIntended, database
  <2>2. CASE oid = Len(commits) + 1
    <3>1. commits'[oid].trailer = trailer
      BY <1>4, <2>2 DEF new
    <3> QED BY <1>7, <3>1 DEF Intended, database
  <2>3. oid \in 1 .. Len(commits) \/ oid = Len(commits) + 1
    BY <1>1, <1>4
  <2> QED BY <2>1, <2>2, <2>3
<1>8. ASSUME NEW id \in Ids, refs'["checkpoint"][id] \notin {Null, Base}
      PROVE  \E key \in Keys :
               /\ journal'[<<key, "ref">>] # Null
               /\ journal'[<<key, "ref">>].expected =
                    [op |-> "ref", id |-> id, oid |-> refs'["checkpoint"][id]]
  BY <1>8 DEF IInv, EffectsWereIntended, database, Commit
<1> QED BY <1>5, <1>6, <1>7, <1>8 DEF EffectsWereIntended

LEMMA RefEffect ==
  ASSUME IInv, NEW kind \in RefKinds, NEW id \in Ids, NEW oid \in Oids, CreateRef(kind, id, oid),
         UNCHANGED database,
         kind = "checkpoint" => oid = Base \/ \E key \in Keys : RefIntended(key, id, oid)
  PROVE  Grows /\ RepositoryInv' /\ EffectsWereIntended'
<1>1. /\ refs \in [RefKinds -> [Ids -> Oids \cup {Null}]] /\ refs[kind][id] = Null
      /\ refs' = [refs EXCEPT ![kind][id] = oid]
      /\ UNCHANGED <<commits, branch, tree, head, attached, staged, row, records, journal>>
  BY DEF IInv, RepositoryInv, CreateRef, database
<1>2. refs' \in [RefKinds -> [Ids -> Oids \cup {Null}]]
  BY <1>1
<1>3. \A i \in Ids : refs'["checkpoint"][i] =
        IF kind = "checkpoint" /\ i = id THEN oid ELSE refs["checkpoint"][i]
  BY <1>1 DEF RefKinds
<1>4. Grows
  BY <1>1, <1>3 DEF Grows
<1>5. RepositoryInv'
  BY <1>1, <1>2 DEF IInv, RepositoryInv
<1>6. ASSUME NEW i \in Ids, refs'["checkpoint"][i] \notin {Null, Base}
      PROVE  \E key \in Keys :
               /\ journal'[<<key, "ref">>] # Null
               /\ journal'[<<key, "ref">>].expected =
                    [op |-> "ref", id |-> i, oid |-> refs'["checkpoint"][i]]
  <2>1. CASE kind = "checkpoint" /\ i = id
    BY <1>1, <1>3, <1>6, <2>1 DEF RefIntended
  <2>2. CASE ~(kind = "checkpoint" /\ i = id)
    BY <1>1, <1>3, <1>6, <2>2 DEF IInv, EffectsWereIntended
  <2> QED BY <2>1, <2>2
<1>7. \A o \in 1 .. Len(commits') : commits'[o].trailer # Null =>
        \E key \in Keys : /\ journal'[<<key, "commit">>] # Null
                          /\ journal'[<<key, "commit">>].expected.id = commits'[o].trailer
  BY <1>1 DEF IInv, EffectsWereIntended
<1> QED BY <1>4, <1>5, <1>6, <1>7 DEF EffectsWereIntended

LEMMA WorktreeEffect ==
  ASSUME IInv, NEW create, AddWorktree(create), UNCHANGED database
  PROVE  Grows /\ RepositoryInv' /\ EffectsWereIntended'
<1>1. ~tree /\ UNCHANGED <<commits, refs, records, journal>>
  BY DEF AddWorktree, database
<1>2. Len(commits) \in Nat
  BY LenProperties DEF IInv, RepositoryInv
<1>3. branch' \in 0 .. Len(commits) \cup {Null} /\ branch' # Null
  <2>1. Base \in 0 .. Len(commits) /\ Base # Null
    BY <1>2, NullIsApart DEF Oids, Base
  <2>2. branch' = IF branch = Null THEN Base ELSE branch
    BY DEF AddWorktree
  <2> QED BY <2>1, <2>2 DEF IInv, RepositoryInv
<1>4. RepositoryInv'
  BY <1>1, <1>3 DEF AddWorktree, IInv, RepositoryInv
<1>5. Grows
  BY <1>1 DEF Grows
<1>6. EffectsWereIntended'
  BY <1>1 DEF IInv, EffectsWereIntended
<1> QED BY <1>4, <1>5, <1>6

LEMMA GitEffect ==
  ASSUME IInv, NEW command, CommandInv(command), Git(command), UNCHANGED database
  PROVE  Grows /\ RepositoryInv' /\ EffectsWereIntended'
<1>1. ASSUME NEW create \in BOOLEAN, command = [op |-> "add", create |-> create]
      PROVE  Grows /\ RepositoryInv' /\ EffectsWereIntended'
  <2>1. AddWorktree(create)
    BY <1>1 DEF Git
  <2> QED BY <2>1, WorktreeEffect
<1>2. ASSUME NEW key \in Keys, NEW id \in Ids, command = [op |-> "commit", id |-> id],
             tree, Intended(key, id)
      PROVE  Grows /\ RepositoryInv' /\ EffectsWereIntended'
  <2>1. Commit(id)
    BY <1>2 DEF Git
  <2> QED BY <1>2, <2>1, CommitEffect
<1>3. ASSUME NEW kind \in RefKinds, NEW id \in Ids, NEW oid \in Oids,
             command = [op |-> "ref", kind |-> kind, id |-> id, oid |-> oid],
             kind = "checkpoint" => \E key \in Keys : RefIntended(key, id, oid)
      PROVE  Grows /\ RepositoryInv' /\ EffectsWereIntended'
  <2>1. CreateRef(kind, id, oid)
    BY <1>3 DEF Git
  <2> QED BY <1>3, <2>1, RefEffect
<1>4. "checkpoint" \in RefKinds /\ "candidate" \in RefKinds /\ "candidate" # "checkpoint"
  BY DEF RefKinds
<1> QED BY <1>1, <1>2, <1>3, <1>4 DEF CommandInv

\* The command a call waits for.
LEMMA CommandOfCall ==
  ASSUME IInv, NEW c \in Calls, Command(c) # Null PROVE CommandInv(Command(c))
<1>1. CallInv(c) /\ RepositoryInv
  BY DEF IInv
<1>2. CASE pc[c] \in {"create", "attach"}
  BY <1>2 DEF Command, CommandInv
<1>3. CASE pc[c] = "commit"
  <2>1. /\ call[c].key \in Keys /\ call[c].id \in Ids /\ tree
        /\ Intended(call[c].key, call[c].id)
    BY <1>1, <1>3 DEF CallInv, CommitLabels
  <2> QED BY <1>3, <2>1 DEF Command, CommandInv
<1>4. CASE pc[c] = "freeze"
  <2>1. /\ call[c].key \in Keys /\ call[c].id \in Ids
        /\ RefIntended(call[c].key, call[c].id, call[c].oid)
        /\ IsCheckpoint(call[c].oid, call[c].id)
    BY <1>1, <1>4 DEF CallInv, CommitLabels, RefLabels
  <2>2. call[c].oid \in Oids
    BY <1>1, <2>1, NullIsApart, LenProperties DEF IsCheckpoint, RepositoryInv, Oids, Base
  <2> QED BY <1>4, <2>1, <2>2 DEF Command, CommandInv
<1>5. CASE pc[c] = "protect"
  <2>1. call[c].id \in Ids /\ call[c].expected \in Oids
    BY <1>1, <1>5 DEF CallInv, ProtectLabels
  <2> QED BY <1>5, <2>1 DEF Command, CommandInv
<1> QED BY <1>2, <1>3, <1>4, <1>5 DEF Command

-----------------------------------------------------------------------------
(* A call's own steps                                                      *)

\* Only the call's own counter and locals change.
Alone(c) == \A d \in Calls : d # c => pc'[d] = pc[d] /\ call'[d] = call[d]

LEMMA GotoStep ==
  ASSUME CallsTyped, NEW c \in Calls, NEW label \in Labels, Goto(c, label), UNCHANGED call
  PROVE  CallsTyped' /\ Alone(c) /\ pc'[c] = label
BY DEF CallsTyped, Goto, Alone

LEMMA LeaveStep ==
  ASSUME CallsTyped, NEW c \in Calls, Leave(c)
  PROVE  CallsTyped' /\ Alone(c) /\ CallInv(c)'
<1>1. NoCall \in CallRecords /\ "idle" \in Labels
  BY DEF NoCall, CallRecords, Labels
<1>2. CallsTyped' /\ Alone(c) /\ pc'[c] = "idle"
  BY <1>1 DEF CallsTyped, Leave, Alone
<1> QED BY <1>2
        DEF CallInv, EnsureLabels, CommitLabels, RefLabels, DoneLabels, ProtectLabels

\* A step that writes neither the repository nor the database.
LEMMA QuietStep ==
  ASSUME UNCHANGED <<repository, database>> PROVE Grows
BY DEF Grows, repository, database

LEMMA QuietKeeps ==
  ASSUME IInv, NEW c \in Calls, UNCHANGED <<repository, database, orphan>>,
         CallsTyped', Alone(c), CallInv(c)'
  PROVE  IInv'
<1>1. Grows
  BY QuietStep
<1>2. RepositoryInv' /\ DatabaseInv' /\ EffectsWereIntended'
  BY <1>1, RepositoryStays, DatabaseStays
<1>3. \A id \in Ids : records'[id] = records[id]
  BY DEF database
<1>4. \A key \in Keys : journal' = journal
  BY DEF database
<1> QED BY <1>1, <1>2, <1>3, <1>4, Assemble DEF Alone

LEMMA EndKeeps == ASSUME IInv, NEW c \in Calls, End(c) PROVE IInv'
BY LeaveStep, QuietKeeps DEF End, IInv

\* A row of the journal is written; what it intends stays.
LEMMA RowStep ==
  ASSUME IInv, NEW slot \in Slots, NEW r \in Rows, journal' = [journal EXCEPT ![slot] = r],
         journal[slot] # Null => r.expected = journal[slot].expected,
         UNCHANGED <<repository, row, records>>
  PROVE  /\ Grows /\ RepositoryInv' /\ DatabaseInv' /\ EffectsWereIntended'
         /\ journal'[slot] = r /\ \A s \in Slots : s # slot => journal'[s] = journal[s]
<1>1. journal \in [Slots -> Rows \cup {Null}]
  BY DEF IInv, DatabaseInv
<1>2. /\ journal' \in [Slots -> Rows \cup {Null}]
      /\ journal'[slot] = r /\ \A s \in Slots : s # slot => journal'[s] = journal[s]
  BY <1>1
<1>3. r # Null
  BY NullIsApart
<1>4. Grows
  BY <1>2, <1>3 DEF Grows, repository
<1>5. DatabaseInv'
  BY <1>2, <1>4, ChainGrows DEF IInv, DatabaseInv
<1> QED BY <1>2, <1>4, <1>5, RepositoryStays

LEMMA RowKeeps ==
  ASSUME IInv, NEW c \in Calls, NEW slot \in Slots, NEW r \in Rows,
         journal' = [journal EXCEPT ![slot] = r],
         journal[slot] # Null => r.expected = journal[slot].expected,
         UNCHANGED <<repository, row, records, orphan>>,
         \A key \in Keys : /\ slot = <<key, "commit">> => CommitRowInv(key)'
                           /\ slot = <<key, "ref">> => RefRowInv(key)',
         CallsTyped', Alone(c), CallInv(c)'
  PROVE  IInv'
<1>1. /\ Grows /\ RepositoryInv' /\ DatabaseInv' /\ EffectsWereIntended'
      /\ \A s \in Slots : s # slot => journal'[s] = journal[s]
  BY RowStep
<1>2. \A key \in Keys :
        /\ journal'[<<key, "commit">>] = journal[<<key, "commit">>] \/ CommitRowInv(key)'
        /\ journal'[<<key, "ref">>] = journal[<<key, "ref">>] \/ RefRowInv(key)'
  BY <1>1, KeySlots
<1> QED BY <1>1, <1>2, Assemble DEF Alone

\* The row of a call at each place where it is written.
LEMMA SlotOfCall ==
  ASSUME IInv, NEW c \in Calls, pc[c] # "idle"
  PROVE  /\ call[c].key \in Keys
         /\ call[c].kind # "checkpoint" => Slot(c) = <<call[c].key, "own">>
         /\ call[c].kind = "checkpoint" /\ pc[c] \in {"queued"} \cup CommitLabels =>
              Slot(c) = <<call[c].key, "commit">>
         /\ call[c].kind = "checkpoint" /\ pc[c] \in {"intendRef", "frozen"} =>
              Slot(c) = <<call[c].key, "ref">>
<1>1. call[c].key \in Keys
  BY DEF IInv, CallInv
<1>2. call[c].kind # "checkpoint" => Slot(c) = <<call[c].key, "own">>
  BY DEF Slot
<1>3. ASSUME call[c].kind = "checkpoint", pc[c] \in {"queued"} \cup CommitLabels
      PROVE  Slot(c) = <<call[c].key, "commit">>
  BY <1>3 DEF Slot, CommitLabels
<1>4. ASSUME call[c].kind = "checkpoint", pc[c] \in {"intendRef", "frozen"}
      PROVE  Slot(c) = <<call[c].key, "ref">>
  BY <1>4 DEF Slot
<1> QED BY <1>1, <1>2, <1>3, <1>4

Expectations == [op : {"ensure", "protect", "commit", "ref"}, id : Ids \cup {Null}, oid : Oids]

LEMMA ExecutingIsTyped ==
  ASSUME NEW e \in Expectations
  PROVE  Executing(e) \in Rows /\ Executing(e).expected = e /\ Executing(e).result = Null
BY DEF Executing, Rows, Expectations

LEMMA SettledIsTyped ==
  ASSUME NEW r \in Rows, NEW o \in Outcomes, NEW res \in Oids \cup {Null}
  PROVE  /\ Settled(r, o, res) \in Rows /\ Settled(r, o, res).expected = r.expected
         /\ Settled(r, o, res).result = res
         /\ Observed(r, o, res) \in Rows /\ Observed(r, o, res).expected = r.expected
         /\ Observed(r, o, res).result = res
BY DEF Settled, Observed, Rows

\* The parent of a checkpoint's commit is in the chain.
LEMMA ParentInChain ==
  ASSUME IInv, NEW c \in Calls, pc[c] # "idle", call[c].kind = "checkpoint"
  PROVE  InChain(ExpectedParent(c)) /\ ExpectedParent(c) \in Oids
<1>1. call[c].key \in Keys /\ InChain(call[c].expected)
  BY DEF IInv, CallInv
<1>2. CommitRowInv(call[c].key)
  BY <1>1 DEF IInv
<1> QED BY <1>1, <1>2 DEF ExpectedParent, CommitRowInv, InChain

\* What the call's operation intends.
LEMMA IntentOfCall ==
  ASSUME IInv, NEW c \in Calls, pc[c] # "idle"
  PROVE  /\ call[c].kind \in Kinds /\ call[c].id \in Ids \cup {Null}
         /\ call[c].kind = "ensure" =>
              Intent(c) = [op |-> "ensure", id |-> call[c].id, oid |-> Base]
         /\ call[c].kind = "protect" =>
              /\ Intent(c) = [op |-> "protect", id |-> call[c].id, oid |-> call[c].expected]
              /\ call[c].expected \in Oids
         /\ call[c].kind = "checkpoint" =>
              /\ call[c].id \in Ids
              /\ Slot(c) = <<call[c].key, "commit">> =>
                   Intent(c) = [op |-> "commit", id |-> call[c].id, oid |-> ExpectedParent(c)]
              /\ Slot(c) = <<call[c].key, "ref">> =>
                   Intent(c) = [op |-> "ref", id |-> call[c].id, oid |-> call[c].oid]
<1>1. /\ call[c].kind \in Kinds /\ call[c].id \in Ids \cup {Null}
      /\ call[c].kind # "ensure" => call[c].id \in Ids /\ call[c].expected \in Oids
  BY DEF IInv, CallInv, CallsTyped, CallRecords
<1>2. CASE call[c].kind = "ensure"
  BY <1>1, <1>2, SlotOfCall DEF Intent
<1>3. CASE call[c].kind = "protect"
  BY <1>1, <1>3, SlotOfCall DEF Intent
<1>4. CASE call[c].kind = "checkpoint"
  BY <1>1, <1>4 DEF Intent
<1> QED BY <1>1, <1>2, <1>3, <1>4 DEF Kinds

\* A call changes at most what it has observed.
OidOnly(c) ==
  /\ call'[c].kind = call[c].kind /\ call'[c].key = call[c].key
  /\ call'[c].id = call[c].id /\ call'[c].expected = call[c].expected

LEMMA BasicsStay ==
  ASSUME IInv, Grows, NEW c \in Calls, pc[c] # "idle", OidOnly(c)
  PROVE  /\ call'[c].kind \in Kinds /\ call'[c].key \in Keys
         /\ call'[c].kind # "ensure" => tree' /\ call'[c].id \in Ids /\ call'[c].expected \in Oids
         /\ call'[c].kind = "checkpoint" => InChain(call[c].expected)'
<1>1. CallInv(c)
  BY DEF IInv
<1>2. \A oid : InChain(oid) => InChain(oid)'
  BY ChainGrows
<1> QED BY <1>1, <1>2 DEF CallInv, OidOnly, Grows

\* What a call needs to know when it gets to a label.
LEMMA EnterOwn ==
  ASSUME IInv, Grows, NEW c \in Calls, pc[c] # "idle", OidOnly(c),
         journal'[<<call[c].key, "own">>] # Null,
         \/ call[c].kind = "ensure" /\ pc'[c] \in EnsureLabels
         \/ call[c].kind = "protect" /\ pc'[c] \in ProtectLabels
  PROVE  CallInv(c)'
BY BasicsStay
   DEF CallInv, OidOnly, EnsureLabels, ProtectLabels, CommitLabels, RefLabels, DoneLabels

LEMMA EnterCommit ==
  ASSUME IInv, Grows, NEW c \in Calls, pc[c] # "idle", OidOnly(c),
         call[c].kind = "checkpoint", pc'[c] \in CommitLabels,
         Intended(call[c].key, call[c].id)', pc'[c] = "compare" => call'[c].oid \in Oids
  PROVE  CallInv(c)'
BY BasicsStay
   DEF CallInv, OidOnly, EnsureLabels, ProtectLabels, CommitLabels, RefLabels, DoneLabels

LEMMA EnterRef ==
  ASSUME IInv, Grows, NEW c \in Calls, pc[c] # "idle", OidOnly(c),
         call[c].kind = "checkpoint", pc'[c] \in RefLabels \cup DoneLabels,
         IsCheckpoint(call[c].oid, call[c].id)',
         pc'[c] \in RefLabels => RefIntended(call[c].key, call[c].id, call[c].oid)',
         pc'[c] = "persist" => refs'["checkpoint"][call'[c].id] = call'[c].oid
  PROVE  CallInv(c)'
BY BasicsStay
   DEF CallInv, OidOnly, EnsureLabels, ProtectLabels, CommitLabels, RefLabels, DoneLabels

LEMMA RunKeeps ==
  ASSUME IInv, NEW c \in Calls, NEW execute \in Labels, NEW done \in Labels,
         Run(c, execute, done), Slot(c) \in Slots, Intent(c) \in Expectations,
         \A key \in Keys : Slot(c) = <<key, "commit">> =>
           InChain(Intent(c).oid) /\ Intent(c).id \in Ids,
         Grows /\ pc'[c] = execute /\ call'[c] = call[c] /\ UNCHANGED refs
           /\ journal'[Slot(c)] = Executing(Intent(c)) => CallInv(c)',
         Grows /\ pc'[c] = done /\ call'[c] = [call[c] EXCEPT !.oid = journal[Slot(c)].result]
           /\ UNCHANGED <<refs, journal>> /\ MayReplay(c) => CallInv(c)'
  PROVE  IInv'
<1>1. CASE End(c)
  BY <1>1, EndKeeps
<1>2. ASSUME MayExecute(c), journal' = [journal EXCEPT ![Slot(c)] = Executing(Intent(c))],
             Goto(c, execute), UNCHANGED <<repository, row, records, queue, call, orphan, bounds>>
      PROVE  IInv'
  <2> DEFINE slot == Slot(c)
             r == Executing(Intent(c))
  <2>1. r \in Rows /\ r.expected = Intent(c) /\ r.result = Null
    BY ExecutingIsTyped
  <2>2. slot \in Slots /\ journal[slot] = Null /\ journal' = [journal EXCEPT ![slot] = r]
    BY <1>2 DEF MayExecute, IsNew
  <2>3. CallsTyped' /\ Alone(c) /\ pc'[c] = execute
    BY <1>2, GotoStep DEF IInv
  <2>4. UNCHANGED <<repository, row, records, orphan, call, refs>>
    BY <1>2 DEF repository
  <2> HIDE DEF slot, r
  <2>5. /\ Grows /\ journal'[slot] = r
    BY <2>1, <2>2, <2>4, RowStep
  <2>6. CallInv(c)'
    BY <2>3, <2>4, <2>5 DEF slot, r
  <2>7. ASSUME NEW key \in Keys
        PROVE  /\ slot = <<key, "commit">> => CommitRowInv(key)'
               /\ slot = <<key, "ref">> => RefRowInv(key)'
    <3>1. \A oid : InChain(oid) => InChain(oid)'
      BY <2>5, ChainGrows
    <3>2. ASSUME slot = <<key, "commit">> PROVE CommitRowInv(key)'
      <4>1. InChain(r.expected.oid) /\ r.expected.id \in Ids
        BY <2>1, <3>2 DEF slot
      <4> QED BY <2>1, <2>5, <3>1, <3>2, <4>1 DEF CommitRowInv
    <3>3. ASSUME slot = <<key, "ref">> PROVE RefRowInv(key)'
      BY <2>1, <2>5, <3>3 DEF RefRowInv
    <3> QED BY <3>2, <3>3
  <2> QED BY <2>1, <2>2, <2>3, <2>4, <2>6, <2>7, RowKeeps
<1>3. ASSUME MayReplay(c), call' = [call EXCEPT ![c].oid = journal[Slot(c)].result],
             Goto(c, done), UNCHANGED <<repository, database, queue, orphan, bounds>>
      PROVE  IInv'
  <2>1. Grows /\ UNCHANGED <<refs, journal>>
    BY <1>3, QuietStep DEF repository, database
  <2>2. journal[Slot(c)] \in Rows
    BY <1>3 DEF IInv, DatabaseInv, MayReplay, Replays
  <2>3. journal[Slot(c)].result \in Oids \cup {Null}
    BY <2>2 DEF Rows
  <2>4. /\ CallsTyped' /\ Alone(c) /\ pc'[c] = done
        /\ call'[c] = [call[c] EXCEPT !.oid = journal[Slot(c)].result]
    BY <1>3, <2>3 DEF IInv, CallsTyped, CallRecords, Goto, Alone
  <2> QED BY <1>3, <2>1, <2>4, QuietKeeps
<1> QED BY <1>1, <1>2, <1>3 DEF Run

LEMMA SettleKeeps ==
  ASSUME IInv, NEW c \in Calls, NEW outcome \in Outcomes, NEW result \in Oids, NEW done \in Labels,
         Settle(c, outcome, result, done), Slot(c) \in Slots, journal[Slot(c)] # Null,
         outcome = "applied" => \A key \in Keys :
           /\ Slot(c) = <<key, "commit">> => IsCheckpoint(result, journal[Slot(c)].expected.id)
           /\ Slot(c) = <<key, "ref">> =>
                LET e == journal[Slot(c)].expected
                IN  e.id \in Ids /\ result = e.oid /\ refs["checkpoint"][e.id] = result,
         outcome = "applied" /\ Grows /\ pc'[c] = done /\ UNCHANGED refs
           /\ call'[c] = [call[c] EXCEPT !.oid = result] => CallInv(c)'
  PROVE  IInv'
<1>1. PICK o \in {outcome, "uncertain"} :
        /\ journal' = [journal EXCEPT ![Slot(c)] =
             Settled(@, o, IF o = "applied" THEN result ELSE Null)]
        /\ \/ /\ o = "applied"
              /\ call' = [call EXCEPT ![c].oid = result]
              /\ Goto(c, done) /\ UNCHANGED queue
           \/ o # "applied" /\ Leave(c)
        /\ UNCHANGED <<repository, row, records, orphan, bounds>>
  BY DEF Settle
<1> DEFINE slot == Slot(c)
           old == journal[slot]
           res == IF o = "applied" THEN result ELSE Null
           r == Settled(old, o, res)
<1>2. old \in Rows /\ o \in Outcomes /\ res \in Oids \cup {Null} /\ slot \in Slots
  BY DEF IInv, DatabaseInv, Outcomes
<1>3. r \in Rows /\ r.expected = old.expected /\ r.result = res
  BY <1>2, SettledIsTyped
<1>4. journal' = [journal EXCEPT ![slot] = r] /\ journal \in [Slots -> Rows \cup {Null}]
  BY <1>1 DEF IInv, DatabaseInv
<1>5. UNCHANGED <<repository, row, records, orphan, refs, commits>>
  BY <1>1 DEF repository
<1> HIDE DEF slot, old, r
<1>6. Grows /\ journal'[slot] = r
  BY <1>2, <1>3, <1>4, <1>5, RowStep DEF old
<1>7. CallsTyped' /\ Alone(c) /\ CallInv(c)'
  <2>1. CASE o # "applied"
    BY <1>1, <2>1, LeaveStep DEF IInv
  <2>2. CASE o = "applied"
    <3>1. /\ CallsTyped' /\ Alone(c) /\ pc'[c] = done
          /\ call'[c] = [call[c] EXCEPT !.oid = result]
      BY <1>1, <2>2 DEF IInv, CallsTyped, CallRecords, Goto, Alone
    <3> QED BY <1>5, <1>6, <2>2, <3>1
  <2> QED BY <2>1, <2>2
<1>8. ASSUME NEW key \in Keys
      PROVE  /\ slot = <<key, "commit">> => CommitRowInv(key)'
             /\ slot = <<key, "ref">> => RefRowInv(key)'
  <2>1. \A oid : InChain(oid) => InChain(oid)'
    BY <1>6, ChainGrows
  <2>2. \A oid, id : IsCheckpoint(oid, id) => IsCheckpoint(oid, id)'
    BY <1>6, CheckpointsStay
  <2>3. r.result # Null => outcome = "applied" /\ r.result = result
    BY <1>3
  <2>4. ASSUME slot = <<key, "commit">> PROVE CommitRowInv(key)'
    <3>1. InChain(old.expected.oid) /\ old.expected.id \in Ids
      BY <1>2, <2>4, NullIsApart DEF IInv, CommitRowInv, old
    <3>2. r.result # Null => IsCheckpoint(r.result, old.expected.id)
      BY <2>3, <2>4 DEF slot, old
    <3> QED BY <1>3, <1>6, <2>1, <2>2, <2>4, <3>1, <3>2 DEF CommitRowInv
  <2>5. ASSUME slot = <<key, "ref">> PROVE RefRowInv(key)'
    <3>1. r.result # Null => /\ old.expected.id \in Ids /\ r.result = old.expected.oid
                             /\ refs["checkpoint"][old.expected.id] = r.result
      BY <2>3, <2>5 DEF slot, old
    <3> QED BY <1>3, <1>5, <1>6, <2>5, <3>1 DEF RefRowInv
  <2> QED BY <2>4, <2>5
<1> QED BY <1>2, <1>3, <1>4, <1>5, <1>7, <1>8, RowKeeps DEF old

-----------------------------------------------------------------------------
(* The steps of a call, one by one                                         *)

LEMMA StartKeeps ==
  ASSUME IInv, NEW c \in Calls, NEW kind \in Kinds, Start(c, kind) PROVE IInv'
<1>1. PICK key \in Keys, id \in Ids :
        call' = [call EXCEPT ![c] =
         [kind |-> kind, key |-> key, id |-> IF kind = "ensure" THEN Null ELSE id,
          expected |-> IF kind = "protect" THEN head ELSE Recorded(row), oid |-> Null]]
  BY DEF Start
<1> DEFINE i == IF kind = "ensure" THEN Null ELSE id
           e == IF kind = "protect" THEN head ELSE Recorded(row)
           k == [kind |-> kind, key |-> key, id |-> i, expected |-> e, oid |-> Null]
<1>2. /\ UNCHANGED <<repository, database, orphan, row, tree, records>>
      /\ kind # "ensure" => row # Null /\ tree
  BY DEF Start, repository, database
<1>3. pc' = [pc EXCEPT ![c] = "resolving"] /\ "resolving" \in Labels
  BY DEF Start, Goto, Labels
<1>4. InChain(Recorded(row)) /\ Recorded(row) \in Oids
  BY NullIsApart DEF IInv, DatabaseInv, Recorded, InChain, Oids, Base
<1>5. kind = "protect" => head \in Oids
  <2>1. Len(commits) \in Nat
    BY LenProperties DEF IInv, RepositoryInv
  <2> QED BY <1>2, <2>1, NullIsApart DEF IInv, RepositoryInv, Oids, Base
<1>6. /\ i \in Ids \cup {Null} /\ (kind # "ensure" => i \in Ids) /\ e \in Oids
      /\ kind = "checkpoint" => e = Recorded(row)
  BY <1>4, <1>5
<1> HIDE DEF i, e
<1>7. k \in CallRecords /\ k.kind = kind /\ k.key = key /\ k.id = i /\ k.expected = e
  BY <1>6 DEF CallRecords
<1>8. call' = [call EXCEPT ![c] = k]
  BY <1>1 DEF i, e
<1> HIDE DEF k
<1>9. CallsTyped' /\ Alone(c) /\ pc'[c] = "resolving" /\ call'[c] = k
  BY <1>3, <1>7, <1>8 DEF IInv, CallsTyped, Alone
<1>10. CallInv(c)'
  <2>1. Grows
    BY <1>2, QuietStep
  <2>2. \A oid : InChain(oid) => InChain(oid)'
    BY <2>1, ChainGrows
  <2> QED BY <1>2, <1>4, <1>6, <1>7, <1>9, <2>2
      DEF CallInv, EnsureLabels, ProtectLabels, CommitLabels, RefLabels, DoneLabels, Kinds
<1> QED BY <1>2, <1>9, <1>10, QuietKeeps

LEMMA AskForLockKeeps == ASSUME IInv, NEW c \in Calls, AskForLock(c) PROVE IInv'
<1>1. /\ UNCHANGED <<repository, database, orphan, call>> /\ pc[c] = "resolving"
      /\ Goto(c, "queued") /\ "queued" \in Labels
  BY DEF AskForLock, At, Labels
<1>2. CallsTyped' /\ Alone(c) /\ pc'[c] = "queued"
  BY <1>1, GotoStep DEF IInv
<1>3. CallInv(c)'
  BY <1>1, <1>2, QuietStep, BasicsStay
     DEF CallInv, OidOnly, EnsureLabels, ProtectLabels, CommitLabels, RefLabels, DoneLabels
<1> QED BY <1>1, <1>2, <1>3, QuietKeeps

\* An operation of its own executes or has been completed before.
LEMMA OwnRunKeeps ==
  ASSUME IInv, NEW c \in Calls, pc[c] # "idle", NEW execute \in Labels, NEW done \in Labels,
         Run(c, execute, done),
         \/ call[c].kind = "ensure" /\ {execute, done} \subseteq EnsureLabels
         \/ call[c].kind = "protect" /\ {execute, done} \subseteq ProtectLabels
  PROVE  IInv'
<1>1. call[c].key \in Keys /\ Slot(c) = <<call[c].key, "own">> /\ Slot(c) \in Slots
  BY SlotOfCall, KeySlots
<1>2. Intent(c) \in Expectations
  BY IntentOfCall, NullIsApart DEF Expectations, Oids, Base
<1>3. Executing(Intent(c)) # Null
  BY <1>2, ExecutingIsTyped, NullIsApart
<1>4. ASSUME Grows, pc'[c] = execute, call'[c] = call[c],
             journal'[Slot(c)] = Executing(Intent(c))
      PROVE  CallInv(c)'
  BY <1>1, <1>3, <1>4, EnterOwn DEF OidOnly
<1>5. ASSUME Grows, pc'[c] = done, call'[c] = [call[c] EXCEPT !.oid = journal[Slot(c)].result],
             UNCHANGED journal, MayReplay(c)
      PROVE  CallInv(c)'
  <2>1. OidOnly(c)
    BY <1>5 DEF OidOnly, IInv, CallsTyped, CallRecords
  <2>2. journal'[<<call[c].key, "own">>] # Null
    BY <1>1, <1>5 DEF MayReplay, Replays
  <2> QED BY <1>5, <2>1, <2>2, EnterOwn
<1>6. \A key \in Keys : Slot(c) # <<key, "commit">>
  BY <1>1
<1> QED BY <1>1, <1>2, <1>4, <1>5, <1>6, RunKeeps

LEMMA EnsureLockedKeeps == ASSUME IInv, NEW c \in Calls, EnsureLocked(c) PROVE IInv'
<1>1. pc[c] # "idle" /\ call[c].kind = "ensure"
  BY DEF EnsureLocked, At
<1>2. CASE End(c)
  BY <1>2, EndKeeps
<1>3. ASSUME NEW execute \in {"create", "attach", "added"}, Run(c, execute, "ensured")
      PROVE  IInv'
  <2>1. execute \in Labels /\ "ensured" \in Labels /\ {execute, "ensured"} \subseteq EnsureLabels
    BY DEF Labels, EnsureLabels
  <2> QED BY <1>1, <1>3, <2>1, OwnRunKeeps
<1> QED BY <1>2, <1>3 DEF EnsureLocked

LEMMA ProtectLockedKeeps == ASSUME IInv, NEW c \in Calls, ProtectLocked(c) PROVE IInv'
<1>1. pc[c] # "idle" /\ call[c].kind = "protect"
  BY DEF ProtectLocked, At
<1>2. CASE End(c)
  BY <1>2, EndKeeps
<1>3. ASSUME NEW execute \in {"protect", "protected"}, Run(c, execute, "return")
      PROVE  IInv'
  <2>1. execute \in Labels /\ "return" \in Labels /\ {execute, "return"} \subseteq ProtectLabels
    BY DEF Labels, ProtectLabels
  <2> QED BY <1>1, <1>3, <2>1, OwnRunKeeps
<1> QED BY <1>2, <1>3 DEF ProtectLocked

LEMMA CheckpointLockedKeeps == ASSUME IInv, NEW c \in Calls, CheckpointLocked(c) PROVE IInv'
<1>1. pc[c] = "queued" /\ pc[c] # "idle" /\ call[c].kind = "checkpoint"
  BY DEF CheckpointLocked, At
<1>2. CASE End(c)
  BY <1>2, EndKeeps
<1>3. ASSUME Run(c, "check", "intendRef") PROVE IInv'
  <2>1. call[c].key \in Keys /\ Slot(c) = <<call[c].key, "commit">> /\ Slot(c) \in Slots
    BY <1>1, SlotOfCall, KeySlots
  <2>2. /\ call[c].id \in Ids /\ InChain(ExpectedParent(c)) /\ ExpectedParent(c) \in Oids
        /\ Intent(c) = [op |-> "commit", id |-> call[c].id, oid |-> ExpectedParent(c)]
    BY <1>1, <2>1, IntentOfCall, ParentInChain
  <2>3. Intent(c) \in Expectations /\ Intent(c).oid = ExpectedParent(c) /\ Intent(c).id = call[c].id
    BY <2>2 DEF Expectations
  <2>4. Executing(Intent(c)) # Null /\ Executing(Intent(c)).expected = Intent(c)
    BY <2>3, ExecutingIsTyped, NullIsApart
  <2>5. ASSUME Grows, pc'[c] = "check", call'[c] = call[c],
               journal'[Slot(c)] = Executing(Intent(c))
        PROVE  CallInv(c)'
    <3>1. Intended(call[c].key, call[c].id)'
      BY <2>1, <2>3, <2>4, <2>5 DEF Intended
    <3> QED BY <1>1, <2>5, <3>1, EnterCommit DEF OidOnly, CommitLabels
  <2>6. ASSUME Grows, pc'[c] = "intendRef", MayReplay(c),
               call'[c] = [call[c] EXCEPT !.oid = journal[Slot(c)].result]
        PROVE  CallInv(c)'
    <3>1. IsCheckpoint(journal[Slot(c)].result, call[c].id)
      BY <2>1, <2>3, <2>6 DEF IInv, CommitRowInv, MayReplay, Replays
    <3>2. OidOnly(c) /\ call'[c].oid = journal[Slot(c)].result
      BY <2>6 DEF OidOnly, IInv, CallsTyped, CallRecords
    <3>3. \A oid, id : IsCheckpoint(oid, id) => IsCheckpoint(oid, id)'
      BY <2>6, CheckpointsStay
    <3>4. IsCheckpoint(call[c].oid, call[c].id)'
      BY <3>1, <3>2, <3>3 DEF OidOnly
    <3> QED BY <1>1, <2>6, <3>2, <3>4, EnterRef DEF RefLabels, DoneLabels
  <2>7. "check" \in Labels /\ "intendRef" \in Labels
    BY DEF Labels, CommitLabels, DoneLabels
  <2>8. \A key \in Keys : Slot(c) = <<key, "commit">> =>
          InChain(Intent(c).oid) /\ Intent(c).id \in Ids
    BY <2>2, <2>3
  <2> QED BY <1>3, <2>1, <2>3, <2>5, <2>6, <2>7, <2>8, RunKeeps
<1> QED BY <1>2, <1>3 DEF CheckpointLocked

LEMMA IntendRefKeeps == ASSUME IInv, NEW c \in Calls, IntendRef(c) PROVE IInv'
<1>1. /\ pc[c] = "intendRef" /\ pc[c] # "idle" /\ Run(c, "readRef", "persist")
      /\ call[c].kind = "checkpoint" /\ IsCheckpoint(call[c].oid, call[c].id)
  BY DEF IntendRef, At, IInv, CallInv, DoneLabels
<1>2. call[c].key \in Keys /\ Slot(c) = <<call[c].key, "ref">> /\ Slot(c) \in Slots
  BY <1>1, SlotOfCall, KeySlots
<1>3. /\ call[c].id \in Ids
      /\ Intent(c) = [op |-> "ref", id |-> call[c].id, oid |-> call[c].oid]
  BY <1>1, <1>2, IntentOfCall
<1>4. call[c].oid \in Oids
  BY <1>1, LenProperties, NullIsApart DEF IsCheckpoint, IInv, RepositoryInv, Oids, Base
<1>5. Intent(c) \in Expectations
  BY <1>3, <1>4 DEF Expectations
<1>6. Executing(Intent(c)) # Null /\ Executing(Intent(c)).expected = Intent(c)
  BY <1>5, ExecutingIsTyped, NullIsApart
<1>7. ASSUME Grows PROVE IsCheckpoint(call[c].oid, call[c].id) /\
        \A oid, id : IsCheckpoint(oid, id) => IsCheckpoint(oid, id)'
  BY <1>1, <1>7, CheckpointsStay
<1>8. ASSUME Grows, pc'[c] = "readRef", call'[c] = call[c],
             journal'[Slot(c)] = Executing(Intent(c))
      PROVE  CallInv(c)'
  <2>1. RefIntended(call[c].key, call[c].id, call[c].oid)'
    BY <1>2, <1>3, <1>6, <1>8 DEF RefIntended
  <2>2. IsCheckpoint(call[c].oid, call[c].id)'
    BY <1>7, <1>8
  <2> QED BY <1>1, <1>8, <2>1, <2>2, EnterRef DEF OidOnly, RefLabels
<1>9. ASSUME Grows, pc'[c] = "persist", MayReplay(c), UNCHANGED refs,
             call'[c] = [call[c] EXCEPT !.oid = journal[Slot(c)].result]
      PROVE  CallInv(c)'
  <2>1. /\ journal[Slot(c)].result = call[c].oid
        /\ refs["checkpoint"][call[c].id] = call[c].oid
    BY <1>2, <1>3, <1>9 DEF IInv, RefRowInv, MayReplay, Replays
  <2>2. call'[c] = call[c] /\ OidOnly(c)
    BY <1>9, <2>1 DEF OidOnly, IInv, CallsTyped, CallRecords
  <2>3. IsCheckpoint(call[c].oid, call[c].id)'
    BY <1>7, <1>9, <2>2
  <2> QED BY <1>1, <1>9, <2>1, <2>2, <2>3, EnterRef DEF RefLabels, DoneLabels
<1>10. "readRef" \in Labels /\ "persist" \in Labels
  BY DEF Labels, RefLabels, DoneLabels
<1>11. \A key \in Keys : Slot(c) # <<key, "commit">>
  BY <1>2
<1> QED BY <1>1, <1>2, <1>5, <1>8, <1>9, <1>10, <1>11, RunKeeps

\* A call goes on without writing, or with what it has observed.
LEMMA ObservesKeeps ==
  ASSUME IInv, NEW c \in Calls, NEW label \in Labels, NEW oid \in Oids \cup {Null},
         Goto(c, label), call' = [call EXCEPT ![c].oid = oid],
         UNCHANGED <<repository, database, orphan>>,
         Grows /\ OidOnly(c) /\ pc'[c] = label /\ call'[c].oid = oid => CallInv(c)'
  PROVE  IInv'
<1>1. CallsTyped' /\ Alone(c) /\ pc'[c] = label /\ OidOnly(c) /\ call'[c].oid = oid
  BY DEF IInv, CallsTyped, CallRecords, Goto, Alone, OidOnly
<1> QED BY <1>1, QuietStep, QuietKeeps

LEMMA GoesOnKeeps ==
  ASSUME IInv, NEW c \in Calls, NEW label \in Labels, Goto(c, label),
         UNCHANGED <<repository, database, orphan, call>>,
         Grows /\ OidOnly(c) /\ pc'[c] = label /\ call'[c] = call[c] => CallInv(c)'
  PROVE  IInv'
<1>1. CallsTyped' /\ Alone(c) /\ pc'[c] = label /\ OidOnly(c)
  BY GotoStep DEF IInv, OidOnly
<1> QED BY <1>1, QuietStep, QuietKeeps

LEMMA CheckHeadKeeps == ASSUME IInv, NEW c \in Calls, CheckHead(c) PROVE IInv'
<1>1. /\ pc[c] = "check" /\ pc[c] # "idle" /\ UNCHANGED <<repository, database, orphan, call>>
      /\ call[c].kind = "checkpoint" /\ call[c].key \in Keys
      /\ Intended(call[c].key, call[c].id)
  BY DEF CheckHead, At, IInv, CallInv, CommitLabels
<1>2. PICK label \in {"commit", "observe"} : Goto(c, label)
  BY DEF CheckHead
<1>3. label \in Labels /\ label \in CommitLabels /\ label # "compare"
  BY DEF Labels, CommitLabels
<1>4. ASSUME Grows, OidOnly(c), pc'[c] = label, call'[c] = call[c] PROVE CallInv(c)'
  <2>1. Intended(call[c].key, call[c].id)'
    BY <1>1, <1>4, KeySlots DEF Intended, Grows
  <2> QED BY <1>1, <1>3, <1>4, <2>1, EnterCommit
<1> QED BY <1>1, <1>2, <1>3, <1>4, GoesOnKeeps

LEMMA ObserveHeadKeeps == ASSUME IInv, NEW c \in Calls, ObserveHead(c) PROVE IInv'
<1>1. /\ pc[c] = "observe" /\ pc[c] # "idle" /\ Goto(c, "compare")
      /\ call' = [call EXCEPT ![c].oid = head]
      /\ UNCHANGED <<repository, database, orphan>>
      /\ call[c].kind = "checkpoint" /\ call[c].key \in Keys /\ tree
      /\ Intended(call[c].key, call[c].id)
  BY DEF ObserveHead, At, IInv, CallInv, CommitLabels
<1>2. head \in Oids
  <2>1. Len(commits) \in Nat
    BY LenProperties DEF IInv, RepositoryInv
  <2> QED BY <1>1, <2>1, NullIsApart DEF IInv, RepositoryInv, Oids, Base
<1>3. "compare" \in Labels /\ "compare" \in CommitLabels
  BY DEF Labels, CommitLabels
<1>4. ASSUME Grows, OidOnly(c), pc'[c] = "compare", call'[c].oid = head PROVE CallInv(c)'
  <2>1. Intended(call[c].key, call[c].id)'
    BY <1>1, <1>4, KeySlots DEF Intended, Grows, OidOnly
  <2> QED BY <1>1, <1>2, <1>3, <1>4, <2>1, EnterCommit
<1> QED BY <1>1, <1>2, <1>3, <1>4, ObservesKeeps

LEMMA ReadRefKeeps == ASSUME IInv, NEW c \in Calls, ReadRef(c) PROVE IInv'
<1>1. /\ pc[c] = "readRef" /\ pc[c] # "idle" /\ UNCHANGED <<repository, database, orphan, call>>
      /\ call[c].kind = "checkpoint" /\ call[c].key \in Keys
      /\ IsCheckpoint(call[c].oid, call[c].id)
      /\ RefIntended(call[c].key, call[c].id, call[c].oid)
  BY DEF ReadRef, At, IInv, CallInv, RefLabels
<1>2. PICK label \in {"freeze", "frozen"} : Goto(c, label)
  BY DEF ReadRef
<1>3. label \in Labels /\ label \in RefLabels /\ label # "persist"
  BY DEF Labels, RefLabels
<1>4. ASSUME Grows, OidOnly(c), pc'[c] = label, call'[c] = call[c] PROVE CallInv(c)'
  <2>1. RefIntended(call[c].key, call[c].id, call[c].oid)'
    BY <1>1, <1>4, KeySlots DEF RefIntended, Grows
  <2>2. \A oid, id : IsCheckpoint(oid, id) => IsCheckpoint(oid, id)'
    BY <1>4, CheckpointsStay
  <2>3. IsCheckpoint(call[c].oid, call[c].id)'
    BY <1>1, <1>4, <2>2
  <2> QED BY <1>1, <1>3, <1>4, <2>1, <2>3, EnterRef
<1> QED BY <1>1, <1>2, <1>3, <1>4, GoesOnKeeps

\* A ref is what it should be only when it holds the oid.
LEMMA RefOutcomes ==
  ASSUME RepositoryInv, NEW kind \in RefKinds, NEW id \in Ids, NEW oid \in Oids
  PROVE  /\ RefOutcome(kind, id, oid) \in Outcomes
         /\ RefOutcome(kind, id, oid) = "applied" => refs[kind][id] = oid
BY NullIsApart DEF RefOutcome, Outcomes

\* An operation of its own is settled.
LEMMA OwnSettleKeeps ==
  ASSUME IInv, NEW c \in Calls, pc[c] # "idle", NEW outcome \in Outcomes, NEW result \in Oids,
         NEW done \in Labels, Settle(c, outcome, result, done),
         \/ call[c].kind = "ensure" /\ {pc[c], done} \subseteq EnsureLabels
         \/ call[c].kind = "protect" /\ {pc[c], done} \subseteq ProtectLabels
  PROVE  IInv'
<1>1. call[c].key \in Keys /\ Slot(c) = <<call[c].key, "own">> /\ Slot(c) \in Slots
  BY SlotOfCall, KeySlots
<1>4. \A key \in Keys : Slot(c) # <<key, "commit">> /\ Slot(c) # <<key, "ref">>
  BY <1>1
<1>2. journal[Slot(c)] # Null
  BY <1>1 DEF IInv, CallInv
<1>3. ASSUME Grows, pc'[c] = done, call'[c] = [call[c] EXCEPT !.oid = result]
      PROVE  CallInv(c)'
  <2>1. OidOnly(c)
    BY <1>3 DEF OidOnly, IInv, CallsTyped, CallRecords
  <2>2. journal'[<<call[c].key, "own">>] # Null
    BY <1>1, <1>2, <1>3 DEF Grows
  <2> QED BY <1>3, <2>1, <2>2, EnterOwn
<1> QED BY <1>1, <1>2, <1>3, <1>4, SettleKeeps

LEMMA EnsureObserveKeeps == ASSUME IInv, NEW c \in Calls, EnsureObserve(c) PROVE IInv'
<1>1. /\ pc[c] = "added" /\ pc[c] # "idle" /\ call[c].kind = "ensure"
      /\ "added" \in EnsureLabels /\ "ensured" \in EnsureLabels /\ "ensured" \in Labels
  BY DEF EnsureObserve, At, IInv, CallInv, EnsureLabels, Labels
<1>2. PICK outcome \in Outcomes : Settle(c, outcome, Base, "ensured")
  BY DEF EnsureObserve, Outcomes
<1>3. Base \in Oids
  BY NullIsApart DEF Oids, Base
<1> QED BY <1>1, <1>2, <1>3, OwnSettleKeeps

LEMMA ProtectObserveKeeps == ASSUME IInv, NEW c \in Calls, ProtectObserve(c) PROVE IInv'
<1>1. /\ pc[c] = "protected" /\ pc[c] # "idle" /\ call[c].kind = "protect"
      /\ call[c].id \in Ids /\ call[c].expected \in Oids
      /\ "protected" \in ProtectLabels /\ "return" \in ProtectLabels /\ "return" \in Labels
  BY DEF ProtectObserve, At, IInv, CallInv, ProtectLabels, Labels
<1>2. RefOutcome("candidate", call[c].id, call[c].expected) \in Outcomes
  BY <1>1, RefOutcomes DEF RefKinds, IInv
<1>3. Settle(c, RefOutcome("candidate", call[c].id, call[c].expected), call[c].expected, "return")
  BY DEF ProtectObserve
<1> QED BY <1>1, <1>2, <1>3, OwnSettleKeeps

\* The commit that is observed is the checkpoint's.
LEMMA CommitOutcomes ==
  ASSUME IInv, NEW c \in Calls, pc[c] = "compare"
  PROVE  /\ CommitOutcome(c) \in Outcomes
         /\ CommitOutcome(c) = "applied" => IsCheckpoint(call[c].oid, call[c].id)
<1>1. call[c].oid \in Oids /\ call[c].kind = "checkpoint"
  BY DEF IInv, CallInv, CommitLabels
<1>2. InChain(ExpectedParent(c))
  BY <1>1, ParentInChain
<1>3. CASE call[c].oid = ExpectedParent(c) /\ CommitOutcome(c) = "not_applied"
  BY <1>3 DEF Outcomes
<1>4. CASE CommitOutcome(c) = "conflict"
  BY <1>4 DEF Outcomes
<1>5. CASE IsTheCheckpointCommit(c, call[c].oid) /\ CommitOutcome(c) = "applied"
  <2>1. call[c].oid = head /\ call[c].oid # Base
    BY <1>5 DEF IsTheCheckpointCommit
  <2>2. Len(commits) \in Nat
    BY LenProperties DEF IInv, RepositoryInv
  <2>3. call[c].oid \in 1 .. Len(commits)
    BY <1>1, <2>1, <2>2, NullIsApart DEF IInv, RepositoryInv, Oids, Base
  <2> QED BY <1>2, <1>5, <2>3 DEF IsTheCheckpointCommit, IsCheckpoint, Outcomes
<1> QED BY <1>3, <1>4, <1>5 DEF CommitOutcome

LEMMA CompareCommitKeeps == ASSUME IInv, NEW c \in Calls, CompareCommit(c) PROVE IInv'
<1>1. /\ pc[c] = "compare" /\ pc[c] # "idle" /\ call[c].kind = "checkpoint"
      /\ call[c].oid \in Oids /\ Intended(call[c].key, call[c].id) /\ pc[c] \in CommitLabels
  BY DEF CompareCommit, At, IInv, CallInv, CommitLabels
<1>2. call[c].key \in Keys /\ Slot(c) = <<call[c].key, "commit">> /\ Slot(c) \in Slots
  BY <1>1, SlotOfCall, KeySlots
<1>7. \A key \in Keys : Slot(c) # <<key, "ref">>
  BY <1>2
<1>3. /\ CommitOutcome(c) \in Outcomes /\ Settle(c, CommitOutcome(c), call[c].oid, "intendRef")
      /\ CommitOutcome(c) = "applied" => IsCheckpoint(call[c].oid, call[c].id)
  BY <1>1, CommitOutcomes DEF CompareCommit
<1>4. journal[Slot(c)] # Null /\ journal[Slot(c)].expected.id = call[c].id
  BY <1>1, <1>2 DEF Intended
<1>5. ASSUME CommitOutcome(c) = "applied", Grows, pc'[c] = "intendRef",
             call'[c] = [call[c] EXCEPT !.oid = call[c].oid]
      PROVE  CallInv(c)'
  <2>1. call'[c] = call[c] /\ OidOnly(c)
    BY <1>5 DEF OidOnly, IInv, CallsTyped, CallRecords
  <2>2. \A oid, id : IsCheckpoint(oid, id) => IsCheckpoint(oid, id)'
    BY <1>5, CheckpointsStay
  <2>3. IsCheckpoint(call[c].oid, call[c].id)'
    BY <1>3, <1>5, <2>1, <2>2
  <2> QED BY <1>1, <1>5, <2>1, <2>3, EnterRef DEF RefLabels, DoneLabels
<1>6. "intendRef" \in Labels
  BY DEF Labels, DoneLabels
<1> QED BY <1>1, <1>2, <1>3, <1>4, <1>5, <1>6, <1>7, SettleKeeps

LEMMA ObserveRefKeeps == ASSUME IInv, NEW c \in Calls, ObserveRef(c) PROVE IInv'
<1>1. /\ pc[c] = "frozen" /\ pc[c] # "idle" /\ call[c].kind = "checkpoint"
      /\ call[c].id \in Ids /\ IsCheckpoint(call[c].oid, call[c].id)
      /\ RefIntended(call[c].key, call[c].id, call[c].oid)
  BY DEF ObserveRef, At, IInv, CallInv, RefLabels
<1>2. call[c].key \in Keys /\ Slot(c) = <<call[c].key, "ref">> /\ Slot(c) \in Slots
  BY <1>1, SlotOfCall, KeySlots
<1>9. \A key \in Keys : Slot(c) # <<key, "commit">>
  BY <1>2
<1>3. call[c].oid \in Oids
  BY <1>1, LenProperties, NullIsApart DEF IsCheckpoint, IInv, RepositoryInv, Oids, Base
<1> DEFINE outcome == RefOutcome("checkpoint", call[c].id, call[c].oid)
<1>4. /\ outcome \in Outcomes /\ Settle(c, outcome, call[c].oid, "persist")
      /\ outcome = "applied" => refs["checkpoint"][call[c].id] = call[c].oid
  BY <1>1, <1>3, RefOutcomes DEF ObserveRef, RefKinds, IInv
<1> HIDE DEF outcome
<1>5. /\ journal[Slot(c)] # Null
      /\ journal[Slot(c)].expected = [op |-> "ref", id |-> call[c].id, oid |-> call[c].oid]
  BY <1>1, <1>2 DEF RefIntended
<1>6. ASSUME outcome = "applied", Grows, pc'[c] = "persist", UNCHANGED refs,
             call'[c] = [call[c] EXCEPT !.oid = call[c].oid]
      PROVE  CallInv(c)'
  <2>1. call'[c] = call[c] /\ OidOnly(c)
    BY <1>6 DEF OidOnly, IInv, CallsTyped, CallRecords
  <2>2. \A oid, id : IsCheckpoint(oid, id) => IsCheckpoint(oid, id)'
    BY <1>6, CheckpointsStay
  <2>3. IsCheckpoint(call[c].oid, call[c].id)'
    BY <1>1, <1>6, <2>1, <2>2
  <2>4. refs'["checkpoint"][call'[c].id] = call'[c].oid
    BY <1>4, <1>6, <2>1
  <2> QED BY <1>1, <1>6, <2>1, <2>3, <2>4, EnterRef DEF RefLabels, DoneLabels
<1>7. "persist" \in Labels
  BY DEF Labels, DoneLabels
<1>8. outcome = "applied" => \A key \in Keys :
        /\ Slot(c) = <<key, "commit">> =>
             IsCheckpoint(call[c].oid, journal[Slot(c)].expected.id)
        /\ Slot(c) = <<key, "ref">> =>
             LET e == journal[Slot(c)].expected
             IN  e.id \in Ids /\ call[c].oid = e.oid /\ refs["checkpoint"][e.id] = call[c].oid
  BY <1>1, <1>2, <1>4, <1>5, <1>9
<1> QED BY <1>1, <1>2, <1>3, <1>4, <1>5, <1>6, <1>7, <1>8, SettleKeeps

LEMMA ReturnKeeps == ASSUME IInv, NEW c \in Calls, Return(c) PROVE IInv'
BY EndKeeps DEF Return

\* Git has done its work, or not; the call goes on to observe it.
LEMMA GitOfCallKeeps == ASSUME IInv, NEW c \in Calls, GitOfCall(c) PROVE IInv'
<1>1. /\ Command(c) # Null /\ UNCHANGED <<database, orphan, call>>
      /\ Git(Command(c)) \/ UNCHANGED repository
  BY DEF GitOfCall
<1>2. UNCHANGED <<row, records, journal>>
  BY <1>1 DEF database
<1>3. Grows /\ RepositoryInv' /\ EffectsWereIntended'
  <2>1. CASE UNCHANGED repository
    <3>1. Grows
      BY <1>1, <2>1, QuietStep
    <3> QED BY <2>1, <3>1, RepositoryStays
  <2>2. CASE Git(Command(c))
    <3>1. CommandInv(Command(c))
      BY <1>1, CommandOfCall
    <3> QED BY <1>1, <2>2, <3>1, GitEffect
  <2> QED BY <1>1, <2>1, <2>2
<1>4. DatabaseInv'
  BY <1>1, <1>3, DatabaseStays
<1>5. CallInv(c)
  BY DEF IInv
<1>6. ASSUME NEW label \in Labels, Goto(c, label)
      PROVE  CallsTyped' /\ Alone(c) /\ pc'[c] = label /\ OidOnly(c) /\ call'[c] = call[c]
  BY <1>1, <1>6, GotoStep DEF IInv, OidOnly
<1>7. CASE pc[c] \in {"create", "attach"}
  <2>1. Goto(c, "added") /\ "added" \in Labels /\ "added" \in EnsureLabels
    BY <1>7 DEF GitOfCall, Labels, EnsureLabels
  <2>2. /\ call[c].kind = "ensure" /\ call[c].key \in Keys /\ pc[c] # "idle"
        /\ journal[<<call[c].key, "own">>] # Null
    BY <1>5, <1>7 DEF CallInv, EnsureLabels
  <2>3. CallInv(c)'
    BY <1>2, <1>3, <1>6, <2>1, <2>2, EnterOwn
  <2> QED BY <1>1, <1>2, <1>3, <1>4, <1>6, <2>1, <2>3, Assemble DEF Alone
<1>8. CASE pc[c] = "protect"
  <2>1. Goto(c, "protected") /\ "protected" \in Labels /\ "protected" \in ProtectLabels
    BY <1>8 DEF GitOfCall, Labels, ProtectLabels
  <2>2. /\ call[c].kind = "protect" /\ call[c].key \in Keys /\ pc[c] # "idle"
        /\ journal[<<call[c].key, "own">>] # Null
    BY <1>5, <1>8 DEF CallInv, ProtectLabels
  <2>3. CallInv(c)'
    BY <1>2, <1>3, <1>6, <2>1, <2>2, EnterOwn
  <2> QED BY <1>1, <1>2, <1>3, <1>4, <1>6, <2>1, <2>3, Assemble DEF Alone
<1>9. CASE pc[c] = "commit"
  <2>1. Goto(c, "observe") /\ "observe" \in Labels /\ "observe" \in CommitLabels
    BY <1>9 DEF GitOfCall, Labels, CommitLabels
  <2>2. /\ call[c].kind = "checkpoint" /\ call[c].key \in Keys /\ pc[c] # "idle"
        /\ Intended(call[c].key, call[c].id)
    BY <1>5, <1>9 DEF CallInv, CommitLabels
  <2>3. Intended(call[c].key, call[c].id)'
    BY <1>1, <1>2, <2>2 DEF Intended
  <2>4. CallInv(c)'
    BY <1>3, <1>6, <2>1, <2>2, <2>3, EnterCommit
  <2> QED BY <1>1, <1>2, <1>3, <1>4, <1>6, <2>1, <2>4, Assemble DEF Alone
<1>10. CASE pc[c] = "freeze"
  <2>1. Goto(c, "frozen") /\ "frozen" \in Labels /\ "frozen" \in RefLabels
    BY <1>10 DEF GitOfCall, Labels, RefLabels
  <2>2. /\ call[c].kind = "checkpoint" /\ call[c].key \in Keys /\ pc[c] # "idle"
        /\ RefIntended(call[c].key, call[c].id, call[c].oid)
        /\ IsCheckpoint(call[c].oid, call[c].id)
    BY <1>5, <1>10 DEF CallInv, RefLabels
  <2>3. RefIntended(call[c].key, call[c].id, call[c].oid)'
    BY <1>1, <1>2, <2>2 DEF RefIntended
  <2>4. \A oid, id : IsCheckpoint(oid, id) => IsCheckpoint(oid, id)'
    BY <1>3, CheckpointsStay
  <2>5. IsCheckpoint(call[c].oid, call[c].id)'
    BY <1>1, <2>2, <2>4
  <2>6. CallInv(c)'
    BY <1>3, <1>6, <2>1, <2>2, <2>3, <2>5, EnterRef
  <2> QED BY <1>1, <1>2, <1>3, <1>4, <1>6, <2>1, <2>6, Assemble DEF Alone
<1> QED BY <1>1, <1>7, <1>8, <1>9, <1>10 DEF Command

LEMMA EnsurePersistKeeps == ASSUME IInv, NEW c \in Calls, EnsurePersist(c) PROVE IInv'
<1>1. /\ row' = Recorded(row) /\ Leave(c)
      /\ UNCHANGED <<repository, records, journal, orphan, commits, tree, refs>>
  BY DEF EnsurePersist, repository
<1>2. Grows
  BY <1>1 DEF Grows
<1>3. RepositoryInv' /\ EffectsWereIntended'
  BY <1>1, <1>2, RepositoryStays
<1>4. DatabaseInv'
  <2>1. InChain(Recorded(row))
    BY NullIsApart DEF IInv, DatabaseInv, Recorded, InChain, Oids, Base
  <2>2. \A oid : InChain(oid) => InChain(oid)'
    BY <1>2, ChainGrows
  <2>3. InChain(row)'
    BY <1>1, <2>1, <2>2
  <2> QED BY <1>1, <2>3 DEF IInv, DatabaseInv
<1>5. CallsTyped' /\ Alone(c) /\ CallInv(c)'
  BY <1>1, LeaveStep DEF IInv
<1> QED BY <1>1, <1>2, <1>3, <1>4, <1>5, Assemble DEF Alone

LEMMA PersistCheckpointKeeps == ASSUME IInv, NEW c \in Calls, PersistCheckpoint(c) PROVE IInv'
<1>1. CASE End(c)
  BY <1>1, EndKeeps
<1>2. CASE ~End(c)
  <2> DEFINE id == call[c].id
             oid == call[c].oid
  <2>1. /\ records[id] = Null /\ records' = [records EXCEPT ![id] = oid] /\ row' = oid /\ Leave(c)
        /\ UNCHANGED <<repository, journal, orphan, commits, tree, refs>>
    BY <1>2 DEF PersistCheckpoint, NewRecord, repository
  <2>2. id \in Ids /\ IsCheckpoint(oid, id) /\ refs["checkpoint"][id] = oid
    BY DEF PersistCheckpoint, At, IInv, CallInv, DoneLabels
  <2>3. oid \in Oids
    BY <2>2, LenProperties, NullIsApart DEF IsCheckpoint, IInv, RepositoryInv, Oids, Base
  <2> HIDE DEF id, oid
  <2>4. /\ records' \in [Ids -> Oids \cup {Null}] /\ records'[id] = oid
        /\ \A i \in Ids : i # id => records'[i] = records[i]
    BY <2>1, <2>2, <2>3 DEF IInv, DatabaseInv
  <2>5. Grows
    BY <2>1, <2>4 DEF Grows
  <2>6. RepositoryInv' /\ EffectsWereIntended'
    BY <2>1, <2>5, RepositoryStays
  <2>7. DatabaseInv'
    <3>1. InChain(row)'
      BY <2>1, <2>2, <2>3, <2>4 DEF InChain
    <3> QED BY <2>1, <2>4, <3>1 DEF IInv, DatabaseInv
  <2>8. \A i : i = id => RecordInv(i)'
    <3>1. \A o, i : IsCheckpoint(o, i) => IsCheckpoint(o, i)'
      BY <2>5, CheckpointsStay
    <3> QED BY <2>1, <2>2, <2>4, <3>1 DEF RecordInv
  <2>9. CallsTyped' /\ Alone(c) /\ CallInv(c)'
    BY <2>1, LeaveStep DEF IInv
  <2>10. \A i \in Ids : records'[i] = records[i] \/ RecordInv(i)'
    BY <2>4, <2>8
  <2> QED BY <2>1, <2>5, <2>6, <2>7, <2>9, <2>10, Assemble DEF Alone
<1> QED BY <1>1, <1>2

-----------------------------------------------------------------------------
(* The steps beside the calls                                              *)

LEMMA DieStep == ASSUME Die PROVE CallsTyped' /\ \A c \in Calls : CallInv(c)'
<1>1. NoCall \in CallRecords /\ "idle" \in Labels
  BY DEF NoCall, CallRecords, Labels
<1>2. CallsTyped' /\ \A c \in Calls : pc'[c] = "idle"
  BY <1>1 DEF CallsTyped, Die
<1> QED BY <1>2
        DEF CallInv, EnsureLabels, CommitLabels, RefLabels, DoneLabels, ProtectLabels

LEMMA CrashKeeps == ASSUME IInv, Crash PROVE IInv'
<1>1. /\ Die /\ UNCHANGED <<repository, database, records, journal>>
      /\ orphan' \in {orphan} \cup {Command(c) : c \in Calls}
  BY DEF Crash, database
<1>2. Grows
  BY <1>1, QuietStep
<1>3. RepositoryInv' /\ DatabaseInv' /\ EffectsWereIntended'
  BY <1>1, <1>2, RepositoryStays, DatabaseStays
<1>4. CallsTyped' /\ \A c \in Calls : CallInv(c)'
  BY <1>1, DieStep
<1>5. orphan' = orphan \/ (orphan' # Null => CommandInv(orphan)')
  <2>1. ASSUME NEW c \in Calls, orphan' = Command(c), orphan' # Null PROVE CommandInv(orphan)'
    <3>1. \A command : CommandInv(command) => CommandInv(command)'
      BY <1>2, CommandsStay
    <3>2. CommandInv(Command(c))
      BY <2>1, CommandOfCall
    <3>3. CommandInv(orphan')
      BY <2>1, <3>2
    <3> QED BY <3>1, <3>3
  <2> QED BY <1>1, <2>1
<1> QED BY <1>1, <1>2, <1>3, <1>4, <1>5, Assemble

LEMMA CrashAfterObservationKeeps ==
  ASSUME IInv, NEW c \in Calls, CrashAfterObservation(c) PROVE IInv'
<1> DEFINE slot == Slot(c)
           old == journal[slot]
           r == Observed(old, "applied", call[c].oid)
<1>1. /\ pc[c] = "compare" /\ pc[c] # "idle" /\ CommitOutcome(c) = "applied" /\ Die
      /\ journal' = [journal EXCEPT ![slot] = r]
      /\ UNCHANGED <<repository, row, records, orphan>>
  BY DEF CrashAfterObservation, At, IInv, DatabaseInv
<1>2. /\ call[c].kind = "checkpoint" /\ call[c].oid \in Oids /\ pc[c] \in CommitLabels
      /\ Intended(call[c].key, call[c].id) /\ IsCheckpoint(call[c].oid, call[c].id)
  BY <1>1, CommitOutcomes DEF IInv, CallInv, CommitLabels
<1>3. /\ call[c].key \in Keys /\ slot = <<call[c].key, "commit">> /\ slot \in Slots
  BY <1>1, <1>2, SlotOfCall, KeySlots
<1>4. old # Null /\ old.expected.id = call[c].id /\ old \in Rows
  BY <1>2, <1>3 DEF Intended, IInv, DatabaseInv
<1>5. r \in Rows /\ r.expected = old.expected /\ r.result = call[c].oid
  <2>1. "applied" \in Outcomes /\ call[c].oid \in Oids \cup {Null}
    BY <1>2 DEF Outcomes
  <2> HIDE DEF old
  <2> QED BY <1>4, <2>1, SettledIsTyped
<1> HIDE DEF slot, r, old
<1>6. /\ Grows /\ RepositoryInv' /\ DatabaseInv' /\ EffectsWereIntended' /\ journal'[slot] = r
      /\ \A s \in Slots : s # slot => journal'[s] = journal[s]
  BY <1>1, <1>3, <1>5, RowStep DEF old
<1>7. \A key : key = call[c].key => CommitRowInv(key)'
  <2>1. InChain(old.expected.oid)
    BY <1>3, <1>4 DEF IInv, CommitRowInv, old
  <2>2. \A oid : InChain(oid) => InChain(oid)'
    BY <1>6, ChainGrows
  <2>3. \A oid, id : IsCheckpoint(oid, id) => IsCheckpoint(oid, id)'
    BY <1>6, CheckpointsStay
  <2>4. call[c].id \in Ids
    BY <1>1, <1>2 DEF IInv, CallInv
  <2> QED BY <1>2, <1>3, <1>4, <1>5, <1>6, <2>1, <2>2, <2>3, <2>4 DEF CommitRowInv
<1>8. \A key \in Keys :
        /\ journal'[<<key, "commit">>] = journal[<<key, "commit">>] \/ CommitRowInv(key)'
        /\ journal'[<<key, "ref">>] = journal[<<key, "ref">>]
  BY <1>3, <1>6, <1>7, KeySlots
<1>9. CallsTyped' /\ \A d \in Calls : CallInv(d)'
  BY <1>1, DieStep
<1> QED BY <1>1, <1>6, <1>8, <1>9, Assemble

LEMMA OrphanKeeps == ASSUME IInv, Orphan PROVE IInv'
<1>1. /\ orphan # Null /\ orphan' = Null
      /\ UNCHANGED <<database, records, journal, pc, call>>
      /\ Git(orphan) \/ UNCHANGED repository
  BY DEF Orphan, database
<1>2. Grows /\ RepositoryInv' /\ EffectsWereIntended'
  <2>1. CASE UNCHANGED repository
    <3>1. Grows
      BY <1>1, <2>1, QuietStep
    <3> QED BY <2>1, <3>1, RepositoryStays
  <2>2. CASE Git(orphan)
    <3>1. CommandInv(orphan)
      BY <1>1 DEF IInv
    <3> QED BY <1>1, <2>2, <3>1, GitEffect
  <2> QED BY <1>1, <2>1, <2>2
<1>3. DatabaseInv'
  BY <1>1, <1>2, DatabaseStays
<1>4. CallsTyped'
  BY <1>1 DEF IInv, CallsTyped
<1> QED BY <1>1, <1>2, <1>3, <1>4, Assemble

LEMMA UserGitKeeps == ASSUME IInv, UserGit PROVE IInv'
<1>1. UNCHANGED <<database, records, journal, row, pc, call, orphan>>
  BY DEF UserGit, database
<1>2. Grows /\ RepositoryInv' /\ EffectsWereIntended'
  <2>1. CASE tree /\ Commit(Null)
    BY <1>1, <2>1, CommitEffect
  <2>2. ASSUME NEW kind \in RefKinds, NEW id \in Ids, CreateRef(kind, id, Base)
        PROVE  Grows /\ RepositoryInv' /\ EffectsWereIntended'
    <3>1. Base \in Oids
      BY NullIsApart DEF Oids, Base
    <3> QED BY <1>1, <2>2, <3>1, RefEffect
  <2>3. CASE UNCHANGED <<commits, branch, tree, head, refs>>
    <3>1. Grows
      BY <1>1, <2>3 DEF Grows
    <3>2. RepositoryInv'
      BY <2>3 DEF IInv, RepositoryInv
    <3>3. EffectsWereIntended'
      BY <1>1, <2>3 DEF IInv, EffectsWereIntended
    <3> QED BY <3>1, <3>2, <3>3
  <2> QED BY <2>1, <2>2, <2>3 DEF UserGit
<1>3. DatabaseInv'
  BY <1>1, <1>2, DatabaseStays
<1>4. CallsTyped'
  BY <1>1 DEF IInv, CallsTyped
<1> QED BY <1>1, <1>2, <1>3, <1>4, Assemble

LEMMA ReconcileKeeps == ASSUME IInv, NEW slot \in Slots, Reconcile(slot) PROVE IInv'
<1> DEFINE old == journal[slot]
           r == Settled(old, ReconcileOutcome(slot), Null)
<1>1. /\ old # Null /\ old \in Rows /\ journal' = [journal EXCEPT ![slot] = r]
      /\ UNCHANGED <<repository, row, records, pc, call, orphan>>
  BY DEF Reconcile, Reconciled, IInv, DatabaseInv
<1>2. ReconcileOutcome(slot) \in Outcomes
  BY <1>1 DEF ReconcileOutcome, RefOutcome, ObservedByRecovery, Outcomes, Rows
<1>3. r \in Rows /\ r.expected = old.expected /\ r.result = Null
  BY <1>1, <1>2, SettledIsTyped
<1> HIDE DEF r
<1>4. /\ Grows /\ RepositoryInv' /\ DatabaseInv' /\ EffectsWereIntended' /\ journal'[slot] = r
      /\ \A s \in Slots : s # slot => journal'[s] = journal[s]
  BY <1>1, <1>3, RowStep
<1>5. ASSUME NEW key \in Keys
      PROVE  /\ journal'[<<key, "commit">>] = journal[<<key, "commit">>] \/ CommitRowInv(key)'
             /\ journal'[<<key, "ref">>] = journal[<<key, "ref">>] \/ RefRowInv(key)'
  <2>1. ASSUME slot = <<key, "commit">> PROVE CommitRowInv(key)'
    <3>1. InChain(old.expected.oid) /\ old.expected.id \in Ids
      BY <1>1, <2>1 DEF IInv, CommitRowInv
    <3>2. \A oid : InChain(oid) => InChain(oid)'
      BY <1>4, ChainGrows
    <3> QED BY <1>3, <1>4, <2>1, <3>1, <3>2 DEF CommitRowInv
  <2>2. ASSUME slot = <<key, "ref">> PROVE RefRowInv(key)'
    BY <1>3, <1>4, <2>2 DEF RefRowInv
  <2> QED BY <1>4, <2>1, <2>2, KeySlots
<1>6. CallsTyped'
  BY <1>1 DEF IInv, CallsTyped
<1> QED BY <1>1, <1>4, <1>5, <1>6, Assemble

-----------------------------------------------------------------------------
(* The theorems                                                            *)

LEMMA InitIInv == Init => IInv
<1> SUFFICES ASSUME Init PROVE IInv
  OBVIOUS
<1>1. Len(commits) = 0 /\ commits \in Seq([parent : Oids, trailer : Ids \cup {Null}])
  BY EmptySeq DEF Init
<1>2. refs = [kind \in RefKinds |-> [id \in Ids |-> Null]]
  BY DEF Init
<1>3. RepositoryInv
  BY <1>1, <1>2, NullIsApart DEF Init, RepositoryInv
<1>4. DatabaseInv
  BY DEF Init, DatabaseInv
<1>5. \A id \in Ids : RecordInv(id)
  BY DEF Init, RecordInv
<1>6. \A key \in Keys : CommitRowInv(key) /\ RefRowInv(key)
  BY KeySlots DEF Init, CommitRowInv, RefRowInv
<1>7. CallsTyped
  BY DEF Init, CallsTyped, NoCall, CallRecords, Labels
<1>8. \A c \in Calls : CallInv(c)
  BY DEF Init, CallInv, EnsureLabels, CommitLabels, RefLabels, DoneLabels, ProtectLabels
<1>9. EffectsWereIntended
  BY <1>1, <1>2 DEF EffectsWereIntended, RefKinds
<1> QED BY <1>3, <1>4, <1>5, <1>6, <1>7, <1>8, <1>9 DEF Init, IInv

LEMMA StepIInv == IInv /\ [Next]_vars => IInv'
<1> SUFFICES ASSUME IInv, [Next]_vars PROVE IInv'
  OBVIOUS
<1>1. ASSUME NEW c \in Calls, StartEnsure(c) \/ StartCheckpoint(c) \/ StartProtect(c)
      PROVE  IInv'
  <2>1. {"ensure", "checkpoint", "protect"} \subseteq Kinds
    BY DEF Kinds
  <2> QED BY <1>1, <2>1, StartKeeps DEF StartEnsure, StartCheckpoint, StartProtect
<1>2. ASSUME NEW c \in Calls, Progress(c)
      PROVE  IInv'
  BY <1>2, AskForLockKeeps, GitOfCallKeeps, EnsureLockedKeeps, EnsureObserveKeeps,
     EnsurePersistKeeps, CheckpointLockedKeeps, CheckHeadKeeps, ObserveHeadKeeps,
     CompareCommitKeeps, IntendRefKeeps, ReadRefKeeps, ObserveRefKeeps,
     PersistCheckpointKeeps, ProtectLockedKeeps, ProtectObserveKeeps, ReturnKeeps
     DEF Progress
<1>3. ASSUME NEW c \in Calls, CrashAfterObservation(c) PROVE IInv'
  BY <1>3, CrashAfterObservationKeeps
<1>4. CASE Crash \/ Orphan \/ UserGit
  BY <1>4, CrashKeeps, OrphanKeeps, UserGitKeeps
<1>5. ASSUME NEW slot \in Slots, Reconcile(slot) PROVE IInv'
  BY <1>5, ReconcileKeeps
<1>6. CASE UNCHANGED vars
  <2>1. UNCHANGED <<repository, database, records, journal, pc, call, orphan>>
    BY <1>6 DEF vars, database
  <2>2. Grows
    BY <2>1, QuietStep
  <2>3. RepositoryInv' /\ DatabaseInv' /\ EffectsWereIntended'
    BY <2>1, <2>2, RepositoryStays, DatabaseStays
  <2>4. CallsTyped'
    BY <2>1 DEF IInv, CallsTyped
  <2> QED BY <2>1, <2>2, <2>3, <2>4, Assemble
<1> QED BY <1>1, <1>2, <1>3, <1>4, <1>5, <1>6 DEF Next

\* The inductive invariant holds in every reachable state.
THEOREM Inductive == Spec => []IInv
BY InitIInv, StepIInv, PTL DEF Spec

\* Every commit and every checkpoint ref that GitManager makes was written down
\* in the journal first, whatever dies between the two and whatever git process
\* outlives it.
THEOREM EffectsWereIntendedHolds == Spec => []EffectsWereIntended
<1>1. IInv => EffectsWereIntended
  BY DEF IInv
<1> QED BY <1>1, Inductive, PTL

\* What persistCheckpoint has recorded is a chain of commits of the application
\* down to the base of the task, each frozen under its own ref.
THEOREM RecordedCheckpointsAreAChainHolds == Spec => []RecordedCheckpointsAreAChain
<1>1. IInv => RecordedCheckpointsAreAChain
  <2> SUFFICES ASSUME IInv, NEW id \in Ids, records[id] # Null
               PROVE  /\ refs["checkpoint"][id] = records[id]
                      /\ commits[records[id]].trailer = id
                      /\ commits[records[id]].parent
                           \in {Base} \cup {records[other] : other \in Ids}
    BY DEF RecordedCheckpointsAreAChain
  <2>1. refs["checkpoint"][id] = records[id] /\ IsCheckpoint(records[id], id)
    BY DEF IInv, RecordInv
  <2> QED BY <2>1 DEF IsCheckpoint, InChain
<1> QED BY <1>1, Inductive, PTL

-----------------------------------------------------------------------------
(* The lock                                                                *)

\* A call that works in the lock is the head of the queue, which has every
\* call that asked for it once.
Waits == {"idle", "resolving"}
Works(c) == pc[c] \notin Waits \cup {"queued"}
LockInv ==
  /\ queue \in Seq(Calls)
  /\ \A i, j \in 1 .. Len(queue) : queue[i] = queue[j] => i = j
  /\ \A c \in Calls : pc[c] \in Waits => \A i \in 1 .. Len(queue) : queue[i] # c
  /\ \A c \in Calls : Works(c) => Holds(c)

\* A step of a call that has the lock, and keeps it or leaves it.
InTurn(c) == pc[c] \notin Waits /\ Holds(c)
Keeps(c) == Alone(c) /\ Works(c)' /\ queue' = queue
Turn(c) == InTurn(c) /\ (Keeps(c) \/ Leave(c))

LEMMA Exclusive ==
  ASSUME LockInv, NEW c \in Calls, NEW d \in Calls, Works(c), Works(d) PROVE c = d
BY DEF LockInv, Holds

LEMMA TurnKeepsLock ==
  ASSUME IInv, LockInv, NEW c \in Calls, Turn(c) PROVE LockInv'
<1>1. /\ queue \in Seq(Calls) /\ queue # <<>> /\ Head(queue) = c /\ queue[1] = c
      /\ Len(queue) \in Nat /\ Len(queue) >= 1
  <2>1. queue \in Seq(Calls) /\ queue # <<>> /\ Head(queue) = c
    BY DEF LockInv, Turn, InTurn, Holds
  <2> QED BY <2>1
<1>2. CASE Keeps(c)
  <2>1. \A d \in Calls : pc'[d] \in Waits => pc[d] \in Waits
    BY <1>2 DEF Keeps, Alone, Works
  <2>2. \A d \in Calls : Works(d)' => Holds(d)'
    BY <1>1, <1>2 DEF Keeps, Alone, Works, Holds, LockInv
  <2> QED BY <1>2, <2>1, <2>2 DEF LockInv, Keeps
<1>3. CASE Leave(c)
  <2>1. /\ queue' \in Seq(Calls) /\ Len(queue') = Len(queue) - 1
        /\ \A i \in 1 .. Len(queue') : queue'[i] = queue[i + 1]
    BY <1>1, <1>3, HeadTailProperties DEF Leave
  <2>2. pc'[c] = "idle" /\ Alone(c)
    BY <1>3, LeaveStep DEF IInv, Leave, CallsTyped
  <2>3. \A i, j \in 1 .. Len(queue') : queue'[i] = queue'[j] => i = j
    <3> SUFFICES ASSUME NEW i \in 1 .. Len(queue'), NEW j \in 1 .. Len(queue'),
                        queue'[i] = queue'[j]
                 PROVE  i = j
      OBVIOUS
    <3>1. i + 1 \in 1 .. Len(queue) /\ j + 1 \in 1 .. Len(queue) /\ queue[i + 1] = queue[j + 1]
      BY <1>1, <2>1
    <3>2. i + 1 = j + 1
      BY <3>1 DEF LockInv
    <3> QED BY <3>2
  <2>4. \A i \in 1 .. Len(queue') : queue'[i] # c
    <3> SUFFICES ASSUME NEW i \in 1 .. Len(queue'), queue[i + 1] = c PROVE FALSE
      BY <2>1
    <3>1. i + 1 \in 1 .. Len(queue) /\ 1 \in 1 .. Len(queue)
      BY <1>1, <2>1
    <3>2. i + 1 = 1
      BY <1>1, <3>1 DEF LockInv
    <3> QED BY <3>2
  <2>5. ASSUME NEW d \in Calls, pc'[d] \in Waits, NEW i \in 1 .. Len(queue')
        PROVE  queue'[i] # d
    <3>1. CASE d = c
      BY <2>4, <3>1
    <3>2. CASE d # c
      <4>1. pc[d] \in Waits /\ i + 1 \in 1 .. Len(queue)
        BY <1>1, <2>1, <2>2, <2>5, <3>2 DEF Alone
      <4> QED BY <2>1, <4>1 DEF LockInv
    <3> QED BY <3>1, <3>2
  <2>6. \A d \in Calls : ~Works(d)'
    <3> SUFFICES ASSUME NEW d \in Calls, Works(d)' PROVE FALSE
      OBVIOUS
    <3>1. d # c /\ Works(d)
      BY <2>2 DEF Alone, Works, Waits
    <3> QED BY <1>1, <3>1 DEF LockInv, Holds
  <2> QED BY <2>1, <2>3, <2>5, <2>6 DEF LockInv
<1> QED BY <1>2, <1>3 DEF Turn

\* Every step of a call past the queue is such a turn.
LEMMA InsideIsInTurn == ASSUME LockInv, NEW c \in Calls, Works(c) PROVE InTurn(c)
BY DEF LockInv, Works, InTurn

LEMMA RunIsATurn ==
  ASSUME IInv, NEW c \in Calls, InTurn(c), NEW execute \in Labels, NEW done \in Labels,
         Run(c, execute, done), {execute, done} \cap (Waits \cup {"queued"}) = {}
  PROVE  Turn(c)
<1>1. CASE End(c)
  BY <1>1 DEF End, Turn
<1>2. ASSUME NEW label \in {execute, done}, Goto(c, label), UNCHANGED queue,
             \A d \in Calls : d # c => call'[d] = call[d]
      PROVE  Turn(c)
  BY <1>2 DEF Goto, Turn, Keeps, Alone, Works, IInv, CallsTyped
<1>3. \A e : call' = [call EXCEPT ![c].oid = e] => \A d \in Calls : d # c => call'[d] = call[d]
  BY DEF IInv, CallsTyped
<1> QED BY <1>1, <1>2, <1>3 DEF Run

LEMMA SettleIsATurn ==
  ASSUME IInv, NEW c \in Calls, InTurn(c), NEW outcome, NEW result, NEW done \in Labels,
         Settle(c, outcome, result, done), done \notin Waits \cup {"queued"}
  PROVE  Turn(c)
<1>1. CASE Leave(c)
  BY <1>1 DEF Turn
<1>2. ASSUME call' = [call EXCEPT ![c].oid = result], Goto(c, done), UNCHANGED queue
      PROVE  Turn(c)
  BY <1>2 DEF Goto, Turn, Keeps, Alone, Works, IInv, CallsTyped
<1> QED BY <1>1, <1>2 DEF Settle

LEMMA GotoIsATurn ==
  ASSUME IInv, NEW c \in Calls, InTurn(c), NEW label, Goto(c, label), UNCHANGED queue,
         label \notin Waits \cup {"queued"},
         \A d \in Calls : d # c => call'[d] = call[d]
  PROVE  Turn(c)
BY DEF Goto, Turn, Keeps, Alone, Works, IInv, CallsTyped

\* The steps of a call once it has asked for the lock.
Inside(c) ==
  \/ GitOfCall(c)
  \/ EnsureLocked(c) \/ EnsureObserve(c) \/ EnsurePersist(c)
  \/ CheckpointLocked(c) \/ CheckHead(c) \/ ObserveHead(c) \/ CompareCommit(c)
  \/ IntendRef(c) \/ ReadRef(c) \/ ObserveRef(c) \/ PersistCheckpoint(c)
  \/ ProtectLocked(c) \/ ProtectObserve(c) \/ Return(c)

LEMMA InsideIsATurn ==
  ASSUME IInv, LockInv, NEW c \in Calls, Inside(c) PROVE Turn(c)
<1>1. ASSUME Works(c) PROVE InTurn(c)
  BY <1>1, InsideIsInTurn
<1>2. CASE EnsureLocked(c) \/ CheckpointLocked(c) \/ ProtectLocked(c)
  <2>1. InTurn(c)
    BY <1>2 DEF EnsureLocked, CheckpointLocked, ProtectLocked, At, InTurn, Waits
  <2>2. CASE End(c)
    BY <2>1, <2>2 DEF End, Turn
  <2>3. ASSUME NEW execute \in {"create", "attach", "added", "check", "protect", "protected"},
               NEW done \in {"ensured", "intendRef", "return"}, Run(c, execute, done)
        PROVE  Turn(c)
    <3>1. /\ execute \in Labels /\ done \in Labels
          /\ {execute, done} \cap (Waits \cup {"queued"}) = {}
      BY DEF Labels, EnsureLabels, CommitLabels, DoneLabels, ProtectLabels, Waits
    <3> QED BY <2>1, <2>3, <3>1, RunIsATurn
  <2> QED BY <1>2, <2>2, <2>3 DEF EnsureLocked, CheckpointLocked, ProtectLocked
<1>3. CASE IntendRef(c)
  <2>1. InTurn(c)
    BY <1>1, <1>3 DEF IntendRef, At, Works, Waits
  <2>2. /\ "readRef" \in Labels /\ "persist" \in Labels
        /\ {"readRef", "persist"} \cap (Waits \cup {"queued"}) = {}
    BY DEF Labels, RefLabels, DoneLabels, Waits
  <2> QED BY <1>3, <2>1, <2>2, RunIsATurn DEF IntendRef
<1>4. CASE EnsureObserve(c) \/ CompareCommit(c) \/ ObserveRef(c) \/ ProtectObserve(c)
  <2>1. InTurn(c)
    BY <1>1, <1>4 DEF EnsureObserve, CompareCommit, ObserveRef, ProtectObserve, At, Works, Waits
  <2>2. PICK done \in {"ensured", "intendRef", "persist", "return"} :
          \E outcome, result : Settle(c, outcome, result, done)
    BY <1>4 DEF EnsureObserve, CompareCommit, ObserveRef, ProtectObserve
  <2>3. done \in Labels /\ done \notin Waits \cup {"queued"}
    BY DEF Labels, EnsureLabels, DoneLabels, ProtectLabels, Waits
  <2> QED BY <2>1, <2>2, <2>3, SettleIsATurn
<1>5. CASE EnsurePersist(c) \/ PersistCheckpoint(c) \/ Return(c)
  <2>1. InTurn(c)
    BY <1>1, <1>5 DEF EnsurePersist, PersistCheckpoint, Return, At, Works, Waits
  <2>2. Leave(c)
    BY <1>5 DEF EnsurePersist, PersistCheckpoint, Return, End
  <2> QED BY <2>1, <2>2 DEF Turn
<1>6. CASE GitOfCall(c) \/ CheckHead(c) \/ ReadRef(c)
  <2>1. InTurn(c)
    BY <1>1, <1>6 DEF GitOfCall, Command, CheckHead, ReadRef, At, Works, Waits
  <2>2. PICK label \in {"added", "observe", "frozen", "protected", "commit", "freeze"} :
          Goto(c, label)
    <3>1. CASE GitOfCall(c)
      BY <3>1 DEF GitOfCall, Command
    <3>2. CASE CheckHead(c) \/ ReadRef(c)
      BY <3>2 DEF CheckHead, ReadRef
    <3> QED BY <1>6, <3>1, <3>2
  <2>3. UNCHANGED <<queue, call>>
    BY <1>6 DEF GitOfCall, CheckHead, ReadRef
  <2>4. label \notin Waits \cup {"queued"}
    BY DEF Waits
  <2> QED BY <2>1, <2>2, <2>3, <2>4, GotoIsATurn
<1>7. CASE ObserveHead(c)
  <2>1. InTurn(c)
    BY <1>1, <1>7 DEF ObserveHead, At, Works, Waits
  <2>2. /\ Goto(c, "compare") /\ UNCHANGED queue /\ "compare" \notin Waits \cup {"queued"}
        /\ \A d \in Calls : d # c => call'[d] = call[d]
    BY <1>7 DEF ObserveHead, IInv, CallsTyped, Waits
  <2> QED BY <2>1, <2>2, GotoIsATurn
<1> QED BY <1>2, <1>3, <1>4, <1>5, <1>6, <1>7 DEF Inside

LEMMA LockStep == ASSUME IInv, LockInv, [Next]_vars PROVE LockInv'
<1>1. ASSUME NEW c \in Calls, NEW kind, Start(c, kind) PROVE LockInv'
  <2>1. /\ pc[c] = "idle" /\ UNCHANGED queue /\ pc'[c] = "resolving"
        /\ \A d \in Calls : d # c => pc'[d] = pc[d]
    BY <1>1 DEF Start, At, Goto, IInv, CallsTyped
  <2> QED BY <2>1 DEF LockInv, Works, Waits, Holds
<1>2. ASSUME NEW c \in Calls, AskForLock(c) PROVE LockInv'
  <2>1. /\ pc[c] = "resolving" /\ queue' = Append(queue, c) /\ pc'[c] = "queued"
        /\ \A d \in Calls : d # c => pc'[d] = pc[d]
    BY <1>2 DEF AskForLock, At, Goto, IInv, CallsTyped
  <2>2. /\ queue \in Seq(Calls) /\ queue' \in Seq(Calls) /\ Len(queue) \in Nat
        /\ Len(queue') = Len(queue) + 1
        /\ queue'[Len(queue) + 1] = c /\ \A i \in 1 .. Len(queue) : queue'[i] = queue[i]
    BY <2>1, AppendProperties DEF LockInv
  <2>3. \A i \in 1 .. Len(queue) : queue[i] # c
    BY <2>1 DEF LockInv, Waits
  <2>4. \A i, j \in 1 .. Len(queue') : queue'[i] = queue'[j] => i = j
    BY <2>2, <2>3 DEF LockInv
  <2>5. ASSUME NEW d \in Calls, pc'[d] \in Waits, NEW i \in 1 .. Len(queue')
        PROVE  queue'[i] # d
    <3>1. d # c /\ pc[d] \in Waits
      BY <2>1, <2>5 DEF Waits
    <3> QED BY <2>2, <3>1 DEF LockInv
  <2>6. ASSUME NEW d \in Calls, Works(d)' PROVE Holds(d)'
    <3>1. d # c /\ Works(d)
      BY <2>1, <2>6 DEF Works
    <3>2. queue # <<>> /\ Head(queue) = d
      BY <3>1 DEF LockInv, Holds
    <3>3. queue' # <<>> /\ Head(queue') = Head(queue)
      BY <2>2, <3>2
    <3> QED BY <3>2, <3>3 DEF Holds
  <2> QED BY <2>2, <2>4, <2>5, <2>6 DEF LockInv
<1>3. ASSUME NEW c \in Calls, Inside(c) PROVE LockInv'
  BY <1>3, InsideIsATurn, TurnKeepsLock
<1>4. CASE Die
  <2>1. queue' = <<>> /\ queue' \in Seq(Calls) /\ Len(queue') = 0
        /\ \A d \in Calls : pc'[d] = "idle"
    BY <1>4 DEF Die
  <2> QED BY <2>1 DEF LockInv, Works, Waits
<1>5. CASE UNCHANGED <<queue, pc>>
  BY <1>5 DEF LockInv, Works, Holds
<1> QED BY <1>1, <1>2, <1>3, <1>4, <1>5
        DEF Next, StartEnsure, StartCheckpoint, StartProtect, Progress, Inside, Crash,
            CrashAfterObservation, Orphan, UserGit, Reconcile, vars

-----------------------------------------------------------------------------
(* Types                                                                   *)

FlagsInv == {tree, attached, staged} \subseteq BOOLEAN

\* A completed operation was applied.
RowIsSound(r) == r # Null => (r.status = "completed" => r.outcome = "applied")
OutcomeInv == \A slot \in Slots : RowIsSound(journal[slot])

LEMMA GitFlags ==
  ASSUME FlagsInv, NEW command, Git(command) PROVE FlagsInv'
BY DEF Git, AddWorktree, Commit, CreateRef, FlagsInv

LEMMA FlagsStep == ASSUME FlagsInv, [Next]_vars PROVE FlagsInv'
<1>1. CASE UNCHANGED repository
  BY <1>1 DEF repository, FlagsInv
<1>2. ASSUME NEW c \in Calls, GitOfCall(c) PROVE FlagsInv'
  BY <1>1, <1>2, GitFlags DEF GitOfCall
<1>3. CASE Orphan
  BY <1>1, <1>3, GitFlags DEF Orphan
<1>4. CASE UserGit
  <2>1. CASE Commit(Null)
    BY <2>1 DEF Commit, FlagsInv
  <2>2. ASSUME NEW kind \in RefKinds, NEW id \in Ids, CreateRef(kind, id, Base) PROVE FlagsInv'
    BY <2>2 DEF CreateRef, FlagsInv
  <2>3. CASE tree' = tree /\ staged' = staged /\ attached' = ~attached
    BY <2>3 DEF FlagsInv
  <2>4. CASE tree' = tree /\ staged' = TRUE /\ attached' = attached
    BY <2>4 DEF FlagsInv
  <2> QED BY <1>4, <2>1, <2>2, <2>3, <2>4 DEF UserGit
<1>5. ASSUME NEW c \in Calls, ~GitOfCall(c), Inside(c) PROVE UNCHANGED repository
  <2>1. ASSUME NEW execute, NEW done, Run(c, execute, done) PROVE UNCHANGED repository
    BY <2>1 DEF Run, End
  <2>2. ASSUME NEW outcome, NEW result, NEW done, Settle(c, outcome, result, done)
        PROVE  UNCHANGED repository
    BY <2>2 DEF Settle
  <2>3. CASE EnsureLocked(c) \/ CheckpointLocked(c) \/ ProtectLocked(c) \/ IntendRef(c)
    BY <2>1, <2>3 DEF EnsureLocked, CheckpointLocked, ProtectLocked, IntendRef, End
  <2>4. CASE EnsureObserve(c) \/ CompareCommit(c) \/ ObserveRef(c) \/ ProtectObserve(c)
    BY <2>2, <2>4 DEF EnsureObserve, CompareCommit, ObserveRef, ProtectObserve
  <2>5. CASE EnsurePersist(c) \/ PersistCheckpoint(c) \/ Return(c)
    BY <2>5 DEF EnsurePersist, PersistCheckpoint, Return, End
  <2>6. CASE CheckHead(c) \/ ObserveHead(c) \/ ReadRef(c)
    BY <2>6 DEF CheckHead, ObserveHead, ReadRef
  <2> QED BY <1>5, <2>3, <2>4, <2>5, <2>6 DEF Inside
<1>6. ASSUME NEW c \in Calls, NEW kind, Start(c, kind) PROVE UNCHANGED repository
  BY <1>6 DEF Start
<1>7. ASSUME NEW c \in Calls, AskForLock(c) \/ CrashAfterObservation(c)
      PROVE  UNCHANGED repository
  BY <1>7 DEF AskForLock, CrashAfterObservation
<1>8. CASE Crash
  BY <1>1, <1>8 DEF Crash
<1>9. ASSUME NEW slot \in Slots, Reconcile(slot) PROVE UNCHANGED repository
  BY <1>9 DEF Reconcile
<1>10. CASE UNCHANGED vars
  BY <1>1, <1>10 DEF vars
<1> QED BY <1>1, <1>2, <1>3, <1>4, <1>5, <1>6, <1>7, <1>8, <1>9, <1>10
        DEF Next, StartEnsure, StartCheckpoint, StartProtect, Progress, Inside

LEMMA DriftStep == ASSUME drift \in Nat, [Next]_vars PROVE drift' \in Nat
<1>1. ASSUME NEW c \in Calls, Inside(c) PROVE UNCHANGED drift
  <2>1. ASSUME NEW execute, NEW done, Run(c, execute, done) PROVE UNCHANGED drift
    BY <2>1 DEF Run, End, bounds
  <2>2. ASSUME NEW outcome, NEW result, NEW done, Settle(c, outcome, result, done)
        PROVE  UNCHANGED drift
    BY <2>2 DEF Settle, bounds
  <2>3. CASE EnsureLocked(c) \/ CheckpointLocked(c) \/ ProtectLocked(c) \/ IntendRef(c)
    BY <2>1, <2>3 DEF EnsureLocked, CheckpointLocked, ProtectLocked, IntendRef, End, bounds
  <2>4. CASE EnsureObserve(c) \/ CompareCommit(c) \/ ObserveRef(c) \/ ProtectObserve(c)
    BY <2>2, <2>4 DEF EnsureObserve, CompareCommit, ObserveRef, ProtectObserve
  <2>5. CASE EnsurePersist(c) \/ PersistCheckpoint(c) \/ Return(c) \/ GitOfCall(c)
    BY <2>5 DEF EnsurePersist, PersistCheckpoint, Return, End, GitOfCall, bounds
  <2>6. CASE CheckHead(c) \/ ObserveHead(c) \/ ReadRef(c)
    BY <2>6 DEF CheckHead, ObserveHead, ReadRef, bounds
  <2> QED BY <1>1, <2>3, <2>4, <2>5, <2>6 DEF Inside
<1>2. ASSUME NEW c \in Calls, NEW kind, Start(c, kind) PROVE UNCHANGED drift
  BY <1>2 DEF Start
<1>3. ASSUME NEW c \in Calls, AskForLock(c) \/ CrashAfterObservation(c) PROVE UNCHANGED drift
  BY <1>3 DEF AskForLock, CrashAfterObservation, bounds
<1>4. ASSUME NEW slot \in Slots, Reconcile(slot) PROVE UNCHANGED drift
  BY <1>4 DEF Reconcile, bounds
<1>5. CASE Crash \/ Orphan \/ UNCHANGED vars
  BY <1>5 DEF Crash, Orphan, vars, bounds
<1>6. CASE UserGit
  BY <1>6 DEF UserGit
<1> QED BY <1>1, <1>2, <1>3, <1>4, <1>5, <1>6
        DEF Next, StartEnsure, StartCheckpoint, StartProtect, Progress, Inside

\* The rows the operators of the journal make.
LEMMA RowsAreSound ==
  /\ \A e : RowIsSound(Executing(e))
  /\ \A r \in Rows, o \in Outcomes, res \in Oids \cup {Null} :
       /\ RowIsSound(Settled(r, o, res)) /\ RowIsSound(Observed(r, o, res))
<1>1. \A e : RowIsSound(Executing(e))
  BY DEF RowIsSound, Executing
<1>2. ASSUME NEW r \in Rows, NEW o \in Outcomes, NEW res \in Oids \cup {Null}
      PROVE  RowIsSound(Settled(r, o, res)) /\ RowIsSound(Observed(r, o, res))
  BY <1>2 DEF RowIsSound, Settled, Observed, Rows
<1> QED BY <1>1, <1>2

\* One row is written, if any.
LEMMA OneRowWritten ==
  ASSUME IInv, OutcomeInv, NEW slot, NEW r, journal' = [journal EXCEPT ![slot] = r], RowIsSound(r)
  PROVE  OutcomeInv'
BY DEF IInv, DatabaseInv, OutcomeInv

LEMMA OutcomeStep == ASSUME IInv, OutcomeInv, [Next]_vars PROVE OutcomeInv'
<1>1. CASE UNCHANGED journal
  BY <1>1 DEF OutcomeInv
<1>2. ASSUME NEW c \in Calls, NEW execute, NEW done, Run(c, execute, done) PROVE OutcomeInv'
  BY <1>1, <1>2, OneRowWritten, RowsAreSound DEF Run, End, database
<1>3. ASSUME NEW c \in Calls, NEW outcome \in Outcomes, NEW result \in Oids, NEW done,
             Settle(c, outcome, result, done), Slot(c) \in Slots, journal[Slot(c)] # Null
      PROVE  OutcomeInv'
  <2>1. PICK o \in {outcome, "uncertain"} : journal' = [journal EXCEPT ![Slot(c)] =
             Settled(@, o, IF o = "applied" THEN result ELSE Null)]
    BY <1>3 DEF Settle
  <2> DEFINE old == journal[Slot(c)]
             res == IF o = "applied" THEN result ELSE Null
  <2>2. old \in Rows /\ o \in Outcomes /\ res \in Oids \cup {Null}
    BY <1>3 DEF IInv, DatabaseInv, Outcomes
  <2>3. journal' = [journal EXCEPT ![Slot(c)] = Settled(old, o, res)]
    BY <1>3, <2>1 DEF IInv, DatabaseInv
  <2> HIDE DEF old, res
  <2> QED BY <2>2, <2>3, RowsAreSound, OneRowWritten
<1>4. ASSUME NEW c \in Calls, Inside(c) PROVE OutcomeInv'
  <2>1. CASE EnsureLocked(c) \/ CheckpointLocked(c) \/ ProtectLocked(c) \/ IntendRef(c)
    <3>1. End(c) => UNCHANGED journal
      BY DEF End, database
    <3> QED BY <1>1, <1>2, <2>1, <3>1
            DEF EnsureLocked, CheckpointLocked, ProtectLocked, IntendRef
  <2>2. CASE EnsureObserve(c)
    <3>1. /\ pc[c] = "added" /\ call[c].kind = "ensure" /\ journal[<<call[c].key, "own">>] # Null
          /\ call[c].key \in Keys
      BY <2>2 DEF EnsureObserve, At, IInv, CallInv, EnsureLabels
    <3>2. Slot(c) \in Slots /\ journal[Slot(c)] # Null
      BY <3>1, SlotOfCall, KeySlots
    <3>3. Base \in Oids /\ \E outcome \in Outcomes : Settle(c, outcome, Base, "ensured")
      BY <2>2, NullIsApart DEF EnsureObserve, Outcomes, Oids, Base
    <3> QED BY <1>3, <3>2, <3>3
  <2>3. CASE CompareCommit(c)
    <3>1. /\ pc[c] = "compare" /\ call[c].kind = "checkpoint" /\ pc[c] \in CommitLabels
          /\ Intended(call[c].key, call[c].id) /\ call[c].key \in Keys /\ call[c].oid \in Oids
      BY <2>3 DEF CompareCommit, At, IInv, CallInv, CommitLabels
    <3>2. Slot(c) \in Slots /\ journal[Slot(c)] # Null
      BY <3>1, SlotOfCall, KeySlots DEF Intended
    <3>3. CommitOutcome(c) \in Outcomes /\ Settle(c, CommitOutcome(c), call[c].oid, "intendRef")
      BY <2>3, <3>1, CommitOutcomes DEF CompareCommit
    <3> QED BY <1>3, <3>1, <3>2, <3>3
  <2>4. CASE ObserveRef(c)
    <3>1. /\ pc[c] = "frozen" /\ call[c].kind = "checkpoint" /\ call[c].id \in Ids
          /\ RefIntended(call[c].key, call[c].id, call[c].oid) /\ call[c].key \in Keys
          /\ IsCheckpoint(call[c].oid, call[c].id)
      BY <2>4 DEF ObserveRef, At, IInv, CallInv, RefLabels
    <3>2. Slot(c) \in Slots /\ journal[Slot(c)] # Null
      BY <3>1, SlotOfCall, KeySlots DEF RefIntended
    <3>3. call[c].oid \in Oids
      BY <3>1, LenProperties, NullIsApart DEF IsCheckpoint, IInv, RepositoryInv, Oids, Base
    <3>4. PICK outcome \in Outcomes : Settle(c, outcome, call[c].oid, "persist")
      BY <2>4, <3>1, <3>3, RefOutcomes DEF ObserveRef, RefKinds, IInv
    <3> QED BY <1>3, <3>2, <3>3, <3>4
  <2>5. CASE ProtectObserve(c)
    <3>1. /\ pc[c] = "protected" /\ call[c].kind = "protect" /\ call[c].key \in Keys
          /\ journal[<<call[c].key, "own">>] # Null /\ call[c].id \in Ids
          /\ call[c].expected \in Oids
      BY <2>5 DEF ProtectObserve, At, IInv, CallInv, ProtectLabels
    <3>2. Slot(c) \in Slots /\ journal[Slot(c)] # Null
      BY <3>1, SlotOfCall, KeySlots
    <3>3. PICK outcome \in Outcomes : Settle(c, outcome, call[c].expected, "return")
      BY <2>5, <3>1, RefOutcomes DEF ProtectObserve, RefKinds, IInv
    <3> QED BY <1>3, <3>1, <3>2, <3>3
  <2>6. CASE EnsurePersist(c) \/ PersistCheckpoint(c) \/ Return(c) \/ GitOfCall(c)
    BY <1>1, <2>6 DEF EnsurePersist, PersistCheckpoint, Return, End, GitOfCall, database
  <2>7. CASE CheckHead(c) \/ ObserveHead(c) \/ ReadRef(c)
    BY <1>1, <2>7 DEF CheckHead, ObserveHead, ReadRef, database
  <2> QED BY <1>4, <2>1, <2>2, <2>3, <2>4, <2>5, <2>6, <2>7 DEF Inside
<1>5. ASSUME NEW c \in Calls, CrashAfterObservation(c) PROVE OutcomeInv'
  <2>1. /\ pc[c] = "compare" /\ call[c].kind = "checkpoint" /\ pc[c] \in CommitLabels
        /\ Intended(call[c].key, call[c].id) /\ call[c].key \in Keys /\ call[c].oid \in Oids
    BY <1>5 DEF CrashAfterObservation, At, IInv, CallInv, CommitLabels
  <2>2. Slot(c) \in Slots /\ journal[Slot(c)] # Null
    BY <2>1, SlotOfCall, KeySlots DEF Intended
  <2> DEFINE old == journal[Slot(c)]
  <2>3. old \in Rows /\ "applied" \in Outcomes /\ call[c].oid \in Oids \cup {Null}
    BY <2>1, <2>2 DEF IInv, DatabaseInv, Outcomes
  <2>4. journal' = [journal EXCEPT ![Slot(c)] = Observed(old, "applied", call[c].oid)]
    BY <1>5 DEF CrashAfterObservation, IInv, DatabaseInv
  <2> HIDE DEF old
  <2>5. RowIsSound(Observed(old, "applied", call[c].oid))
    BY <2>3, RowsAreSound
  <2> QED BY <2>4, <2>5, OneRowWritten
<1>6. ASSUME NEW slot \in Slots, Reconcile(slot) PROVE OutcomeInv'
  <2> DEFINE old == journal[slot]
  <2>1. /\ old \in Rows
        /\ journal' = [journal EXCEPT ![slot] = Settled(old, ReconcileOutcome(slot), Null)]
    BY <1>6 DEF Reconcile, Reconciled, IInv, DatabaseInv
  <2>2. ReconcileOutcome(slot) \in Outcomes
    BY <2>1 DEF ReconcileOutcome, RefOutcome, ObservedByRecovery, Outcomes, Rows
  <2> HIDE DEF old
  <2>3. RowIsSound(Settled(old, ReconcileOutcome(slot), Null))
    BY <2>1, <2>2, RowsAreSound
  <2> QED BY <2>1, <2>3, OneRowWritten
<1>7. CASE \E c \in Calls, kind \in Kinds : Start(c, kind)
  BY <1>1, <1>7 DEF Start, database
<1>8. CASE \E c \in Calls : AskForLock(c)
  BY <1>1, <1>8 DEF AskForLock, database
<1>9. CASE Crash \/ Orphan \/ UserGit \/ UNCHANGED vars
  BY <1>1, <1>9 DEF Crash, Orphan, UserGit, vars, database
<1> QED BY <1>4, <1>5, <1>6, <1>7, <1>8, <1>9
        DEF Next, StartEnsure, StartCheckpoint, StartProtect, Progress, Inside, Kinds

\* The type invariant follows.
LEMMA TypesFollow == ASSUME IInv, LockInv, FlagsInv, OutcomeInv PROVE TypeOK
<1>1. Len(commits) \in Nat /\ Len(commits) <= MaxCommits /\ MaxCommits \in Nat
  BY NullIsApart, LenProperties DEF IInv, RepositoryInv
<1>2. {branch, head} \subseteq Oids \cup {Null}
  BY <1>1 DEF IInv, RepositoryInv, Oids, Base
<1>3. row \in Oids \cup {Null}
  BY DEF IInv, DatabaseInv, InChain
<1>4. \A slot \in Slots : journal[slot] # Null =>
        (journal[slot].status = "completed" => journal[slot].outcome = "applied")
  BY DEF OutcomeInv, RowIsSound
<1> QED BY <1>2, <1>3, <1>4
        DEF TypeOK, IInv, RepositoryInv, DatabaseInv, CallsTyped, FlagsInv, LockInv

-----------------------------------------------------------------------------
(* What the steps do to commits, as an account                             *)

CommitRow(key) == journal[<<key, "commit">>]

\* What a call knows because only it has the lock: the row of its commit is not
\* settled, and the checkpoint it makes is not recorded.
LockedInv(c) ==
  /\ pc[c] \in CommitLabels =>
       CommitRow(call[c].key).outcome = Null /\ records[call[c].id] = Null
  /\ pc[c] # "idle" /\ call[c].kind = "checkpoint" => row # Null
  /\ pc[c] = "ensured" => tree

\* A call is about to commit, or is anywhere up to the settling, under a key.
Unspent(key) == \E c \in Calls : pc[c] \in {"check", "commit"} /\ call[c].key = key
Held(key) == \E c \in Calls : pc[c] \in CommitLabels /\ call[c].key = key

\* Every commit of the application is attributed to a key of its own that
\* intended it and that nobody is about to commit under; an orphan that still
\* has to commit has a key to spare.
Stamped == {oid \in 1 .. Len(commits) : commits[oid].trailer # Null}
OrphanCommits == orphan # Null /\ orphan.op = "commit"
Attribution(f, spare) ==
  /\ f \in [Stamped -> Keys]
  /\ \A oid \in Stamped : Intended(f[oid], commits[oid].trailer) /\ ~Unspent(f[oid])
  /\ \A i, j \in Stamped : f[i] = f[j] => i = j
  /\ OrphanCommits =>
       /\ spare \in Keys /\ Intended(spare, orphan.id) /\ ~Unspent(spare)
       /\ \A oid \in Stamped : f[oid] # spare
CommitsAreAttributed == \E f, spare : Attribution(f, spare)

\* An intent to commit that will never be completed.
Stuck(key) == CommitRow(key) # Null /\ CommitRow(key).outcome # "applied" /\ ~Held(key)

\* Without one, every commit but the last is recorded, and the worktree's record
\* is at the last one that is.
Tidy ==
  /\ ~OrphanCommits
  /\ row = Null => Len(commits) = 0
  /\ \A i \in 1 .. Len(commits) - 1 : records[commits[i].trailer] = i
  /\ row # Null =>
       IF InChain(Len(commits)) THEN row = Len(commits)
       ELSE row = Len(commits) - 1 /\ records[commits[Len(commits)].trailer] = Null
  /\ \A c \in Calls : pc[c] = "commit" => head = ExpectedParent(c)

\* A worktree the user has not touched.
UntouchedInv ==
  drift = 0 =>
    /\ attached /\ (row # Null => tree)
    /\ tree => head = Len(commits) /\ branch = head
    /\ ~tree => Len(commits) = 0
    /\ \A oid \in 1 .. Len(commits) : commits[oid].trailer # Null
    /\ (\E key \in Keys : Stuck(key)) \/ Tidy

\* The row of a commit is never one the reconciler knows how to look up.
CommitRowsCommit ==
  \A key \in Keys : CommitRow(key) # Null => CommitRow(key).expected.op = "commit"

AccountInv ==
  /\ \A c \in Calls : LockedInv(c)
  /\ CommitRowsCommit /\ CommitsAreAttributed /\ UntouchedInv
SerialInv == IInv /\ LockInv /\ FlagsInv /\ drift \in Nat /\ OutcomeInv /\ AccountInv

LEMMA NullIsNoOutcome == Null \notin Outcomes
BY ConstantsAssumption DEF ConstantsAssumption

LEMMA LabelsApart ==
  /\ CommitLabels = {"check", "commit", "observe", "compare"}
  /\ \A l \in CommitLabels : l \notin Waits \cup {"queued", "ensured", "persist", "idle"}
BY DEF CommitLabels, Waits

LEMMA HoldersWork ==
  ASSUME SerialInv, NEW c \in Calls, pc[c] \in CommitLabels
  PROVE  /\ Works(c) /\ call[c].key \in Keys /\ call[c].id \in Ids /\ call[c].kind = "checkpoint"
         /\ Intended(call[c].key, call[c].id) /\ <<call[c].key, "commit">> \in Slots
         /\ CommitRow(call[c].key).outcome = Null /\ records[call[c].id] = Null
         /\ CommitRow(call[c].key) \in Rows /\ tree /\ row # Null
<1>1. CallInv(c) /\ LockedInv(c)
  BY DEF SerialInv, AccountInv, IInv
<1>2. pc[c] # "idle" /\ Works(c)
  BY LabelsApart DEF Works, Waits
<1>3. /\ call[c].key \in Keys /\ call[c].id \in Ids /\ call[c].kind = "checkpoint"
      /\ Intended(call[c].key, call[c].id) /\ tree
  BY <1>1, <1>2 DEF CallInv
<1>4. <<call[c].key, "commit">> \in Slots
  BY <1>3, KeySlots
<1>5. CommitRow(call[c].key) \in Rows
  BY <1>3, <1>4 DEF Intended, CommitRow, SerialInv, IInv, DatabaseInv
<1> QED BY <1>1, <1>2, <1>3, <1>4, <1>5 DEF LockedInv

LEMMA OneHolder ==
  ASSUME SerialInv, NEW c \in Calls, NEW d \in Calls, Works(c), pc[d] \in CommitLabels
  PROVE  c = d
<1>1. Works(d)
  BY HoldersWork
<1> QED BY <1>1, Exclusive DEF SerialInv

\* The same in terms of the keys: who holds a key, and who is about to commit.
LEMMA KeysHeld ==
  ASSUME SerialInv, NEW key \in Keys
  PROVE  /\ Unspent(key) => Held(key)
         /\ Held(key) => CommitRow(key) # Null /\ CommitRow(key).outcome = Null
<1>1. Unspent(key) => Held(key)
  BY LabelsApart DEF Unspent, Held
<1>2. ASSUME NEW c \in Calls, pc[c] \in CommitLabels, call[c].key = key
      PROVE  CommitRow(key) # Null /\ CommitRow(key).outcome = Null
  BY <1>2, HoldersWork DEF Intended, CommitRow
<1> QED BY <1>1, <1>2 DEF Held

-----------------------------------------------------------------------------
(* The account under each kind of step                                     *)

\* No commit is made, and what the rows intend stays.
LEMMA AttributionKept ==
  ASSUME CommitsAreAttributed, UNCHANGED commits, OrphanCommits' => orphan' = orphan,
         \A key \in Keys : CommitRow(key) # Null =>
           /\ CommitRow(key)' # Null /\ CommitRow(key)'.expected = CommitRow(key).expected
           /\ Unspent(key)' => Unspent(key)
  PROVE  CommitsAreAttributed'
<1>1. PICK f, spare : Attribution(f, spare)
  BY DEF CommitsAreAttributed
<1>2. Stamped' = Stamped
  BY DEF Stamped
<1>3. \A key \in Keys : \A id :
        Intended(key, id) /\ ~Unspent(key) => Intended(key, id)' /\ ~Unspent(key)'
  BY DEF Intended, CommitRow
<1>4. \A oid \in Stamped : Intended(f[oid], commits[oid].trailer)' /\ ~Unspent(f[oid])'
  <2>1. \A oid \in Stamped : f[oid] \in Keys /\ Intended(f[oid], commits[oid].trailer)
                             /\ ~Unspent(f[oid])
    BY <1>1 DEF Attribution
  <2>2. \A oid \in Stamped : Intended(f[oid], commits[oid].trailer)' /\ ~Unspent(f[oid])'
    <3> TAKE oid \in Stamped
    <3>1. PICK key \in Keys : key = f[oid]
      BY <2>1
    <3>2. PICK id : id = commits[oid].trailer
      OBVIOUS
    <3> QED BY <2>1, <1>3, <3>1, <3>2 DEF Intended, Unspent
  <2> QED BY <2>2
<1>5. OrphanCommits' => /\ OrphanCommits /\ orphan'.id = orphan.id
  BY DEF OrphanCommits
<1>6. OrphanCommits' =>
        /\ spare \in Keys /\ Intended(spare, orphan.id)' /\ ~Unspent(spare)'
        /\ \A oid \in Stamped : f[oid] # spare
  <2> SUFFICES ASSUME OrphanCommits'
               PROVE  /\ spare \in Keys /\ Intended(spare, orphan.id)' /\ ~Unspent(spare)'
                      /\ \A oid \in Stamped : f[oid] # spare
    OBVIOUS
  <2>1. /\ spare \in Keys /\ Intended(spare, orphan.id) /\ ~Unspent(spare)
        /\ \A oid \in Stamped : f[oid] # spare
    BY <1>1, <1>5 DEF Attribution
  <2>2. PICK id : id = orphan.id
    OBVIOUS
  <2>3. Intended(spare, id)' /\ ~Unspent(spare)'
    BY <1>3, <2>1, <2>2
  <2> QED BY <1>5, <2>1, <2>2, <2>3 DEF Intended
<1>7. Attribution(f, spare)'
  BY <1>1, <1>2, <1>4, <1>6 DEF Attribution
<1> QED BY <1>7 DEF CommitsAreAttributed

\* A commit of the application uses up the key it was intended under.
LEMMA AttributionGrows ==
  ASSUME IInv, NEW f, NEW spare, Attribution(f, spare), NEW trailer, Commit(trailer),
         UNCHANGED journal, NEW key, OrphanCommits' => orphan' = orphan,
         trailer # Null =>
           /\ key \in Keys /\ Intended(key, trailer) /\ ~Unspent(key)'
           /\ OrphanCommits' => key # spare
           /\ \A oid \in Stamped : f[oid] # key,
         \A k \in Keys : Unspent(k)' => Unspent(k)
  PROVE  CommitsAreAttributed'
<1> DEFINE n == Len(commits)
           new == [parent |-> head, trailer |-> trailer]
<1>1. /\ n \in Nat /\ Len(commits') = n + 1 /\ commits'[n + 1] = new
      /\ \A i \in 1 .. n : commits'[i] = commits[i]
  BY DEF IInv, RepositoryInv, Commit
<1>2. new.trailer = trailer
  OBVIOUS
<1> HIDE DEF n, new
<1>3. /\ \A oid \in Stamped' : oid # n + 1 => oid \in Stamped
      /\ n + 1 \in Stamped' => trailer # Null
      /\ \A oid \in Stamped' : oid # n + 1 => commits'[oid].trailer = commits[oid].trailer
      /\ commits'[n + 1].trailer = trailer
  BY <1>1, <1>2 DEF Stamped, n
<1>4. \A k, id : Intended(k, id)' <=> Intended(k, id)
  BY DEF Intended
<1>5. /\ f \in [Stamped -> Keys] /\ \A i, j \in Stamped : f[i] = f[j] => i = j
      /\ \A oid \in Stamped : Intended(f[oid], commits[oid].trailer) /\ ~Unspent(f[oid])
  BY DEF Attribution
<1>6. PICK g : g = [oid \in Stamped' |-> IF oid = n + 1 THEN key ELSE f[oid]]
  OBVIOUS
<1>7. g \in [Stamped' -> Keys] /\ \A i, j \in Stamped' : g[i] = g[j] => i = j
  BY <1>3, <1>5, <1>6
<1>8. \A oid \in Stamped' : g[oid] = IF oid = n + 1 THEN key ELSE f[oid]
  BY <1>6
<1>9. ASSUME NEW oid \in Stamped' PROVE Intended(g[oid], commits[oid].trailer)' /\ ~Unspent(g[oid])'
  <2>1. PICK k, id : k = g[oid] /\ id = commits'[oid].trailer
    OBVIOUS
  <2>2. Intended(k, id) /\ ~Unspent(k)'
    <3>1. CASE oid = n + 1
      BY <1>3, <1>8, <2>1, <3>1
    <3>2. CASE oid # n + 1
      <4>1. oid \in Stamped /\ k = f[oid] /\ id = commits[oid].trailer /\ k \in Keys
        BY <1>3, <1>5, <1>8, <2>1, <3>2
      <4> QED BY <1>5, <4>1
    <3> QED BY <3>1, <3>2
  <2> QED BY <1>4, <2>1, <2>2 DEF Intended, Unspent
<1>10. ASSUME OrphanCommits'
       PROVE  /\ spare \in Keys /\ Intended(spare, orphan.id)' /\ ~Unspent(spare)'
              /\ \A oid \in Stamped' : g[oid] # spare
  <2>1. /\ spare \in Keys /\ Intended(spare, orphan.id) /\ ~Unspent(spare)
        /\ \A oid \in Stamped : f[oid] # spare
    BY <1>10 DEF Attribution, OrphanCommits
  <2>2. Intended(spare, orphan.id)' /\ ~Unspent(spare)'
    BY <1>10, <2>1 DEF Intended
  <2> QED BY <1>3, <1>8, <1>10, <2>1, <2>2
<1>11. Attribution(g, spare)'
  BY <1>7, <1>9, <1>10 DEF Attribution
<1> QED BY <1>11 DEF CommitsAreAttributed

\* An intent that is stuck remains so: its row is not executed again.
LEMMA StuckStays ==
  ASSUME NEW key \in Keys, Stuck(key), CommitRow(key)' # Null, CommitRow(key)'.outcome # "applied",
         Held(key)' => Held(key)
  PROVE  Stuck(key)'
BY DEF Stuck

\* A call that goes on as it was, under the row it had.
Unmoved(d) ==
  /\ pc'[d] = pc[d] /\ call'[d] = call[d]
  /\ pc[d] \in CommitLabels => CommitRow(call[d].key)' = CommitRow(call[d].key)

LEMMA LockedKept ==
  ASSUME SerialInv, tree => tree', row # Null => row' # Null,
         \A d \in Calls :
           \/ Unmoved(d) /\ (pc[d] \in CommitLabels => records'[call[d].id] = Null)
           \/ LockedInv(d)'
  PROVE  \A d \in Calls : LockedInv(d)'
<1> SUFFICES ASSUME NEW d \in Calls, Unmoved(d),
                    pc[d] \in CommitLabels => records'[call[d].id] = Null
             PROVE  LockedInv(d)'
  OBVIOUS
<1>1. LockedInv(d)
  BY DEF SerialInv, AccountInv
<1> QED BY <1>1 DEF LockedInv, Unmoved, CommitRow

LEMMA SameParent ==
  ASSUME SerialInv, NEW d \in Calls, Unmoved(d), pc[d] = "commit"
  PROVE  ExpectedParent(d)' = ExpectedParent(d)
BY LabelsApart DEF Unmoved, ExpectedParent, CommitRow

\* A step that leaves commits, records and the worktree alone.
LEMMA AccountKept ==
  ASSUME SerialInv, UNCHANGED <<commits, branch, tree, head, attached, row, records, drift>>,
         OrphanCommits' => orphan' = orphan,
         \A key \in Keys :
           IF CommitRow(key) # Null
             THEN /\ CommitRow(key)' # Null /\ CommitRow(key)'.expected = CommitRow(key).expected
                  /\ Unspent(key)' => Unspent(key)
                  /\ Stuck(key) => Stuck(key)'
             ELSE CommitRow(key)' # Null => CommitRow(key)'.expected.op = "commit",
         \A d \in Calls :
           \/ Unmoved(d)
           \/ LockedInv(d)' /\ (pc'[d] = "commit" => head = ExpectedParent(d)')
  PROVE  AccountInv'
<1>1. \A d \in Calls : LockedInv(d)'
  <2>1. \A d \in Calls : pc[d] \in CommitLabels => records'[call[d].id] = Null
    BY HoldersWork
  <2> QED BY <2>1, LockedKept
<1>2. CommitRowsCommit'
  BY DEF SerialInv, AccountInv, CommitRowsCommit
<1>3. CommitsAreAttributed'
  BY AttributionKept DEF SerialInv, AccountInv
<1>4. UntouchedInv'
  <2> SUFFICES ASSUME drift' = 0 PROVE UntouchedInv'
    BY DEF UntouchedInv
  <2>1. /\ drift = 0 /\ attached /\ (row # Null => tree)
        /\ tree => head = Len(commits) /\ branch = head
        /\ ~tree => Len(commits) = 0
        /\ \A oid \in 1 .. Len(commits) : commits[oid].trailer # Null
        /\ (\E key \in Keys : Stuck(key)) \/ Tidy
    BY DEF SerialInv, AccountInv, UntouchedInv
  <2>2. CASE \E key \in Keys : Stuck(key)
    <3>1. \E key \in Keys : Stuck(key)'
      BY <2>2 DEF Stuck
    <3> QED BY <2>1, <3>1 DEF UntouchedInv
  <2>3. CASE Tidy
    <3>1. \A d \in Calls : pc'[d] = "commit" => head' = ExpectedParent(d)'
      BY <2>3, SameParent DEF Tidy, Unmoved
    <3>2. InChain(Len(commits))' <=> InChain(Len(commits))
      BY DEF InChain
    <3>3. ~OrphanCommits'
      BY <2>3 DEF Tidy, OrphanCommits
    <3>4. Tidy'
      BY <2>3, <3>1, <3>2, <3>3 DEF Tidy
    <3> QED BY <2>1, <3>4 DEF UntouchedInv
  <2> QED BY <2>1, <2>2, <2>3
<1> QED BY <1>1, <1>2, <1>3, <1>4 DEF AccountInv

\* The step of a call that has nothing to do with commits.
LEMMA AsideKeeps ==
  ASSUME SerialInv, NEW c \in Calls, Alone(c),
         UNCHANGED <<commits, branch, tree, head, attached, row, records, orphan, drift>>,
         \A key \in Keys : CommitRow(key)' = CommitRow(key),
         pc[c] \notin CommitLabels, pc'[c] \notin CommitLabels,
         pc'[c] # "idle" /\ call'[c].kind = "checkpoint" => row # Null,
         pc'[c] = "ensured" => tree
  PROVE  AccountInv'
<1>1. LockedInv(c)' /\ pc'[c] # "commit"
  BY LabelsApart DEF LockedInv
<1>2. \A d \in Calls : d # c => Unmoved(d)
  BY HoldersWork DEF Alone, Unmoved
<1>3. ASSUME NEW key \in Keys
      PROVE  (Unspent(key)' => Unspent(key)) /\ (Held(key)' => Held(key))
  BY LabelsApart DEF Alone, Unspent, Held
<1>4. \A key \in Keys : Stuck(key) => Stuck(key)'
  BY <1>3 DEF Stuck
<1>5. \A key \in Keys : CommitRow(key) # Null => CommitRow(key)' # Null
  OBVIOUS
<1> QED BY <1>1, <1>2, <1>3, <1>4, <1>5, AccountKept DEF OrphanCommits

\* A step within the journaled commit, or the last one.
LEMMA HolderKeeps ==
  ASSUME SerialInv, NEW c \in Calls, Alone(c), pc[c] \in CommitLabels,
         UNCHANGED <<commits, branch, tree, head, attached, row, records, orphan, drift>>,
         \A key \in Keys :
           IF key # call[c].key THEN CommitRow(key)' = CommitRow(key)
           ELSE CommitRow(key)' # Null /\ CommitRow(key)'.expected = CommitRow(key).expected,
         pc'[c] \in CommitLabels => call'[c].key = call[c].key,
         pc'[c] \in {"check", "commit"} => pc[c] \in {"check", "commit"},
         LockedInv(c)', pc'[c] = "commit" => head = ExpectedParent(c)'
  PROVE  AccountInv'
<1>1. Works(c) /\ Held(call[c].key) /\ call[c].key \in Keys
  BY HoldersWork DEF Held
<1>2. \A d \in Calls : d # c => pc[d] \notin CommitLabels /\ Unmoved(d)
  BY <1>1, OneHolder DEF Alone, Unmoved
<1>3. ASSUME NEW key \in Keys
      PROVE  (Unspent(key)' => Unspent(key)) /\ (Held(key)' => Held(key))
  BY <1>2, LabelsApart DEF Alone, Unspent, Held
<1>4. ASSUME NEW key \in Keys, Stuck(key) PROVE Stuck(key)'
  <2>1. key # call[c].key
    BY <1>1, <1>4 DEF Stuck
  <2> QED BY <1>3, <1>4, <2>1 DEF Stuck
<1>5. ASSUME NEW key \in Keys
      PROVE  IF CommitRow(key) # Null
               THEN CommitRow(key)' # Null /\ CommitRow(key)'.expected = CommitRow(key).expected
               ELSE CommitRow(key)' # Null => CommitRow(key)'.expected.op = "commit"
  <2>1. CASE key = call[c].key
    <3>1. CommitRow(key) # Null
      BY <1>1, <2>1, KeysHeld
    <3> QED BY <2>1, <3>1
  <2>2. CASE key # call[c].key
    BY <2>2
  <2> QED BY <2>1, <2>2
<1> QED BY <1>2, <1>3, <1>4, <1>5, AccountKept DEF OrphanCommits

-----------------------------------------------------------------------------
(* The account under each action                                           *)

\* Rows of operations that are not commits.
LEMMA OtherSlots ==
  ASSUME IInv, NEW slot, NEW r, journal' = [journal EXCEPT ![slot] = r],
         \A key \in Keys : slot # <<key, "commit">>
  PROVE  \A key \in Keys : CommitRow(key)' = CommitRow(key)
BY KeySlots DEF CommitRow, IInv, DatabaseInv

LEMMA CommitSlot ==
  ASSUME IInv, NEW key \in Keys, NEW r, journal' = [journal EXCEPT ![<<key, "commit">>] = r]
  PROVE  /\ CommitRow(key)' = r
         /\ \A k \in Keys : k # key => CommitRow(k)' = CommitRow(k)
<1>1. <<key, "commit">> \in Slots /\ journal \in [Slots -> Rows \cup {Null}]
  BY KeySlots DEF IInv, DatabaseInv
<1>2. \A k \in Keys : <<k, "commit">> \in Slots /\ (k # key => <<k, "commit">> # <<key, "commit">>)
  BY KeySlots
<1> QED BY <1>1, <1>2 DEF CommitRow

\* What the variables that the account reads do when a call works on a row.
Bystanders == <<commits, branch, tree, head, attached, row, records, orphan, drift>>

LEMMA EndsAside ==
  ASSUME SerialInv, NEW c \in Calls, pc[c] \notin CommitLabels, End(c) PROVE AccountInv'
<1>1. /\ UNCHANGED Bystanders /\ \A key \in Keys : CommitRow(key)' = CommitRow(key)
  BY DEF End, repository, database, bounds, Bystanders, CommitRow
<1>2. Alone(c) /\ pc'[c] = "idle"
  BY LeaveStep DEF End, SerialInv, IInv, Leave, CallsTyped
<1> QED BY <1>1, <1>2, LabelsApart, AsideKeeps DEF Bystanders

LEMMA RunsAside ==
  ASSUME SerialInv, NEW c \in Calls, pc[c] \notin CommitLabels, pc[c] # "idle",
         NEW execute \in Labels, NEW done \in Labels, Run(c, execute, done),
         {execute, done} \cap CommitLabels = {}, \A key \in Keys : Slot(c) # <<key, "commit">>,
         MayReplay(c) /\ done = "ensured" => tree, execute # "ensured"
  PROVE  AccountInv'
<1>1. call[c].kind = "checkpoint" => row # Null
  BY DEF SerialInv, AccountInv, LockedInv
<1>2. CASE End(c)
  BY <1>2, EndsAside
<1>3. ASSUME journal' = [journal EXCEPT ![Slot(c)] = Executing(Intent(c))], Goto(c, execute),
             UNCHANGED <<repository, row, records, queue, call, orphan, bounds>>
      PROVE  AccountInv'
  <2>1. UNCHANGED Bystanders
    BY <1>3 DEF repository, bounds, Bystanders
  <2>2. \A key \in Keys : CommitRow(key)' = CommitRow(key)
    BY <1>3, OtherSlots DEF SerialInv
  <2>3. Alone(c) /\ pc'[c] = execute /\ call'[c] = call[c]
    BY <1>3 DEF Goto, Alone, SerialInv, IInv, CallsTyped
  <2> QED BY <1>1, <2>1, <2>2, <2>3, AsideKeeps DEF Bystanders
<1>4. ASSUME MayReplay(c), call' = [call EXCEPT ![c].oid = journal[Slot(c)].result],
             Goto(c, done), UNCHANGED <<repository, database, queue, orphan, bounds>>
      PROVE  AccountInv'
  <2>1. UNCHANGED Bystanders /\ \A key \in Keys : CommitRow(key)' = CommitRow(key)
    BY <1>4 DEF repository, database, bounds, Bystanders, CommitRow
  <2>2. Alone(c) /\ pc'[c] = done /\ call'[c].kind = call[c].kind
    BY <1>4 DEF Goto, Alone, SerialInv, IInv, CallsTyped, CallRecords
  <2> QED BY <1>1, <1>4, <2>1, <2>2, AsideKeeps DEF Bystanders
<1> QED BY <1>2, <1>3, <1>4 DEF Run

LEMMA SettlesAside ==
  ASSUME SerialInv, NEW c \in Calls, pc[c] \notin CommitLabels, pc[c] # "idle",
         NEW outcome, NEW result, NEW done \in Labels, Settle(c, outcome, result, done),
         done \notin CommitLabels, \A key \in Keys : Slot(c) # <<key, "commit">>,
         outcome = "applied" /\ done = "ensured" => tree
  PROVE  AccountInv'
<1>1. call[c].kind = "checkpoint" => row # Null
  BY DEF SerialInv, AccountInv, LockedInv
<1>2. UNCHANGED Bystanders
  BY DEF Settle, repository, bounds, Bystanders
<1>3. \A key \in Keys : CommitRow(key)' = CommitRow(key)
  <2>1. \E r : journal' = [journal EXCEPT ![Slot(c)] = r]
    BY DEF Settle
  <2> QED BY <2>1, OtherSlots DEF SerialInv
<1>4. CASE Leave(c)
  <2>1. Alone(c) /\ pc'[c] = "idle"
    BY <1>4, LeaveStep DEF SerialInv, IInv, Leave, CallsTyped
  <2> QED BY <1>2, <1>3, <2>1, LabelsApart, AsideKeeps DEF Bystanders
<1>5. ASSUME outcome = "applied", call' = [call EXCEPT ![c].oid = result], Goto(c, done)
      PROVE  AccountInv'
  <2>1. Alone(c) /\ pc'[c] = done /\ call'[c].kind = call[c].kind
    BY <1>5 DEF Goto, Alone, SerialInv, IInv, CallsTyped, CallRecords
  <2> QED BY <1>1, <1>2, <1>3, <1>5, <2>1, AsideKeeps DEF Bystanders
<1>6. \A o \in {outcome, "uncertain"} : o = "applied" => outcome = "applied"
  OBVIOUS
<1> QED BY <1>4, <1>5, <1>6 DEF Settle

LEMMA StartAccount ==
  ASSUME SerialInv, NEW c \in Calls, NEW kind \in Kinds, Start(c, kind) PROVE AccountInv'
<1>1. /\ UNCHANGED Bystanders /\ \A key \in Keys : CommitRow(key)' = CommitRow(key)
      /\ kind # "ensure" => row # Null
  BY DEF Start, repository, database, Bystanders, CommitRow
<1>2. Alone(c) /\ pc[c] = "idle" /\ pc'[c] = "resolving" /\ call'[c].kind = kind
  BY DEF Start, At, Goto, Alone, SerialInv, IInv, CallsTyped
<1>3. "resolving" \notin CommitLabels /\ "idle" \notin CommitLabels
  BY DEF CommitLabels
<1> QED BY <1>1, <1>2, <1>3, AsideKeeps DEF Bystanders

LEMMA AskForLockAccount ==
  ASSUME SerialInv, NEW c \in Calls, AskForLock(c) PROVE AccountInv'
<1>1. UNCHANGED Bystanders /\ \A key \in Keys : CommitRow(key)' = CommitRow(key)
  BY DEF AskForLock, repository, database, bounds, Bystanders, CommitRow
<1>2. Alone(c) /\ pc[c] = "resolving" /\ pc'[c] = "queued" /\ call'[c] = call[c]
  BY DEF AskForLock, At, Goto, Alone, SerialInv, IInv, CallsTyped
<1>3. call[c].kind = "checkpoint" => row # Null
  BY <1>2 DEF SerialInv, AccountInv, LockedInv
<1>4. "resolving" \notin CommitLabels /\ "queued" \notin CommitLabels
  BY DEF CommitLabels
<1> QED BY <1>1, <1>2, <1>3, <1>4, AsideKeeps DEF Bystanders

LEMMA EnsureLockedAccount ==
  ASSUME SerialInv, NEW c \in Calls, EnsureLocked(c) PROVE AccountInv'
<1>1. /\ pc[c] = "queued" /\ call[c].kind = "ensure" /\ pc[c] \notin CommitLabels
  BY DEF EnsureLocked, At, CommitLabels
<1>2. Slot(c) = <<call[c].key, "own">>
  BY <1>1, SlotOfCall DEF SerialInv
<1>3. CASE End(c)
  BY <1>1, <1>3, EndsAside
<1>4. ASSUME NEW execute \in {"create", "attach", "added"}, Run(c, execute, "ensured"),
             MayReplay(c) => EnsureAction = "noop"
      PROVE  AccountInv'
  <2>1. /\ execute \in Labels /\ "ensured" \in Labels /\ execute # "ensured"
        /\ {execute, "ensured"} \cap CommitLabels = {}
    BY DEF Labels, EnsureLabels, CommitLabels
  <2>2. EnsureAction = "noop" => tree
    BY DEF EnsureAction, WorktreeIsExpected
  <2> QED BY <1>1, <1>2, <1>4, <2>1, <2>2, RunsAside
<1>5. MayReplay(c) => /\ journal[<<call[c].key, "own">>] # Null
                      /\ journal[<<call[c].key, "own">>].status = "completed"
  BY <1>2 DEF MayReplay, Replays
<1> QED BY <1>3, <1>4, <1>5 DEF EnsureLocked

LEMMA EnsureObserveAccount ==
  ASSUME SerialInv, NEW c \in Calls, EnsureObserve(c) PROVE AccountInv'
<1>1. /\ pc[c] = "added" /\ pc[c] # "idle" /\ call[c].kind = "ensure" /\ pc[c] \notin CommitLabels
  BY DEF EnsureObserve, At, CommitLabels, SerialInv, IInv, CallInv, EnsureLabels
<1>2. Slot(c) = <<call[c].key, "own">>
  BY <1>1, SlotOfCall DEF SerialInv
<1>3. PICK outcome : /\ outcome = IF WorktreeIsExpected THEN "applied" ELSE "conflict"
                     /\ Settle(c, outcome, Base, "ensured")
  BY DEF EnsureObserve
<1>4. outcome = "applied" => tree
  BY <1>3 DEF WorktreeIsExpected
<1>5. "ensured" \in Labels /\ "ensured" \notin CommitLabels
  BY DEF Labels, EnsureLabels, CommitLabels
<1> QED BY <1>1, <1>2, <1>3, <1>4, <1>5, SettlesAside

LEMMA ProtectAccount ==
  ASSUME SerialInv, NEW c \in Calls, ProtectLocked(c) \/ ProtectObserve(c) \/ Return(c)
  PROVE  AccountInv'
<1>1. CASE Return(c)
  <2>1. pc[c] = "return" /\ pc[c] \notin CommitLabels /\ End(c)
    BY <1>1 DEF Return, At, CommitLabels
  <2> QED BY <2>1, EndsAside
<1>2. CASE ProtectLocked(c)
  <2>1. pc[c] = "queued" /\ call[c].kind = "protect" /\ pc[c] \notin CommitLabels
    BY <1>2 DEF ProtectLocked, At, CommitLabels
  <2>2. Slot(c) = <<call[c].key, "own">>
    BY <2>1, SlotOfCall DEF SerialInv
  <2>3. ASSUME NEW execute \in {"protect", "protected"}, Run(c, execute, "return")
        PROVE  AccountInv'
    <3>1. /\ execute \in Labels /\ "return" \in Labels /\ execute # "ensured"
          /\ {execute, "return"} \cap CommitLabels = {}
      BY DEF Labels, ProtectLabels, CommitLabels
    <3> QED BY <2>1, <2>2, <2>3, <3>1, RunsAside
  <2> QED BY <1>2, <2>1, <2>3, EndsAside DEF ProtectLocked
<1>3. CASE ProtectObserve(c)
  <2>1. /\ pc[c] = "protected" /\ pc[c] # "idle" /\ call[c].kind = "protect"
        /\ pc[c] \notin CommitLabels
    BY <1>3 DEF ProtectObserve, At, CommitLabels, SerialInv, IInv, CallInv, ProtectLabels
  <2>2. Slot(c) = <<call[c].key, "own">>
    BY <2>1, SlotOfCall DEF SerialInv
  <2>3. \E outcome, result : Settle(c, outcome, result, "return")
    BY <1>3 DEF ProtectObserve
  <2>4. "return" \in Labels /\ "return" \notin CommitLabels
    BY DEF Labels, ProtectLabels, CommitLabels
  <2> QED BY <2>1, <2>2, <2>3, <2>4, SettlesAside
<1> QED BY <1>1, <1>2, <1>3

LEMMA RefAccount ==
  ASSUME SerialInv, NEW c \in Calls, IntendRef(c) \/ ReadRef(c) \/ ObserveRef(c)
  PROVE  AccountInv'
<1>1. /\ pc[c] \in {"intendRef", "readRef", "frozen"} /\ pc[c] # "idle"
      /\ call[c].kind = "checkpoint" /\ pc[c] \notin CommitLabels
  BY DEF IntendRef, ReadRef, ObserveRef, At, CommitLabels, RefLabels, DoneLabels,
         SerialInv, IInv, CallInv
<1>2. pc[c] # "readRef" => Slot(c) = <<call[c].key, "ref">>
  BY <1>1, SlotOfCall DEF SerialInv
<1>3. /\ {"readRef", "persist", "freeze", "frozen"} \subseteq Labels
      /\ {"readRef", "persist", "freeze", "frozen"} \cap CommitLabels = {}
  BY DEF Labels, RefLabels, DoneLabels, CommitLabels
<1>4. CASE IntendRef(c)
  <2>1. pc[c] = "intendRef" /\ Run(c, "readRef", "persist")
    BY <1>4 DEF IntendRef, At
  <2>2. /\ "readRef" \in Labels /\ "persist" \in Labels
        /\ {"readRef", "persist"} \cap CommitLabels = {}
    BY <1>3
  <2> QED BY <1>1, <1>2, <2>1, <2>2, RunsAside
<1>5. CASE ObserveRef(c)
  <2>1. pc[c] = "frozen" /\ \E outcome, result : Settle(c, outcome, result, "persist")
    BY <1>5 DEF ObserveRef, At
  <2>2. "persist" \in Labels /\ "persist" \notin CommitLabels
    BY <1>3
  <2> QED BY <1>1, <1>2, <2>1, <2>2, SettlesAside
<1>6. CASE ReadRef(c)
  <2>1. UNCHANGED Bystanders /\ \A key \in Keys : CommitRow(key)' = CommitRow(key)
    BY <1>6 DEF ReadRef, repository, database, bounds, Bystanders, CommitRow
  <2>2. Alone(c) /\ pc'[c] \in {"freeze", "frozen"} /\ call'[c] = call[c]
    BY <1>6 DEF ReadRef, Goto, Alone, SerialInv, IInv, CallsTyped
  <2>3. row # Null
    BY <1>1 DEF SerialInv, AccountInv, LockedInv
  <2>4. pc'[c] \notin CommitLabels /\ pc'[c] # "ensured"
    BY <1>3, <2>2
  <2> QED BY <1>1, <2>1, <2>2, <2>3, <2>4, AsideKeeps DEF Bystanders
<1> QED BY <1>4, <1>5, <1>6

\* An intent to commit is new: no call and no orphan commits under its key.
LEMMA CheckpointLockedAccount ==
  ASSUME SerialInv, NEW c \in Calls, CheckpointLocked(c) PROVE AccountInv'
<1>1. /\ pc[c] = "queued" /\ pc[c] # "idle" /\ call[c].kind = "checkpoint"
      /\ pc[c] \notin CommitLabels
  BY DEF CheckpointLocked, At, CommitLabels
<1>2. /\ call[c].key \in Keys /\ Slot(c) = <<call[c].key, "commit">> /\ call[c].id \in Ids
      /\ row # Null
  BY <1>1, SlotOfCall DEF SerialInv, IInv, CallInv, AccountInv, LockedInv
<1>3. CASE End(c)
  BY <1>1, <1>3, EndsAside
<1>4. ASSUME records[call[c].id] = Null, MayExecute(c),
             journal' = [journal EXCEPT ![Slot(c)] = Executing(Intent(c))], Goto(c, "check"),
             UNCHANGED <<repository, row, records, queue, call, orphan, bounds>>
      PROVE  AccountInv'
  <2>1. UNCHANGED Bystanders
    BY <1>4 DEF repository, bounds, Bystanders
  <2>2. PICK key \in Keys : key = call[c].key
    BY <1>2
  <2>3. PICK r : r = Executing(Intent(c))
    OBVIOUS
  <2>4. CommitRow(key)' = r /\ \A k \in Keys : k # key => CommitRow(k)' = CommitRow(k)
    <3>1. journal' = [journal EXCEPT ![<<key, "commit">>] = r]
      BY <1>2, <1>4, <2>2, <2>3
    <3> QED BY <3>1, CommitSlot DEF SerialInv
  <2>5. r.expected.op = "commit" /\ r.outcome = Null
    <3>1. Intent(c) = [op |-> "commit", id |-> call[c].id, oid |-> ExpectedParent(c)]
      BY <1>1, <1>2, IntentOfCall DEF SerialInv
    <3> QED BY <2>3, <3>1 DEF Executing
  <2>6. CommitRow(key) = Null
    BY <1>2, <1>4, <2>2 DEF MayExecute, IsNew, CommitRow
  <2>7. Alone(c) /\ pc'[c] = "check" /\ call'[c] = call[c]
    BY <1>4 DEF Goto, Alone, SerialInv, IInv, CallsTyped
  <2>8. LockedInv(c)'
    <3>1. CommitRow(call[c].key)'.outcome = Null
      BY <2>2, <2>4, <2>5, <2>7 DEF CommitRow
    <3> QED BY <1>2, <1>4, <2>1, <2>7, <3>1 DEF LockedInv, Bystanders
  <2>9. \A d \in Calls : d # c => Unmoved(d)
    <3> SUFFICES ASSUME NEW d \in Calls, d # c PROVE Unmoved(d)
      OBVIOUS
    <3>1. pc[d] \in CommitLabels =>
            call[d].key \in Keys /\ call[d].key # key
      BY <2>6, HoldersWork DEF Intended, CommitRow
    <3>2. ASSUME pc[d] \in CommitLabels
          PROVE  CommitRow(call[d].key)' = CommitRow(call[d].key)
      <4>1. PICK k \in Keys : k = call[d].key
        BY <3>1, <3>2
      <4>2. CommitRow(k)' = CommitRow(k)
        BY <2>4, <3>1, <3>2, <4>1
      <4> QED BY <2>7, <4>1, <4>2 DEF CommitRow, Alone
    <3> QED BY <2>7, <3>2 DEF Unmoved, Alone
  <2>10. ASSUME NEW k \in Keys
         PROVE IF CommitRow(k) # Null
                 THEN /\ CommitRow(k)' # Null /\ CommitRow(k)'.expected = CommitRow(k).expected
                      /\ Unspent(k)' => Unspent(k)
                      /\ Stuck(k) => Stuck(k)'
                 ELSE CommitRow(k)' # Null => CommitRow(k)'.expected.op = "commit"
    <3>1. CASE k = key
      BY <2>4, <2>5, <2>6, <3>1
    <3>2. CASE k # key
      <4>1. CommitRow(k)' = CommitRow(k)
        BY <2>4, <3>2
      <4>2. (Unspent(k)' => Unspent(k)) /\ (Held(k)' => Held(k))
        BY <2>2, <2>7, <3>2 DEF Alone, Unspent, Held
      <4> QED BY <4>1, <4>2 DEF Stuck, SerialInv, AccountInv, CommitRowsCommit
    <3> QED BY <3>1, <3>2
  <2> QED BY <2>1, <2>7, <2>8, <2>9, <2>10, AccountKept DEF Bystanders, OrphanCommits
<1>5. ASSUME call' = [call EXCEPT ![c].oid = journal[Slot(c)].result],
             Goto(c, "intendRef"), UNCHANGED <<repository, database, queue, orphan, bounds>>
      PROVE  AccountInv'
  <2>1. UNCHANGED Bystanders /\ \A key \in Keys : CommitRow(key)' = CommitRow(key)
    BY <1>5 DEF repository, database, bounds, Bystanders, CommitRow
  <2>2. Alone(c) /\ pc'[c] = "intendRef"
    BY <1>5 DEF Goto, Alone, SerialInv, IInv, CallsTyped
  <2>3. "intendRef" \notin CommitLabels /\ "intendRef" # "ensured"
    BY DEF CommitLabels
  <2> QED BY <1>1, <1>2, <2>1, <2>2, <2>3, AsideKeeps DEF Bystanders
<1> QED BY <1>3, <1>4, <1>5 DEF CheckpointLocked, Run

\* The commit goes ahead only from the commit it is to stand on.
LEMMA HeadAccount ==
  ASSUME SerialInv, NEW c \in Calls, CheckHead(c) \/ ObserveHead(c) PROVE AccountInv'
<1>1. /\ UNCHANGED Bystanders /\ journal' = journal
      /\ \A key \in Keys : CommitRow(key)' = CommitRow(key)
  BY DEF CheckHead, ObserveHead, repository, database, bounds, Bystanders, CommitRow
<1>2. /\ pc[c] \in {"check", "observe"} /\ pc[c] \in CommitLabels
      /\ pc'[c] \in {"commit", "observe", "compare"} /\ pc'[c] \in CommitLabels
      /\ Alone(c) /\ call'[c].key = call[c].key /\ call'[c].id = call[c].id
      /\ call'[c].expected = call[c].expected
      /\ pc'[c] = "commit" => pc[c] = "check" /\ head = ExpectedParent(c)
  BY DEF CheckHead, ObserveHead, At, CommitLabels, Goto, Alone, HeadAsExpected,
         SerialInv, IInv, CallsTyped, CallRecords
<1>3. /\ call[c].key \in Keys /\ CommitRow(call[c].key) # Null /\ call[c].kind = "checkpoint"
      /\ CommitRow(call[c].key).outcome = Null /\ records[call[c].id] = Null /\ row # Null
  BY <1>2, HoldersWork DEF Intended, CommitRow
<1>4. LockedInv(c)'
  BY <1>1, <1>2, <1>3, LabelsApart DEF LockedInv, CommitRow, Bystanders
<1>5. ExpectedParent(c)' = ExpectedParent(c)
  BY <1>1, <1>2 DEF ExpectedParent
<1>6. pc'[c] \in {"check", "commit"} => pc[c] \in {"check", "commit"}
  BY <1>2
<1> QED BY <1>1, <1>2, <1>3, <1>4, <1>5, <1>6, HolderKeeps DEF Bystanders

\* What is observed settles the row; nobody holds its key any more.
LEMMA CompareAccount ==
  ASSUME SerialInv, NEW c \in Calls, CompareCommit(c) PROVE AccountInv'
<1>1. /\ pc[c] = "compare" /\ pc[c] \in CommitLabels
      /\ Settle(c, CommitOutcome(c), call[c].oid, "intendRef")
  BY DEF CompareCommit, At, CommitLabels
<1>2. PICK key \in Keys : key = call[c].key
  BY <1>1, HoldersWork
<1>3. Slot(c) = <<key, "commit">> /\ row # Null
  BY <1>1, <1>2, HoldersWork, SlotOfCall DEF SerialInv, Works, Waits
<1>4. PICK o \in {CommitOutcome(c), "uncertain"} :
        /\ journal' = [journal EXCEPT ![<<key, "commit">>] =
             Settled(@, o, IF o = "applied" THEN call[c].oid ELSE Null)]
        /\ \/ /\ call' = [call EXCEPT ![c].oid = call[c].oid]
              /\ Goto(c, "intendRef")
           \/ Leave(c)
        /\ UNCHANGED <<repository, row, records, orphan, bounds>>
  BY <1>1, <1>3 DEF Settle
<1> DEFINE result == IF o = "applied" THEN call[c].oid ELSE Null
<1>11. o \in Outcomes /\ result \in Oids \cup {Null}
  BY <1>1, CommitOutcomes DEF SerialInv, IInv, CallInv, Outcomes
<1> HIDE DEF result
<1>5. PICK r : r = Settled(CommitRow(key), o, result)
  OBVIOUS
<1>6. /\ CommitRow(key)' = r /\ \A k \in Keys : k # key => CommitRow(k)' = CommitRow(k)
  <2>1. journal' = [journal EXCEPT ![<<key, "commit">>] = r]
    BY <1>4, <1>5, KeySlots DEF SerialInv, IInv, DatabaseInv, CommitRow, result
  <2> QED BY <2>1, CommitSlot DEF SerialInv
<1>7. r # Null /\ r.expected = CommitRow(key).expected
  <2>1. CommitRow(key) \in Rows
    BY <1>1, <1>2, HoldersWork
  <2> QED BY <1>5, <1>11, <2>1, SettledIsTyped, NullIsApart
<1>8. /\ Alone(c) /\ pc'[c] \in {"intendRef", "idle"}
  <2>1. CASE Leave(c)
    BY <2>1, LeaveStep DEF SerialInv, IInv, Leave, CallsTyped
  <2>2. CASE call' = [call EXCEPT ![c].oid = call[c].oid] /\ Goto(c, "intendRef")
    BY <2>2 DEF Goto, Alone, SerialInv, IInv, CallsTyped
  <2> QED BY <1>4, <2>1, <2>2
<1>9. UNCHANGED Bystanders
  BY <1>4 DEF repository, bounds, Bystanders
<1>10. pc'[c] \notin CommitLabels /\ LockedInv(c)'
  BY <1>3, <1>8, <1>9 DEF CommitLabels, LockedInv, Bystanders
<1> QED BY <1>1, <1>2, <1>6, <1>7, <1>8, <1>9, <1>10, HolderKeeps, LabelsApart DEF Bystanders

\* The last commit of an untouched worktree that is tidy is the one its record
\* is at when a call is about to commit.
LEMMA TidyHead ==
  ASSUME SerialInv, drift = 0, Tidy, NEW c \in Calls, pc[c] = "commit"
  PROVE  /\ InChain(Len(commits)) /\ row = Len(commits)
         /\ \A i \in 1 .. Len(commits) : records[commits[i].trailer] = i
<1>1. tree /\ row # Null /\ call[c].kind = "checkpoint" /\ pc[c] # "idle"
  BY HoldersWork, LabelsApart
<1>2. head = Len(commits) /\ head = ExpectedParent(c)
  BY <1>1 DEF SerialInv, AccountInv, UntouchedInv, Tidy
<1>3. InChain(Len(commits))
  BY <1>1, <1>2, ParentInChain DEF SerialInv
<1>4. row = Len(commits)
  BY <1>1, <1>3 DEF Tidy
<1>5. Len(commits) \in Nat
  BY LenProperties DEF SerialInv, IInv, RepositoryInv
<1>6. ASSUME Len(commits) # 0 PROVE records[commits[Len(commits)].trailer] = Len(commits)
  <2>1. PICK id \in Ids : records[id] = Len(commits)
    BY <1>3, <1>6 DEF InChain, Base
  <2>2. Len(commits) # Null
    BY <1>3, NullIsApart DEF InChain
  <2>3. IsCheckpoint(records[id], id)
    BY <2>1, <2>2 DEF SerialInv, IInv, RecordInv
  <2> QED BY <2>1, <2>3 DEF IsCheckpoint
<1>7. ASSUME NEW i \in 1 .. Len(commits) PROVE records[commits[i].trailer] = i
  <2>1. CASE i = Len(commits)
    BY <1>5, <1>6, <2>1
  <2>2. CASE i # Len(commits)
    <3>1. i \in 1 .. Len(commits) - 1
      BY <1>5, <2>2
    <3> QED BY <3>1 DEF Tidy
  <2> QED BY <2>1, <2>2
<1> QED BY <1>3, <1>4, <1>7

\* An untouched worktree after a commit of the application.
LEMMA CommitUntouched ==
  ASSUME SerialInv, NEW trailer \in Ids, tree, Commit(trailer), UNCHANGED database, drift' = drift,
         OrphanCommits' => OrphanCommits,
         \A key \in Keys : Held(key)' => Held(key),
         \/ \E key \in Keys : Stuck(key)
         \/ \E c \in Calls : pc[c] = "commit" /\ call[c].id = trailer
                             /\ \A d \in Calls : pc'[d] # "commit"
  PROVE  UntouchedInv'
<1> SUFFICES ASSUME drift' = 0 PROVE UntouchedInv'
  BY DEF UntouchedInv
<1> DEFINE n == Len(commits)
<1>1. /\ drift = 0 /\ attached /\ head = n
      /\ \A oid \in 1 .. n : commits[oid].trailer # Null
      /\ (\E key \in Keys : Stuck(key)) \/ Tidy
  BY DEF SerialInv, AccountInv, UntouchedInv
<1>2. /\ n \in Nat /\ Len(commits') = n + 1 /\ commits'[n + 1].trailer = trailer
      /\ \A i \in 1 .. n : commits'[i] = commits[i]
      /\ head' = n + 1 /\ branch' = head' /\ attached' /\ tree'
  BY <1>1, LenProperties, AppendProperties DEF SerialInv, IInv, RepositoryInv, Commit
<1>3. UNCHANGED <<row, records, journal>>
  BY DEF database
<1>4. \A oid \in 1 .. Len(commits') : commits'[oid].trailer # Null
  <2>1. trailer # Null
    BY NullIsApart
  <2>2. \A oid \in 1 .. n + 1 : oid \in 1 .. n \/ oid = n + 1
    BY <1>2
  <2> QED BY <1>1, <1>2, <2>1, <2>2
<1>5. ASSUME NEW key \in Keys, Stuck(key) PROVE Stuck(key)'
  BY <1>3, <1>5 DEF Stuck, CommitRow
<1>6. ASSUME Tidy, NEW c \in Calls, pc[c] = "commit", call[c].id = trailer,
             \A d \in Calls : pc'[d] # "commit"
      PROVE  Tidy'
  <2>1. /\ row = n /\ \A i \in 1 .. n : records[commits[i].trailer] = i
    BY <1>1, <1>6, TidyHead
  <2>2. records[trailer] = Null /\ row # Null
    BY <1>6, HoldersWork, LabelsApart
  <2>3. ~InChain(Len(commits'))
    <3> SUFFICES ASSUME InChain(Len(commits')) PROVE FALSE
      OBVIOUS
    <3>1. PICK id \in Ids : records[id] = n + 1
      BY <1>2 DEF InChain, Base
    <3>2. n + 1 # Null
      BY <1>2, NullIsApart DEF InChain
    <3>3. IsCheckpoint(n + 1, id)
      BY <3>1, <3>2 DEF SerialInv, IInv, RecordInv
    <3> QED BY <1>2, <3>3 DEF IsCheckpoint
  <2>4. ~OrphanCommits'
    BY <1>6 DEF Tidy
  <2>5. \A i \in 1 .. Len(commits') - 1 : records'[commits'[i].trailer] = i
    BY <1>2, <1>3, <2>1
  <2>6. row' = Len(commits') - 1 /\ records'[commits'[Len(commits')].trailer] = Null
    BY <1>2, <1>3, <2>1, <2>2
  <2>7. row' # Null /\ ~InChain(Len(commits))'
    BY <1>2, <1>3, <2>2, <2>3 DEF InChain
  <2> QED BY <1>6, <2>4, <2>5, <2>6, <2>7 DEF Tidy
<1>7. (\E key \in Keys : Stuck(key)') \/ Tidy'
  BY <1>1, <1>5, <1>6
<1>8. /\ drift' = 0 /\ (row' # Null => tree') /\ (tree' => head' = Len(commits') /\ branch' = head')
      /\ attached' /\ (~tree' => Len(commits') = 0)
  BY <1>2
<1> QED BY <1>4, <1>7, <1>8 DEF UntouchedInv

\* An untouched worktree that is made.
LEMMA AddUntouched ==
  ASSUME SerialInv, NEW create, AddWorktree(create), UNCHANGED database, drift' = drift,
         OrphanCommits' => OrphanCommits,
         \A key \in Keys : Held(key)' => Held(key),
         \A d \in Calls : pc'[d] = "commit" => pc[d] = "commit"
  PROVE  UntouchedInv'
<1> SUFFICES ASSUME drift' = 0 PROVE UntouchedInv'
  BY DEF UntouchedInv
<1>1. /\ drift = 0 /\ attached /\ row = Null /\ ~tree /\ Len(commits) = 0
      /\ (\E key \in Keys : Stuck(key)) \/ Tidy
  BY DEF SerialInv, AccountInv, UntouchedInv, AddWorktree
<1>2. UNCHANGED <<row, records, journal, commits, attached>>
  BY DEF database, AddWorktree
<1>3. tree' => head' = 0 /\ branch' = 0
  <2>1. branch # Null => branch = 0
    <3>1. branch \in 0 .. 0 \cup {Null}
      BY <1>1 DEF SerialInv, IInv, RepositoryInv
    <3> QED BY <3>1
  <2> QED BY <1>1, <2>1 DEF AddWorktree, Base
<1>4. ASSUME NEW key \in Keys, Stuck(key) PROVE Stuck(key)'
  BY <1>2, <1>4 DEF Stuck, CommitRow
<1>5. ASSUME Tidy PROVE Tidy'
  <2>1. \A d \in Calls : pc'[d] # "commit"
    BY <1>1, HoldersWork, LabelsApart
  <2> QED BY <1>1, <1>2, <1>5, <2>1 DEF Tidy
<1> QED BY <1>1, <1>2, <1>3, <1>4, <1>5 DEF UntouchedInv

\* The git command of a call.
LEMMA GitAccount ==
  ASSUME SerialInv, NEW c \in Calls, GitOfCall(c) PROVE AccountInv'
<1>1. /\ UNCHANGED <<database, row, records, journal, call, orphan, drift>>
      /\ Git(Command(c)) \/ UNCHANGED repository
      /\ \A key \in Keys : CommitRow(key)' = CommitRow(key)
  BY DEF GitOfCall, database, bounds, CommitRow
<1>2. ASSUME UNCHANGED repository PROVE UNCHANGED Bystanders
  BY <1>1, <1>2 DEF repository, Bystanders
<1>3. /\ pc[c] \in {"create", "attach", "commit", "freeze", "protect"} /\ pc[c] # "idle"
      /\ pc'[c] = IF pc[c] \in {"create", "attach"} THEN "added"
                  ELSE IF pc[c] = "commit" THEN "observe"
                  ELSE IF pc[c] = "freeze" THEN "frozen" ELSE "protected"
      /\ Alone(c)
  BY DEF GitOfCall, Command, Goto, Alone, SerialInv, IInv, CallsTyped
<1>4. call[c].kind = "checkpoint" => row # Null
  BY <1>3 DEF SerialInv, AccountInv, LockedInv
<1>5. CASE pc[c] # "commit" /\ UNCHANGED Bystanders
  <2>1. pc[c] \notin CommitLabels /\ pc'[c] \notin CommitLabels /\ pc'[c] # "ensured"
    BY <1>3, <1>5 DEF CommitLabels
  <2> QED BY <1>1, <1>3, <1>4, <1>5, <2>1, AsideKeeps DEF Bystanders
<1>6. CASE pc[c] \in {"freeze", "protect"} /\ Git(Command(c))
  <2>1. UNCHANGED <<commits, branch, tree, head, attached>>
    BY <1>6 DEF Git, Command, CreateRef
  <2> QED BY <1>1, <1>5, <1>6, <2>1 DEF Bystanders
<1>7. CASE pc[c] \in {"create", "attach"} /\ Git(Command(c))
  <2>1. PICK create : AddWorktree(create)
    BY <1>7 DEF Git, Command
  <2>2. UNCHANGED commits /\ (tree => tree')
    BY <2>1 DEF AddWorktree
  <2>3. /\ pc[c] \notin CommitLabels /\ pc'[c] \notin CommitLabels /\ pc'[c] # "ensured"
        /\ LockedInv(c)'
    BY <1>1, <1>3, <1>4, <1>7 DEF CommitLabels, LockedInv
  <2>4. \A d \in Calls : d # c => Unmoved(d)
    BY <1>1, <1>3, HoldersWork DEF Alone, Unmoved
  <2>5. \A d \in Calls : LockedInv(d)'
    <3>1. \A d \in Calls : pc[d] \in CommitLabels => records'[call[d].id] = Null
      BY <1>1, HoldersWork
    <3> QED BY <1>1, <2>2, <2>3, <2>4, <3>1, LockedKept
  <2>6. ASSUME NEW key \in Keys PROVE (Unspent(key)' => Unspent(key)) /\ (Held(key)' => Held(key))
    BY <1>1, <1>3, <2>3, LabelsApart DEF Alone, Unspent, Held
  <2>7. CommitsAreAttributed'
    BY <1>1, <2>2, <2>6, AttributionKept DEF SerialInv, AccountInv, OrphanCommits
  <2>8. UntouchedInv'
    <3>1. \A d \in Calls : pc'[d] = "commit" => pc[d] = "commit"
      BY <1>3, <2>3, LabelsApart DEF Alone
    <3> QED BY <1>1, <2>1, <2>6, <3>1, AddUntouched DEF OrphanCommits
  <2>9. CommitRowsCommit'
    BY <1>1 DEF SerialInv, AccountInv, CommitRowsCommit
  <2> QED BY <2>5, <2>7, <2>8, <2>9 DEF AccountInv
<1>8. CASE pc[c] = "commit"
  <2>1. PICK key \in Keys : key = call[c].key
    BY <1>8, HoldersWork, LabelsApart
  <2>2. PICK id \in Ids : id = call[c].id
    BY <1>8, HoldersWork, LabelsApart
  <2>3. /\ pc[c] \in CommitLabels /\ pc'[c] = "observe" /\ pc'[c] \in CommitLabels
        /\ Intended(key, id) /\ CommitRow(key) # Null /\ CommitRow(key).outcome = Null
        /\ records[id] = Null /\ row # Null /\ tree /\ Works(c)
    BY <1>3, <1>8, <2>1, <2>2, HoldersWork, LabelsApart DEF Intended, CommitRow
  <2>4. LockedInv(c)'
    <3>1. CommitRow(call[c].key)'.outcome = Null /\ records'[call'[c].id] = Null /\ row' # Null
      BY <1>1, <2>1, <2>2, <2>3 DEF CommitRow
    <3> QED BY <2>3, <3>1 DEF LockedInv
  <2>5. CASE UNCHANGED repository
    BY <1>1, <1>2, <1>3, <2>3, <2>4, <2>5, KeySlots, HoldersWork, HolderKeeps
       DEF Bystanders, Intended, CommitRow
  <2>6. CASE Commit(id)
    <3>1. \A d \in Calls : d # c => pc[d] \notin CommitLabels /\ Unmoved(d)
      BY <1>1, <1>3, <2>3, OneHolder DEF Alone, Unmoved
    <3>2. \A d \in Calls : LockedInv(d)'
      <4>1. tree' = tree
        BY <2>6 DEF Commit
      <4> QED BY <1>1, <2>4, <3>1, <4>1, LockedKept
    <3>3. ASSUME NEW k \in Keys
          PROVE  /\ ~Unspent(k)' /\ (Held(k)' => Held(k))
      BY <1>1, <1>3, <2>3, <3>1, LabelsApart DEF Alone, Unspent, Held
    <3>4. CommitsAreAttributed'
      <4>1. PICK f, spare : Attribution(f, spare)
        BY DEF SerialInv, AccountInv, CommitsAreAttributed
      <4>2. Unspent(key)
        BY <1>8, <2>1 DEF Unspent
      <4>3. /\ \A oid \in Stamped : f[oid] # key
            /\ OrphanCommits => key # spare
        BY <4>1, <4>2 DEF Attribution
      <4>4. OrphanCommits' => orphan' = orphan /\ key # spare
        BY <1>1, <4>3 DEF OrphanCommits
      <4> QED BY <1>1, <2>3, <2>6, <3>3, <4>1, <4>3, <4>4, AttributionGrows DEF SerialInv
    <3>5. UntouchedInv'
      <4>1. \A d \in Calls : pc'[d] # "commit"
        BY <1>3, <2>3, <3>1, LabelsApart DEF Alone
      <4>2. OrphanCommits' => OrphanCommits
        BY <1>1 DEF OrphanCommits
      <4> QED BY <1>1, <1>8, <2>2, <2>3, <2>6, <3>3, <4>1, <4>2, CommitUntouched
    <3>6. CommitRowsCommit'
      BY <1>1 DEF SerialInv, AccountInv, CommitRowsCommit
    <3> QED BY <3>2, <3>4, <3>5, <3>6 DEF AccountInv
  <2>7. Git(Command(c)) => Commit(id)
    BY <1>8, <2>2 DEF Git, Command
  <2> QED BY <1>1, <2>5, <2>6, <2>7
<1> QED BY <1>1, <1>2, <1>3, <1>5, <1>6, <1>7, <1>8

\* The record of the worktree is made, at the base.
LEMMA EnsurePersistAccount ==
  ASSUME SerialInv, NEW c \in Calls, EnsurePersist(c) PROVE AccountInv'
<1>6. Base # Null
  BY NullIsApart DEF Oids, Base
<1>1. /\ row' = Recorded(row) /\ row' # Null /\ pc[c] = "ensured" /\ tree
      /\ UNCHANGED <<commits, branch, tree, head, attached, records, orphan, drift, journal>>
      /\ \A key \in Keys : CommitRow(key)' = CommitRow(key)
  BY <1>6 DEF EnsurePersist, At, Recorded, SerialInv, AccountInv, LockedInv, repository,
     bounds, CommitRow
<1>2. Alone(c) /\ pc'[c] = "idle"
  BY LeaveStep DEF EnsurePersist, Leave, SerialInv, IInv, CallsTyped
<1>3. pc[c] \notin CommitLabels /\ pc'[c] \notin CommitLabels /\ LockedInv(c)'
  BY <1>1, <1>2 DEF CommitLabels, LockedInv
<1>4. CASE row # Null
  <2>1. row' = row
    BY <1>1, <1>4 DEF Recorded
  <2> QED BY <1>1, <1>2, <1>3, <2>1, LabelsApart, AsideKeeps
<1>5. CASE row = Null
  <2>1. \A d \in Calls : d # c => Unmoved(d)
    BY <1>1, <1>2, HoldersWork DEF Alone, Unmoved
  <2>2. \A d \in Calls : LockedInv(d)'
    <3>1. \A d \in Calls : pc[d] \in CommitLabels => records'[call[d].id] = Null
      BY <1>1, HoldersWork
    <3> QED BY <1>1, <1>3, <2>1, <3>1, LockedKept
  <2>3. ASSUME NEW key \in Keys PROVE (Unspent(key)' => Unspent(key)) /\ (Held(key)' => Held(key))
    BY <1>2, <1>3, LabelsApart DEF Alone, Unspent, Held
  <2>4. CommitsAreAttributed'
    BY <1>1, <2>3, AttributionKept DEF SerialInv, AccountInv, OrphanCommits
  <2>5. CommitRowsCommit'
    BY <1>1 DEF SerialInv, AccountInv, CommitRowsCommit
  <2>6. UntouchedInv'
    <3> SUFFICES ASSUME drift' = 0 PROVE UntouchedInv'
      BY DEF UntouchedInv
    <3>1. /\ attached /\ (tree => head = Len(commits) /\ branch = head)
          /\ \A oid \in 1 .. Len(commits) : commits[oid].trailer # Null
          /\ (\E key \in Keys : Stuck(key)) \/ Tidy
      BY <1>1 DEF SerialInv, AccountInv, UntouchedInv
    <3>2. ASSUME NEW key \in Keys, Stuck(key) PROVE Stuck(key)'
      BY <1>1, <2>3, <3>2 DEF Stuck, CommitRow
    <3>3. ASSUME Tidy PROVE Tidy'
      <4>1. Len(commits) = 0 /\ row' = Base
        BY <1>1, <1>5, <3>3 DEF Tidy, Recorded
      <4>2. InChain(Len(commits))'
        BY <1>1, <4>1, NullIsApart DEF InChain, Base, Oids
      <4>3. \A d \in Calls : pc'[d] # "commit"
        BY <1>2, <1>5, HoldersWork, LabelsApart DEF Alone
      <4> QED BY <1>1, <3>3, <4>1, <4>2, <4>3 DEF Tidy, OrphanCommits, Base
    <3> QED BY <1>1, <3>1, <3>2, <3>3 DEF UntouchedInv
  <2> QED BY <2>2, <2>4, <2>5, <2>6 DEF AccountInv
<1> QED BY <1>4, <1>5

\* Only the last commit can be one that is not recorded yet.
LEMMA PersistAccount ==
  ASSUME SerialInv, NEW c \in Calls, PersistCheckpoint(c) PROVE AccountInv'
<1>1. /\ pc[c] = "persist" /\ pc[c] \notin CommitLabels /\ Works(c)
  BY DEF PersistCheckpoint, At, CommitLabels, Works, Waits
<1>2. CASE End(c)
  BY <1>1, <1>2, EndsAside
<1>3. CASE ~End(c)
  <2>1. PICK id \in Ids : id = call[c].id
    BY <1>1 DEF SerialInv, IInv, CallInv, DoneLabels
  <2>2. PICK oid : oid = call[c].oid
    OBVIOUS
  <2>3. /\ records[id] = Null /\ records' = [records EXCEPT ![id] = oid] /\ row' = oid
        /\ Leave(c) /\ IsCheckpoint(oid, id)
        /\ UNCHANGED <<commits, branch, tree, head, attached, orphan, drift, journal>>
    BY <1>1, <1>3, <2>1, <2>2
       DEF PersistCheckpoint, NewRecord, repository, bounds, SerialInv, IInv, CallInv, DoneLabels
  <2>4. /\ records'[id] = oid /\ \A i \in Ids : i # id => records'[i] = records[i]
    BY <2>3 DEF SerialInv, IInv, DatabaseInv
  <2>5. oid \in Oids /\ oid # Null /\ oid \in 1 .. Len(commits) /\ commits[oid].trailer = id
    BY <2>3, LenProperties, NullIsApart
       DEF IsCheckpoint, SerialInv, IInv, RepositoryInv, Oids, Base
  <2>6. Alone(c) /\ pc'[c] = "idle" /\ \A d \in Calls : pc[d] \notin CommitLabels
    BY <1>1, <2>3, LeaveStep, OneHolder DEF Leave, SerialInv, IInv, CallsTyped
  <2>7. /\ \A d \in Calls : pc'[d] \notin CommitLabels /\ (d # c => Unmoved(d))
        /\ LockedInv(c)'
    BY <2>6, LabelsApart DEF Alone, Unmoved, LockedInv
  <2>8. \A d \in Calls : LockedInv(d)'
    BY <2>3, <2>5, <2>6, <2>7, LockedKept
  <2>9. ASSUME NEW key \in Keys PROVE ~Unspent(key)' /\ ~Held(key)'
    BY <2>7, LabelsApart DEF Unspent, Held
  <2>10. CommitsAreAttributed'
    BY <2>3, <2>9, AttributionKept DEF SerialInv, AccountInv, OrphanCommits, CommitRow
  <2>11. CommitRowsCommit'
    BY <2>3 DEF SerialInv, AccountInv, CommitRowsCommit, CommitRow
  <2>12. UntouchedInv'
    <3> SUFFICES ASSUME drift' = 0 PROVE UntouchedInv'
      BY DEF UntouchedInv
    <3>1. /\ drift = 0 /\ attached /\ (tree => head = Len(commits) /\ branch = head)
          /\ (~tree => Len(commits) = 0)
          /\ \A i \in 1 .. Len(commits) : commits[i].trailer # Null
          /\ (\E key \in Keys : Stuck(key)) \/ Tidy
      BY <2>3 DEF SerialInv, AccountInv, UntouchedInv
    <3>2. tree
      BY <3>1, <2>5
    <3>3. ASSUME NEW key \in Keys, Stuck(key) PROVE Stuck(key)'
      BY <2>3, <2>9, <3>3 DEF Stuck, CommitRow
    <3>4. ASSUME Tidy PROVE Tidy'
      <4>1. Len(commits) \in Nat
        BY LenProperties DEF SerialInv, IInv, RepositoryInv
      <4>2. oid = Len(commits)
        <5>1. CASE oid \in 1 .. Len(commits) - 1
          <6>1. records[commits[oid].trailer] = oid
            BY <3>4, <5>1 DEF Tidy
          <6> QED BY <2>3, <2>5, <6>1
        <5> QED BY <2>5, <4>1, <5>1
      <4>3. InChain(Len(commits))'
        BY <2>3, <2>4, <2>5, <4>2 DEF InChain
      <4>4. ASSUME NEW i \in 1 .. Len(commits) - 1 PROVE records'[commits[i].trailer] = i
        <5>1. records[commits[i].trailer] = i /\ commits[i].trailer \in Ids
          <6>1. i \in 1 .. Len(commits) /\ commits[i].trailer # Null
            BY <3>1, <4>1
          <6>2. commits[i] \in [parent : Oids, trailer : Ids \cup {Null}]
            BY <6>1, ElementOfSeq DEF SerialInv, IInv, RepositoryInv
          <6> QED BY <3>4, <6>1, <6>2 DEF Tidy
        <5>2. commits[i].trailer # id
          <6>1. i # Null
            <7>1. i \in Oids
              BY <2>5, <4>1, <4>2, NullIsApart DEF Oids, Base
            <7> QED BY <7>1, NullIsApart
          <6> QED BY <2>3, <5>1, <6>1
        <5> QED BY <2>4, <5>1, <5>2
      <4>5. \A d \in Calls : pc'[d] # "commit"
        BY <2>7, LabelsApart
      <4> QED BY <2>3, <2>5, <3>4, <4>2, <4>3, <4>4, <4>5 DEF Tidy, OrphanCommits
    <3> QED BY <2>3, <3>1, <3>2, <3>3, <3>4 DEF UntouchedInv
  <2> QED BY <2>8, <2>10, <2>11, <2>12 DEF AccountInv
<1> QED BY <1>2, <1>3

\* The worker dies; what its calls held is stuck from now on.
LEMMA DieAccount ==
  ASSUME SerialInv, Die,
         UNCHANGED <<commits, branch, tree, head, attached, row, records, drift>>,
         \A key \in Keys : CommitRow(key) # Null =>
           /\ CommitRow(key)' # Null /\ CommitRow(key)'.expected = CommitRow(key).expected
           /\ Stuck(key) => CommitRow(key)'.outcome # "applied",
         \A key \in Keys : CommitRow(key) = Null => CommitRow(key)' = Null,
         OrphanCommits' => orphan' = orphan
  PROVE  AccountInv'
<1>1. \A d \in Calls : pc'[d] = "idle"
  BY DEF Die
<1>2. \A d \in Calls : LockedInv(d)' /\ pc'[d] # "commit"
  BY <1>1, LabelsApart DEF LockedInv
<1>3. \A key \in Keys : ~Unspent(key)' /\ ~Held(key)'
  BY <1>1, LabelsApart DEF Unspent, Held
<1>4. \A key \in Keys : Stuck(key) => Stuck(key)'
  BY <1>3 DEF Stuck
<1> QED BY <1>2, <1>3, <1>4, AccountKept

LEMMA CrashAccount == ASSUME SerialInv, Crash PROVE AccountInv'
<1>1. /\ Die /\ UNCHANGED <<journal, row, records>>
      /\ UNCHANGED <<commits, branch, tree, head, attached, drift>>
      /\ \A key \in Keys : CommitRow(key)' = CommitRow(key)
      /\ orphan' \in {orphan} \cup {Command(c) : c \in Calls}
  BY DEF Crash, repository, database, CommitRow
<1>2. CASE OrphanCommits' => orphan' = orphan
  BY <1>1, <1>2, DieAccount DEF Stuck
<1>3. ASSUME NEW c \in Calls, OrphanCommits', orphan' = Command(c) PROVE AccountInv'
  <2>1. pc[c] = "commit" /\ pc[c] \in CommitLabels
    BY <1>3, LabelsApart DEF OrphanCommits, Command
  <2>2. PICK key \in Keys : key = call[c].key
    BY <2>1, HoldersWork
  <2>3. orphan'.id = call[c].id /\ Intended(key, call[c].id) /\ Unspent(key) /\ Held(key)
    BY <1>3, <2>1, <2>2, HoldersWork DEF Command, Unspent, Held
  <2>4. \A d \in Calls : pc'[d] = "idle"
    BY <1>1 DEF Die
  <2>5. \A k : ~Unspent(k)' /\ ~Held(k)'
    BY <2>4, LabelsApart DEF Unspent, Held
  <2>6. \A d \in Calls : LockedInv(d)'
    BY <2>4, LabelsApart DEF LockedInv
  <2>7. CommitsAreAttributed'
    <3>1. PICK f, spare : Attribution(f, spare)
      BY DEF SerialInv, AccountInv, CommitsAreAttributed
    <3>2. Stamped' = Stamped /\ \A k, id : Intended(k, id)' <=> Intended(k, id)
      BY <1>1 DEF Stamped, Intended
    <3>3. \A oid \in Stamped : Intended(f[oid], commits[oid].trailer)'
      <4> SUFFICES ASSUME NEW oid \in Stamped PROVE Intended(f[oid], commits[oid].trailer)'
        OBVIOUS
      <4>1. Intended(f[oid], commits[oid].trailer)
        BY <3>1 DEF Attribution
      <4> QED BY <1>1, <4>1 DEF Intended
    <3>4. \A oid \in Stamped : f[oid] # key
      BY <2>3, <3>1 DEF Attribution
    <3>5. Intended(key, orphan'.id)
      BY <2>3
    <3>6. Intended(key, orphan.id)'
      BY <1>1, <3>5 DEF Intended
    <3>7. Attribution(f, key)'
      BY <2>5, <3>1, <3>2, <3>3, <3>4, <3>6 DEF Attribution
    <3> QED BY <3>7 DEF CommitsAreAttributed
  <2>8. UntouchedInv'
    <3>1. CommitRow(key) # Null /\ CommitRow(key).outcome = Null
      BY <2>3, KeysHeld
    <3>2. Stuck(key)'
      BY <1>1, <2>5, <3>1, NullIsNoOutcome DEF Stuck, Outcomes
    <3> QED BY <1>1, <3>2 DEF UntouchedInv, SerialInv, AccountInv
  <2>9. CommitRowsCommit'
    BY <1>1 DEF SerialInv, AccountInv, CommitRowsCommit
  <2> QED BY <2>6, <2>7, <2>8, <2>9 DEF AccountInv
<1> QED BY <1>1, <1>2, <1>3

LEMMA CrashAfterObservationAccount ==
  ASSUME SerialInv, NEW c \in Calls, CrashAfterObservation(c) PROVE AccountInv'
<1>1. /\ Die /\ pc[c] = "compare" /\ pc[c] \in CommitLabels
      /\ UNCHANGED <<commits, branch, tree, head, attached, row, records, drift, orphan>>
  BY LabelsApart DEF CrashAfterObservation, At, repository
<1>2. PICK key \in Keys : key = call[c].key
  BY <1>1, HoldersWork
<1>3. /\ Slot(c) = <<key, "commit">> /\ CommitRow(key) # Null /\ Held(key)
      /\ CommitRow(key) \in Rows
  BY <1>1, <1>2, HoldersWork, SlotOfCall DEF SerialInv, Works, Waits, Intended, CommitRow, Held
<1>4. PICK r : r = Observed(CommitRow(key), "applied", call[c].oid)
  OBVIOUS
<1>5. CommitRow(key)' = r /\ \A k \in Keys : k # key => CommitRow(k)' = CommitRow(k)
  <2>1. journal' = [journal EXCEPT ![<<key, "commit">>] = r]
    BY <1>3, <1>4, KeySlots DEF CrashAfterObservation, SerialInv, IInv, DatabaseInv, CommitRow
  <2> QED BY <2>1, CommitSlot DEF SerialInv
<1>6. r # Null /\ r.expected = CommitRow(key).expected
  <2>1. call[c].oid \in Oids \cup {Null} /\ "applied" \in Outcomes
    BY DEF SerialInv, IInv, CallsTyped, CallRecords, Outcomes
  <2> QED BY <1>3, <1>4, <2>1, SettledIsTyped, NullIsApart
<1>7. ASSUME NEW k \in Keys
      PROVE  /\ CommitRow(k) # Null =>
                  /\ CommitRow(k)' # Null /\ CommitRow(k)'.expected = CommitRow(k).expected
                  /\ Stuck(k) => CommitRow(k)'.outcome # "applied"
             /\ CommitRow(k) = Null => CommitRow(k)' = Null
  <2>1. CASE k = key
    BY <1>3, <1>5, <1>6, <2>1 DEF Stuck
  <2>2. CASE k # key
    BY <1>5, <2>2 DEF Stuck
  <2> QED BY <2>1, <2>2
<1> QED BY <1>1, <1>7, DieAccount DEF OrphanCommits

\* The git process of a dead worker; the commit it makes has a key to spare, and
\* its intent is stuck already.
LEMMA OrphanAccount == ASSUME SerialInv, Orphan PROVE AccountInv'
<1>1. /\ orphan # Null /\ orphan' = Null /\ ~OrphanCommits'
      /\ UNCHANGED <<database, row, records, journal, pc, call, drift>>
      /\ Git(orphan) \/ UNCHANGED repository
      /\ CommandInv(orphan) /\ \A key \in Keys : CommitRow(key)' = CommitRow(key)
  BY DEF Orphan, database, bounds, OrphanCommits, CommitRow, SerialInv, IInv
<1>2. /\ \A d \in Calls : Unmoved(d)
      /\ \A key \in Keys : (Unspent(key)' <=> Unspent(key)) /\ (Held(key)' <=> Held(key))
  BY <1>1, HoldersWork DEF Unmoved, Unspent, Held
<1>3. CASE UNCHANGED <<commits, branch, tree, head, attached>>
  <2>1. \A key \in Keys : Stuck(key) => Stuck(key)'
    BY <1>1, <1>2 DEF Stuck
  <2> QED BY <1>1, <1>2, <1>3, <2>1, AccountKept DEF SerialInv, AccountInv, CommitRowsCommit
<1>4. ASSUME NEW create, AddWorktree(create) PROVE AccountInv'
  <2>1. UNCHANGED commits /\ (tree => tree')
    BY <1>4 DEF AddWorktree
  <2>2. \A d \in Calls : LockedInv(d)'
    <3>1. \A d \in Calls : pc[d] \in CommitLabels => records'[call[d].id] = Null
      BY <1>1, HoldersWork
    <3> QED BY <1>1, <1>2, <2>1, <3>1, LockedKept
  <2>3. CommitsAreAttributed'
    BY <1>1, <1>2, <2>1, AttributionKept DEF SerialInv, AccountInv
  <2>4. UntouchedInv'
    BY <1>1, <1>2, <1>4, AddUntouched
  <2>5. CommitRowsCommit'
    BY <1>1 DEF SerialInv, AccountInv, CommitRowsCommit
  <2> QED BY <2>2, <2>3, <2>4, <2>5 DEF AccountInv
<1>5. ASSUME NEW id \in Ids, tree, orphan = [op |-> "commit", id |-> id], Commit(id)
      PROVE  AccountInv'
  <2>1. OrphanCommits /\ orphan.id = id
    BY <1>1, <1>5 DEF OrphanCommits
  <2>2. PICK f, spare : Attribution(f, spare)
    BY DEF SerialInv, AccountInv, CommitsAreAttributed
  <2>3. /\ spare \in Keys /\ Intended(spare, id) /\ ~Unspent(spare)'
        /\ \A oid \in Stamped : f[oid] # spare
    BY <1>2, <2>1, <2>2 DEF Attribution
  <2>4. CommitsAreAttributed'
    BY <1>1, <1>2, <1>5, <2>2, <2>3, AttributionGrows DEF SerialInv
  <2>5. \A d \in Calls : LockedInv(d)'
    <3>1. \A d \in Calls : pc[d] \in CommitLabels => records'[call[d].id] = Null
      BY <1>1, HoldersWork
    <3>2. tree' = tree
      BY <1>5 DEF Commit
    <3> QED BY <1>1, <1>2, <3>1, <3>2, LockedKept
  <2>6. UntouchedInv'
    <3>1. drift = 0 => \E key \in Keys : Stuck(key)
      BY <2>1 DEF SerialInv, AccountInv, UntouchedInv, Tidy
    <3>2. drift # 0 => UntouchedInv'
      BY <1>1 DEF UntouchedInv
    <3> QED BY <1>1, <1>2, <1>5, <3>1, <3>2, CommitUntouched
  <2>7. CommitRowsCommit'
    BY <1>1 DEF SerialInv, AccountInv, CommitRowsCommit
  <2> QED BY <2>4, <2>5, <2>6, <2>7 DEF AccountInv
<1>6. CASE UNCHANGED repository
  BY <1>3, <1>6 DEF repository
<1>7. CASE Git(orphan)
  <2>1. CASE orphan.op = "add"
    BY <1>4, <1>7, <2>1 DEF Git
  <2>2. CASE orphan.op = "ref"
    BY <1>3, <1>7, <2>2 DEF Git, CreateRef
  <2>3. CASE orphan.op = "commit"
    <3>1. PICK id \in Ids : orphan = [op |-> "commit", id |-> id] /\ tree
      BY <1>1, <2>3 DEF CommandInv
    <3>2. Commit(id)
      BY <1>7, <3>1 DEF Git
    <3> QED BY <1>5, <3>1, <3>2
  <2> QED BY <1>7, <2>1, <2>2, <2>3 DEF Git
<1> QED BY <1>1, <1>6, <1>7

\* The user's own git; from now on nothing is claimed of the worktree.
LEMMA UserGitAccount == ASSUME SerialInv, UserGit PROVE AccountInv'
<1>1. /\ UNCHANGED <<row, records, journal, pc, call, orphan>>
      /\ \A key \in Keys : CommitRow(key)' = CommitRow(key)
      /\ tree' = tree
  BY DEF UserGit, database, CommitRow, Commit, CreateRef
<1>2. /\ \A d \in Calls : Unmoved(d)
      /\ \A key \in Keys : Unspent(key)' <=> Unspent(key)
  BY <1>1, HoldersWork DEF Unmoved, Unspent
<1>3. UntouchedInv'
  <2>1. drift' # 0
    BY DEF UserGit, SerialInv
  <2> QED BY <2>1 DEF UntouchedInv
<1>4. \A d \in Calls : LockedInv(d)'
  <2>1. \A d \in Calls : pc[d] \in CommitLabels => records'[call[d].id] = Null
    BY <1>1, HoldersWork
  <2> QED BY <1>1, <1>2, <2>1, LockedKept
<1>5. CommitRowsCommit'
  BY <1>1 DEF SerialInv, AccountInv, CommitRowsCommit
<1>6. CommitsAreAttributed'
  <2>1. CASE UNCHANGED commits
    BY <1>1, <1>2, <2>1, AttributionKept DEF SerialInv, AccountInv
  <2>2. CASE Commit(Null)
    <3>1. PICK f, spare : Attribution(f, spare)
      BY DEF SerialInv, AccountInv, CommitsAreAttributed
    <3>2. OrphanCommits' => orphan' = orphan
      BY <1>1
    <3> QED BY <1>1, <1>2, <2>2, <3>1, <3>2, AttributionGrows DEF SerialInv
  <2> QED BY <2>1, <2>2 DEF UserGit, CreateRef
<1> QED BY <1>3, <1>4, <1>5, <1>6 DEF AccountInv

\* A commit whose observation was not recorded is not completed by a recovery.
LEMMA ReconcileAccount ==
  ASSUME SerialInv, NEW slot \in Slots, Reconcile(slot) PROVE AccountInv'
<1>1. /\ UNCHANGED <<repository, row, records, pc, call, orphan, drift>>
      /\ UNCHANGED <<commits, branch, tree, head, attached>>
      /\ journal[slot] \in Rows /\ journal[slot] # Null
      /\ journal' = [journal EXCEPT ![slot] = Settled(@, ReconcileOutcome(slot), Null)]
      /\ \A d \in Calls : pc[d] = "idle"
  BY DEF Reconcile, Reconciled, repository, bounds, At, SerialInv, IInv, DatabaseInv
<1>2. /\ \A d \in Calls : Unmoved(d)
      /\ \A key \in Keys : (Unspent(key)' <=> Unspent(key)) /\ (Held(key)' <=> Held(key))
  BY <1>1, LabelsApart DEF Unmoved, Unspent, Held
<1>3. ReconcileOutcome(slot) \in Outcomes
  BY <1>1 DEF ReconcileOutcome, RefOutcome, ObservedByRecovery, Outcomes, Rows
<1>4. PICK r : r = Settled(journal[slot], ReconcileOutcome(slot), Null)
  OBVIOUS
<1>5. journal' = [journal EXCEPT ![slot] = r]
  BY <1>1, <1>4 DEF SerialInv, IInv, DatabaseInv
<1>6. r # Null /\ r.expected = journal[slot].expected /\ r.outcome = ReconcileOutcome(slot)
  <2>1. r \in Rows /\ r.expected = journal[slot].expected
    BY <1>1, <1>3, <1>4, SettledIsTyped
  <2>2. r.outcome = ReconcileOutcome(slot)
    BY <1>1, <1>4 DEF Settled, Observed, Rows
  <2> QED BY <2>1, <2>2, NullIsApart
<1>7. ASSUME NEW key \in Keys
      PROVE  IF CommitRow(key) # Null
               THEN /\ CommitRow(key)' # Null
                    /\ CommitRow(key)'.expected = CommitRow(key).expected
                    /\ Stuck(key) => Stuck(key)'
               ELSE CommitRow(key)' = Null
  <2>1. CASE slot # <<key, "commit">>
    <3>1. CommitRow(key)' = CommitRow(key)
      BY <1>5, <2>1, KeySlots DEF CommitRow, SerialInv, IInv, DatabaseInv
    <3> QED BY <1>2, <3>1 DEF Stuck
  <2>2. CASE slot = <<key, "commit">>
    <3>1. CommitRow(key)' = r /\ CommitRow(key) = journal[slot]
      BY <1>5, <2>2, CommitSlot DEF SerialInv, CommitRow
    <3>2. CommitRow(key) # Null /\ journal[slot].expected.op = "commit"
      BY <1>1, <3>1 DEF SerialInv, AccountInv, CommitRowsCommit
    <3>3. journal[slot].outcome # "applied" => r.outcome # "applied"
      BY <1>6, <3>2 DEF ReconcileOutcome, ObservedByRecovery
    <3>4. Stuck(key) => Stuck(key)'
      BY <1>2, <1>6, <3>1, <3>3 DEF Stuck
    <3> QED BY <1>6, <3>1, <3>2, <3>4
  <2> QED BY <2>1, <2>2
<1> QED BY <1>1, <1>2, <1>7, AccountKept DEF OrphanCommits

-----------------------------------------------------------------------------
(* The serial argument                                                     *)

LEMMA InitSerial == Init => SerialInv
<1> SUFFICES ASSUME Init PROVE SerialInv
  OBVIOUS
<1>1. commits = <<>> /\ Len(commits) = 0 /\ queue = <<>> /\ Len(queue) = 0
      /\ queue \in Seq(Calls) /\ \A c \in Calls : pc[c] = "idle"
  BY EmptySeq DEF Init
<1>2. LockInv
  BY <1>1 DEF LockInv, Works, Waits
<1>3. FlagsInv
  BY DEF Init, FlagsInv
<1>4. OutcomeInv
  BY DEF Init, OutcomeInv, RowIsSound
<1>5. \A c \in Calls : LockedInv(c)
  BY <1>1, LabelsApart DEF LockedInv
<1>6. CommitRowsCommit
  BY KeySlots DEF CommitRowsCommit, CommitRow, Init
<1>7. ~OrphanCommits
  BY DEF Init, OrphanCommits
<1>8. CommitsAreAttributed
  <2>1. Stamped = {}
    BY <1>1 DEF Stamped
  <2>2. PICK f : f = [oid \in {} |-> Null]
    OBVIOUS
  <2>3. Attribution(f, Null)
    BY <1>7, <2>1, <2>2 DEF Attribution
  <2> QED BY <2>3 DEF CommitsAreAttributed
<1>9. UntouchedInv
  <2>1. row = Null /\ tree = FALSE /\ attached = TRUE
    BY DEF Init
  <2>2. Tidy
    BY <1>1, <1>7, <2>1 DEF Tidy
  <2> QED BY <1>1, <2>1, <2>2 DEF UntouchedInv
<1>10. drift \in Nat
  BY DEF Init
<1> QED BY <1>2, <1>3, <1>4, <1>5, <1>6, <1>8, <1>9, <1>10, InitIInv DEF SerialInv, AccountInv

LEMMA StutterAccount == ASSUME SerialInv, UNCHANGED vars PROVE AccountInv'
<1>1. /\ UNCHANGED <<commits, branch, tree, head, attached, row, records, drift>>
      /\ UNCHANGED <<journal, pc, call, orphan>>
      /\ \A key \in Keys : CommitRow(key)' = CommitRow(key)
  BY DEF vars, repository, database, bounds, CommitRow
<1>2. /\ \A d \in Calls : Unmoved(d)
      /\ \A key \in Keys : (Unspent(key)' <=> Unspent(key)) /\ (Stuck(key) => Stuck(key)')
  BY <1>1, HoldersWork DEF Unmoved, Unspent, Held, Stuck
<1> QED BY <1>1, <1>2, AccountKept DEF SerialInv, AccountInv, CommitRowsCommit

LEMMA StepAccount == ASSUME SerialInv, [Next]_vars PROVE AccountInv'
<1>1. ASSUME NEW c \in Calls, StartEnsure(c) \/ StartCheckpoint(c) \/ StartProtect(c)
      PROVE  AccountInv'
  <2>1. {"ensure", "checkpoint", "protect"} \subseteq Kinds
    BY DEF Kinds
  <2> QED BY <1>1, <2>1, StartAccount DEF StartEnsure, StartCheckpoint, StartProtect
<1>2. ASSUME NEW c \in Calls, Progress(c) PROVE AccountInv'
  <2>1. CASE AskForLock(c) \/ GitOfCall(c) \/ PersistCheckpoint(c)
    BY <2>1, AskForLockAccount, GitAccount, PersistAccount
  <2>2. CASE EnsureLocked(c) \/ EnsureObserve(c) \/ EnsurePersist(c)
    BY <2>2, EnsureLockedAccount, EnsureObserveAccount, EnsurePersistAccount
  <2>3. CASE CheckpointLocked(c) \/ CheckHead(c) \/ ObserveHead(c) \/ CompareCommit(c)
    BY <2>3, CheckpointLockedAccount, HeadAccount, CompareAccount
  <2>4. CASE IntendRef(c) \/ ReadRef(c) \/ ObserveRef(c)
    BY <2>4, RefAccount
  <2>5. CASE ProtectLocked(c) \/ ProtectObserve(c) \/ Return(c)
    BY <2>5, ProtectAccount
  <2> QED BY <1>2, <2>1, <2>2, <2>3, <2>4, <2>5 DEF Progress
<1>3. ASSUME NEW c \in Calls, CrashAfterObservation(c) PROVE AccountInv'
  BY <1>3, CrashAfterObservationAccount
<1>4. CASE Crash \/ Orphan \/ UserGit
  BY <1>4, CrashAccount, OrphanAccount, UserGitAccount
<1>5. ASSUME NEW slot \in Slots, Reconcile(slot) PROVE AccountInv'
  BY <1>5, ReconcileAccount
<1>6. CASE UNCHANGED vars
  BY <1>6, StutterAccount
<1> QED BY <1>1, <1>2, <1>3, <1>4, <1>5, <1>6 DEF Next

LEMMA StepSerial == SerialInv /\ [Next]_vars => SerialInv'
<1> SUFFICES ASSUME SerialInv, [Next]_vars PROVE SerialInv'
  OBVIOUS
<1>1. IInv' /\ LockInv' /\ FlagsInv'
  BY StepIInv, LockStep, FlagsStep DEF SerialInv
<1>2. (drift \in Nat)'
  BY DriftStep DEF SerialInv
<1>3. OutcomeInv' /\ AccountInv'
  BY OutcomeStep, StepAccount DEF SerialInv
<1> QED BY <1>1, <1>2, <1>3 DEF SerialInv

THEOREM SerialInductive == Spec => []SerialInv
BY InitSerial, StepSerial, PTL DEF Spec

-----------------------------------------------------------------------------
(* What follows from it                                                    *)

\* The variables have their types, and no operation is completed that was not
\* observed to be applied.
THEOREM TypeCorrect == Spec => []TypeOK
<1>1. SerialInv => TypeOK
  BY TypesFollow DEF SerialInv
<1> QED BY <1>1, SerialInductive, PTL

LEMMA AttributedOnce ==
  ASSUME CommitsAreAttributed, NEW id \in Ids
  PROVE  Cardinality({oid \in 1 .. Len(commits) : commits[oid].trailer = id})
           <= Cardinality({key \in Keys : Intended(key, id)})
<1>1. PICK f, spare : Attribution(f, spare)
  BY DEF CommitsAreAttributed
<1>2. PICK made, intents :
        /\ made = {oid \in 1 .. Len(commits) : commits[oid].trailer = id}
        /\ intents = {key \in Keys : Intended(key, id)}
  OBVIOUS
<1>3. IsFiniteSet(intents)
  <2>1. IsFiniteSet(Keys) /\ intents \in SUBSET Keys
    BY <1>2, ConstantsAssumption DEF ConstantsAssumption
  <2> QED BY <2>1, FS_Subset
<1>4. made \subseteq Stamped
  BY <1>2, NullIsApart DEF Stamped
<1>5. PICK g : g = [oid \in made |-> f[oid]]
  OBVIOUS
<1>6. \A oid \in made : g[oid] \in intents
  <2> SUFFICES ASSUME NEW oid \in made PROVE f[oid] \in intents
    BY <1>5
  <2>1. f[oid] \in Keys /\ Intended(f[oid], commits[oid].trailer)
    BY <1>1, <1>4 DEF Attribution
  <2>2. commits[oid].trailer = id
    BY <1>2
  <2> QED BY <1>2, <2>1, <2>2
<1>7. \A i, j \in made : g[i] = g[j] => i = j
  BY <1>1, <1>4, <1>5 DEF Attribution
<1>8. g \in Injection(made, intents)
  BY <1>5, <1>6, <1>7 DEF Injection, IsInjective
<1> QED BY <1>2, <1>3, <1>8, FS_Injection

\* However often createCheckpoint is retried, and whichever git process survives
\* the worker that started it, a journaled intent makes at most one commit.
THEOREM OneCommitPerIntentHolds == Spec => []OneCommitPerIntent
<1>1. SerialInv => OneCommitPerIntent
  BY AttributedOnce DEF SerialInv, AccountInv, OneCommitPerIntent, Intended
<1> QED BY <1>1, SerialInductive, PTL

\* At rest, a worktree that only the application has worked in is where its
\* record says, or the journal shows which commit was left unfinished.
THEOREM DivergenceIsExplainedHolds == Spec => []DivergenceIsExplained
<1>1. ASSUME SerialInv, \A c \in Calls : At(c, "idle"), orphan = Null, drift = 0, row # Null
      PROVE  \/ WorktreeIsExpected
             \/ \E key \in Keys :
                  /\ journal[<<key, "commit">>] # Null
                  /\ \/ journal[<<key, "commit">>].status # "completed"
                     \/ records[journal[<<key, "commit">>].expected.id] = Null
  <2>1. /\ attached /\ tree /\ head = Len(commits) /\ branch = head
        /\ \A oid \in 1 .. Len(commits) : commits[oid].trailer # Null
        /\ (\E key \in Keys : Stuck(key)) \/ Tidy
    BY <1>1 DEF SerialInv, AccountInv, UntouchedInv
  <2>2. CASE \E key \in Keys : Stuck(key)
    <3>1. PICK key \in Keys : Stuck(key)
      BY <2>2
    <3>2. journal[<<key, "commit">>] # Null /\ journal[<<key, "commit">>].outcome # "applied"
      BY <3>1 DEF Stuck, CommitRow
    <3>3. RowIsSound(journal[<<key, "commit">>])
      BY <1>1, KeySlots DEF SerialInv, OutcomeInv
    <3> QED BY <3>2, <3>3 DEF RowIsSound
  <2>3. CASE Tidy
    <3>1. CASE InChain(Len(commits))
      <4>1. row = Len(commits)
        BY <1>1, <2>3, <3>1 DEF Tidy
      <4> QED BY <1>1, <2>1, <4>1 DEF WorktreeIsExpected, Recorded
    <3>2. CASE ~InChain(Len(commits))
      <4>1. records[commits[Len(commits)].trailer] = Null
        BY <1>1, <2>3, <3>2 DEF Tidy
      <4>2. Len(commits) \in 1 .. Len(commits)
        BY <1>1, <3>2, LenProperties, NullIsApart
           DEF InChain, Oids, Base, SerialInv, IInv, RepositoryInv
      <4>3. PICK oid \in 1 .. Len(commits) : oid = Len(commits)
        BY <4>2
      <4>4. PICK key \in Keys : /\ journal[<<key, "commit">>] # Null
                                /\ journal[<<key, "commit">>].expected.id = commits[oid].trailer
        BY <1>1, <2>1, <4>3 DEF SerialInv, IInv, EffectsWereIntended
      <4> QED BY <4>1, <4>3, <4>4
    <3> QED BY <3>1, <3>2
  <2> QED BY <2>1, <2>2, <2>3
<1>2. SerialInv => DivergenceIsExplained
  BY <1>1 DEF DivergenceIsExplained
<1> QED BY <1>2, SerialInductive, PTL
=============================================================================
