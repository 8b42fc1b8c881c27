-------------------------------- MODULE WalProof --------------------------------
(***************************************************************************)
(* Proofs about Wal, for any prefixes, writer threads, batch size, mode    *)
(* and failures, in four layers: the control of the writer threads, what   *)
(* is on the disk, the order of the files and the merge at the next boot.  *)
(* Each layer's invariant is inductive given those of the layers before.   *)
(***************************************************************************)
EXTENDS Wal, SequenceTheorems, TLAPS

-------------------------------------------------------------------------------
(***************************************************************************)
(* Types and control.                                                      *)
(***************************************************************************)
Places ==
  {"recv", "check", "cas", "collect", "written", "synced", "release", "recheck", "dead"}

WorkerType == [at : Places, prefix : Prefixes \union {None}, batch : Seq(Nat)]

Record == [rev : Nat, intact : BOOLEAN]

WriterTypeOK ==
  /\ rev \in Nat
  /\ prefixOf \in Seq(Prefixes) /\ Len(prefixOf) = rev
  /\ appending \in Prefixes \union {None}
  /\ to_write \in [Prefixes -> Seq(Nat)]
  /\ tokens \in Seq(Prefixes)
  /\ is_writing \in [Prefixes -> BOOLEAN]
  /\ worker \in [Workers -> WorkerType]
  /\ file \in [Prefixes -> Seq(Record)]
  /\ synced \in [Prefixes -> Nat]
  /\ fsyncFailed \subseteq Prefixes
  /\ acked \subseteq Nat

BootTypeOK ==
  /\ broken \subseteq Prefixes
  /\ torn \subseteq Prefixes
  /\ phase \in {"up", "loading", "loaded", "panicked"}
  /\ readers \in [Prefixes -> [read : Nat, next : Int]]
  /\ replayed \in Seq(Int)
  /\ restored = {}

TypeOK == WriterTypeOK /\ BootTypeOK

(* A worker that is not waiting for a token has a prefix; it has a batch
   only from its first record to the notification. *)
WorkersOK ==
  \A t \in Workers :
    /\ worker[t].at # "recv" => worker[t].prefix \in Prefixes
    /\ worker[t].at = "recv" => worker[t].prefix = None /\ worker[t].batch = <<>>
    /\ worker[t].at \in {"check", "cas", "release", "recheck"} => worker[t].batch = <<>>

(* A prefix is broken from the moment its writer thread dies. *)
DeadIsBroken == \A t \in Workers : worker[t].at = "dead" => worker[t].prefix \in broken

ControlInv ==
  /\ TypeOK
  /\ WorkersOK
  /\ DeadIsBroken
  /\ OneWriter
  /\ NoLostWakeup

LEMMA NoWorkType == NoWork \in WorkerType /\ NoWork.at = "recv" /\ NoWork.prefix = None /\ NoWork.batch = <<>>
  BY DEF NoWork, WorkerType, Places

LEMMA InitControl == Init => ControlInv
<1> SUFFICES ASSUME Init PROVE ControlInv
  OBVIOUS
<1> USE DEF Init
<1>1. TypeOK
  BY NoWorkType DEF TypeOK, WriterTypeOK, BootTypeOK, EndOfFile
<1>2. WorkersOK /\ DeadIsBroken
  BY NoWorkType DEF WorkersOK, DeadIsBroken
<1>3. OneWriter
  BY NoWorkType, NonePrefixAssumption DEF OneWriter, Writing
<1>4. NoLostWakeup
  BY DEF NoLostWakeup
<1> QED
  BY <1>1, <1>2, <1>3, <1>4 DEF ControlInv

(* Worker t goes from one place to another, and no other worker moves. *)
Moved(t, from, to, p, b) ==
  /\ worker[t].at = from
  /\ worker'[t].at = to
  /\ worker'[t].prefix = p
  /\ worker'[t].batch = b
  /\ \A u \in Workers : u # t => worker'[u] = worker[u]

LEMMA WorkerMoves ==
  ASSUME TypeOK, NEW t \in Workers
  PROVE  /\ TakeToken(t) => Moved(t, "recv", "check", Head(tokens), worker[t].batch)
         /\ CheckWork(t) =>
              IF to_write[worker[t].prefix] = <<>>
              THEN Moved(t, "check", "recv", None, <<>>)
              ELSE Moved(t, "check", "cas", worker[t].prefix, worker[t].batch)
         /\ Acquire(t) =>
              IF is_writing[worker[t].prefix]
              THEN Moved(t, "cas", "recv", None, <<>>)
              ELSE Moved(t, "cas", "collect", worker[t].prefix, worker[t].batch)
         /\ Collect(t) =>
              Moved(t, "collect", "collect", worker[t].prefix,
                    Append(worker[t].batch, Head(to_write[worker[t].prefix])))
         /\ Write(t) => Moved(t, "collect", "written", worker[t].prefix, worker[t].batch)
         /\ WriteFails(t) => Moved(t, "collect", "dead", worker[t].prefix, worker[t].batch)
         /\ Fsync(t) \/ FsyncFails(t) => Moved(t, "written", "synced", worker[t].prefix, worker[t].batch)
         /\ Notify(t) => Moved(t, "synced", "release", worker[t].prefix, <<>>)
         /\ Release(t) => Moved(t, "release", "recheck", worker[t].prefix, worker[t].batch)
         /\ Recheck(t) => Moved(t, "recheck", "recv", None, <<>>)
<1>1. worker \in [Workers -> WorkerType]
  BY DEF TypeOK, WriterTypeOK
<1> USE <1>1, NoWorkType DEF Moved, WorkerType
<1>2. TakeToken(t) => Moved(t, "recv", "check", Head(tokens), worker[t].batch)
  BY DEF TakeToken
<1>3. CheckWork(t) => IF to_write[worker[t].prefix] = <<>>
                      THEN Moved(t, "check", "recv", None, <<>>)
                      ELSE Moved(t, "check", "cas", worker[t].prefix, worker[t].batch)
  BY DEF CheckWork
<1>4. Acquire(t) => IF is_writing[worker[t].prefix]
                    THEN Moved(t, "cas", "recv", None, <<>>)
                    ELSE Moved(t, "cas", "collect", worker[t].prefix, worker[t].batch)
  BY DEF Acquire
<1>5. Collect(t) => Moved(t, "collect", "collect", worker[t].prefix,
                          Append(worker[t].batch, Head(to_write[worker[t].prefix])))
  BY DEF Collect
<1>6. Write(t) => Moved(t, "collect", "written", worker[t].prefix, worker[t].batch)
  BY DEF Write, Goto
<1>7. WriteFails(t) => Moved(t, "collect", "dead", worker[t].prefix, worker[t].batch)
  BY DEF WriteFails, Goto
<1>8. Fsync(t) \/ FsyncFails(t) => Moved(t, "written", "synced", worker[t].prefix, worker[t].batch)
  BY DEF Fsync, FsyncFails, Goto
<1>9. Notify(t) => Moved(t, "synced", "release", worker[t].prefix, <<>>)
  BY DEF Notify
<1>10. Release(t) => Moved(t, "release", "recheck", worker[t].prefix, worker[t].batch)
  BY DEF Release, Goto
<1>11. Recheck(t) => Moved(t, "recheck", "recv", None, <<>>)
  BY DEF Recheck
<1> HIDE DEF Moved
<1> QED
  BY <1>2, <1>3, <1>4, <1>5, <1>6, <1>7, <1>8, <1>9, <1>10, <1>11

(* The records of a batch as they reach the file. *)
LEMMA WriteRecordsType ==
  ASSUME TypeOK, WorkersOK, NEW t \in Workers, worker[t].at = "collect",
         NEW n \in 0 .. Len(worker[t].batch), WriteRecords(t, n)
  PROVE  file' \in [Prefixes -> Seq(Record)]
<1>1. worker[t].prefix \in Prefixes /\ worker[t].batch \in Seq(Nat)
  BY DEF WorkersOK, TypeOK, WriterTypeOK, WorkerType
<1>2. PICK garbled \in SUBSET {i \in 1 .. n : worker[t].prefix \in Garbles} :
        file' = [file EXCEPT ![worker[t].prefix] = @ \o
                   [i \in 1 .. n |-> [rev |-> worker[t].batch[i], intact |-> i \notin garbled]]]
  BY DEF WriteRecords
<1> DEFINE s == [i \in 1 .. n |-> [rev |-> worker[t].batch[i], intact |-> i \notin garbled]]
<1>3. s \in Seq(Record)
  BY <1>1 DEF Record
<1>4. file[worker[t].prefix] \o s \in Seq(Record)
  BY <1>1, <1>3, ConcatProperties DEF TypeOK, WriterTypeOK
<1> HIDE DEF s
<1> QED
  BY <1>1, <1>2, <1>4 DEF TypeOK, WriterTypeOK, s

LEMMA ReadFromType ==
  ASSUME TypeOK, NEW p \in Prefixes
  PROVE  ReadFrom(p) \subseteq Int
<1> DEFINE n == readers[p].read + 1
<1>1. n \in Nat \ {0} /\ file[p] \in Seq(Record)
  BY DEF TypeOK, WriterTypeOK, BootTypeOK
<1>2. n <= Len(file[p]) => file[p][n].rev \in Nat
  <2>1. \A r \in Record : r.rev \in Nat
    BY DEF Record
  <2> QED
    BY <1>1, <2>1, ElementOfSeq
<1>3. Unreadable .. MaxRec \subseteq Int /\ Unreadable \in Int /\ EndOfFile \in Int
  BY MaxRecAssumption DEF Unreadable, EndOfFile
<1> QED
  BY <1>1, <1>2, <1>3 DEF ReadFrom

LEMMA AdvanceType ==
  ASSUME TypeOK, NEW p \in Prefixes, Advance(p)
  PROVE  /\ readers' \in [Prefixes -> [read : Nat, next : Int]]
         /\ phase' \in {phase, "panicked"}
  BY ReadFromType DEF TypeOK, BootTypeOK, Advance

LEMMA TypeStep ==
  ASSUME TypeOK, WorkersOK, Next
  PROVE  TypeOK'
<1> USE DEF TypeOK, appendVars, bootVars
<1>1. ASSUME NEW p \in Prefixes, AppendSkipped(p) PROVE TypeOK'
  <2>1. prefixOf' \in Seq(Prefixes) /\ Len(prefixOf') = rev' /\ rev' \in Nat
    <3>1. rev' = rev + 1 /\ prefixOf' = Append(prefixOf, p)
      BY <1>1 DEF AppendSkipped
    <3>2. rev \in Nat /\ prefixOf \in Seq(Prefixes) /\ Len(prefixOf) = rev
      BY DEF WriterTypeOK
    <3> QED
      BY <3>1, <3>2, AppendProperties
  <2> QED
    BY <1>1, <2>1 DEF AppendSkipped, WriterTypeOK, BootTypeOK
<1>2. ASSUME NEW p \in Prefixes, AppendRecord(p) PROVE TypeOK'
  <2>1. Append(to_write[p], rev + 1) \in Seq(Nat)
    BY AppendProperties DEF WriterTypeOK
  <2>2. prefixOf' \in Seq(Prefixes) /\ Len(prefixOf') = rev' /\ rev' \in Nat
    BY <1>2, AppendProperties, SMTT(30) DEF AppendRecord, WriterTypeOK
  <2>3. to_write' \in [Prefixes -> Seq(Nat)]
    BY <1>2, <2>1 DEF AppendRecord, WriterTypeOK
  <2> QED
    BY <1>2, <2>2, <2>3 DEF AppendRecord, WriterTypeOK, BootTypeOK
<1>3. CASE AppendToken
  BY <1>3, AppendProperties DEF AppendToken, WriterTypeOK, BootTypeOK
<1>4. ASSUME NEW t \in Workers, WorkerStep(t) PROVE TypeOK'
  <2>1. CASE TakeToken(t)
    <3>1. Head(tokens) \in Prefixes /\ Tail(tokens) \in Seq(Prefixes)
      BY <2>1 DEF TakeToken, WriterTypeOK
    <3> QED
      BY <2>1, <3>1, ZenonT(40) DEF TakeToken, WriterTypeOK, BootTypeOK, WorkerType, Places
  <2>2. CASE CheckWork(t)
    BY <2>2, NoWorkType DEF CheckWork, WriterTypeOK, BootTypeOK, WorkerType, Places
  <2>3. CASE Acquire(t)
    BY <2>3, NoWorkType DEF Acquire, WriterTypeOK, BootTypeOK, WorkerType, Places
  <2>4. CASE Collect(t)
    <3>1. worker[t].prefix \in Prefixes
      BY <2>4 DEF Collect, WorkersOK
    <3>2. Head(to_write[worker[t].prefix]) \in Nat /\ Tail(to_write[worker[t].prefix]) \in Seq(Nat)
      BY <2>4, <3>1, SMTT(30) DEF Collect, WriterTypeOK
    <3>3. Append(worker[t].batch, Head(to_write[worker[t].prefix])) \in Seq(Nat)
      BY <3>2, AppendProperties DEF WriterTypeOK, WorkerType
    <3> QED
      BY <2>4, <3>1, <3>2, <3>3, ZenonT(40) DEF Collect, WriterTypeOK, BootTypeOK, WorkerType, Places
  <2>5. CASE Write(t)
    <3>1. Len(worker[t].batch) \in 0 .. Len(worker[t].batch)
      BY DEF WriterTypeOK, WorkerType
    <3>2. file' \in [Prefixes -> Seq(Record)]
      BY <2>5, <3>1, WriteRecordsType DEF Write
    <3> QED
      BY <2>5, <3>2, ZenonT(40) DEF Write, Goto, WriterTypeOK, BootTypeOK, WorkerType, Places
  <2>6. CASE Fsync(t)
    <3>1. worker' \in [Workers -> WorkerType]
      BY <2>6 DEF Fsync, Goto, WriterTypeOK, WorkerType, Places
    <3>2. Len(file[worker[t].prefix]) \in Nat
      BY <2>6 DEF Fsync, WorkersOK, WriterTypeOK
    <3> QED
      BY <2>6, <3>1, <3>2 DEF Fsync, WriterTypeOK, BootTypeOK
  <2>7. CASE Notify(t)
    <3>1. worker'[t] \in WorkerType
      <4>1. worker'[t] = [at |-> "release", prefix |-> worker[t].prefix, batch |-> <<>>]
        BY <2>7 DEF Notify, WriterTypeOK, WorkerType
      <4>2. worker[t].prefix \in Prefixes \union {None} /\ <<>> \in Seq(Nat)
        BY DEF WriterTypeOK, WorkerType
      <4> QED
        BY <4>1, <4>2 DEF WorkerType, Places
    <3>2. \A i \in 1 .. Len(worker[t].batch) : worker[t].batch[i] \in Nat
      BY DEF WriterTypeOK, WorkerType
    <3>3. acked' \subseteq Nat
      BY <2>7, <3>2 DEF Notify, WriterTypeOK
    <3>4. worker' \in [Workers -> WorkerType]
      BY <2>7, <3>1 DEF Notify, WriterTypeOK
    <3> QED
      BY <2>7, <3>3, <3>4 DEF Notify, WriterTypeOK, BootTypeOK
  <2>8. CASE Release(t)
    BY <2>8, ZenonT(40) DEF Release, Goto, WriterTypeOK, BootTypeOK, WorkerType, Places
  <2>9. CASE Recheck(t)
    BY <2>9, NoWorkType, AppendProperties DEF Recheck, WorkersOK, WriterTypeOK, BootTypeOK, WorkerType, Places
  <2>10. CASE FsyncFails(t)
    BY <2>10, ZenonT(40) DEF FsyncFails, Goto, WorkersOK, WriterTypeOK, BootTypeOK, WorkerType, Places
  <2> QED
    BY <1>4, <2>1, <2>2, <2>3, <2>4, <2>5, <2>6, <2>7, <2>8, <2>9, <2>10 DEF WorkerStep
<1>5. ASSUME NEW t \in Workers, WriteFails(t) PROVE TypeOK'
  <2>1. PICK n \in 0 .. Len(worker[t].batch) - 1 : WriteRecords(t, n)
    BY <1>5 DEF WriteFails
  <2>2. n \in 0 .. Len(worker[t].batch)
    BY DEF WriterTypeOK, WorkerType
  <2>3. file' \in [Prefixes -> Seq(Record)]
    BY <1>5, <2>1, <2>2, WriteRecordsType DEF WriteFails
  <2> QED
    BY <1>5, <2>3 DEF WriteFails, Goto, WorkersOK, WriterTypeOK, BootTypeOK, WorkerType, Places
<1>6. CASE Crash
  <2>1. PICK kept \in [Prefixes -> 0 .. MaxRec] :
          /\ \A p \in Prefixes : kept[p] >= synced[p] /\ kept[p] <= Len(file[p])
          /\ file' = [p \in Prefixes |-> SubSeq(file[p], 1, kept[p])]
          /\ torn' \in SUBSET ({p \in Prefixes : kept[p] < Len(file[p])} \union broken)
    BY <1>6 DEF Crash
  <2>2. \A p \in Prefixes : SubSeq(file[p], 1, kept[p]) \in Seq(Record)
    BY <2>1, MaxRecAssumption DEF WriterTypeOK
  <2> QED
    BY <1>6, <2>1, <2>2, NoWorkType, SMTT(30) DEF Crash, WriterTypeOK, BootTypeOK
<1>7. ASSUME NEW p \in Prefixes, OpenFile(p) PROVE TypeOK'
  BY <1>7, AdvanceType DEF OpenFile, WriterTypeOK, BootTypeOK
<1>8. ASSUME NEW p \in Prefixes, ReplayRecord(p) PROVE TypeOK'
  BY <1>8, AdvanceType, AppendProperties DEF ReplayRecord, OnEntry, WriterTypeOK, BootTypeOK
<1>9. CASE ReplayDone
  BY <1>9 DEF ReplayDone, WriterTypeOK, BootTypeOK
<1> QED
  BY <1>1, <1>2, <1>3, <1>4, <1>5, <1>6, <1>7, <1>8, <1>9 DEF Next

(* Steps that leave every writer thread where it is. *)
QuietStep ==
  \/ \E p \in Prefixes : AppendSkipped(p) \/ AppendRecord(p) \/ OpenFile(p) \/ ReplayRecord(p)
  \/ AppendToken
  \/ ReplayDone

LEMMA QuietStepFrame == QuietStep => UNCHANGED <<worker, is_writing, file, synced, fsyncFailed, acked, broken>>
  BY DEF QuietStep, AppendSkipped, AppendRecord, AppendToken, OpenFile, ReplayRecord, ReplayDone,
         bootVars

LEMMA NextCases ==
  Next <=> QuietStep \/ Crash \/ \E t \in Workers : WorkerStep(t) \/ WriteFails(t)
  BY DEF Next, QuietStep

LEMMA WorkersStep ==
  ASSUME TypeOK, WorkersOK, Next
  PROVE  WorkersOK'
<1>1. CASE QuietStep
  BY <1>1, QuietStepFrame DEF WorkersOK
<1>2. CASE Crash
  BY <1>2, NoWorkType DEF Crash, WorkersOK
<1>3. ASSUME NEW t \in Workers, WorkerStep(t) \/ WriteFails(t) PROVE WorkersOK'
  <2> USE DEF Moved, WorkersOK
  <2>1. CASE TakeToken(t)
    <3>1. Head(tokens) \in Prefixes
      BY <2>1 DEF TakeToken, TypeOK, WriterTypeOK
    <3> QED
      BY <2>1, <3>1, WorkerMoves
  <2>2. CASE CheckWork(t)
    BY <2>2, WorkerMoves
  <2>3. CASE Acquire(t)
    BY <2>3, WorkerMoves
  <2>4. CASE Collect(t) \/ Write(t) \/ WriteFails(t) \/ Fsync(t) \/ FsyncFails(t)
    BY <2>4, WorkerMoves
  <2>5. CASE Notify(t)
    BY <2>5, WorkerMoves
  <2>6. CASE Release(t)
    BY <2>6, WorkerMoves
  <2>7. CASE Recheck(t)
    BY <2>7, WorkerMoves
  <2> QED
    BY <1>3, <2>1, <2>2, <2>3, <2>4, <2>5, <2>6, <2>7 DEF WorkerStep
<1> QED
  BY <1>1, <1>2, <1>3, NextCases

LEMMA DeadStep ==
  ASSUME TypeOK, WorkersOK, DeadIsBroken, Next
  PROVE  DeadIsBroken'
<1>1. CASE QuietStep
  BY <1>1, QuietStepFrame DEF DeadIsBroken
<1>2. CASE Crash
  BY <1>2, NoWorkType DEF Crash, DeadIsBroken
<1>3. ASSUME NEW t \in Workers, WorkerStep(t) PROVE DeadIsBroken'
  <2>1. worker'[t].at # "dead" /\ \A u \in Workers : u # t => worker'[u] = worker[u]
    BY <1>3, WorkerMoves DEF WorkerStep, Moved
  <2>2. UNCHANGED broken
    BY <1>3 DEF WorkerStep, TakeToken, CheckWork, Acquire, Collect, Write, Fsync, FsyncFails, Notify,
                Release, Recheck
  <2> QED
    BY <2>1, <2>2 DEF DeadIsBroken
<1>4. ASSUME NEW t \in Workers, WriteFails(t) PROVE DeadIsBroken'
  <2>1. Moved(t, "collect", "dead", worker[t].prefix, worker[t].batch)
    BY <1>4, WorkerMoves
  <2>2. broken' = broken \union {worker[t].prefix}
    BY <1>4 DEF WriteFails
  <2> QED
    BY <2>1, <2>2 DEF DeadIsBroken, Moved
<1> QED
  BY <1>1, <1>2, <1>3, <1>4, NextCases

(***************************************************************************)
(* compare_exchange gives the flag to a worker only when nobody writes,    *)
(* and only the worker that writes clears it.                              *)
(***************************************************************************)
LEMMA OneWriterStep ==
  ASSUME TypeOK, WorkersOK, OneWriter, Next
  PROVE  OneWriter'
<1>1. CASE QuietStep
  BY <1>1, QuietStepFrame DEF OneWriter, Writing
<1>2. CASE Crash
  BY <1>2, NoWorkType, NonePrefixAssumption DEF Crash, OneWriter, Writing
<1>3. ASSUME NEW t \in Workers, WorkerStep(t) \/ WriteFails(t) PROVE OneWriter'
  <2>1. CASE TakeToken(t) \/ CheckWork(t) \/ Recheck(t)
    <3>1. \A u \in Workers, p \in Prefixes : Writing(u, p)' <=> Writing(u, p)
      BY <2>1, WorkerMoves DEF Moved, Writing
    <3>2. is_writing' = is_writing
      BY <2>1 DEF TakeToken, CheckWork, Recheck
    <3> QED
      BY <3>1, <3>2 DEF OneWriter
  <2>2. CASE Collect(t) \/ Write(t) \/ WriteFails(t) \/ Fsync(t) \/ FsyncFails(t) \/ Notify(t)
    <3>1. \A u \in Workers, p \in Prefixes : Writing(u, p)' <=> Writing(u, p)
      BY <2>2, WorkerMoves DEF Moved, Writing
    <3>2. is_writing' = is_writing
      BY <2>2 DEF Collect, Write, WriteFails, Fsync, FsyncFails, Notify
    <3> QED
      BY <3>1, <3>2 DEF OneWriter
  <2> DEFINE q == worker[t].prefix
  <2>3. CASE Acquire(t)
    <3>1. q \in Prefixes /\ ~\E p \in Prefixes : Writing(t, p)
      BY <2>3 DEF Acquire, WorkersOK, Writing
    <3>2. \A u \in Workers, p \in Prefixes : u # t => (Writing(u, p)' <=> Writing(u, p))
      BY <2>3, WorkerMoves DEF Moved, Writing
    <3>3. \A p \in Prefixes : Writing(t, p)' <=> (p = q /\ ~is_writing[q])
      BY <2>3, <3>1, WorkerMoves, NonePrefixAssumption DEF Moved, Writing
    <3>4. is_writing' = [is_writing EXCEPT ![q] = TRUE] /\ is_writing \in [Prefixes -> BOOLEAN]
      BY <2>3 DEF Acquire, TypeOK, WriterTypeOK
    <3> HIDE DEF q
    <3> QED
      BY <3>1, <3>2, <3>3, <3>4 DEF OneWriter
  <2>4. CASE Release(t)
    <3>1. q \in Prefixes /\ \A p \in Prefixes : Writing(t, p) <=> p = q
      BY <2>4 DEF Release, WorkersOK, Writing
    <3>2. \A u \in Workers, p \in Prefixes : u # t => (Writing(u, p)' <=> Writing(u, p))
      BY <2>4, WorkerMoves DEF Moved, Writing
    <3>3. \A p \in Prefixes : ~Writing(t, p)'
      BY <2>4, WorkerMoves DEF Moved, Writing
    <3>4. is_writing' = [is_writing EXCEPT ![q] = FALSE] /\ is_writing \in [Prefixes -> BOOLEAN]
      BY <2>4 DEF Release, TypeOK, WriterTypeOK
    <3> HIDE DEF q
    <3> QED
      BY <3>1, <3>2, <3>3, <3>4 DEF OneWriter
  <2> QED
    BY <1>3, <2>1, <2>2, <2>3, <2>4 DEF WorkerStep
<1> QED
  BY <1>1, <1>2, <1>3, NextCases

(* A token is in the channel. *)
HasToken(p) == \E i \in 1 .. Len(tokens) : tokens[i] = p

LEMMA TokenAppended ==
  ASSUME TypeOK, NEW q \in Prefixes, tokens' = Append(tokens, q)
  PROVE  /\ HasToken(q)'
         /\ \A p \in Prefixes : HasToken(p) => HasToken(p)'
<1>1. /\ Len(tokens') = Len(tokens) + 1 /\ Len(tokens) \in Nat
      /\ tokens'[Len(tokens) + 1] = q
      /\ \A i \in 1 .. Len(tokens) : tokens'[i] = tokens[i]
  BY AppendProperties DEF TypeOK, WriterTypeOK
<1> QED
  BY <1>1 DEF HasToken

LEMMA TokenTaken ==
  ASSUME TypeOK, tokens # <<>>, tokens' = Tail(tokens), NEW p \in Prefixes, HasToken(p)
  PROVE  p = Head(tokens) \/ HasToken(p)'
<1>1. /\ Len(tokens') = Len(tokens) - 1 /\ Len(tokens) \in Nat \ {0}
      /\ \A i \in 1 .. Len(tokens) - 1 : tokens'[i] = tokens[i + 1]
      /\ Head(tokens) = tokens[1]
  BY HeadTailProperties DEF TypeOK, WriterTypeOK
<1>2. PICK i \in 1 .. Len(tokens) : tokens[i] = p
  BY DEF HasToken
<1>3. CASE i # 1
  <2>1. i - 1 \in 1 .. Len(tokens') /\ tokens'[i - 1] = p
    BY <1>1, <1>2, <1>3
  <2> QED
    BY <2>1 DEF HasToken
<1> QED
  BY <1>1, <1>2, <1>3

(***************************************************************************)
(* A worker drops a token only when the queue is empty, when another one   *)
(* is writing and will look again, or by sending it again.                 *)
(***************************************************************************)
LEMMA WakeupStep ==
  ASSUME TypeOK, WorkersOK, DeadIsBroken, OneWriter, NoLostWakeup, Next
  PROVE  NoLostWakeup'
<1> USE DEF appendVars, bootVars
<1> SUFFICES ASSUME phase' = "up", NEW p \in Prefixes \ broken', to_write'[p] # <<>>
             PROVE  Attended(p)'
  BY DEF NoLostWakeup
<1>0. /\ phase = "up" /\ p \notin broken /\ to_write[p] # <<>> => Attended(p)
      /\ Attended(p) <=> \/ appending = p \/ HasToken(p)
                         \/ \E t \in Workers : worker[t].prefix = p /\ worker[t].at \notin {"recv", "dead"}
      /\ Attended(p)' <=> \/ appending' = p \/ HasToken(p)'
                          \/ \E t \in Workers : worker'[t].prefix = p /\ worker'[t].at \notin {"recv", "dead"}
  BY DEF NoLostWakeup, Attended, HasToken
<1>1. CASE QuietStep
  <2>1. worker' = worker /\ p \notin broken
    BY <1>1, QuietStepFrame
  <2>2. ASSUME NEW q \in Prefixes, AppendSkipped(q) PROVE Attended(p)'
    BY <1>0, <2>1, <2>2 DEF AppendSkipped, HasToken
  <2>3. ASSUME NEW q \in Prefixes, AppendRecord(q) PROVE Attended(p)'
    <3>1. p # q => to_write'[p] = to_write[p]
      BY <2>3 DEF AppendRecord, TypeOK, WriterTypeOK
    <3> QED
      BY <1>0, <2>1, <2>3, <3>1, NonePrefixAssumption DEF AppendRecord, HasToken
  <2>4. CASE AppendToken
    <3>1. /\ appending \in Prefixes /\ tokens' = Append(tokens, appending)
          /\ phase = "up" /\ to_write' = to_write
      BY <2>4 DEF AppendToken, TypeOK, WriterTypeOK
    <3> QED
      BY <1>0, <2>1, <3>1, TokenAppended
  <2>5. CASE \/ \E q \in Prefixes : OpenFile(q) \/ ReplayRecord(q)
             \/ ReplayDone
    <3>1. phase' # "up"
      BY <2>5 DEF OpenFile, ReplayRecord, ReplayDone, Advance
    <3> QED
      BY <3>1
  <2> QED
    BY <1>1, <2>2, <2>3, <2>4, <2>5 DEF QuietStep
<1>2. CASE Crash
  BY <1>2 DEF Crash
<1>3. ASSUME NEW t \in Workers, WorkerStep(t) \/ WriteFails(t) PROVE Attended(p)'
  <2> DEFINE q == worker[t].prefix
  <2>0. p \notin broken
    BY <1>3 DEF WorkerStep, TakeToken, CheckWork, Acquire, Collect, Write, WriteFails, Fsync, FsyncFails,
                Notify, Release, Recheck
  (* a step after which t still attends to its prefix *)
  <2>1. ASSUME worker[t].at # "recv", worker'[t].at \notin {"recv", "dead"}, worker'[t].prefix = q,
               \A u \in Workers : u # t => worker'[u] = worker[u],
               UNCHANGED <<appending, tokens, phase>>, p # q => to_write'[p] = to_write[p]
        PROVE  Attended(p)'
    BY <1>0, <2>0, <2>1 DEF HasToken
  <2>2. CASE TakeToken(t)
    <3>1. Moved(t, "recv", "check", Head(tokens), worker[t].batch)
      BY <2>2, WorkerMoves
    <3>2. tokens # <<>> /\ tokens' = Tail(tokens) /\ UNCHANGED <<appending, phase, to_write>>
      BY <2>2 DEF TakeToken
    <3> QED
      BY <1>0, <2>0, <3>1, <3>2, TokenTaken DEF Moved
  <2>3. CASE CheckWork(t)
    <3>1. UNCHANGED <<appending, tokens, phase, to_write>>
      BY <2>3 DEF CheckWork
    <3>2. CASE to_write[q] = <<>>
      <4>1. Moved(t, "check", "recv", None, <<>>)
        BY <2>3, <3>2, WorkerMoves
      <4> QED
        BY <1>0, <2>0, <3>1, <3>2, <4>1 DEF Moved, HasToken
    <3>3. CASE to_write[q] # <<>>
      <4>1. Moved(t, "check", "cas", q, worker[t].batch)
        BY <2>3, <3>3, WorkerMoves
      <4> QED
        BY <2>1, <3>1, <4>1 DEF Moved
    <3> QED
      BY <3>2, <3>3
  <2>4. CASE Acquire(t)
    <3>1. UNCHANGED <<appending, tokens, phase, to_write>>
      BY <2>4 DEF Acquire
    <3>2. CASE is_writing[q]
      <4>1. Moved(t, "cas", "recv", None, <<>>)
        BY <2>4, <3>2, WorkerMoves
      <4>2. q \in Prefixes
        BY <4>1 DEF WorkersOK, Moved
      <4>3. PICK u \in Workers : Writing(u, q)
        BY <3>2, <4>2 DEF OneWriter
      <4>4. u # t /\ worker'[u].prefix = q /\ worker'[u].at # "recv"
        BY <4>1, <4>3 DEF Writing, Moved
      <4>5. p = q => worker'[u].at # "dead"
        BY <2>0, <4>1, <4>3, <4>4 DEF Writing, Moved, DeadIsBroken
      <4> QED
        BY <1>0, <2>0, <3>1, <4>1, <4>4, <4>5 DEF Moved, HasToken
    <3>3. CASE ~is_writing[q]
      <4>1. Moved(t, "cas", "collect", q, worker[t].batch)
        BY <2>4, <3>3, WorkerMoves
      <4> QED
        BY <2>1, <3>1, <4>1 DEF Moved
    <3> QED
      BY <3>2, <3>3
  <2>5. CASE Collect(t)
    <3>1. Moved(t, "collect", "collect", q, Append(worker[t].batch, Head(to_write[q])))
      BY <2>5, WorkerMoves
    <3>2. UNCHANGED <<appending, tokens, phase>> /\ (p # q => to_write'[p] = to_write[p])
      BY <2>5 DEF Collect, TypeOK, WriterTypeOK
    <3> QED
      BY <2>1, <3>1, <3>2 DEF Moved
  <2>6. CASE Write(t) \/ Fsync(t) \/ FsyncFails(t) \/ Notify(t) \/ Release(t)
    <3>1. UNCHANGED <<appending, tokens, phase, to_write>>
      BY <2>6 DEF Write, Fsync, FsyncFails, Notify, Release
    <3>2. /\ worker[t].at # "recv" /\ worker'[t].at \notin {"recv", "dead"} /\ worker'[t].prefix = q
          /\ \A u \in Workers : u # t => worker'[u] = worker[u]
      BY <2>6, WorkerMoves DEF Moved
    <3> QED
      BY <2>1, <3>1, <3>2
  <2>7. CASE Recheck(t)
    <3>1. Moved(t, "recheck", "recv", None, <<>>) /\ q \in Prefixes
      BY <2>7, WorkerMoves DEF WorkersOK, Moved
    <3>2. /\ UNCHANGED <<appending, phase, to_write>>
          /\ to_write[q] # <<>> => tokens' = Append(tokens, q)
          /\ to_write[q] = <<>> => tokens' = tokens
      BY <2>7 DEF Recheck
    <3>3. HasToken(p) => HasToken(p)'
      BY <3>1, <3>2, TokenAppended DEF HasToken
    <3>4. p = q => HasToken(p)'
      BY <3>1, <3>2, TokenAppended
    <3> QED
      BY <1>0, <2>0, <3>1, <3>2, <3>3, <3>4 DEF Moved
  <2>8. CASE WriteFails(t)
    <3>1. Moved(t, "collect", "dead", q, worker[t].batch)
      BY <2>8, WorkerMoves
    <3>2. UNCHANGED <<appending, tokens, phase, to_write>> /\ p # q
      BY <2>8 DEF WriteFails
    <3> QED
      BY <1>0, <2>0, <3>1, <3>2 DEF Moved, HasToken
  <2> QED
    BY <1>3, <2>2, <2>3, <2>4, <2>5, <2>6, <2>7, <2>8 DEF WorkerStep
<1> QED
  BY <1>1, <1>2, <1>3, NextCases

LEMMA ControlStep == ControlInv /\ [Next]_vars => ControlInv'
<1> SUFFICES ASSUME ControlInv, [Next]_vars PROVE ControlInv'
  OBVIOUS
<1>1. CASE Next
  BY <1>1, TypeStep, WorkersStep, DeadStep, OneWriterStep, WakeupStep DEF ControlInv
<1>2. CASE UNCHANGED vars
  <2> USE <1>2 DEF vars, appendVars, bootVars
  <2>1. TypeOK' /\ WorkersOK' /\ DeadIsBroken'
    BY DEF ControlInv, TypeOK, WriterTypeOK, BootTypeOK, WorkersOK, DeadIsBroken
  <2>2. OneWriter'
    BY DEF ControlInv, OneWriter, Writing
  <2>3. NoLostWakeup'
    BY DEF ControlInv, NoLostWakeup, Attended
  <2> QED
    BY <2>1, <2>2, <2>3 DEF ControlInv
<1> QED
  BY <1>1, <1>2

(* The WAL's variables have their types, a worker has a prefix when and only
   when it holds a token, and the two invariants below hold. *)
THEOREM ControlCorrect == Spec => []ControlInv
  BY InitControl, ControlStep, PTL DEF Spec

(* The compare_exchange of is_writing gives a prefix's file to one writer
   thread at a time, however many threads there are and whichever of them
   panic, and the flag is set exactly as long as there is one. *)
THEOREM OnlyOneWriter == Spec => []OneWriter
<1>1. ControlInv => OneWriter
  BY DEF ControlInv
<1> QED
  BY <1>1, ControlCorrect, PTL

(* Tokens that workers drop never leave a record in a queue that no living
   thread is going to look at, unless the thread that wrote the prefix died. *)
THEOREM NoWakeupIsLost == Spec => []NoLostWakeup
<1>1. ControlInv => NoLostWakeup
  BY DEF ControlInv
<1> QED
  BY <1>1, ControlCorrect, PTL

-------------------------------------------------------------------------------
(***************************************************************************)
(* Durability.                                                             *)
(***************************************************************************)
(* Revision r was appended for prefix p. *)
Mine(r, p) == r \in 1 .. rev /\ prefixOf[r] = p

(* The same after a step. *)
MineNext(r, p) == r \in 1 .. rev' /\ prefixOf'[r] = p

(* A record is in the queue, the batch and the file of its own prefix. *)
RecordsInPlace ==
  /\ \A p \in Prefixes : \A i \in 1 .. Len(to_write[p]) : Mine(to_write[p][i], p)
  /\ \A t \in Workers : \A i \in 1 .. Len(worker[t].batch) : Mine(worker[t].batch[i], worker[t].prefix)
  /\ \A p \in Prefixes : \A i \in 1 .. Len(file[p]) : Mine(file[p][i].rev, p)

SyncedInFile == \A p \in Prefixes : synced[p] <= Len(file[p])

(* A worker past writev has its batch in the file, past fsync on the disk. *)
BatchInFile ==
  \A t \in Workers : worker[t].at \in {"written", "synced"} =>
    \A i \in 1 .. Len(worker[t].batch) :
      \E k \in 1 .. Len(file[worker[t].prefix]) :
        /\ file[worker[t].prefix][k].rev = worker[t].batch[i]
        /\ worker[t].at = "synced" /\ Mode = "Sync" /\ worker[t].prefix \notin fsyncFailed =>
             k <= synced[worker[t].prefix]

AckedAppended == acked \subseteq 1 .. rev

(* AckedIsOnDisk, whatever writev made of the record. *)
AckedInPlace ==
  \A r \in acked : prefixOf[r] \notin fsyncFailed =>
    \E i \in 1 .. synced[prefixOf[r]] : i <= Len(file[prefixOf[r]]) /\ file[prefixOf[r]][i].rev = r

DiskInv ==
  /\ RecordsInPlace
  /\ SyncedInFile
  /\ BatchInFile
  /\ AckedAppended
  /\ AckedInPlace

LEMMA InitDisk == Init => DiskInv
  BY NoWorkType DEF Init, DiskInv, RecordsInPlace, SyncedInFile, BatchInFile, AckedAppended, AckedInPlace

(* What n records of a batch make of the files. *)
LEMMA FileGrows ==
  ASSUME TypeOK, WorkersOK, NEW t \in Workers, worker[t].at = "collect",
         NEW n \in 0 .. Len(worker[t].batch), WriteRecords(t, n)
  PROVE  LET p == worker[t].prefix
         IN  /\ p \in Prefixes
             /\ Len(file'[p]) = Len(file[p]) + n
             /\ \A i \in 1 .. Len(file[p]) : file'[p][i] = file[p][i]
             /\ \A i \in 1 .. n : file'[p][Len(file[p]) + i].rev = worker[t].batch[i]
             /\ \A q \in Prefixes : q # p => file'[q] = file[q]
<1> DEFINE p == worker[t].prefix
<1>1. p \in Prefixes /\ worker[t].batch \in Seq(Nat) /\ file[p] \in Seq(Record)
  BY DEF WorkersOK, TypeOK, WriterTypeOK, WorkerType
<1>2. PICK garbled \in SUBSET {i \in 1 .. n : worker[t].prefix \in Garbles} :
        file' = [file EXCEPT ![p] = @ \o
                   [i \in 1 .. n |-> [rev |-> worker[t].batch[i], intact |-> i \notin garbled]]]
  BY DEF WriteRecords
<1> DEFINE s == [i \in 1 .. n |-> [rev |-> worker[t].batch[i], intact |-> i \notin garbled]]
<1>3. s \in Seq(Record) /\ Len(s) = n /\ \A i \in 1 .. n : s[i].rev = worker[t].batch[i]
  BY <1>1 DEF Record
<1> HIDE DEF s
<1>4. file'[p] = file[p] \o s /\ \A q \in Prefixes : q # p => file'[q] = file[q]
  BY <1>1, <1>2 DEF s, TypeOK, WriterTypeOK
<1> HIDE DEF p
<1>5. /\ Len(file[p] \o s) = Len(file[p]) + n
      /\ \A i \in 1 .. Len(file[p]) : (file[p] \o s)[i] = file[p][i]
      /\ \A i \in 1 .. n : (file[p] \o s)[Len(file[p]) + i] = s[i]
  <2> DEFINE f == file[p]
  <2>1. f \in Seq(Record) /\ s \in Seq(Record) /\ Len(s) = n
    BY <1>1, <1>3
  <2> HIDE DEF f
  <2>2. /\ Len(f \o s) = Len(f) + n
        /\ \A i \in 1 .. Len(f) : (f \o s)[i] = f[i]
        /\ \A i \in 1 .. n : (f \o s)[Len(f) + i] = s[i]
    BY <2>1
  <2> QED
    BY <2>2 DEF f
<1>6. \A i \in 1 .. n : file'[p][Len(file[p]) + i].rev = worker[t].batch[i]
  BY <1>3, <1>4, <1>5
<1> QED
  BY <1>1, <1>4, <1>5, <1>6 DEF p

(* Revisions keep their prefix. *)
HistoryKept == rev <= rev' /\ \A r \in 1 .. rev : prefixOf'[r] = prefixOf[r]

LEMMA HistoryStep ==
  ASSUME TypeOK, TypeOK', Next
  PROVE  HistoryKept /\ \A r, p : Mine(r, p) => Mine(r, p)'
<1> USE DEF HistoryKept, TypeOK, WriterTypeOK
<1>1. HistoryKept
  <2>1. ASSUME NEW p \in Prefixes, AppendSkipped(p) \/ AppendRecord(p) PROVE HistoryKept
    <3>1. rev' = rev + 1 /\ prefixOf' = Append(prefixOf, p)
      BY <2>1 DEF AppendSkipped, AppendRecord
    <3> QED
      BY <3>1, AppendProperties
  <2>2. CASE UNCHANGED <<rev, prefixOf>>
    BY <2>2
  <2>3. ASSUME NEW p \in Prefixes, OpenFile(p) \/ ReplayRecord(p) PROVE HistoryKept
    BY <2>2, <2>3 DEF OpenFile, ReplayRecord, appendVars
  <2>4. ASSUME NEW t \in Workers, WorkerStep(t) \/ WriteFails(t) PROVE HistoryKept
    BY <2>2, <2>4 DEF WorkerStep, WriteFails, TakeToken, CheckWork, Acquire, Collect, Write, Fsync,
                      FsyncFails, Notify, Release, Recheck, appendVars
  <2>5. CASE AppendToken \/ Crash \/ ReplayDone
    BY <2>2, <2>5 DEF AppendToken, Crash, ReplayDone, appendVars
  <2> QED
    BY <2>1, <2>3, <2>4, <2>5 DEF Next
<1>2. ASSUME NEW r, NEW p, Mine(r, p) PROVE Mine(r, p)'
  <2>1. r \in 1 .. rev /\ prefixOf[r] = p
    BY <1>2 DEF Mine
  <2>2. r \in 1 .. rev'
    BY <1>1, <2>1
  <2> QED
    BY <1>1, <2>1, <2>2 DEF Mine
<1> QED
  BY <1>1, <1>2

(* A crash keeps of every file a beginning that has all that was synced. *)
LEMMA CrashKeeps ==
  ASSUME TypeOK, Crash, NEW p \in Prefixes
  PROVE  /\ Len(file'[p]) \in synced[p] .. Len(file[p])
         /\ \A i \in 1 .. Len(file'[p]) : file'[p][i] = file[p][i]
<1>1. PICK kept \in [Prefixes -> 0 .. MaxRec] :
        /\ \A q \in Prefixes : kept[q] >= synced[q] /\ kept[q] <= Len(file[q])
        /\ file' = [q \in Prefixes |-> SubSeq(file[q], 1, kept[q])]
  BY DEF Crash
<1>2. file[p] \in Seq(Record) /\ kept[p] \in Nat /\ synced[p] \in Nat /\ kept[p] <= Len(file[p])
  BY <1>1, MaxRecAssumption DEF TypeOK, WriterTypeOK
<1>3. file'[p] = SubSeq(file[p], 1, kept[p]) /\ kept[p] >= synced[p]
  BY <1>1
<1>4. ASSUME NEW s \in Seq(Record), NEW n \in Nat, n <= Len(s)
      PROVE  Len(SubSeq(s, 1, n)) = n /\ \A i \in 1 .. n : SubSeq(s, 1, n)[i] = s[i]
  BY <1>4
<1> QED
  BY <1>2, <1>3, <1>4

LEMMA RecordsStep ==
  ASSUME TypeOK, TypeOK', WorkersOK, RecordsInPlace, Next
  PROVE  RecordsInPlace'
<1> USE DEF appendVars, bootVars
<1>1. \A r, p : Mine(r, p) => MineNext(r, p)
  BY HistoryStep DEF Mine, MineNext
<1>0. ASSUME \A p \in Prefixes : \A i \in 1 .. Len(to_write'[p]) : MineNext(to_write'[p][i], p),
             \A t \in Workers : \A i \in 1 .. Len(worker'[t].batch) :
               MineNext(worker'[t].batch[i], worker'[t].prefix),
             \A p \in Prefixes : \A i \in 1 .. Len(file'[p]) : MineNext(file'[p][i].rev, p)
      PROVE  RecordsInPlace'
  BY <1>0 DEF RecordsInPlace, Mine, MineNext
<1>2. ASSUME UNCHANGED to_write
      PROVE  \A p \in Prefixes : \A i \in 1 .. Len(to_write'[p]) : MineNext(to_write'[p][i], p)
  BY <1>1, <1>2 DEF RecordsInPlace
<1>3. ASSUME UNCHANGED worker
      PROVE  \A t \in Workers : \A i \in 1 .. Len(worker'[t].batch) :
               MineNext(worker'[t].batch[i], worker'[t].prefix)
  BY <1>1, <1>3 DEF RecordsInPlace
<1>4. ASSUME UNCHANGED file
      PROVE  \A p \in Prefixes : \A i \in 1 .. Len(file'[p]) : MineNext(file'[p][i].rev, p)
  BY <1>1, <1>4 DEF RecordsInPlace
<1>5. CASE QuietStep
  <2>1. ASSUME NEW p \in Prefixes, AppendRecord(p), NEW q \in Prefixes, NEW i \in 1 .. Len(to_write'[q])
        PROVE  MineNext(to_write'[q][i], q)
    <3>1. CASE q # p
      <4>1. to_write'[q] = to_write[q]
        BY <2>1, <3>1 DEF AppendRecord, TypeOK, WriterTypeOK
      <4> QED
        BY <1>1, <2>1, <4>1 DEF RecordsInPlace
    <3>2. CASE q = p
      <4>1. to_write'[p] = Append(to_write[p], rev + 1) /\ to_write[p] \in Seq(Nat) /\ rev + 1 \in Nat
        BY <2>1 DEF AppendRecord, TypeOK, WriterTypeOK
      <4>2. MineNext(rev + 1, p)
        BY <2>1, AppendProperties DEF AppendRecord, MineNext, TypeOK, WriterTypeOK
      <4>3. CASE i \in 1 .. Len(to_write[p])
        BY <1>1, <3>2, <4>1, <4>3, AppendProperties DEF RecordsInPlace
      <4>4. CASE i = Len(to_write[p]) + 1
        BY <3>2, <4>1, <4>2, <4>4, AppendProperties
      <4> QED
        BY <2>1, <3>2, <4>1, <4>3, <4>4, AppendProperties
    <3> QED
      BY <3>1, <3>2
  <2>2. \/ UNCHANGED to_write
        \/ \E p \in Prefixes : AppendRecord(p)
    BY <1>5 DEF QuietStep, AppendSkipped, AppendToken, OpenFile, ReplayRecord, ReplayDone
  <2> QED
    BY <1>0, <1>2, <1>3, <1>4, <1>5, <2>1, <2>2, QuietStepFrame
<1>6. CASE Crash
  <2>1. \A p \in Prefixes : \A i \in 1 .. Len(file'[p]) : i \in 1 .. Len(file[p]) /\ file'[p][i] = file[p][i]
    BY <1>6, CrashKeeps, SMTT(30) DEF TypeOK, WriterTypeOK
  <2>2. /\ \A p \in Prefixes : \A i \in 1 .. Len(to_write'[p]) : MineNext(to_write'[p][i], p)
        /\ \A t \in Workers : worker'[t].batch = <<>>
    BY <1>6, NoWorkType DEF Crash
  <2>3. \A p \in Prefixes : \A i \in 1 .. Len(file'[p]) : MineNext(file'[p][i].rev, p)
    BY <1>1, <2>1 DEF RecordsInPlace
  <2> QED
    BY <1>0, <2>2, <2>3
<1>7. ASSUME NEW t \in Workers, WorkerStep(t) \/ WriteFails(t) PROVE RecordsInPlace'
  <2>1. ASSUME Moved(t, worker[t].at, worker'[t].at, worker'[t].prefix, worker'[t].batch),
               \/ worker'[t].batch = <<>>
               \/ worker'[t].batch = worker[t].batch /\ worker'[t].prefix = worker[t].prefix
        PROVE  \A u \in Workers : \A i \in 1 .. Len(worker'[u].batch) :
                 MineNext(worker'[u].batch[i], worker'[u].prefix)
    BY <1>1, <2>1 DEF RecordsInPlace, Moved
  <2>2. CASE \/ TakeToken(t) \/ CheckWork(t) \/ Acquire(t) \/ Fsync(t) \/ FsyncFails(t) \/ Notify(t)
             \/ Release(t) \/ Recheck(t)
    <3>1. UNCHANGED <<to_write, file>>
      BY <2>2 DEF TakeToken, CheckWork, Acquire, Fsync, FsyncFails, Notify, Release, Recheck
    <3>2. /\ Moved(t, worker[t].at, worker'[t].at, worker'[t].prefix, worker'[t].batch)
          /\ \/ worker'[t].batch = <<>>
             \/ worker'[t].batch = worker[t].batch /\ worker'[t].prefix = worker[t].prefix
      BY <2>2, WorkerMoves DEF Moved, WorkersOK
    <3> QED
      BY <1>0, <1>2, <1>4, <2>1, <3>1, <3>2
  <2> DEFINE p == worker[t].prefix
             b == worker[t].batch
  <2>3. CASE Collect(t)
    <3>1. Moved(t, "collect", "collect", p, Append(b, Head(to_write[p])))
      BY <2>3, WorkerMoves
    <3>2. p \in Prefixes /\ to_write[p] # <<>> /\ to_write[p] \in Seq(Nat) /\ b \in Seq(Nat)
      BY <2>3, <3>1 DEF Collect, WorkersOK, Moved, TypeOK, WriterTypeOK, WorkerType
    <3>3. /\ to_write'[p] = Tail(to_write[p])
          /\ \A q \in Prefixes : q # p => to_write'[q] = to_write[q]
          /\ UNCHANGED file
      BY <2>3, <3>2 DEF Collect, TypeOK, WriterTypeOK
    <3> HIDE DEF p, b
    <3>4. ASSUME NEW q \in Prefixes, NEW i \in 1 .. Len(to_write'[q]) PROVE MineNext(to_write'[q][i], q)
      <4>1. CASE q = p
        <5>1. /\ Len(to_write'[p]) = Len(to_write[p]) - 1
              /\ \A k \in 1 .. Len(to_write'[p]) : to_write'[p][k] = to_write[p][k + 1]
          BY <3>2, <3>3, HeadTailProperties
        <5>2. i + 1 \in 1 .. Len(to_write[p]) /\ to_write'[p][i] = to_write[p][i + 1]
          BY <3>2, <4>1, <5>1
        <5> QED
          BY <1>1, <4>1, <3>2, <5>2 DEF RecordsInPlace
      <4>2. CASE q # p
        BY <1>1, <3>3, <4>2 DEF RecordsInPlace
      <4> QED
        BY <4>1, <4>2
    <3>5. MineNext(Head(to_write[p]), p)
      BY <1>1, <3>2, HeadTailProperties DEF RecordsInPlace
    <3>6. \A i \in 1 .. Len(b) : MineNext(b[i], p)
      BY <1>1 DEF RecordsInPlace, p, b
    <3>7. Head(to_write[p]) \in Nat
      BY <3>2
    <3>8. \A i \in 1 .. Len(worker'[t].batch) : MineNext(worker'[t].batch[i], worker'[t].prefix)
      BY <3>1, <3>2, <3>5, <3>6, <3>7, AppendProperties DEF Moved
    <3>9. \A u \in Workers : \A i \in 1 .. Len(worker'[u].batch) : MineNext(worker'[u].batch[i], worker'[u].prefix)
      BY <1>1, <3>1, <3>8 DEF Moved, RecordsInPlace
    <3> QED
      BY <1>0, <1>4, <3>3, <3>4, <3>9
  <2>4. CASE Write(t) \/ WriteFails(t)
    <3>1. /\ worker[t].at = "collect" /\ UNCHANGED to_write
          /\ Moved(t, worker[t].at, worker'[t].at, p, b)
      BY <2>4, WorkerMoves DEF Moved, Write, WriteFails
    <3>2. PICK n \in 0 .. Len(b) : WriteRecords(t, n)
      BY <2>4 DEF Write, WriteFails, TypeOK, WriterTypeOK, WorkerType
    <3>3. /\ p \in Prefixes
          /\ Len(file'[p]) = Len(file[p]) + n
          /\ \A i \in 1 .. Len(file[p]) : file'[p][i] = file[p][i]
          /\ \A i \in 1 .. n : file'[p][Len(file[p]) + i].rev = b[i]
          /\ \A q \in Prefixes : q # p => file'[q] = file[q]
      BY <3>1, <3>2, FileGrows
    <3>4. Len(file[p]) \in Nat /\ b \in Seq(Nat)
      BY <3>3 DEF TypeOK, WriterTypeOK, WorkerType
    <3>5. \A i \in 1 .. Len(b) : Mine(b[i], p)
      BY DEF RecordsInPlace
    <3> HIDE DEF p, b
    <3>6. ASSUME NEW i \in 1 .. Len(file'[p]) PROVE MineNext(file'[p][i].rev, p)
      <4>1. CASE i \in 1 .. Len(file[p])
        BY <1>1, <3>3, <4>1 DEF RecordsInPlace
      <4>2. CASE i \notin 1 .. Len(file[p])
        <5>1. i - Len(file[p]) \in 1 .. n /\ i = Len(file[p]) + (i - Len(file[p]))
          BY <3>3, <3>4, <4>2
        <5>2. file'[p][i].rev = b[i - Len(file[p])]
          BY <3>3, <3>4, <5>1
        <5>3. i - Len(file[p]) \in 1 .. Len(b)
          BY <3>4, <5>1
        <5> QED
          BY <1>1, <3>5, <5>2, <5>3
      <4> QED
        BY <4>1, <4>2
    <3>7. \A q \in Prefixes : \A i \in 1 .. Len(file'[q]) : MineNext(file'[q][i].rev, q)
      BY <1>1, <3>3, <3>6 DEF RecordsInPlace
    <3> QED
      BY <1>0, <1>2, <2>1, <3>1, <3>7 DEF Moved, p, b
  <2> QED
    BY <1>7, <2>2, <2>3, <2>4 DEF WorkerStep
<1> QED
  BY <1>5, <1>6, <1>7, NextCases

(* As long as there is no crash, files only grow. *)
FilesGrow ==
  \A p \in Prefixes : /\ Len(file[p]) <= Len(file'[p])
                      /\ \A i \in 1 .. Len(file[p]) : file'[p][i] = file[p][i]

(* What has reached the disk stays there as it is. *)
Durable ==
  \A p \in Prefixes : /\ synced[p] <= synced'[p]
                      /\ \A i \in 1 .. synced[p] : file'[p][i] = file[p][i]

LEMMA Lengths ==
  /\ TypeOK => \A p \in Prefixes : Len(file[p]) \in Nat /\ synced[p] \in Nat
  /\ TypeOK' => \A p \in Prefixes : Len(file'[p]) \in Nat /\ synced'[p] \in Nat
<1>1. TypeOK => \A p \in Prefixes : file[p] \in Seq(Record) /\ synced[p] \in Nat
  BY DEF TypeOK, WriterTypeOK
<1>2. TypeOK' => \A p \in Prefixes : file'[p] \in Seq(Record) /\ synced'[p] \in Nat
  BY DEF TypeOK, WriterTypeOK
<1> QED
  BY <1>1, <1>2, LenProperties

LEMMA FilesGrowStep ==
  ASSUME TypeOK, WorkersOK, Next, ~Crash
  PROVE  FilesGrow
<1>1. CASE UNCHANGED file
  BY <1>1 DEF FilesGrow, TypeOK, WriterTypeOK
<1>2. CASE QuietStep
  BY <1>1, <1>2, QuietStepFrame
<1>3. ASSUME NEW t \in Workers, WorkerStep(t) \/ WriteFails(t) PROVE FilesGrow
  <2>1. CASE Write(t) \/ WriteFails(t)
    <3>0. Len(worker[t].batch) \in Nat
      BY DEF TypeOK, WriterTypeOK, WorkerType
    <3>1. worker[t].at = "collect" /\ \E n \in 0 .. Len(worker[t].batch) : WriteRecords(t, n)
      BY <2>1, <3>0 DEF Write, WriteFails
    <3> QED
      <4>1. PICK n \in 0 .. Len(worker[t].batch) : WriteRecords(t, n)
        BY <3>1
      <4>2. LET p == worker[t].prefix
            IN  /\ p \in Prefixes
                /\ Len(file'[p]) = Len(file[p]) + n
                /\ \A i \in 1 .. Len(file[p]) : file'[p][i] = file[p][i]
                /\ \A q \in Prefixes : q # p => file'[q] = file[q]
        BY <3>1, <4>1, FileGrows
      <4>3. n \in Nat
        BY <4>1 DEF TypeOK, WriterTypeOK, WorkerType
      <4> QED
        BY <4>2, <4>3, Lengths, SMTT(30) DEF FilesGrow
  <2>2. CASE ~Write(t) /\ ~WriteFails(t)
    BY <1>1, <1>3, <2>2 DEF WorkerStep, TakeToken, CheckWork, Acquire, Collect, Fsync, FsyncFails, Notify,
                             Release, Recheck
  <2> QED
    BY <2>1, <2>2
<1> QED
  BY <1>2, <1>3, NextCases

LEMMA DurableStep ==
  ASSUME TypeOK, TypeOK', WorkersOK, SyncedInFile, Next
  PROVE  Durable /\ SyncedInFile'
<1> USE Lengths
<1>1. CASE Crash
  <2>1. UNCHANGED synced
    BY <1>1 DEF Crash
  <2>2. \A p \in Prefixes : /\ Len(file'[p]) \in synced[p] .. Len(file[p])
                            /\ \A i \in 1 .. Len(file'[p]) : file'[p][i] = file[p][i]
    BY <1>1, CrashKeeps
  <2>3. ASSUME NEW p \in Prefixes
        PROVE  synced'[p] <= Len(file'[p]) /\ \A i \in 1 .. synced[p] : file'[p][i] = file[p][i]
    BY <2>1, <2>2
  <2> QED
    BY <2>1, <2>3 DEF Durable, SyncedInFile
<1>2. CASE ~Crash /\ UNCHANGED synced
  <2>1. FilesGrow
    BY <1>2, FilesGrowStep
  <2>2. ASSUME NEW p \in Prefixes
        PROVE  /\ synced'[p] = synced[p] /\ synced'[p] <= Len(file'[p])
               /\ \A i \in 1 .. synced[p] : file'[p][i] = file[p][i]
    BY <1>2, <2>1 DEF SyncedInFile, FilesGrow
  <2> QED
    BY <2>2 DEF Durable, SyncedInFile
<1>3. ASSUME NEW t \in Workers, Fsync(t) PROVE Durable /\ SyncedInFile'
  BY <1>3 DEF Fsync, Durable, SyncedInFile, TypeOK, WriterTypeOK
<1>4. CASE QuietStep
  BY <1>1, <1>2, <1>4, QuietStepFrame
<1>5. ASSUME NEW t \in Workers, WorkerStep(t) \/ WriteFails(t), ~Fsync(t) PROVE UNCHANGED synced
  BY <1>5 DEF WorkerStep, WriteFails, TakeToken, CheckWork, Acquire, Collect, Write, FsyncFails, Notify,
              Release, Recheck
<1> QED
  BY <1>1, <1>2, <1>3, <1>4, <1>5, NextCases

LEMMA FsyncFailedGrows ==
  ASSUME Next
  PROVE  fsyncFailed \subseteq fsyncFailed'
<1>1. ASSUME NEW t \in Workers, WorkerStep(t) \/ WriteFails(t) PROVE fsyncFailed \subseteq fsyncFailed'
  BY <1>1 DEF WorkerStep, WriteFails, TakeToken, CheckWork, Acquire, Collect, Write, Fsync, FsyncFails,
              Notify, Release, Recheck
<1>2. CASE QuietStep \/ Crash
  BY <1>2, QuietStepFrame DEF Crash
<1> QED
  BY <1>1, <1>2, NextCases

LEMMA BatchStep ==
  ASSUME TypeOK, TypeOK', WorkersOK, SyncedInFile, BatchInFile, Next
  PROVE  BatchInFile'
<1>1. CASE Crash
  BY <1>1, NoWorkType DEF Crash, BatchInFile
<1> DEFINE InFileNow(p, r, a) == \E k \in 1 .. Len(file[p]) :
                                   file[p][k].rev = r /\ (a = "synced" /\ Mode = "Sync" /\ p \notin fsyncFailed => k <= synced[p])
           InFileNext(p, r, a) == \E k \in 1 .. Len(file'[p]) :
                                   file'[p][k].rev = r /\ (a = "synced" /\ Mode = "Sync" /\ p \notin fsyncFailed' => k <= synced'[p])
<1>2. ASSUME ~Crash, NEW p \in Prefixes, NEW r, NEW a, InFileNow(p, r, a) PROVE InFileNext(p, r, a)
  <2>1. FilesGrow /\ Durable
    BY <1>2, FilesGrowStep, DurableStep
  <2>2. /\ Len(file[p]) \in Nat /\ Len(file'[p]) \in Nat /\ synced[p] \in Nat /\ synced'[p] \in Nat
        /\ Len(file[p]) <= Len(file'[p]) /\ synced[p] <= synced'[p]
        /\ \A i \in 1 .. Len(file[p]) : file'[p][i] = file[p][i]
    BY <2>1, Lengths DEF FilesGrow, Durable
  <2>5. fsyncFailed \subseteq fsyncFailed'
    BY FsyncFailedGrows
  <2>3. PICK k \in 1 .. Len(file[p]) : file[p][k].rev = r /\ (a = "synced" /\ Mode = "Sync" /\ p \notin fsyncFailed => k <= synced[p])
    BY <1>2
  <2>4. k \in 1 .. Len(file'[p]) /\ file'[p][k].rev = r /\ (a = "synced" /\ Mode = "Sync" /\ p \notin fsyncFailed' => k <= synced'[p])
    BY <2>2, <2>3, <2>5
  <2> QED
    BY <2>4
<1>3. /\ BatchInFile <=> \A u \in Workers : worker[u].at \in {"written", "synced"} =>
           \A i \in 1 .. Len(worker[u].batch) : InFileNow(worker[u].prefix, worker[u].batch[i], worker[u].at)
      /\ BatchInFile' <=> \A u \in Workers : worker'[u].at \in {"written", "synced"} =>
           \A i \in 1 .. Len(worker'[u].batch) :
             InFileNext(worker'[u].prefix, worker'[u].batch[i], worker'[u].at)
  BY DEF BatchInFile
<1>4. \A u \in Workers : worker[u].at \in {"written", "synced"} => worker[u].prefix \in Prefixes
  BY DEF WorkersOK
<1> HIDE DEF InFileNow, InFileNext
<1>5. CASE QuietStep /\ ~Crash
  BY <1>2, <1>3, <1>4, <1>5, QuietStepFrame
<1>6. ASSUME NEW t \in Workers, WorkerStep(t) \/ WriteFails(t), ~Crash PROVE BatchInFile'
  <2>1. ASSUME \A u \in Workers : u # t => worker'[u] = worker[u],
               worker'[t].at \in {"written", "synced"} =>
                 \A i \in 1 .. Len(worker'[t].batch) :
                   InFileNext(worker'[t].prefix, worker'[t].batch[i], worker'[t].at)
        PROVE  BatchInFile'
    BY <1>2, <1>3, <1>4, <1>6, <2>1
  <2> DEFINE p == worker[t].prefix
             b == worker[t].batch
  <2>2. CASE Write(t)
    <3>1. Moved(t, "collect", "written", p, b)
      BY <2>2, WorkerMoves
    <3>2. Len(b) \in Nat /\ WriteRecords(t, Len(b)) /\ worker[t].at = "collect" /\ p \in Prefixes
      BY <2>2 DEF Write, WorkersOK, TypeOK, WriterTypeOK, WorkerType
    <3>3. /\ Len(file'[p]) = Len(file[p]) + Len(b)
          /\ \A i \in 1 .. Len(b) : file'[p][Len(file[p]) + i].rev = b[i]
      <4>1. Len(b) \in 0 .. Len(b)
        BY <3>2
      <4> QED
        BY <3>2, <4>1, FileGrows
    <3>4. Len(file[p]) \in Nat
      BY <3>2 DEF TypeOK, WriterTypeOK
    <3> HIDE DEF p, b
    <3>5. ASSUME NEW i \in 1 .. Len(b) PROVE InFileNext(p, b[i], "written")
      <4>1. Len(file[p]) + i \in 1 .. Len(file'[p])
        BY <3>2, <3>3, <3>4
      <4> QED
        BY <3>3, <4>1 DEF InFileNext
    <3> QED
      BY <2>1, <3>1, <3>5 DEF Moved
  <2>3. CASE Fsync(t)
    <3>1. Moved(t, "written", "synced", p, b)
      BY <2>3, WorkerMoves
    <3>2. p \in Prefixes
      BY <1>4, <3>1 DEF Moved
    <3>3. /\ UNCHANGED <<file, fsyncFailed>> /\ Len(file[p]) \in Nat
          /\ Mode = "Sync" /\ p \notin fsyncFailed => synced'[p] = Len(file[p])
      BY <2>3, <3>2 DEF Fsync, TypeOK, WriterTypeOK
    <3>4. \A i \in 1 .. Len(b) : InFileNow(p, b[i], "written")
      BY <1>3, <3>1 DEF Moved
    <3>5. ASSUME NEW i \in 1 .. Len(b) PROVE InFileNext(p, b[i], "synced")
      <4>1. PICK k \in 1 .. Len(file[p]) : file[p][k].rev = b[i]
        BY <3>4 DEF InFileNow
      <4>2. Mode = "Sync" /\ p \notin fsyncFailed' => k <= synced'[p]
        BY <3>3, <4>1
      <4> QED
        BY <3>3, <4>1, <4>2 DEF InFileNext
    <3> QED
      BY <2>1, <3>1, <3>5 DEF Moved
  <2>5. CASE FsyncFails(t)
    <3>1. Moved(t, "written", "synced", p, b)
      BY <2>5, WorkerMoves
    <3>2. UNCHANGED file /\ p \in fsyncFailed'
      BY <2>5 DEF FsyncFails
    <3>3. \A i \in 1 .. Len(b) : InFileNow(p, b[i], "written")
      BY <1>3, <3>1 DEF Moved
    <3>4. \A i \in 1 .. Len(b) : InFileNext(p, b[i], "synced")
      BY <3>2, <3>3 DEF InFileNow, InFileNext
    <3> QED
      BY <2>1, <3>1, <3>4 DEF Moved
  <2>4. CASE \/ TakeToken(t) \/ CheckWork(t) \/ Acquire(t) \/ Collect(t) \/ WriteFails(t) \/ Notify(t)
             \/ Release(t) \/ Recheck(t)
    <3>1. worker'[t].at \notin {"written", "synced"} /\ \A u \in Workers : u # t => worker'[u] = worker[u]
      BY <2>4, WorkerMoves DEF Moved
    <3> QED
      BY <2>1, <3>1
  <2> QED
    BY <1>6, <2>2, <2>3, <2>4, <2>5 DEF WorkerStep
<1> QED
  BY <1>1, <1>5, <1>6, NextCases

(* notify_one comes after the batch has been written and flushed, and nothing
   takes back what is on the disk. *)
LEMMA AckedStep ==
  ASSUME TypeOK, TypeOK', WorkersOK, DiskInv, Next
  PROVE  AckedAppended' /\ AckedInPlace'
<1> DEFINE OnDisk(r) == prefixOf[r] \notin fsyncFailed => \E i \in 1 .. synced[prefixOf[r]] :
                          i <= Len(file[prefixOf[r]]) /\ file[prefixOf[r]][i].rev = r
           OnDiskNext(r) == prefixOf'[r] \notin fsyncFailed' => \E i \in 1 .. synced'[prefixOf'[r]] :
                          i <= Len(file'[prefixOf'[r]]) /\ file'[prefixOf'[r]][i].rev = r
<1>1. HistoryKept /\ Durable /\ SyncedInFile' /\ fsyncFailed \subseteq fsyncFailed'
  BY HistoryStep, DurableStep, FsyncFailedGrows DEF DiskInv
<1>2. rev \in Nat /\ rev' \in Nat /\ prefixOf \in Seq(Prefixes) /\ Len(prefixOf) = rev
  BY DEF TypeOK, WriterTypeOK
<1>3. ASSUME NEW r \in 1 .. rev, OnDisk(r) PROVE OnDiskNext(r)
  <2>1. prefixOf[r] \in Prefixes /\ prefixOf'[r] = prefixOf[r]
    BY <1>1, <1>2 DEF HistoryKept
  <2> SUFFICES ASSUME prefixOf'[r] \notin fsyncFailed' PROVE OnDiskNext(r)
    OBVIOUS
  <2> DEFINE p == prefixOf[r]
  <2>2. PICK i \in 1 .. synced[p] : i <= Len(file[p]) /\ file[p][i].rev = r
    BY <1>1, <1>3, <2>1
  <2>3. /\ synced[p] <= synced'[p] /\ file'[p][i] = file[p][i] /\ synced'[p] <= Len(file'[p])
        /\ synced[p] \in Nat /\ synced'[p] \in Nat /\ Len(file'[p]) \in Nat
    BY <1>1, <2>1, <2>2, Lengths DEF Durable, SyncedInFile
  <2>4. i \in 1 .. synced'[p] /\ i <= Len(file'[p]) /\ file'[p][i].rev = r
    BY <2>2, <2>3
  <2> QED
    BY <2>1, <2>4
<1>4. /\ AckedInPlace <=> \A r \in acked : OnDisk(r)
      /\ AckedInPlace' <=> \A r \in acked' : OnDiskNext(r)
  BY DEF AckedInPlace
<1>5. acked \subseteq 1 .. rev /\ acked \subseteq 1 .. rev' /\ \A r \in acked : OnDiskNext(r)
  BY <1>1, <1>2, <1>3, <1>4, SMTT(30) DEF DiskInv, AckedAppended, HistoryKept
<1> HIDE DEF OnDisk, OnDiskNext
<1>6. CASE UNCHANGED acked
  BY <1>4, <1>5, <1>6 DEF AckedAppended
<1>7. ASSUME NEW t \in Workers, Notify(t) PROVE AckedAppended' /\ AckedInPlace'
  <2> DEFINE p == worker[t].prefix
             b == worker[t].batch
  <2>1. /\ worker[t].at = "synced" /\ p \in Prefixes /\ b \in Seq(Nat)
        /\ UNCHANGED <<rev, prefixOf, file, synced, fsyncFailed>>
    BY <1>7 DEF Notify, WorkersOK, TypeOK, WriterTypeOK, WorkerType, appendVars
  <2>2. acked' = acked \/ (Mode = "Sync" /\ acked' = acked \union {b[i] : i \in 1 .. Len(b)})
    BY <1>7 DEF Notify
  <2>3. ASSUME NEW i \in 1 .. Len(b), Mode = "Sync" PROVE b[i] \in 1 .. rev /\ OnDisk(b[i])
    <3>1. b[i] \in 1 .. rev /\ prefixOf[b[i]] = p
      BY DEF DiskInv, RecordsInPlace, Mine
    <3> SUFFICES ASSUME p \notin fsyncFailed PROVE b[i] \in 1 .. rev /\ OnDisk(b[i])
      BY <3>1 DEF OnDisk
    <3>2. PICK k \in 1 .. Len(file[p]) : file[p][k].rev = b[i] /\ k <= synced[p]
      BY <2>1, <2>3 DEF DiskInv, BatchInFile
    <3>3. k \in 1 .. synced[p] /\ k <= Len(file[p])
      BY <2>1, <3>2, Lengths
    <3> QED
      BY <3>1, <3>2, <3>3 DEF OnDisk
  <2>4. CASE Mode = "Sync" /\ acked' = acked \union {b[i] : i \in 1 .. Len(b)}
    <3>1. \A i \in 1 .. Len(b) : b[i] \in 1 .. rev' /\ OnDiskNext(b[i])
      BY <1>3, <2>1, <2>3, <2>4
    <3> HIDE DEF b
    <3> QED
      BY <1>4, <1>5, <2>4, <3>1 DEF AckedAppended
  <2> QED
    BY <1>6, <2>2, <2>4
<1>8. CASE QuietStep \/ Crash
  BY <1>6, <1>8, QuietStepFrame DEF Crash
<1>9. ASSUME NEW t \in Workers, WorkerStep(t) \/ WriteFails(t), ~Notify(t) PROVE UNCHANGED acked
  BY <1>9 DEF WorkerStep, WriteFails, TakeToken, CheckWork, Acquire, Collect, Write, Fsync, FsyncFails,
              Release, Recheck
<1> QED
  BY <1>6, <1>7, <1>8, <1>9, NextCases

LEMMA DiskStep == ControlInv /\ ControlInv' /\ DiskInv /\ [Next]_vars => DiskInv'
<1> SUFFICES ASSUME ControlInv, ControlInv', DiskInv, [Next]_vars PROVE DiskInv'
  OBVIOUS
<1>1. CASE Next
  <2>1. TypeOK /\ TypeOK' /\ WorkersOK
    BY DEF ControlInv
  <2>2. RecordsInPlace'
    BY <1>1, <2>1, RecordsStep DEF DiskInv
  <2>3. SyncedInFile'
    BY <1>1, <2>1, DurableStep DEF DiskInv
  <2>4. BatchInFile'
    BY <1>1, <2>1, BatchStep DEF DiskInv
  <2>5. AckedAppended' /\ AckedInPlace'
    BY <1>1, <2>1, AckedStep
  <2> QED
    BY <2>2, <2>3, <2>4, <2>5 DEF DiskInv
<1>2. CASE UNCHANGED vars
  BY <1>2 DEF vars, appendVars, DiskInv, RecordsInPlace, Mine, SyncedInFile, BatchInFile, AckedAppended,
              AckedInPlace
<1> QED
  BY <1>1, <1>2

LEMMA DiskCorrect == Spec => [](ControlInv /\ DiskInv)
  BY InitControl, ControlStep, InitDisk, DiskStep, PTL DEF Spec

(* In fsync mode the record of a put that completed is on the disk, before
   and after any number of failed writes and a crash, as long as no fsync of
   its file has failed and no record of the file was garbled. *)
THEOREM AckedSurvives == Spec => []AckedIsOnDisk
<1>1. ControlInv /\ DiskInv => AckedIsOnDisk
  <2> SUFFICES ASSUME ControlInv, DiskInv, NEW r \in acked,
                      prefixOf[r] \notin fsyncFailed, Sound(prefixOf[r])
               PROVE  \E i \in 1 .. synced[prefixOf[r]] :
                        i <= Len(file[prefixOf[r]]) /\ file[prefixOf[r]][i] = [rev |-> r, intact |-> TRUE]
    BY DEF AckedIsOnDisk
  <2> DEFINE p == prefixOf[r]
  <2>1. PICK i \in 1 .. synced[p] : i <= Len(file[p]) /\ file[p][i].rev = r
    BY DEF DiskInv, AckedInPlace
  <2>2. p \in Prefixes
    BY DEF ControlInv, TypeOK, WriterTypeOK, DiskInv, AckedAppended
  <2>3. file[p] \in Seq(Record) /\ synced[p] \in Nat /\ Len(file[p]) \in Nat
    BY <2>2, Lengths DEF ControlInv, TypeOK, WriterTypeOK
  <2>4. i \in 1 .. Len(file[p])
    BY <2>1, <2>3
  <2>5. file[p][i] \in Record /\ file[p][i].intact
    BY <2>3, <2>4, ElementOfSeq DEF Sound
  <2>6. \A x \in Record : x.rev = r /\ x.intact => x = [rev |-> r, intact |-> TRUE]
    BY DEF Record
  <2> QED
    BY <2>1, <2>5, <2>6
<1> QED
  BY <1>1, DiskCorrect, PTL

(* No step, a crash included, changes what fsync has put on the disk. *)
THEOREM SyncedStays == Spec => [][Durable]_vars
<1>1. ControlInv /\ ControlInv' /\ DiskInv /\ [Next]_vars => [Durable]_vars
  BY DurableStep DEF ControlInv, DiskInv
<1> QED
  BY <1>1, DiskCorrect, PTL DEF Spec

-------------------------------------------------------------------------------
(***************************************************************************)
(* File order.  Pending(p) is the sequence FileInRevOrder is about: the    *)
(* file, the batch in hand and the queue of a prefix, end to end.          *)
(***************************************************************************)
Pending(p) == InFile(p) \o InBatch(p) \o to_write[p]

OrderInv ==
  \A p \in Prefixes :
    /\ phase = "up" =>
         /\ Increasing(Pending(p))
         /\ Persisted(p) /\ p \notin broken =>
              {Pending(p)[i] : i \in 1 .. Len(Pending(p))} = {r \in 1 .. rev : prefixOf[r] = p}
    /\ phase # "up" => Increasing(InFile(p))

(* InFile, InBatch and Pending of given files, workers and queues. *)
RevsOf(f) == [i \in 1 .. Len(f) |-> f[i].rev]

BatchOf(w, p) ==
  LET W == {t \in Workers : w[t].prefix = p /\ w[t].at = "collect"}
  IN  IF W = {} THEN <<>> ELSE w[CHOOSE t \in W : TRUE].batch

Joined(f, b, q) == RevsOf(f) \o b \o q

LEMMA PendingIs ==
  /\ \A p : Pending(p) = Joined(file[p], BatchOf(worker, p), to_write[p]) /\ InFile(p) = RevsOf(file[p])
  /\ \A p : Pending(p)' = Joined(file'[p], BatchOf(worker', p), to_write'[p]) /\ InFile(p)' = RevsOf(file'[p])
  BY DEF Pending, Joined, InFile, InBatch, RevsOf, BatchOf

LEMMA BatchOfWriter ==
  ASSUME NEW w, NEW p, NEW t \in Workers, w[t].prefix = p, w[t].at = "collect",
         \A u \in Workers : w[u].prefix = p /\ w[u].at = "collect" => u = t
  PROVE  BatchOf(w, p) = w[t].batch
<1> DEFINE W == {u \in Workers : w[u].prefix = p /\ w[u].at = "collect"}
<1>1. W = {t}
  OBVIOUS
<1>2. (CHOOSE u \in W : TRUE) = t
  BY <1>1
<1> QED
  BY <1>1, <1>2 DEF BatchOf

LEMMA BatchOfNobody ==
  ASSUME NEW w, NEW p, \A u \in Workers : ~(w[u].prefix = p /\ w[u].at = "collect")
  PROVE  BatchOf(w, p) = <<>>
  BY DEF BatchOf

(* A worker that does not collect for p before nor after makes no difference. *)
LEMMA BatchOfOthers ==
  ASSUME NEW w, NEW v, NEW p, NEW t \in Workers,
         \A u \in Workers : u # t => v[u] = w[u],
         ~(w[t].prefix = p /\ w[t].at = "collect"),
         ~(v[t].prefix = p /\ v[t].at = "collect")
  PROVE  BatchOf(v, p) = BatchOf(w, p)
<1> DEFINE W == {u \in Workers : w[u].prefix = p /\ w[u].at = "collect"}
           V == {u \in Workers : v[u].prefix = p /\ v[u].at = "collect"}
<1>1. V = W /\ t \notin W
  OBVIOUS
<1>2. W # {} => (CHOOSE u \in W : TRUE) \in W
  OBVIOUS
<1>3. W # {} => v[CHOOSE u \in W : TRUE] = w[CHOOSE u \in W : TRUE]
  BY <1>1, <1>2
<1> HIDE DEF V, W
<1>4. BatchOf(v, p) = IF V = {} THEN <<>> ELSE v[CHOOSE u \in V : TRUE].batch
  BY DEF BatchOf, V
<1>5. BatchOf(w, p) = IF W = {} THEN <<>> ELSE w[CHOOSE u \in W : TRUE].batch
  BY DEF BatchOf, W
<1> QED
  BY <1>1, <1>3, <1>4, <1>5

LEMMA RevsOfProperties ==
  ASSUME NEW f \in Seq(Record)
  PROVE  RevsOf(f) \in Seq(Nat) /\ Len(RevsOf(f)) = Len(f) /\ \A i \in 1 .. Len(f) : RevsOf(f)[i] = f[i].rev
<1>1. \A i \in 1 .. Len(f) : f[i] \in Record
  BY ElementOfSeq
<1>2. \A r \in Record : r.rev \in Nat
  BY DEF Record
<1> QED
  BY <1>1, <1>2, LenProperties DEF RevsOf

LEMMA ConcatIndices ==
  ASSUME NEW s \in Seq(Nat), NEW b \in Seq(Nat)
  PROVE  /\ s \o b \in Seq(Nat)
         /\ Len(s \o b) = Len(s) + Len(b)
         /\ \A i \in 1 .. Len(s) : (s \o b)[i] = s[i]
         /\ \A i \in 1 .. Len(b) : (s \o b)[Len(s) + i] = b[i]
<1>1. s \o b \in Seq(Nat) /\ Len(s \o b) = Len(s) + Len(b)
  BY ConcatProperties
<1>2. \A i \in 1 .. Len(s) : (s \o b)[i] = s[i]
  OBVIOUS
<1>3. \A i \in 1 .. Len(b) : (s \o b)[Len(s) + i] = b[i]
  OBVIOUS
<1> QED
  BY <1>1, <1>2, <1>3

LEMMA JoinedProperties ==
  ASSUME NEW f \in Seq(Record), NEW b \in Seq(Nat), NEW q \in Seq(Nat)
  PROVE  /\ Joined(f, b, q) \in Seq(Nat)
         /\ Len(Joined(f, b, q)) = Len(f) + Len(b) + Len(q)
         /\ \A i \in 1 .. Len(f) : Joined(f, b, q)[i] = f[i].rev
         /\ \A i \in 1 .. Len(b) : Joined(f, b, q)[Len(f) + i] = b[i]
         /\ \A i \in 1 .. Len(q) : Joined(f, b, q)[Len(f) + Len(b) + i] = q[i]
<1> DEFINE s == RevsOf(f)
<1>1. s \in Seq(Nat) /\ Len(s) = Len(f) /\ \A i \in 1 .. Len(f) : s[i] = f[i].rev
  BY RevsOfProperties
<1> HIDE DEF s
<1>2. /\ s \o b \in Seq(Nat)
      /\ Len(s \o b) = Len(s) + Len(b)
      /\ \A i \in 1 .. Len(s) : (s \o b)[i] = s[i]
      /\ \A i \in 1 .. Len(b) : (s \o b)[Len(s) + i] = b[i]
  BY <1>1, ConcatIndices
<1> DEFINE u == s \o b
<1>3. u \in Seq(Nat) /\ Len(u) = Len(s) + Len(b)
  BY <1>2
<1> HIDE DEF u
<1>4. /\ u \o q \in Seq(Nat)
      /\ Len(u \o q) = Len(u) + Len(q)
      /\ \A i \in 1 .. Len(u) : (u \o q)[i] = u[i]
      /\ \A i \in 1 .. Len(q) : (u \o q)[Len(u) + i] = q[i]
  BY <1>3, ConcatIndices
<1>5. Joined(f, b, q) = u \o q
  BY DEF Joined, u, s
<1>6. Len(f) \in Nat /\ Len(b) \in Nat /\ Len(q) \in Nat
  BY LenProperties
<1>7. \A i \in 1 .. Len(f) : u[i] = f[i].rev /\ i \in 1 .. Len(u)
  BY <1>1, <1>2, <1>3, <1>6 DEF u
<1>8. \A i \in 1 .. Len(b) : u[Len(f) + i] = b[i] /\ Len(f) + i \in 1 .. Len(u)
  BY <1>1, <1>2, <1>3, <1>6 DEF u
<1> QED
  BY <1>1, <1>3, <1>4, <1>5, <1>6, <1>7, <1>8

(* Every place of the joined sequence is in one of its three parts. *)
LEMMA JoinedCases ==
  ASSUME NEW f \in Seq(Record), NEW b \in Seq(Nat), NEW q \in Seq(Nat),
         NEW i \in 1 .. Len(f) + Len(b) + Len(q)
  PROVE  \/ i \in 1 .. Len(f) /\ Joined(f, b, q)[i] = f[i].rev
         \/ i - Len(f) \in 1 .. Len(b) /\ Joined(f, b, q)[i] = b[i - Len(f)]
         \/ i - Len(f) - Len(b) \in 1 .. Len(q) /\ Joined(f, b, q)[i] = q[i - Len(f) - Len(b)]
<1>1. Len(f) \in Nat /\ Len(b) \in Nat /\ Len(q) \in Nat
  BY LenProperties
<1>2. CASE i \in 1 .. Len(f)
  BY <1>2, JoinedProperties
<1>3. CASE i - Len(f) \in 1 .. Len(b)
  <2>1. i = Len(f) + (i - Len(f))
    BY <1>1
  <2> QED
    BY <1>3, <2>1, JoinedProperties
<1>4. CASE i - Len(f) - Len(b) \in 1 .. Len(q)
  <2>1. i = Len(f) + Len(b) + (i - Len(f) - Len(b))
    BY <1>1
  <2> QED
    BY <1>4, <2>1, JoinedProperties
<1> QED
  BY <1>1, <1>2, <1>3, <1>4

LEMMA Regroup3 == \A s, b, h \in Seq(Nat) : (s \o b) \o h = s \o (b \o h)
<1> SUFFICES ASSUME NEW s \in Seq(Nat), NEW b \in Seq(Nat), NEW h \in Seq(Nat)
             PROVE  (s \o b) \o h = s \o (b \o h)
  OBVIOUS
<1> QED
  BY ConcatAssociative, SMTT(30)

(* Collect moves the head of the queue to the end of the batch. *)
LEMMA JoinedCollect ==
  ASSUME NEW f \in Seq(Record), NEW b \in Seq(Nat), NEW q \in Seq(Nat), q # <<>>
  PROVE  Joined(f, Append(b, Head(q)), Tail(q)) = Joined(f, b, q)
<1>1. RevsOf(f) \in Seq(Nat)
  BY RevsOfProperties
<1>2. Tail(q) \in Seq(Nat) /\ <<Head(q)>> \in Seq(Nat)
  BY HeadTailProperties
<1>3. ASSUME NEW s \in Seq(Nat), NEW x \in Seq(Nat), NEW y \in Seq(Nat)
      PROVE  (s \o (b \o x)) \o y = (s \o b) \o (x \o y)
  <2>1. s \o b \in Seq(Nat)
    BY ConcatProperties
  <2>2. (s \o b) \o x = s \o (b \o x)
    BY Regroup3, Zenon
  <2>3. ((s \o b) \o x) \o y = (s \o b) \o (x \o y)
    BY <2>1, Regroup3, Zenon
  <2> QED
    BY <2>2, <2>3
<1>4. (RevsOf(f) \o (b \o <<Head(q)>>)) \o Tail(q) = (RevsOf(f) \o b) \o (<<Head(q)>> \o Tail(q))
  BY <1>1, <1>2, <1>3, Zenon
<1>5. q = <<Head(q)>> \o Tail(q) /\ Append(b, Head(q)) = b \o <<Head(q)>>
  BY HeadTailProperties
<1> QED
  BY <1>4, <1>5, Zenon DEF Joined

(* Write moves the whole batch to the end of the file. *)
LEMMA JoinedWrite ==
  ASSUME NEW f \in Seq(Record), NEW g \in Seq(Record), NEW b \in Seq(Nat), NEW q \in Seq(Nat),
         Len(g) = Len(f) + Len(b),
         \A i \in 1 .. Len(f) : g[i] = f[i],
         \A i \in 1 .. Len(b) : g[Len(f) + i].rev = b[i]
  PROVE  Joined(g, <<>>, q) = Joined(f, b, q)
<1>1. RevsOf(f) \in Seq(Nat) /\ RevsOf(g) \in Seq(Nat)
  BY RevsOfProperties
<1>2. RevsOf(g) = RevsOf(f) \o b
  <2> DEFINE u == RevsOf(g)
             s == RevsOf(f)
             v == s \o b
  <2>0. s \in Seq(Nat) /\ Len(s) = Len(f) /\ \A i \in 1 .. Len(f) : s[i] = f[i].rev
    BY RevsOfProperties
  <2> HIDE DEF s
  <2>1. /\ v \in Seq(Nat) /\ Len(v) = Len(f) + Len(b)
        /\ \A i \in 1 .. Len(f) : v[i] = f[i].rev
        /\ \A i \in 1 .. Len(b) : v[Len(f) + i] = b[i]
    <3>1. /\ v \in Seq(Nat) /\ Len(v) = Len(s) + Len(b)
          /\ \A i \in 1 .. Len(s) : v[i] = s[i]
          /\ \A i \in 1 .. Len(b) : v[Len(s) + i] = b[i]
      BY <2>0, ConcatIndices
    <3> HIDE DEF v
    <3> QED
      BY <2>0, <3>1
  <2>2. u \in Seq(Nat) /\ Len(u) = Len(g) /\ \A i \in 1 .. Len(g) : u[i] = g[i].rev
    BY RevsOfProperties
  <2>3. Len(f) \in Nat /\ Len(b) \in Nat
    BY LenProperties
  <2> HIDE DEF u, v
  <2>4. ASSUME NEW i \in 1 .. Len(g) PROVE u[i] = v[i]
    <3>1. CASE i \in 1 .. Len(f)
      BY <2>1, <2>2, <3>1
    <3>2. CASE i \notin 1 .. Len(f)
      <4>1. i - Len(f) \in 1 .. Len(b) /\ i = Len(f) + (i - Len(f))
        BY <2>3, <3>2
      <4>2. v[i] = b[i - Len(f)] /\ g[i].rev = b[i - Len(f)]
        BY <2>1, <4>1
      <4> QED
        BY <2>2, <4>2
    <3> QED
      BY <3>1, <3>2
  <2>5. u = v
    BY <2>1, <2>2, <2>4, SeqEqual
  <2> QED
    BY <2>5 DEF u, v, s
<1>3. RevsOf(g) \o <<>> = RevsOf(g)
  BY <1>1, ConcatEmptySeq
<1> QED
  BY <1>2, <1>3 DEF Joined

(* append puts the new revision at the end. *)
LEMMA JoinedAppend ==
  ASSUME NEW f \in Seq(Record), NEW b \in Seq(Nat), NEW q \in Seq(Nat), NEW r \in Nat
  PROVE  Joined(f, b, Append(q, r)) = Append(Joined(f, b, q), r)
<1> DEFINE s == RevsOf(f) \o b
<1>1. s \in Seq(Nat)
  BY RevsOfProperties, ConcatProperties
<1> HIDE DEF s
<1>2. s \o q \in Seq(Nat) /\ <<r>> \in Seq(Nat)
  BY <1>1, ConcatProperties
<1>3. Append(q, r) = q \o <<r>> /\ Append(s \o q, r) = (s \o q) \o <<r>>
  BY <1>2, AppendIsConcat
<1>4. s \o (q \o <<r>>) = (s \o q) \o <<r>>
  BY <1>1, <1>2, ConcatAssociative
<1> QED
  BY <1>3, <1>4 DEF Joined, s

LEMMA PendingParts ==
  ASSUME TypeOK, NEW p \in Prefixes
  PROVE  file[p] \in Seq(Record) /\ BatchOf(worker, p) \in Seq(Nat) /\ to_write[p] \in Seq(Nat)
<1>1. \A t \in Workers : worker[t].batch \in Seq(Nat)
  BY DEF TypeOK, WriterTypeOK, WorkerType
<1> DEFINE W == {t \in Workers : worker[t].prefix = p /\ worker[t].at = "collect"}
<1>2. W # {} => (CHOOSE t \in W : TRUE) \in Workers
  <2>1. W # {} => (CHOOSE t \in W : TRUE) \in W
    OBVIOUS
  <2> QED
    BY <2>1
<1>3. BatchOf(worker, p) = IF W = {} THEN <<>> ELSE worker[CHOOSE t \in W : TRUE].batch
  BY DEF BatchOf
<1> HIDE DEF W
<1>4. BatchOf(worker, p) \in Seq(Nat)
  BY <1>1, <1>2, <1>3
<1> QED
  BY <1>4 DEF TypeOK, WriterTypeOK

(* The worker that collects for a prefix, before and after a step. *)
LEMMA OneCollector ==
  ASSUME OneWriter, NEW p \in Prefixes
  PROVE  \A t, u \in Workers :
           worker[t].prefix = p /\ worker[t].at = "collect" /\ worker[u].prefix = p /\ worker[u].at = "collect"
             => t = u
  BY DEF OneWriter, Writing

(* A step leaves Pending alone, appends to it, or is a write that fails. *)
LEMMA PendingStep ==
  ASSUME TypeOK, WorkersOK, OneWriter, Next, phase' = "up", NEW p \in Prefixes
  PROVE  \/ Pending(p)' = Pending(p)
         \/ AppendRecord(p) /\ Pending(p)' = Append(Pending(p), rev + 1)
         \/ \E t \in Workers : WriteFails(t) /\ worker[t].prefix = p
<1> USE DEF appendVars, bootVars
<1>1. file[p] \in Seq(Record) /\ BatchOf(worker, p) \in Seq(Nat) /\ to_write[p] \in Seq(Nat)
  BY PendingParts
<1>2. ASSUME file'[p] = file[p], BatchOf(worker', p) = BatchOf(worker, p), to_write'[p] = to_write[p]
      PROVE  Pending(p)' = Pending(p)
  BY <1>2, PendingIs
<1>3. CASE QuietStep
  <2>1. UNCHANGED <<worker, file>>
    BY <1>3, QuietStepFrame
  <2>2. CASE AppendRecord(p)
    <3>1. to_write'[p] = Append(to_write[p], rev + 1) /\ rev + 1 \in Nat
      BY <2>2 DEF AppendRecord, TypeOK, WriterTypeOK
    <3>2. Joined(file[p], BatchOf(worker, p), Append(to_write[p], rev + 1)) =
            Append(Joined(file[p], BatchOf(worker, p), to_write[p]), rev + 1)
      BY <1>1, <3>1, JoinedAppend
    <3>3. Pending(p)' = Append(Pending(p), rev + 1)
      BY <2>1, <3>1, <3>2, PendingIs
    <3> QED
      BY <2>2, <3>3
  <2>3. CASE ~AppendRecord(p)
    <3>1. to_write'[p] = to_write[p]
      BY <1>3, <2>3 DEF QuietStep, AppendSkipped, AppendRecord, AppendToken, OpenFile, ReplayRecord, ReplayDone,
                        TypeOK, WriterTypeOK
    <3> QED
      BY <1>2, <2>1, <3>1
  <2> QED
    BY <2>2, <2>3
<1>4. ASSUME NEW t \in Workers, WorkerStep(t) \/ WriteFails(t)
      PROVE  Pending(p)' = Pending(p) \/ (WriteFails(t) /\ worker[t].prefix = p)
  <2> DEFINE q == worker[t].prefix
             b == worker[t].batch
  <2>1. \A u \in Workers : u # t => worker'[u] = worker[u]
    BY <1>4, WorkerMoves DEF Moved, WorkerStep
  (* t collects for p neither before nor after *)
  <2>2. ASSUME ~(worker[t].prefix = p /\ worker[t].at = "collect"),
               ~(worker'[t].prefix = p /\ worker'[t].at = "collect")
        PROVE  BatchOf(worker', p) = BatchOf(worker, p)
    BY <2>1, <2>2, BatchOfOthers
  <2>3. CASE \/ TakeToken(t) \/ CheckWork(t) \/ Fsync(t) \/ FsyncFails(t) \/ Notify(t) \/ Release(t)
             \/ Recheck(t)
    <3>1. worker[t].at # "collect" /\ worker'[t].at # "collect"
      BY <2>3, WorkerMoves DEF Moved
    <3>2. UNCHANGED <<file, to_write>>
      BY <2>3 DEF TakeToken, CheckWork, Fsync, FsyncFails, Notify, Release, Recheck
    <3> QED
      BY <1>2, <2>2, <3>1, <3>2
  <2>4. CASE Acquire(t)
    <3>1. UNCHANGED <<file, to_write>> /\ worker[t].at = "cas" /\ q \in Prefixes /\ b = <<>>
      BY <2>4 DEF Acquire, WorkersOK
    <3>2. CASE is_writing[q] \/ q # p
      <4>1. ~(worker'[t].prefix = p /\ worker'[t].at = "collect")
        BY <2>4, <3>2, WorkerMoves DEF Moved
      <4> QED
        BY <1>2, <2>2, <3>1, <4>1
    <3>3. CASE ~is_writing[q] /\ q = p
      <4>1. Moved(t, "cas", "collect", p, b)
        BY <2>4, <3>3, WorkerMoves
      <4>2. \A u \in Workers : ~(worker[u].prefix = p /\ worker[u].at = "collect")
        BY <3>3 DEF OneWriter, Writing
      <4>3. BatchOf(worker, p) = <<>>
        BY <4>2, BatchOfNobody
      <4>4. BatchOf(worker', p) = worker'[t].batch
        BY <4>1, <4>2, BatchOfWriter DEF Moved
      <4> QED
        BY <1>2, <3>1, <4>1, <4>3, <4>4 DEF Moved
    <3> QED
      BY <3>2, <3>3
  <2>5. CASE Collect(t)
    <3>1. Moved(t, "collect", "collect", q, Append(b, Head(to_write[q])))
      BY <2>5, WorkerMoves
    <3>2. /\ UNCHANGED file /\ q \in Prefixes /\ to_write[q] # <<>> /\ to_write'[q] = Tail(to_write[q])
          /\ p # q => to_write'[p] = to_write[p]
      BY <2>5, <3>1 DEF Collect, WorkersOK, Moved, TypeOK, WriterTypeOK
    <3>3. CASE p # q
      BY <1>2, <2>2, <3>1, <3>2, <3>3 DEF Moved
    <3>4. CASE p = q
      <4>1. BatchOf(worker, p) = b
        BY <3>1, <3>4, OneCollector, BatchOfWriter DEF Moved
      <4>2. BatchOf(worker', p) = worker'[t].batch
        <5>1. \A u \in Workers : worker'[u].prefix = p /\ worker'[u].at = "collect" => u = t
          BY <3>1, <3>4, OneCollector DEF Moved
        <5> QED
          BY <3>1, <3>4, <5>1, BatchOfWriter DEF Moved
      <4>3. Joined(file[p], Append(b, Head(to_write[p])), Tail(to_write[p])) = Joined(file[p], b, to_write[p])
        BY <1>1, <3>2, <3>4, <4>1, JoinedCollect
      <4> QED
        BY <3>1, <3>2, <3>4, <4>1, <4>2, <4>3, PendingIs DEF Moved
    <3> QED
      BY <3>3, <3>4
  <2>6. CASE Write(t) \/ WriteFails(t)
    <3>1. /\ Moved(t, "collect", worker'[t].at, q, b) /\ worker'[t].at # "collect"
          /\ UNCHANGED to_write
      BY <2>6, WorkerMoves DEF Moved, Write, WriteFails
    <3>2. q \in Prefixes /\ worker[t].at = "collect" /\ Len(b) \in Nat
      BY <3>1 DEF Moved, WorkersOK, TypeOK, WriterTypeOK, WorkerType
    <3>3. CASE p # q
      <4>1. PICK n \in 0 .. Len(b) : WriteRecords(t, n)
        BY <2>6, <3>2 DEF Write, WriteFails
      <4>2. file'[p] = file[p]
        BY <3>2, <3>3, <4>1, FileGrows
      <4> QED
        BY <1>2, <2>2, <3>1, <3>3, <4>2 DEF Moved
    <3>4. CASE Write(t) /\ p = q
      <4>1. BatchOf(worker, p) = b
        BY <3>1, <3>4, OneCollector, BatchOfWriter DEF Moved
      <4>2. BatchOf(worker', p) = <<>>
        <5>1. \A u \in Workers : ~(worker'[u].prefix = p /\ worker'[u].at = "collect")
          BY <3>1, <3>4, OneCollector DEF Moved
        <5> QED
          BY <5>1, BatchOfNobody
      <4>3. Len(b) \in 0 .. Len(b) /\ WriteRecords(t, Len(b))
        BY <3>2, <3>4 DEF Write
      <4>4. /\ Len(file'[p]) = Len(file[p]) + Len(b)
            /\ \A i \in 1 .. Len(file[p]) : file'[p][i] = file[p][i]
            /\ \A i \in 1 .. Len(b) : file'[p][Len(file[p]) + i].rev = b[i]
        BY <3>2, <3>4, <4>3, FileGrows
      <4>5. file'[p] \in Seq(Record) /\ b \in Seq(Nat)
        BY <1>1, <3>2, <4>1, <4>3, WriteRecordsType
      <4>6. Joined(file'[p], <<>>, to_write[p]) = Joined(file[p], b, to_write[p])
        BY <1>1, <4>4, <4>5, JoinedWrite
      <4> QED
        BY <3>1, <4>1, <4>2, <4>6, PendingIs
    <3> QED
      BY <2>6, <3>3, <3>4
  <2> QED
    BY <1>4, <2>3, <2>4, <2>5, <2>6 DEF WorkerStep
<1>5. ~Crash
  BY DEF Crash
<1> QED
  BY <1>3, <1>4, <1>5, NextCases

(* Everything in Pending(p) was appended for p. *)
LEMMA PendingMine ==
  ASSUME TypeOK, WorkersOK, OneWriter, RecordsInPlace, NEW p \in Prefixes
  PROVE  /\ Pending(p) \in Seq(Nat)
         /\ \A i \in 1 .. Len(Pending(p)) : Mine(Pending(p)[i], p)
<1> DEFINE f == file[p]
           b == BatchOf(worker, p)
           q == to_write[p]
<1>1. f \in Seq(Record) /\ b \in Seq(Nat) /\ q \in Seq(Nat)
  BY PendingParts
<1>2. Pending(p) = Joined(f, b, q)
  BY PendingIs
<1>3. \A i \in 1 .. Len(f) : Mine(f[i].rev, p)
  BY DEF RecordsInPlace
<1>4. \A i \in 1 .. Len(q) : Mine(q[i], p)
  BY DEF RecordsInPlace
<1>5. \A i \in 1 .. Len(b) : Mine(b[i], p)
  <2>1. CASE \A t \in Workers : ~(worker[t].prefix = p /\ worker[t].at = "collect")
    <3>1. b = <<>>
      BY <2>1, BatchOfNobody
    <3> QED
      BY <3>1
  <2>2. ASSUME NEW t \in Workers, worker[t].prefix = p, worker[t].at = "collect"
        PROVE  \A i \in 1 .. Len(b) : Mine(b[i], p)
    <3>1. b = worker[t].batch
      BY <2>2, OneCollector, BatchOfWriter
    <3> QED
      BY <2>2, <3>1 DEF RecordsInPlace
  <2> QED
    BY <2>1, <2>2
<1> HIDE DEF f, b, q
<1>6. Joined(f, b, q) \in Seq(Nat) /\ Len(Joined(f, b, q)) = Len(f) + Len(b) + Len(q)
  BY <1>1, JoinedProperties
<1>7. \A i \in 1 .. Len(f) + Len(b) + Len(q) : Mine(Joined(f, b, q)[i], p)
  BY <1>1, <1>3, <1>4, <1>5, JoinedCases
<1> QED
  BY <1>2, <1>6, <1>7

LEMMA IncreasingAppend ==
  ASSUME NEW s \in Seq(Nat), NEW r \in Nat, Increasing(s), \A i \in 1 .. Len(s) : s[i] < r
  PROVE  Increasing(Append(s, r))
<1>1. /\ Append(s, r) \in Seq(Nat) /\ Len(Append(s, r)) = Len(s) + 1 /\ Len(s) \in Nat
      /\ \A i \in 1 .. Len(s) : Append(s, r)[i] = s[i]
      /\ Append(s, r)[Len(s) + 1] = r
  BY AppendProperties
<1> QED
  BY <1>1 DEF Increasing

(* A write that fails drops the end of the batch: the rest is still in order. *)
LEMMA IncreasingDrop ==
  ASSUME NEW f \in Seq(Record), NEW g \in Seq(Record), NEW b \in Seq(Nat), NEW q \in Seq(Nat),
         NEW n \in 0 .. Len(b),
         Len(g) = Len(f) + n,
         \A i \in 1 .. Len(f) : g[i] = f[i],
         \A i \in 1 .. n : g[Len(f) + i].rev = b[i],
         Increasing(Joined(f, b, q))
  PROVE  Increasing(Joined(g, <<>>, q))
<1> DEFINE s == Joined(f, b, q)
           u == Joined(g, <<>>, q)
           at(i) == IF i <= Len(g) THEN i ELSE i + (Len(b) - n)
<1>1. Len(f) \in Nat /\ Len(b) \in Nat /\ Len(q) \in Nat /\ n \in Nat /\ n <= Len(b)
  BY LenProperties
<1>2. /\ Len(s) = Len(f) + Len(b) + Len(q)
      /\ \A i \in 1 .. Len(f) : s[i] = f[i].rev
      /\ \A i \in 1 .. Len(b) : s[Len(f) + i] = b[i]
      /\ \A i \in 1 .. Len(q) : s[Len(f) + Len(b) + i] = q[i]
  BY JoinedProperties
<1>3. /\ Len(u) = Len(g) + Len(q)
      /\ \A i \in 1 .. Len(g) : u[i] = g[i].rev
      /\ \A i \in 1 .. Len(q) : u[Len(g) + i] = q[i]
  <2>1. ASSUME NEW e \in Seq(Nat), Len(e) = 0
        PROVE  /\ Len(Joined(g, e, q)) = Len(g) + Len(q)
               /\ \A i \in 1 .. Len(g) : Joined(g, e, q)[i] = g[i].rev
               /\ \A i \in 1 .. Len(q) : Joined(g, e, q)[Len(g) + i] = q[i]
    <3>1. /\ Len(Joined(g, e, q)) = Len(g) + Len(e) + Len(q)
          /\ \A i \in 1 .. Len(g) : Joined(g, e, q)[i] = g[i].rev
          /\ \A i \in 1 .. Len(q) : Joined(g, e, q)[Len(g) + Len(e) + i] = q[i]
      BY JoinedProperties
    <3>2. Len(g) + Len(e) = Len(g)
      BY <1>1, <2>1
    <3> QED
      BY <3>1, <3>2
  <2>2. <<>> \in Seq(Nat) /\ Len(<<>>) = 0
    OBVIOUS
  <2> QED
    BY <2>1, <2>2
<1> HIDE DEF s, u
<1>4. ASSUME NEW i \in 1 .. Len(u) PROVE at(i) \in 1 .. Len(s) /\ u[i] = s[at(i)]
  <2>1. CASE i <= Len(g)
    <3>1. u[i] = g[i].rev /\ at(i) = i /\ i \in 1 .. Len(s)
      <4>1. i \in 1 .. Len(g) /\ i \in 1 .. Len(s)
        BY <1>1, <1>2, <1>3, <2>1
      <4>2. u[i] = g[i].rev
        BY <1>3, <4>1
      <4> QED
        BY <2>1, <4>1, <4>2
    <3>2. CASE i <= Len(f)
      <4>1. i \in 1 .. Len(f)
        BY <1>1, <3>2
      <4>2. s[i] = f[i].rev /\ g[i] = f[i]
        BY <1>2, <4>1
      <4> QED
        BY <3>1, <4>2
    <3>3. CASE i > Len(f)
      <4>1. i - Len(f) \in 1 .. n /\ i - Len(f) \in 1 .. Len(b) /\ i = Len(f) + (i - Len(f))
        BY <1>1, <2>1, <3>3
      <4>2. s[i] = b[i - Len(f)] /\ g[i].rev = b[i - Len(f)]
        BY <1>2, <4>1
      <4> QED
        BY <3>1, <4>2
    <3> QED
      BY <1>1, <3>2, <3>3
  <2>2. CASE i > Len(g)
    <3>1. i - Len(g) \in 1 .. Len(q) /\ i = Len(g) + (i - Len(g))
      BY <1>1, <1>3, <2>2
    <3>2. at(i) = Len(f) + Len(b) + (i - Len(g))
      BY <1>1, <2>2
    <3>3. u[i] = q[i - Len(g)] /\ s[at(i)] = q[i - Len(g)]
      BY <1>2, <1>3, <3>1, <3>2
    <3> QED
      BY <1>1, <1>2, <3>1, <3>2, <3>3, SMTT(30)
  <2> QED
    BY <1>1, <2>1, <2>2
<1>5. \A i, j \in 1 .. Len(u) : i < j => at(i) < at(j)
  BY <1>1, <1>3
<1> HIDE DEF at
<1>6. Increasing(s)
  BY DEF s
<1>7. Increasing(u)
  BY <1>4, <1>5, <1>6 DEF Increasing
<1> QED
  BY <1>7 DEF u

LEMMA InitOrder == Init => OrderInv
<1> SUFFICES ASSUME Init PROVE OrderInv
  OBVIOUS
<1>1. ASSUME NEW p \in Prefixes PROVE Pending(p) = <<>>
  <2>1. file[p] = <<>> /\ to_write[p] = <<>>
    BY DEF Init
  <2>2. BatchOf(worker, p) = <<>>
    BY NoWorkType, BatchOfNobody DEF Init
  <2>3. RevsOf(<<>>) = <<>>
    BY DEF RevsOf
  <2>4. <<>> \o <<>> \o <<>> = <<>>
    OBVIOUS
  <2> QED
    BY <2>1, <2>2, <2>3, <2>4, PendingIs DEF Joined
<1>2. Increasing(<<>>) /\ {<<>>[i] : i \in 1 .. Len(<<>>)} = {}
  BY DEF Increasing
<1>3. \A p \in Prefixes : {r \in 1 .. 0 : prefixOf[r] = p} = {}
  OBVIOUS
<1>4. phase = "up" /\ rev = 0
  BY DEF Init
<1> QED
  BY <1>1, <1>2, <1>3, <1>4 DEF OrderInv

(* A file is the beginning of Pending. *)
LEMMA FileIncreasing ==
  ASSUME TypeOK, OrderInv, NEW p \in Prefixes
  PROVE  \A i, j \in 1 .. Len(file[p]) : i < j => file[p][i].rev < file[p][j].rev
<1> DEFINE f == file[p]
           b == BatchOf(worker, p)
           q == to_write[p]
<1>1. f \in Seq(Record) /\ b \in Seq(Nat) /\ q \in Seq(Nat)
  BY PendingParts
<1>2. CASE phase = "up"
  <2>1. Increasing(Joined(f, b, q))
    BY <1>2, PendingIs DEF OrderInv
  <2> HIDE DEF f, b, q
  <2>2. /\ Len(Joined(f, b, q)) = Len(f) + Len(b) + Len(q)
        /\ \A i \in 1 .. Len(f) : Joined(f, b, q)[i] = f[i].rev
    BY <1>1, JoinedProperties
  <2>3. Len(f) \in Nat /\ Len(b) \in Nat /\ Len(q) \in Nat
    BY <1>1, LenProperties
  <2>4. \A i \in 1 .. Len(f) : i \in 1 .. Len(Joined(f, b, q))
    BY <2>2, <2>3
  <2>5. \A i, j \in 1 .. Len(f) : i < j => f[i].rev < f[j].rev
    BY <2>1, <2>2, <2>4 DEF Increasing
  <2> QED
    BY <2>5 DEF f
<1>3. CASE phase # "up"
  <2>1. Increasing(RevsOf(f))
    BY <1>3, PendingIs DEF OrderInv
  <2> HIDE DEF f
  <2>2. Len(RevsOf(f)) = Len(f) /\ \A i \in 1 .. Len(f) : RevsOf(f)[i] = f[i].rev
    BY <1>1, RevsOfProperties
  <2>3. \A i, j \in 1 .. Len(f) : i < j => f[i].rev < f[j].rev
    BY <2>1, <2>2 DEF Increasing
  <2> QED
    BY <2>3 DEF f
<1> QED
  BY <1>2, <1>3

LEMMA OrderStep ==
  ASSUME TypeOK, TypeOK', WorkersOK, OneWriter, RecordsInPlace, OrderInv, Next
  PROVE  OrderInv'
<1> USE DEF appendVars, bootVars
<1> SUFFICES ASSUME NEW p \in Prefixes
             PROVE  /\ phase' = "up" =>
                         /\ Increasing(Pending(p)')
                         /\ Persisted(p) /\ p \notin broken' =>
                              {Pending(p)'[i] : i \in 1 .. Len(Pending(p)')} = {r \in 1 .. rev' : prefixOf'[r] = p}
                    /\ phase' # "up" => Increasing(RevsOf(file'[p]))
  BY PendingIs DEF OrderInv, Persisted, Increasing
<1> DEFINE s == Pending(p)
<1>0. s \in Seq(Nat) /\ Len(s) \in Nat /\ \A i \in 1 .. Len(s) : Mine(s[i], p)
  BY PendingMine, LenProperties
<1>1. CASE phase' # "up"
  <2>1. \A i, j \in 1 .. Len(file[p]) : i < j => file[p][i].rev < file[p][j].rev
    BY FileIncreasing
  <2>2. Len(file'[p]) <= Len(file[p]) /\ \A i \in 1 .. Len(file'[p]) : file'[p][i] = file[p][i]
    <3>1. CASE Crash
      BY <3>1, CrashKeeps, Lengths
    <3>2. CASE ~Crash
      <4>1. file' = file
        BY <1>1, <3>2 DEF Next, AppendSkipped, AppendRecord, AppendToken, WorkerStep, WriteFails, TakeToken, CheckWork,
             Acquire, Collect, Write, Fsync, FsyncFails, Notify, Release, Recheck, OpenFile, ReplayRecord, ReplayDone
      <4> QED
        BY <4>1, Lengths
    <3> QED
      BY <3>1, <3>2
  <2>3. file'[p] \in Seq(Record)
    BY DEF TypeOK, WriterTypeOK
  <2>4. Len(RevsOf(file'[p])) = Len(file'[p]) /\ \A i \in 1 .. Len(file'[p]) : RevsOf(file'[p])[i] = file'[p][i].rev
    BY <2>3, RevsOfProperties
  <2>5. \A i \in 1 .. Len(file'[p]) : i \in 1 .. Len(file[p])
    BY <2>2, Lengths
  <2> QED
    BY <1>1, <2>1, <2>2, <2>4, <2>5 DEF Increasing
<1>2. CASE phase' = "up"
  <2>1. phase = "up"
    BY <1>2 DEF Next, AppendSkipped, AppendRecord, AppendToken, WorkerStep, WriteFails, TakeToken, CheckWork,
         Acquire, Collect, Write, Fsync, FsyncFails, Notify, Release, Recheck, Crash, OpenFile, ReplayRecord, ReplayDone,
         Advance
  <2>2. /\ Increasing(s)
        /\ Persisted(p) /\ p \notin broken =>
             {s[i] : i \in 1 .. Len(s)} = {r \in 1 .. rev : prefixOf[r] = p}
    BY <2>1 DEF OrderInv
  <2> HIDE DEF s
  <2>3. CASE AppendRecord(p) /\ Pending(p)' = Append(s, rev + 1)
    <3>1. /\ rev' = rev + 1 /\ rev \in Nat /\ prefixOf' = Append(prefixOf, p) /\ broken' = broken
          /\ prefixOf \in Seq(Prefixes) /\ Len(prefixOf) = rev
      BY <2>3 DEF AppendRecord, TypeOK, WriterTypeOK
    <3>2. prefixOf'[rev + 1] = p /\ \A r \in 1 .. rev : prefixOf'[r] = prefixOf[r]
      BY <3>1, AppendProperties
    <3>3. \A i \in 1 .. Len(s) : s[i] < rev + 1
      BY <1>0, <3>1 DEF Mine
    <3>4. Increasing(Append(s, rev + 1))
      <4>1. rev + 1 \in Nat /\ s \in Seq(Nat) /\ Increasing(s)
        BY <1>0, <2>2, <3>1
      <4> QED
        BY <3>3, <4>1, IncreasingAppend, Zenon
    <3> DEFINE u == Append(s, rev + 1)
    <3>5. /\ Len(u) = Len(s) + 1
          /\ u[Len(s) + 1] = rev + 1
          /\ \A i \in 1 .. Len(s) : u[i] = s[i]
      BY <1>0, <3>1, AppendProperties
    <3> HIDE DEF u
    <3>6. {u[i] : i \in 1 .. Len(u)} = {s[i] : i \in 1 .. Len(s)} \union {rev + 1}
      BY <1>0, <3>5
    <3>7. {r \in 1 .. rev' : prefixOf'[r] = p} = {r \in 1 .. rev : prefixOf[r] = p} \union {rev + 1}
      BY <3>1, <3>2
    <3> QED
      BY <1>2, <2>2, <2>3, <3>1, <3>4, <3>6, <3>7 DEF u
  <2>4. CASE Pending(p)' = s
    <3>1. broken' = broken \/ broken \subseteq broken'
      BY <1>2 DEF Next, AppendSkipped, AppendRecord, AppendToken, WorkerStep, WriteFails, TakeToken, CheckWork,
           Acquire, Collect, Write, Fsync, FsyncFails, Notify, Release, Recheck, Crash, OpenFile, ReplayRecord, ReplayDone
    <3>2. Persisted(p) /\ p \notin broken' => {r \in 1 .. rev' : prefixOf'[r] = p} = {r \in 1 .. rev : prefixOf[r] = p}
      <4>1. CASE UNCHANGED <<rev, prefixOf>>
        BY <4>1
      <4>2. ASSUME NEW q \in Prefixes, AppendSkipped(q) \/ AppendRecord(q), q # p
            PROVE  {r \in 1 .. rev' : prefixOf'[r] = p} = {r \in 1 .. rev : prefixOf[r] = p}
        <5>1. /\ rev' = rev + 1 /\ rev \in Nat /\ prefixOf' = Append(prefixOf, q)
              /\ prefixOf \in Seq(Prefixes) /\ Len(prefixOf) = rev
          BY <4>2 DEF AppendSkipped, AppendRecord, TypeOK, WriterTypeOK
        <5>2. prefixOf'[rev + 1] = q /\ \A r \in 1 .. rev : prefixOf'[r] = prefixOf[r]
          BY <5>1, AppendProperties
        <5> QED
          BY <4>2, <5>1, <5>2
      <4>3. AppendSkipped(p) => ~Persisted(p)
        BY DEF AppendSkipped
      <4>4. ~AppendRecord(p)
        <5>1. ASSUME AppendRecord(p) PROVE FALSE
          <6>1. to_write'[p] = Append(to_write[p], rev + 1) /\ rev + 1 \in Nat /\ UNCHANGED <<file, worker>>
            BY <5>1 DEF AppendRecord, TypeOK, WriterTypeOK
          <6>2. file[p] \in Seq(Record) /\ BatchOf(worker, p) \in Seq(Nat) /\ to_write[p] \in Seq(Nat)
            BY PendingParts
          <6>3. Pending(p)' = Append(s, rev + 1)
            BY <6>1, <6>2, JoinedAppend, PendingIs, ZenonT(40) DEF s
          <6>4. Len(Append(s, rev + 1)) = Len(s) + 1
            BY <1>0, <6>1, AppendProperties
          <6> QED
            BY <1>0, <2>4, <6>3, <6>4
        <5> QED
          BY <5>1
      <4>5. \/ UNCHANGED <<rev, prefixOf>>
            \/ \E q \in Prefixes : AppendSkipped(q) \/ AppendRecord(q)
        BY DEF Next, AppendToken, WorkerStep, WriteFails, TakeToken, CheckWork,
           Acquire, Collect, Write, Fsync, FsyncFails, Notify, Release, Recheck, Crash, OpenFile, ReplayRecord, ReplayDone
      <4> QED
        BY <4>1, <4>2, <4>3, <4>4, <4>5
    <3> QED
      BY <1>2, <2>2, <2>4, <3>1, <3>2
  <2>5. ASSUME NEW t \in Workers, WriteFails(t), worker[t].prefix = p
        PROVE  Increasing(Pending(p)') /\ p \in broken'
    <3> DEFINE b == worker[t].batch
    <3>1. Moved(t, "collect", "dead", p, b) /\ worker[t].at = "collect" /\ UNCHANGED to_write /\ p \in broken'
      BY <2>5, WorkerMoves DEF WriteFails
    <3>2. b \in Seq(Nat) /\ Len(b) \in Nat /\ file[p] \in Seq(Record) /\ to_write[p] \in Seq(Nat)
      BY DEF TypeOK, WriterTypeOK, WorkerType
    <3>3. PICK n \in 0 .. Len(b) : WriteRecords(t, n)
      BY <2>5, <3>2 DEF WriteFails
    <3>4. /\ Len(file'[p]) = Len(file[p]) + n
          /\ \A i \in 1 .. Len(file[p]) : file'[p][i] = file[p][i]
          /\ \A i \in 1 .. n : file'[p][Len(file[p]) + i].rev = b[i]
      BY <2>5, <3>1, <3>3, FileGrows
    <3>5. BatchOf(worker, p) = b
      BY <2>5, <3>1, OneCollector, BatchOfWriter
    <3>6. BatchOf(worker', p) = <<>>
      <4>1. \A u \in Workers : ~(worker'[u].prefix = p /\ worker'[u].at = "collect")
        BY <2>5, <3>1, OneCollector DEF Moved
      <4> QED
        BY <4>1, BatchOfNobody
    <3>7. file'[p] \in Seq(Record)
      BY DEF TypeOK, WriterTypeOK
    <3>8. Increasing(Joined(file[p], b, to_write[p]))
      BY <2>2, <3>5, PendingIs DEF s
    <3> HIDE DEF b
    <3>9. Increasing(Joined(file'[p], <<>>, to_write[p]))
      BY <3>2, <3>3, <3>4, <3>7, <3>8, IncreasingDrop
    <3> QED
      BY <3>1, <3>6, <3>9, PendingIs
  <2> QED
    BY <1>2, <2>3, <2>4, <2>5, PendingStep DEF s
<1> QED
  BY <1>1, <1>2

LEMMA OrderInvStep == ControlInv /\ ControlInv' /\ DiskInv /\ OrderInv /\ [Next]_vars => OrderInv'
<1> SUFFICES ASSUME ControlInv, ControlInv', DiskInv, OrderInv, [Next]_vars PROVE OrderInv'
  OBVIOUS
<1>1. CASE Next
  BY <1>1, OrderStep DEF ControlInv, DiskInv
<1>2. CASE UNCHANGED vars
  <2>1. UNCHANGED <<phase, broken, rev, prefixOf, file, worker, to_write>>
    BY <1>2 DEF vars, appendVars, bootVars
  <2>2. \A p \in Prefixes : Pending(p)' = Pending(p) /\ InFile(p)' = InFile(p)
    BY <2>1, PendingIs
  <2>3. \A p \in Prefixes : Increasing(Pending(p))' <=> Increasing(Pending(p)')
    BY DEF Increasing
  <2>4. \A p \in Prefixes : Increasing(InFile(p))' <=> Increasing(InFile(p)')
    BY DEF Increasing
  <2> QED
    BY <2>1, <2>2, <2>3, <2>4 DEF OrderInv, Persisted
<1> QED
  BY <1>1, <1>2

(* Whatever the writer threads do, a prefix's file, batch and queue are its
   appended revisions, each once and in order, until a write fails. *)
THEOREM FilesInOrder == Spec => []FileInRevOrder
<1>1. Spec => []OrderInv
  BY InitControl, ControlStep, InitDisk, DiskStep, InitOrder, OrderInvStep, PTL DEF Spec
<1>2. OrderInv => FileInRevOrder
  <2> SUFFICES ASSUME OrderInv, phase = "up", NEW p \in Prefixes, Persisted(p) /\ p \notin broken
               PROVE  /\ Increasing(Pending(p))
                      /\ {Pending(p)[i] : i \in 1 .. Len(Pending(p))} = {r \in 1 .. rev : prefixOf[r] = p}
    BY DEF FileInRevOrder, Pending
  <2> QED
    BY DEF OrderInv
<1> QED
  BY <1>1, <1>2, PTL

-------------------------------------------------------------------------------
(***************************************************************************)
(* The merge of load_wal_dir.                                              *)
(***************************************************************************)
(* Nothing is read while the store is up, and nothing is replayed before
   every file has been opened. *)
NotYetLoading ==
  /\ phase = "up" => replayed = <<>> /\ \A p \in Prefixes : readers[p].read = 0 /\ readers[p].next = EndOfFile
  /\ ~AllOpen => replayed = <<>>

(* Reader p holds record number read of its file, or has reached the end. *)
ReaderInFile(p) ==
  /\ readers[p].read <= Len(file[p]) + 1
  /\ readers[p].read \in 1 .. Len(file[p]) => readers[p].next = file[p][readers[p].read].rev
  /\ readers[p].read = 0 \/ readers[p].read > Len(file[p]) => readers[p].next <= 0

(* What was replayed is older than what reader p has still to give, and all
   that p gave was replayed. *)
MergedUpTo(p) ==
  /\ \A i \in 1 .. Len(replayed), j \in 1 .. Len(file[p]) :
       j >= readers[p].read => replayed[i] < file[p][j].rev
  /\ \A j \in 1 .. Len(file[p]) :
       j < readers[p].read => \E i \in 1 .. Len(replayed) : replayed[i] = file[p][j].rev

MergeInv ==
  /\ \A p \in Prefixes : ReaderInFile(p) /\ MergedUpTo(p)
  /\ \A i \in 1 .. Len(replayed) : \E p \in Prefixes : \E j \in 1 .. Len(file[p]) : replayed[i] = file[p][j].rev
  /\ Increasing(replayed)
  /\ phase = "loaded" => \A p \in Prefixes : Len(file[p]) > 0 => readers[p].read > Len(file[p])

LoadInv == NotYetLoading /\ (AllIntact => MergeInv)

(* Before anything is read there is nothing to show. *)
LEMMA NothingRead ==
  ASSUME TypeOK, replayed = <<>>, phase # "loaded",
         \A p \in Prefixes : readers[p].read = 0 /\ readers[p].next = EndOfFile
  PROVE  LoadInv
<1>1. \A p \in Prefixes : Len(file[p]) \in Nat
  BY Lengths
<1>2. ASSUME NEW p \in Prefixes PROVE ReaderInFile(p)
  <2>1. 0 <= Len(file[p]) + 1 /\ 0 \notin 1 .. Len(file[p]) /\ EndOfFile <= 0
    BY <1>1 DEF EndOfFile
  <2> QED
    BY <2>1, Zenon DEF ReaderInFile
<1>3. \A p \in Prefixes : MergedUpTo(p)
  <2>1. \A i \in 1 .. Len(replayed) : FALSE
    OBVIOUS
  <2>2. \A p \in Prefixes : \A j \in 1 .. Len(file[p]) : ~(j < readers[p].read)
    BY <1>1
  <2> QED
    BY <2>1, <2>2 DEF MergedUpTo
<1>4. MergeInv
  BY <1>2, <1>3 DEF MergeInv, Increasing
<1> QED
  BY <1>4 DEF LoadInv, NotYetLoading

LEMMA InitLoad == Init => LoadInv
<1> SUFFICES ASSUME Init PROVE LoadInv
  OBVIOUS
<1>1. TypeOK
  BY InitControl DEF ControlInv
<1>2. replayed = <<>> /\ phase = "up" /\ \A p \in Prefixes : readers[p].read = 0 /\ readers[p].next = EndOfFile
  BY DEF Init
<1> QED
  BY <1>1, <1>2, NothingRead

(* What the next record of a sound file may read as. *)
LEMMA AdvanceSound ==
  ASSUME TypeOK, RecordsInPlace, AllIntact, NEW p \in Prefixes, readers[p].read <= Len(file[p]),
         Advance(p), UNCHANGED file
  PROVE  /\ ReaderInFile(p)'
         /\ readers'[p].read = readers[p].read + 1
         /\ \A q \in Prefixes : q # p => readers'[q] = readers[q]
<1> DEFINE n == readers[p].read + 1
<1>1. /\ readers \in [Prefixes -> [read : Nat, next : Int]]
      /\ n \in Nat \ {0} /\ Len(file[p]) \in Nat /\ readers[p].read \in Nat
  BY Lengths DEF TypeOK, BootTypeOK
<1>2. PICK r \in ReadFrom(p) : readers' = [readers EXCEPT ![p] = [read |-> @.read + 1, next |-> r]]
  BY DEF Advance
<1>3. /\ readers'[p].read = n /\ readers'[p].next = r
      /\ \A q \in Prefixes : q # p => readers'[q] = readers[q]
  BY <1>1, <1>2
<1>4. CASE n > Len(file[p])
  <2>1. r <= 0
    BY <1>2, <1>4 DEF ReadFrom, Unreadable, EndOfFile
  <2> QED
    BY <1>1, <1>3, <1>4, <2>1 DEF ReaderInFile
<1>5. CASE n <= Len(file[p])
  <2>1. \A i \in 1 .. n : file[p][i].intact
    BY <1>1, <1>5 DEF AllIntact, Sound
  <2>2. r = file[p][n].rev
    BY <1>1, <1>2, <1>5, <2>1 DEF ReadFrom
  <2> QED
    BY <1>1, <1>3, <1>5, <2>2 DEF ReaderInFile
<1> QED
  BY <1>1, <1>4, <1>5

(* A step that replays nothing and does not move reader p or its file. *)
LEMMA MergedStays ==
  ASSUME UNCHANGED <<file, replayed>>, NEW p \in Prefixes, readers'[p] = readers[p]
  PROVE  /\ ReaderInFile(p) => ReaderInFile(p)'
         /\ MergedUpTo(p) => MergedUpTo(p)'
  BY DEF ReaderInFile, MergedUpTo

LEMMA OpenFileLoad ==
  ASSUME TypeOK, TypeOK', RecordsInPlace, LoadInv, NEW p \in Prefixes, OpenFile(p)
  PROVE  LoadInv'
<1>1. /\ phase = "loading" /\ readers[p].read = 0 /\ Exists(p) /\ Advance(p) /\ UNCHANGED <<file, replayed>>
      /\ phase' \in {"loading", "panicked"} /\ Len(file[p]) \in Nat
  BY Lengths DEF OpenFile, Advance
<1>2. replayed = <<>> /\ replayed' = <<>>
  <2>1. ~AllOpen
    BY <1>1 DEF AllOpen
  <2> QED
    BY <1>1, <2>1 DEF LoadInv, NotYetLoading
<1>3. NotYetLoading'
  BY <1>1, <1>2 DEF NotYetLoading
<1>4. ASSUME AllIntact PROVE MergeInv'
  <2>1. readers[p].read <= Len(file[p])
    BY <1>1
  <2>2. /\ ReaderInFile(p)'
        /\ readers'[p].read = 1
        /\ \A q \in Prefixes : q # p => readers'[q] = readers[q]
    BY <1>1, <1>4, <2>1, AdvanceSound
  <2>3. MergedUpTo(p)'
    <3>1. \A i \in 1 .. Len(replayed') : FALSE
      BY <1>2
    <3>2. \A j \in 1 .. Len(file'[p]) : ~(j < readers'[p].read)
      BY <1>1, <2>2
    <3> QED
      BY <3>1, <3>2 DEF MergedUpTo
  <2>4. \A q \in Prefixes : ReaderInFile(q)' /\ MergedUpTo(q)'
    BY <1>1, <1>4, <2>2, <2>3, MergedStays DEF LoadInv, MergeInv
  <2> QED
    BY <1>1, <1>2, <2>4 DEF MergeInv, Increasing
<1>5. AllIntact' => AllIntact
  BY <1>1 DEF AllIntact, Sound
<1> QED
  BY <1>3, <1>4, <1>5 DEF LoadInv

(***************************************************************************)
(* The heap's smallest record is older than all that the readers have      *)
(* still to give: each file is in order, and no revision is in two files.  *)
(***************************************************************************)
LEMMA SmallestIsOldest ==
  ASSUME TypeOK, RecordsInPlace, OrderInv, MergeInv, AllOpen, NEW p \in Prefixes, IsSmallest(p)
  PROVE  /\ readers[p].read \in 1 .. Len(file[p])
         /\ readers[p].next = file[p][readers[p].read].rev
         /\ \A q \in Prefixes : \A j \in 1 .. Len(file[q]) :
              j >= readers[q].read /\ ~(q = p /\ j = readers[p].read) =>
                file[p][readers[p].read].rev < file[q][j].rev
<1>1. \A q \in Prefixes : readers[q].read \in Nat /\ readers[q].next \in Int /\ Len(file[q]) \in Nat
  BY Lengths DEF TypeOK, BootTypeOK
<1>2. \A q \in Prefixes : Len(file[q]) > 0 => readers[q].read > 0
  BY DEF AllOpen, Exists
<1>3. readers[p].read \in 1 .. Len(file[p]) /\ readers[p].next = file[p][readers[p].read].rev
  <2>1. readers[p].next > 0
    BY DEF IsSmallest, InHeap
  <2>2. ReaderInFile(p)
    BY DEF MergeInv
  <2>3. readers[p].read # 0 /\ ~(readers[p].read > Len(file[p]))
    BY <1>1, <2>1, <2>2 DEF ReaderInFile
  <2>4. readers[p].read \in 1 .. Len(file[p])
    BY <1>1, <2>3
  <2> QED
    BY <2>2, <2>4 DEF ReaderInFile
<1>4. ASSUME NEW q \in Prefixes, NEW j \in 1 .. Len(file[q]), j >= readers[q].read,
             ~(q = p /\ j = readers[p].read)
      PROVE  file[p][readers[p].read].rev < file[q][j].rev
  <2> DEFINE k == readers[q].read
             x == file[p][readers[p].read].rev
  <2>1. k \in 1 .. Len(file[q]) /\ k \in Nat /\ j \in Nat
    BY <1>1, <1>2, <1>4
  <2>2. readers[q].next = file[q][k].rev
    BY <2>1 DEF MergeInv, ReaderInFile
  <2>3. Mine(x, p) /\ Mine(file[q][k].rev, q) /\ Mine(file[q][j].rev, q)
    BY <1>3, <2>1 DEF RecordsInPlace
  <2>4. x \in Nat /\ file[q][k].rev \in Nat \ {0} /\ file[q][j].rev \in Nat /\ (q # p => x # file[q][k].rev)
    BY <2>3, SMTT(30) DEF Mine
  <2>5. x <= file[q][k].rev
    <3>1. q \in InHeap
      BY <2>2, <2>4 DEF InHeap
    <3> QED
      BY <1>3, <2>2, <3>1 DEF IsSmallest
  <2>6. k < j => file[q][k].rev < file[q][j].rev
    BY <2>1, FileIncreasing
  <2> HIDE DEF k, x
  <2>7. CASE q # p
    <3>1. x < file[q][k].rev
      BY <2>4, <2>5, <2>7
    <3>2. k = j \/ k < j
      BY <1>4, <2>1 DEF k
    <3> QED
      BY <2>4, <2>6, <3>1, <3>2 DEF x
  <2>8. CASE q = p
    <3>1. k < j
      BY <1>4, <2>1, <2>8 DEF k
    <3>2. file[q][k].rev = x
      BY <2>8 DEF k, x
    <3> QED
      BY <2>6, <3>1, <3>2 DEF x
  <2> QED
    BY <2>7, <2>8
<1> QED
  BY <1>3, <1>4

LEMMA ReplayRecordLoad ==
  ASSUME TypeOK, TypeOK', RecordsInPlace, OrderInv, LoadInv, NEW p \in Prefixes, ReplayRecord(p)
  PROVE  LoadInv'
<1> DEFINE k == readers[p].read
           x == readers[p].next
<1>1. /\ phase = "loading" /\ AllOpen /\ IsSmallest(p) /\ Advance(p) /\ UNCHANGED <<file, torn>>
      /\ replayed' = Append(replayed, x) /\ phase' \in {"loading", "panicked"}
  BY DEF ReplayRecord, Advance
<1>2. \A q \in Prefixes : /\ readers[q].read \in Nat /\ readers[q].next \in Int /\ Len(file[q]) \in Nat
                          /\ readers'[q].read \in Nat
  BY Lengths DEF TypeOK, BootTypeOK
<1>3. replayed \in Seq(Int) /\ x \in Int
  BY <1>2 DEF TypeOK, BootTypeOK
<1>4. /\ Len(replayed') = Len(replayed) + 1 /\ Len(replayed) \in Nat
      /\ replayed'[Len(replayed) + 1] = x
      /\ \A i \in 1 .. Len(replayed) : replayed'[i] = replayed[i]
  BY <1>1, <1>3, AppendProperties
<1>5. \A q \in Prefixes : readers'[q].read >= readers[q].read
  <2>1. PICK r \in ReadFrom(p) : readers' = [readers EXCEPT ![p] = [read |-> @.read + 1, next |-> r]]
    BY <1>1 DEF Advance
  <2>2. readers \in [Prefixes -> [read : Nat, next : Int]]
    BY DEF TypeOK, BootTypeOK
  <2>3. readers'[p].read = readers[p].read + 1 /\ \A q \in Prefixes : q # p => readers'[q] = readers[q]
    BY <2>1, <2>2
  <2> QED
    BY <1>2, <2>3
<1>6. NotYetLoading'
  <2>1. AllOpen'
    BY <1>1, <1>2, <1>5 DEF AllOpen, Exists
  <2> QED
    BY <1>1, <2>1 DEF NotYetLoading
<1>7. ASSUME AllIntact PROVE MergeInv'
  <2>1. MergeInv
    BY <1>7 DEF LoadInv
  <2>2. /\ k \in 1 .. Len(file[p]) /\ x = file[p][k].rev
        /\ \A q \in Prefixes : \A j \in 1 .. Len(file[q]) :
             j >= readers[q].read /\ ~(q = p /\ j = k) => x < file[q][j].rev
    BY <1>1, <2>1, SmallestIsOldest
  <2>3. /\ ReaderInFile(p)' /\ readers'[p].read = k + 1
        /\ \A q \in Prefixes : q # p => readers'[q] = readers[q]
    <3>1. readers[p].read <= Len(file[p])
      BY <1>2, <2>2
    <3> QED
      BY <1>1, <1>7, <3>1, AdvanceSound
  <2>4. \A q \in Prefixes : ReaderInFile(q)'
    BY <1>1, <2>1, <2>3 DEF MergeInv, ReaderInFile
  <2> HIDE DEF k, x
  <2>5. ASSUME NEW q \in Prefixes PROVE MergedUpTo(q)'
    <3>1. MergedUpTo(q)
      BY <2>1 DEF MergeInv
    <3>2. readers'[q].read = IF q = p THEN k + 1 ELSE readers[q].read
      BY <2>3
    <3>3. k = readers[p].read /\ k \in Nat
      BY <1>2 DEF k
    <3>4. ASSUME NEW i \in 1 .. Len(replayed'), NEW j \in 1 .. Len(file[q]), j >= readers'[q].read
          PROVE  replayed'[i] < file[q][j].rev
      <4>1. j >= readers[q].read /\ ~(q = p /\ j = k)
        BY <1>2, <3>2, <3>3, <3>4
      <4>2. CASE i \in 1 .. Len(replayed)
        BY <1>4, <3>1, <4>1, <4>2 DEF MergedUpTo
      <4>3. CASE i = Len(replayed) + 1
        BY <1>4, <2>2, <4>1, <4>3
      <4> QED
        BY <1>4, <4>2, <4>3
    <3>5. ASSUME NEW j \in 1 .. Len(file[q]), j < readers'[q].read
          PROVE  \E i \in 1 .. Len(replayed') : replayed'[i] = file[q][j].rev
      <4>1. CASE q = p /\ j = k
        <5>1. Len(replayed) + 1 \in 1 .. Len(replayed') /\ replayed'[Len(replayed) + 1] = file[q][j].rev
          BY <1>4, <2>2, <4>1
        <5> QED
          BY <5>1
      <4>2. CASE ~(q = p /\ j = k)
        <5>1. j < readers[q].read
          BY <1>2, <3>2, <3>3, <3>5, <4>2
        <5>2. PICK i \in 1 .. Len(replayed) : replayed[i] = file[q][j].rev
          BY <3>1, <5>1 DEF MergedUpTo
        <5>3. i \in 1 .. Len(replayed') /\ replayed'[i] = file[q][j].rev
          BY <1>4, <5>2
        <5> QED
          BY <5>3
      <4> QED
        BY <4>1, <4>2
    <3> QED
      BY <1>1, <3>4, <3>5 DEF MergedUpTo
  <2>6. ASSUME NEW i \in 1 .. Len(replayed')
        PROVE  \E q \in Prefixes : \E j \in 1 .. Len(file[q]) : replayed'[i] = file[q][j].rev
    <3>1. CASE i \in 1 .. Len(replayed)
      BY <1>4, <2>1, <3>1 DEF MergeInv
    <3>2. CASE i = Len(replayed) + 1
      BY <1>4, <2>2, <3>2
    <3> QED
      BY <1>4, <3>1, <3>2
  <2>7. Increasing(replayed')
    <3>1. \A i \in 1 .. Len(replayed) : replayed[i] < x
      <4>1. MergedUpTo(p)
        BY <2>1 DEF MergeInv
      <4>2. k >= readers[p].read
        BY <1>2 DEF k
      <4> QED
        BY <2>2, <4>1, <4>2 DEF MergedUpTo
    <3>2. Increasing(replayed)
      BY <2>1 DEF MergeInv
    <3> QED
      BY <1>4, <3>1, <3>2 DEF Increasing
  <2>8. Increasing(replayed)'
    BY <2>7 DEF Increasing
  <2> QED
    BY <1>1, <2>4, <2>5, <2>6, <2>8 DEF MergeInv
<1>8. AllIntact' => AllIntact
  BY <1>1 DEF AllIntact, Sound
<1> QED
  BY <1>6, <1>7, <1>8 DEF LoadInv

LEMMA ReplayDoneLoad ==
  ASSUME TypeOK, RecordsInPlace, LoadInv, ReplayDone
  PROVE  LoadInv'
<1>1. AllOpen /\ InHeap = {} /\ phase' = "loaded" /\ UNCHANGED <<file, torn, readers, replayed>>
  BY DEF ReplayDone
<1>2. AllOpen'
  BY <1>1 DEF AllOpen, Exists
<1>3. ASSUME AllIntact, NEW p \in Prefixes, Len(file[p]) > 0 PROVE readers[p].read > Len(file[p])
  <2>1. readers[p].read \in Nat \ {0} /\ readers[p].next \in Int /\ Len(file[p]) \in Nat
    BY <1>1, <1>3, Lengths DEF AllOpen, Exists, TypeOK, BootTypeOK
  <2>2. ~(readers[p].next > 0)
    BY <1>1 DEF InHeap
  <2>3. ReaderInFile(p)
    BY <1>3 DEF LoadInv, MergeInv
  <2>4. readers[p].read \in 1 .. Len(file[p]) => FALSE
    <3>1. ASSUME readers[p].read \in 1 .. Len(file[p]) PROVE readers[p].next > 0
      <4>1. readers[p].next = file[p][readers[p].read].rev
        BY <2>3, <3>1 DEF ReaderInFile
      <4>2. Mine(file[p][readers[p].read].rev, p)
        BY <3>1 DEF RecordsInPlace
      <4> QED
        BY <4>1, <4>2 DEF Mine, TypeOK, WriterTypeOK
    <3> QED
      BY <2>2, <3>1
  <2> QED
    BY <2>1, <2>4
<1>4. \A p \in Prefixes : (ReaderInFile(p) => ReaderInFile(p)') /\ (MergedUpTo(p) => MergedUpTo(p)')
  BY <1>1, MergedStays
<1>5. AllIntact' => AllIntact
  BY <1>1 DEF AllIntact, Sound
<1>6. AllIntact => MergeInv'
  BY <1>1, <1>3, <1>4 DEF LoadInv, MergeInv, Increasing
<1> QED
  BY <1>1, <1>2, <1>5, <1>6 DEF LoadInv, NotYetLoading

LEMMA LoadStep ==
  ControlInv /\ ControlInv' /\ DiskInv /\ OrderInv /\ LoadInv /\ [Next]_vars => LoadInv'
<1> SUFFICES ASSUME ControlInv, ControlInv', DiskInv, OrderInv, LoadInv, [Next]_vars PROVE LoadInv'
  OBVIOUS
<1>0. TypeOK /\ TypeOK' /\ RecordsInPlace
  BY DEF ControlInv, DiskInv
<1>1. ASSUME NEW p \in Prefixes, OpenFile(p) PROVE LoadInv'
  BY <1>0, <1>1, OpenFileLoad
<1>2. ASSUME NEW p \in Prefixes, ReplayRecord(p) PROVE LoadInv'
  BY <1>0, <1>2, ReplayRecordLoad
<1>3. CASE ReplayDone
  BY <1>0, <1>3, ReplayDoneLoad
<1>4. ASSUME phase = "up", phase' # "loaded", UNCHANGED <<readers, replayed>> PROVE LoadInv'
  <2>1. replayed' = <<>> /\ \A p \in Prefixes : readers'[p].read = 0 /\ readers'[p].next = EndOfFile
    BY <1>4 DEF LoadInv, NotYetLoading
  <2>2. \A p \in Prefixes : Len(file'[p]) \in Nat
    BY <1>0, Lengths
  <2>3. ASSUME NEW p \in Prefixes PROVE ReaderInFile(p)' /\ MergedUpTo(p)'
    <3>1. 0 <= Len(file'[p]) + 1 /\ 0 \notin 1 .. Len(file'[p]) /\ EndOfFile <= 0
      BY <2>2 DEF EndOfFile
    <3>2. \A i \in 1 .. Len(replayed') : FALSE
      BY <2>1
    <3>3. \A j \in 1 .. Len(file'[p]) : ~(j < readers'[p].read)
      BY <2>1, <2>2
    <3>4. ReaderInFile(p)'
      BY <2>1, <3>1, Zenon DEF ReaderInFile
    <3> QED
      BY <3>2, <3>3, <3>4 DEF MergedUpTo
  <2>4. MergeInv'
    BY <1>4, <2>1, <2>3 DEF MergeInv, Increasing
  <2> QED
    BY <2>1, <2>4 DEF LoadInv, NotYetLoading
<1>5. CASE Crash \/ AppendToken \/ \E p \in Prefixes : AppendSkipped(p) \/ AppendRecord(p)
  BY <1>4, <1>5 DEF Crash, AppendToken, AppendSkipped, AppendRecord, bootVars
<1>6. ASSUME NEW t \in Workers, WorkerStep(t) \/ WriteFails(t) PROVE LoadInv'
  BY <1>4, <1>6 DEF WorkerStep, WriteFails, TakeToken, CheckWork, Acquire, Collect, Write, Fsync, FsyncFails,
                    Notify, Release, Recheck, bootVars
<1>7. CASE UNCHANGED vars
  <2>1. UNCHANGED <<phase, file, torn, readers, replayed>>
    BY <1>7 DEF vars, bootVars
  <2>2. \A p \in Prefixes : (ReaderInFile(p) => ReaderInFile(p)') /\ (MergedUpTo(p) => MergedUpTo(p)')
    BY <2>1, MergedStays
  <2>3. (AllIntact' => AllIntact) /\ (AllOpen => AllOpen')
    BY <2>1 DEF AllIntact, Sound, AllOpen, Exists
  <2>4. MergeInv => MergeInv'
    BY <2>1, <2>2 DEF MergeInv, Increasing
  <2> QED
    BY <2>1, <2>3, <2>4 DEF LoadInv, NotYetLoading
<1> QED
  BY <1>1, <1>2, <1>3, <1>5, <1>6, <1>7 DEF Next

LEMMA LoadedAll ==
  ASSUME TypeOK, LoadInv
  PROVE  ReplayInRevOrder
<1> SUFFICES ASSUME AllIntact
             PROVE  /\ Increasing(replayed)
                    /\ phase = "loaded" =>
                         {replayed[i] : i \in 1 .. Len(replayed)} =
                           UNION {{file[p][i].rev : i \in 1 .. Len(file[p])} : p \in Prefixes}
  BY DEF ReplayInRevOrder
<1>1. MergeInv
  BY DEF LoadInv
<1>2. ASSUME phase = "loaded", NEW p \in Prefixes, NEW j \in 1 .. Len(file[p])
      PROVE  \E i \in 1 .. Len(replayed) : replayed[i] = file[p][j].rev
  <2>0. Len(file[p]) > 0 /\ readers[p].read \in Nat /\ Len(file[p]) \in Nat
    BY Lengths DEF TypeOK, BootTypeOK
  <2>1. readers[p].read > Len(file[p]) /\ readers[p].read \in Nat /\ Len(file[p]) \in Nat
    BY <1>1, <1>2, <2>0 DEF MergeInv
  <2>2. j < readers[p].read
    BY <2>1
  <2> QED
    BY <1>1, <2>2 DEF MergeInv, MergedUpTo
<1>3. \A i \in 1 .. Len(replayed) : \E p \in Prefixes : \E j \in 1 .. Len(file[p]) : replayed[i] = file[p][j].rev
  BY <1>1 DEF MergeInv
<1> DEFINE R == {replayed[i] : i \in 1 .. Len(replayed)}
           F == UNION {{file[p][i].rev : i \in 1 .. Len(file[p])} : p \in Prefixes}
<1>4. \A r : r \in R <=> \E i \in 1 .. Len(replayed) : r = replayed[i]
  OBVIOUS
<1>5. \A r : r \in F <=> \E p \in Prefixes : \E j \in 1 .. Len(file[p]) : r = file[p][j].rev
  OBVIOUS
<1> HIDE DEF R, F
<1>6. ASSUME phase = "loaded" PROVE R = F
  <2>1. ASSUME NEW r, r \in R PROVE r \in F
    BY <1>3, <1>4, <1>5, <2>1
  <2>2. ASSUME NEW r, r \in F PROVE r \in R
    <3>1. PICK p \in Prefixes : \E j \in 1 .. Len(file[p]) : r = file[p][j].rev
      BY <1>5, <2>2
    <3>2. \E i \in 1 .. Len(replayed) : replayed[i] = r
      BY <1>2, <1>6, <3>1
    <3> QED
      BY <1>4, <3>2
  <2> QED
    BY <2>1, <2>2
<1> QED
  BY <1>1, <1>6 DEF MergeInv, R, F

(* load_wal_dir gives the records of sound files to on_entry in revision order,
   and when it ends it has given all of them. *)
THEOREM ReplayInOrder == Spec => []ReplayInRevOrder
<1>1. Spec => [](TypeOK /\ LoadInv)
  <2>1. ControlInv => TypeOK
    BY DEF ControlInv
  <2> QED
    BY <2>1, InitControl, ControlStep, InitDisk, DiskStep, InitOrder, OrderInvStep, InitLoad, LoadStep, PTL DEF Spec
<1>2. TypeOK /\ LoadInv => ReplayInRevOrder
  BY LoadedAll
<1> QED
  BY <1>1, <1>2, PTL

===============================================================================
