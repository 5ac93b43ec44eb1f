--------------------------- MODULE Services_proofs ---------------------------
(***************************************************************************)
(* Theorems about the services around the trading core, each about the     *)
(* service by itself, for any value of its constants.                      *)
(***************************************************************************)
EXTENDS MCServices, FiniteSetTheorems, SequenceTheorems, NaturalsInduction,
        TLAPS

(***************************************************************************)
(* WriteAheadLog, for any size of the log and any number of appends,       *)
(* failing calls, crashes and restarts.                                    *)
(*                                                                         *)
(* A record is lost if a write falls on it or a rename takes its archive   *)
(* away.  So it has to be known that the position is behind the records    *)
(* that were acknowledged, and by how much the log may be ahead of it: by  *)
(* the record of an append that failed.                                    *)
(***************************************************************************)

USE SizesAssumption

Records == {Record(s, p) : s \in Int, p \in Int}

LogTypes ==
  /\ log \in Seq(Records) /\ Len(log) <= MaxSize
  /\ archives \in [0 .. MaxTime -> Seq(Records)]
  /\ mapped \in {Current, Unlinked} \cup 0 .. MaxTime
  /\ position \in 0 .. MaxSize /\ sequence \in Int
  /\ appended \in Nat /\ acked \subseteq 1 .. appended
  /\ now \in 0 .. MaxTime /\ rotated \in -1 .. now

\* Where the next record goes.
AtTheEnd ==
  /\ ~extended => log = <<>>
  /\ pc # "down" => \/ position = MaxSize
                    \/ Len(log) \in {position, position + 1}
  /\ pc \in {"rotate", "renamed", "created"} => position = MaxSize
  /\ pc \in {"renamed", "created", "sized"} => log = <<>>
  /\ pc = "sized" => position = 0
  /\ pc \in {"write", "written"} => position < MaxSize
  /\ pc \in {"sized", "write", "written"} => extended
  /\ pc = "ready" => extended \/ position = MaxSize

\* Where it goes in an archive that is mapped still.
MappingFits ==
  /\ pc \in {"down", "opened"} => mapped = Unlinked
  /\ (mapped \in 0 .. MaxTime /\ position < MaxSize) =>
       /\ position <= Len(archives[mapped])
       /\ pc = "written" => position < Len(archives[mapped])

Appending == {"rotate", "renamed", "created", "sized", "write", "written"}

\* A record at the position is one whose append failed, or did not end yet.
Unacked ==
  /\ pc # "down" => Overwritten(log) \cap acked = {}
  /\ pc \in Appending => appended \notin acked /\ appended > 0

LogInv == LogTypes /\ AtTheEnd /\ MappingFits /\ Unacked /\ AckedIsOnDisk

-----------------------------------------------------------------------------
\* An empty log has no payloads.
LEMMA Nothing == Payloads(<<>>) = {}
BY DEF Payloads

\* A file without a record at the position has none that can be overwritten.
LEMMA NothingThere ==
  ASSUME LogTypes, NEW f \in Seq(Records), Len(f) <= position
  PROVE  Overwritten(f) = {}
<1>1. Len(f) \in Nat
  BY LenProperties
<1>2. {position + 1} \cap (1 .. Len(f)) = {}
  BY <1>1 DEF LogTypes
<1> QED
  BY <1>2 DEF Overwritten

\* The length of a file that a record is put into.
LEMMA PutLength ==
  ASSUME LogTypes, NEW f \in Seq(Records), position <= Len(f)
  PROVE  /\ Put(f) \in Seq(Records)
         /\ Len(Put(f)) = IF position < Len(f) THEN Len(f) ELSE Len(f) + 1
<1>1. Record(sequence, appended) \in Records
  BY DEF LogTypes, Records
<1>2. Len(f) \in Nat /\ position \in Nat
  BY LenProperties DEF LogTypes
<1>3. CASE position < Len(f)
  <2>1. position + 1 \in 1 .. Len(f)
    BY <1>2, <1>3
  <2> QED
    BY <1>1, <1>3, <2>1, ExceptSeq DEF Put
<1>4. CASE ~(position < Len(f))
  BY <1>1, <1>2, <1>4, AppendProperties DEF Put
<1> QED
  BY <1>3, <1>4

\* Its records: the new one is there, and only what was at the position went.
LEMMA PutPayloads ==
  ASSUME LogTypes, NEW f \in Seq(Records), position <= Len(f)
  PROVE  /\ appended \in Payloads(Put(f))
         /\ Payloads(Put(f)) \subseteq Payloads(f) \cup {appended}
         /\ Payloads(f) \subseteq Payloads(Put(f)) \cup Overwritten(f)
<1> DEFINE r == Record(sequence, appended)
<1>1. r \in Records /\ r.payload = appended
  <2>1. r \in Records
    BY DEF LogTypes, Records
  <2>2. r.payload = appended
    BY DEF Record
  <2> QED
    BY <2>1, <2>2
<1>2. Len(f) \in Nat /\ position \in Nat
  BY LenProperties DEF LogTypes
<1>3. Put(f) = IF position < Len(f) THEN [f EXCEPT ![position + 1] = r]
               ELSE Append(f, r)
  BY DEF Put
<1> HIDE DEF r
<1>4. CASE position < Len(f)
  <2>1. position + 1 \in 1 .. Len(f)
    BY <1>2, <1>4
  <2>2. /\ Len(Put(f)) = Len(f)
        /\ \A k \in 1 .. Len(f) :
             Put(f)[k] = IF k = position + 1 THEN r ELSE f[k]
    BY <1>1, <1>3, <1>4, <2>1, ExceptSeq
  <2> QED
    BY <1>1, <2>1, <2>2 DEF Payloads, Overwritten
<1>5. CASE ~(position < Len(f))
  <2>1. /\ Len(Put(f)) = Len(f) + 1
        /\ \A k \in 1 .. Len(f) : Put(f)[k] = f[k]
        /\ Put(f)[Len(f) + 1] = r
    BY <1>1, <1>3, <1>5, AppendProperties
  <2>2. 1 .. Len(f) + 1 = (1 .. Len(f)) \cup {Len(f) + 1}
    BY <1>2
  <2> QED
    BY <1>1, <2>1, <2>2 DEF Payloads
<1> QED
  BY <1>4, <1>5

\* During an append there is room in the log.
LEMMA RoomInLog ==
  ASSUME LogInv, pc \in {"write", "written"}
  PROVE  /\ position <= Len(log) /\ Len(log) <= position + 1
         /\ position < MaxSize /\ extended
         /\ Put(log) \in Seq(Records) /\ Len(Put(log)) = position + 1
         /\ appended \in Payloads(Put(log))
         /\ Payloads(Put(log)) \subseteq Payloads(log) \cup {appended}
         /\ acked \cap Payloads(log) \subseteq Payloads(Put(log))
<1>1. /\ Len(log) \in {position, position + 1} /\ position < MaxSize
      /\ extended /\ position \in Nat /\ log \in Seq(Records)
  BY DEF LogInv, LogTypes, AtTheEnd
<1>2. position <= Len(log) /\ Len(log) <= position + 1
  BY <1>1
<1>3. Put(log) \in Seq(Records) /\ Len(Put(log)) = position + 1
  BY <1>1, <1>2, PutLength DEF LogInv
<1>4. /\ appended \in Payloads(Put(log))
      /\ Payloads(Put(log)) \subseteq Payloads(log) \cup {appended}
      /\ Payloads(log) \subseteq Payloads(Put(log)) \cup Overwritten(log)
  BY <1>1, <1>2, PutPayloads DEF LogInv
<1>5. Overwritten(log) \cap acked = {}
  BY DEF LogInv, Unacked
<1> QED
  BY <1>1, <1>2, <1>3, <1>4, <1>5

\* What is written there after it was put there.
LEMMA OverwrittenPut ==
  ASSUME LogInv, pc \in {"write", "written"}
  PROVE  Overwritten(Put(log)) = {appended}
<1>1. /\ log \in Seq(Records) /\ Len(Put(log)) = position + 1
      /\ Len(log) \in Nat /\ position \in Nat
      /\ position <= Len(log) /\ Len(log) <= position + 1
      /\ Record(sequence, appended) \in Records
  <2>1. Record(sequence, appended) \in Records
    BY DEF LogInv, LogTypes, Records
  <2>2. log \in Seq(Records) /\ Len(log) \in Nat /\ position \in Nat
    BY LenProperties DEF LogInv, LogTypes
  <2> QED
    BY <2>1, <2>2, RoomInLog
<1>2. Put(log)[position + 1] = Record(sequence, appended)
  <2>1. CASE position < Len(log)
    <3>1. position + 1 \in 1 .. Len(log)
      BY <1>1, <2>1
    <3> QED
      BY <1>1, <2>1, <3>1, ExceptSeq DEF Put
  <2>2. CASE ~(position < Len(log))
    <3>1. position = Len(log)
      BY <1>1, <2>2
    <3> QED
      BY <1>1, <2>2, <3>1, AppendProperties DEF Put
  <2> QED
    BY <2>1, <2>2
<1>3. {position + 1} \cap (1 .. Len(Put(log))) = {position + 1}
  BY <1>1
<1> QED
  BY <1>2, <1>3 DEF Overwritten, Record

-----------------------------------------------------------------------------
\* A rename hides nothing but the archive whose name it takes.
LEMMA RenameKeeps ==
  ASSUME LogInv, Rename
  PROVE  LogInv'
<1>1. /\ pc = "rotate" /\ pc' = "renamed"
      /\ log' = <<>> /\ extended' = FALSE
      /\ archives' = [archives EXCEPT ![now] = log]
      /\ replaced' = replaced \cup Payloads(archives[now])
      /\ mapped' \in {mapped, now, Unlinked}
      /\ rotated' = now /\ now' = now
      /\ UNCHANGED <<position, sequence, appended, acked>>
  BY DEF Rename
<1>2. <<>> \in Seq(Records) /\ Len(<<>>) = 0
  BY EmptySeq
<1>3. LogTypes'
  BY <1>1, <1>2 DEF LogInv, LogTypes
<1>4. position = MaxSize
  BY <1>1 DEF LogInv, AtTheEnd
<1>5. AtTheEnd' /\ MappingFits'
  BY <1>1, <1>4 DEF AtTheEnd, MappingFits
<1>6. Overwritten(log') = {}
  BY <1>1, EmptySeq DEF Overwritten
<1>7. Unacked'
  BY <1>1, <1>6 DEF LogInv, Unacked, Appending, Overwritten
<1>8. OnDisk \subseteq OnDisk' \cup replaced'
  <2> SUFFICES ASSUME NEW p \in OnDisk PROVE p \in OnDisk' \cup replaced'
    OBVIOUS
  <2>1. now \in 0 .. MaxTime /\ archives'[now] = log
    BY <1>1 DEF LogInv, LogTypes
  <2>2. CASE p \in Payloads(log)
    BY <2>1, <2>2 DEF OnDisk
  <2>3. ASSUME NEW t \in 0 .. MaxTime, p \in Payloads(archives[t])
        PROVE  p \in OnDisk' \cup replaced'
    <3>1. CASE t = now
      BY <1>1, <2>3, <3>1
    <3>2. CASE t # now
      <4>1. archives'[t] = archives[t]
        BY <1>1, <3>2 DEF LogInv, LogTypes
      <4> QED
        BY <2>3, <4>1 DEF OnDisk
    <3> QED
      BY <3>1, <3>2
  <2> QED
    BY <2>2, <2>3 DEF OnDisk
<1>9. AckedIsOnDisk'
  BY <1>1, <1>8 DEF LogInv, AckedIsOnDisk
<1> QED
  BY <1>3, <1>5, <1>7, <1>9 DEF LogInv

\* A write through the mapping goes to the end of the log, or of an archive.
LEMMA CopyKeeps ==
  ASSUME LogInv, pc = "write", CopyToMapping,
         UNCHANGED <<extended, mapped, position, sequence, appended, acked,
                     now, rotated>>,
         pc' \in {"ready", "written"}
  PROVE  LogInv'
<1>1. /\ log \in Seq(Records) /\ Len(log) \in Nat /\ position \in Nat
      /\ Len(log) \in {position, position + 1}
      /\ archives \in [0 .. MaxTime -> Seq(Records)]
      /\ position < MaxSize /\ extended
  BY LenProperties DEF LogInv, LogTypes, AtTheEnd
<1>2. CASE mapped = Current
  <2>1. log' = Put(log) /\ archives' = archives /\ replaced' = replaced
    BY <1>2 DEF CopyToMapping, Current, Unlinked
  <2>2. LogTypes'
    BY <1>1, <2>1, RoomInLog DEF LogInv, LogTypes
  <2>3. AtTheEnd'
    BY <1>1, <2>1, RoomInLog DEF AtTheEnd
  <2>4. MappingFits'
    BY <1>2 DEF MappingFits, Current
  <2>5. Overwritten(log)' = {appended}
    BY <2>1, OverwrittenPut DEF Overwritten
  <2>6. Unacked'
    BY <2>5 DEF LogInv, Unacked, Appending
  <2>7. AckedIsOnDisk'
    BY <2>1, RoomInLog DEF LogInv, AckedIsOnDisk, OnDisk
  <2> QED
    BY <2>2, <2>3, <2>4, <2>6, <2>7 DEF LogInv
<1>3. CASE mapped \in 0 .. MaxTime
  <2>1. /\ archives' = [archives EXCEPT ![mapped] = Put(archives[mapped])]
        /\ replaced' = replaced \cup Overwritten(archives[mapped])
        /\ log' = log
    BY <1>3 DEF CopyToMapping, Current, Unlinked
  <2>2. position <= Len(archives[mapped]) /\ archives[mapped] \in Seq(Records)
    BY <1>1, <1>3 DEF LogInv, MappingFits
  <2>3. /\ Put(archives[mapped]) \in Seq(Records)
        /\ position < Len(Put(archives[mapped]))
    BY <1>1, <2>2, PutLength, LenProperties DEF LogInv
  <2>4. Payloads(archives[mapped]) \subseteq
          Payloads(Put(archives[mapped])) \cup Overwritten(archives[mapped])
    BY <2>2, PutPayloads DEF LogInv
  <2>5. LogTypes'
    BY <2>1, <2>3 DEF LogInv, LogTypes
  <2>6. AtTheEnd'
    BY <1>1, <2>1 DEF AtTheEnd
  <2>7. archives'[mapped] = Put(archives[mapped])
    BY <1>1, <1>3, <2>1
  <2>8. MappingFits'
    <3>1. position <= Len(Put(archives[mapped]))
      BY <1>1, <2>3, LenProperties
    <3> QED
      BY <2>3, <2>7, <3>1 DEF MappingFits
  <2>9. Unacked'
    BY <2>1 DEF LogInv, Unacked, Appending, Overwritten
  <2>10. OnDisk \subseteq OnDisk' \cup replaced'
    <3>1. ASSUME NEW p, NEW t \in 0 .. MaxTime, p \in Payloads(archives[t])
          PROVE  p \in OnDisk' \cup replaced'
      <4>1. CASE t = mapped
        BY <1>3, <2>1, <2>4, <2>7, <3>1, <4>1 DEF OnDisk
      <4>2. CASE t # mapped
        <5>1. archives'[t] = archives[t]
          BY <1>1, <2>1, <4>2
        <5> QED
          BY <3>1, <5>1 DEF OnDisk
      <4> QED
        BY <4>1, <4>2
    <3> QED
      BY <2>1, <3>1 DEF OnDisk
  <2>11. AckedIsOnDisk'
    BY <2>1, <2>10 DEF LogInv, AckedIsOnDisk
  <2> QED
    BY <2>5, <2>6, <2>8, <2>9, <2>11 DEF LogInv
<1>4. CASE mapped = Unlinked
  <2>1. UNCHANGED <<log, archives, replaced>>
    BY <1>4 DEF CopyToMapping, Current, Unlinked
  <2>2. LogTypes' /\ MappingFits' /\ AckedIsOnDisk'
    BY <1>4, <2>1 DEF LogInv, LogTypes, MappingFits, AckedIsOnDisk, OnDisk,
       Unlinked
  <2>3. AtTheEnd' /\ Unacked'
    BY <1>1, <2>1 DEF LogInv, AtTheEnd, Unacked, Appending, Overwritten
  <2> QED
    BY <2>2, <2>3 DEF LogInv
<1> QED
  BY <1>2, <1>3, <1>4 DEF LogInv, LogTypes

\* So does the write through the file handle.
LEMMA WriteKeeps ==
  ASSUME LogInv, FinishAppend \/ WriteFails
  PROVE  LogInv'
<1>1. /\ pc = "written" /\ pc' = "ready"
      /\ log' \in {log, Put(log)}
      /\ UNCHANGED <<extended, archives, mapped, appended, replaced, now,
                     rotated>>
  BY DEF FinishAppend, WriteFails, ReturnError, ghostVars, clockVars,
         memoryVars
<1>2. /\ log \in Seq(Records) /\ Len(log) \in Nat /\ position \in Nat
      /\ Len(log) \in {position, position + 1}
      /\ position < MaxSize /\ extended
  BY <1>1, LenProperties DEF LogInv, LogTypes, AtTheEnd
<1>3. /\ Put(log) \in Seq(Records) /\ Len(Put(log)) = position + 1
      /\ appended \in Payloads(Put(log))
      /\ acked \cap Payloads(log) \subseteq Payloads(Put(log))
  BY <1>1, RoomInLog
<1>4. CASE FinishAppend
  <2>1. /\ log' = Put(log) /\ position' = position + 1
        /\ sequence' = sequence + 1 /\ acked' = acked \cup {appended}
    BY <1>4 DEF FinishAppend
  <2>2. appended \in 1 .. appended
    BY <1>1 DEF LogInv, LogTypes, Unacked, Appending
  <2>3. LogTypes'
    BY <1>1, <1>2, <1>3, <2>1, <2>2 DEF LogInv, LogTypes
  <2>4. AtTheEnd'
    BY <1>1, <1>2, <1>3, <2>1 DEF AtTheEnd
  <2>5. MappingFits'
    <3>1. ASSUME mapped \in 0 .. MaxTime
          PROVE  position + 1 <= Len(archives[mapped])
      <4>1. position < Len(archives[mapped]) /\ Len(archives[mapped]) \in Nat
        BY <1>1, <1>2, <3>1, LenProperties DEF LogInv, LogTypes, MappingFits
      <4> QED
        BY <1>2, <4>1
    <3> QED
      BY <1>1, <2>1, <3>1 DEF MappingFits
  <2>6. Overwritten(log)' = {}
    <3>1. {position' + 1} \cap (1 .. Len(log')) = {}
      BY <1>2, <1>3, <2>1
    <3> QED
      BY <3>1 DEF Overwritten
  <2>7. Unacked'
    BY <1>1, <2>6 DEF Unacked, Appending
  <2>8. AckedIsOnDisk'
    BY <1>1, <1>3, <2>1 DEF LogInv, AckedIsOnDisk, OnDisk
  <2> QED
    BY <2>3, <2>4, <2>5, <2>7, <2>8 DEF LogInv
<1>5. CASE WriteFails
  <2>1. UNCHANGED <<position, sequence, acked>>
    BY <1>5 DEF WriteFails, ReturnError, ghostVars, memoryVars
  <2>2. LogTypes'
    BY <1>1, <1>2, <1>3, <2>1 DEF LogInv, LogTypes
  <2>3. AtTheEnd' /\ MappingFits'
    BY <1>1, <1>2, <1>3, <2>1 DEF LogInv, AtTheEnd, MappingFits
  <2>4. Overwritten(log)' \in {Overwritten(log), {appended}}
    BY <1>1, <2>1, OverwrittenPut DEF Overwritten
  <2>5. Unacked'
    BY <1>1, <2>1, <2>4 DEF LogInv, Unacked, Appending
  <2>6. AckedIsOnDisk'
    BY <1>1, <1>3, <2>1 DEF LogInv, AckedIsOnDisk, OnDisk
  <2> QED
    BY <2>2, <2>3, <2>5, <2>6 DEF LogInv
<1> QED
  BY <1>4, <1>5

\* The other steps leave the records alone, and find the end of the log.
LEMMA OthersKeep ==
  ASSUME LogInv,
         \/ Open \/ InitMmap \/ Crash \/ Tick \/ BeginAppend
         \/ RenameFails \/ CreateNew \/ CreateFails
         \/ SetLength \/ SetLengthFails \/ Remap \/ RemapFails
  PROVE  LogInv'
<1> USE DEF fileVars, memoryVars, clockVars, ghostVars, ReturnError
<1>1. /\ log' = log /\ archives' = archives /\ acked' = acked
      /\ replaced' = replaced /\ rotated' = rotated
      /\ now' \in {now, now + 1} /\ now' <= MaxTime
      /\ mapped' \in {mapped, Current, Unlinked}
      /\ sequence' \in {sequence, 0} /\ position' \in {position, 0, MaxSize}
      /\ appended' \in {appended, appended + 1}
  BY DEF LogInv, LogTypes, Open, InitMmap, Crash, Tick, BeginAppend,
         RenameFails, CreateNew, CreateFails, SetLength, SetLengthFails, Remap,
         RemapFails
<1>2. Len(log) \in Nat /\ Len(<<>>) = 0
  BY LenProperties, EmptySeq DEF LogInv, LogTypes
<1>3. LogTypes'
  BY <1>1, <1>2 DEF LogInv, LogTypes
<1>4. AtTheEnd'
  <2>1. CASE Open
    BY <1>2, <2>1 DEF LogInv, AtTheEnd, Open
  <2>2. CASE InitMmap \/ Crash \/ Tick
    BY <2>2 DEF LogInv, AtTheEnd, InitMmap, Crash, Tick
  <2>3. CASE BeginAppend
    BY <1>2, <2>3 DEF LogInv, LogTypes, AtTheEnd, BeginAppend
  <2>4. CASE RenameFails \/ CreateNew \/ CreateFails \/ SetLengthFails
    BY <2>4 DEF LogInv, AtTheEnd, RenameFails, CreateNew, CreateFails,
       SetLengthFails
  <2>5. CASE SetLength \/ Remap \/ RemapFails
    BY <1>2, <2>5 DEF LogInv, AtTheEnd, SetLength, Remap, RemapFails
  <2> QED
    BY <2>1, <2>2, <2>3, <2>4, <2>5
<1>5. MappingFits'
  <2>1. CASE Open \/ InitMmap \/ Crash \/ Remap
    BY <2>1 DEF LogInv, MappingFits, Open, InitMmap, Crash, Remap, Current,
       Unlinked
  <2>2. CASE SetLength
    <3>1. ASSUME mapped \in 0 .. MaxTime
          PROVE  0 <= Len(archives[mapped])
      BY <3>1, LenProperties DEF LogInv, LogTypes
    <3> QED
      BY <2>2, <3>1 DEF MappingFits, SetLength
  <2>3. CASE Tick \/ BeginAppend \/ RenameFails \/ CreateNew \/ CreateFails
             \/ SetLengthFails \/ RemapFails
    BY <2>3 DEF LogInv, MappingFits, Tick, BeginAppend, RenameFails, CreateNew,
       CreateFails, SetLengthFails, RemapFails
  <2> QED
    BY <2>1, <2>2, <2>3
<1>6. Unacked'
  <2>1. CASE Open
    <3>1. position' = MaxSize \/ log = <<>>
      BY <2>1 DEF LogInv, AtTheEnd, Open
    <3>2. {position' + 1} \cap (1 .. Len(log)) = {}
      BY <1>1, <1>2, <3>1 DEF LogInv, LogTypes
    <3> QED
      BY <1>1, <2>1, <3>2 DEF Unacked, Overwritten, Open, Appending
  <2>2. CASE SetLength
    <3>1. log = <<>>
      BY <2>2 DEF LogInv, AtTheEnd, SetLength
    <3>2. {position' + 1} \cap (1 .. Len(log)) = {}
      BY <1>1, <1>2, <3>1 DEF LogInv, LogTypes
    <3> QED
      BY <1>1, <2>2, <3>2 DEF LogInv, Unacked, Overwritten, SetLength,
         Appending
  <2>3. CASE BeginAppend
    <3>1. appended' \notin acked /\ appended' > 0
      BY <2>3 DEF LogInv, LogTypes, BeginAppend
    <3> QED
      BY <2>3, <3>1 DEF LogInv, Unacked, Overwritten, BeginAppend
  <2>4. CASE InitMmap \/ Crash \/ Tick
    BY <2>4 DEF LogInv, Unacked, Overwritten, Appending, InitMmap, Crash, Tick
  <2>5. CASE RenameFails \/ CreateNew \/ CreateFails \/ SetLengthFails
             \/ Remap \/ RemapFails
    BY <2>5 DEF LogInv, Unacked, Overwritten, Appending, RenameFails,
       CreateNew, CreateFails, SetLengthFails, Remap, RemapFails
  <2> QED
    BY <2>1, <2>2, <2>3, <2>4, <2>5
<1>7. AckedIsOnDisk'
  BY <1>1 DEF LogInv, AckedIsOnDisk, OnDisk
<1> QED
  BY <1>3, <1>4, <1>5, <1>6, <1>7 DEF LogInv

LEMMA LogStart == Init => LogInv
<1> SUFFICES ASSUME Init PROVE LogInv
  OBVIOUS
<1>1. LogTypes
  BY EmptySeq DEF Init, LogTypes, Unlinked
<1> QED
  BY <1>1 DEF Init, LogInv, AtTheEnd, MappingFits, Unacked, Appending,
     AckedIsOnDisk, Unlinked

LEMMA LogStep == LogInv /\ [Next]_vars => LogInv'
<1> SUFFICES ASSUME LogInv, [Next]_vars PROVE LogInv'
  OBVIOUS
<1>1. CASE UNCHANGED vars
  <2>1. UNCHANGED <<extended, log, archives, mapped, position, sequence, pc,
                    appended, acked, replaced, now, rotated>>
    BY <1>1 DEF vars, fileVars, memoryVars, ghostVars, clockVars
  <2> QED
    BY <2>1 DEF LogInv, LogTypes, AtTheEnd, MappingFits, Unacked, Overwritten,
       AckedIsOnDisk, OnDisk
<1>2. CASE WriteMapped
  BY <1>2, CopyKeeps DEF WriteMapped, memoryVars, clockVars
<1>3. CASE FlushFails
  <2>1. CASE CopyToMapping
    BY <1>3, <2>1, CopyKeeps DEF FlushFails, memoryVars, clockVars
  <2>2. CASE UNCHANGED <<log, archives, replaced>>
    <3>1. /\ pc = "write" /\ pc' = "ready"
          /\ UNCHANGED <<extended, log, archives, mapped, position, sequence,
                         appended, acked, replaced, now, rotated>>
      BY <1>3, <2>2 DEF FlushFails, memoryVars, clockVars
    <3> QED
      BY <3>1 DEF LogInv, LogTypes, AtTheEnd, MappingFits, Unacked, Appending,
         Overwritten, AckedIsOnDisk, OnDisk
  <2> QED
    BY <1>3, <2>1, <2>2 DEF FlushFails
<1> QED
  BY <1>1, <1>2, <1>3, RenameKeeps, WriteKeeps, OthersKeep DEF Next

LEMMA LogInduction == Spec => []LogInv
BY LogStart, LogStep, PTL DEF Spec

-----------------------------------------------------------------------------
\* A record whose append returned stays on disk, in the log or in an archive,
\* whatever call failed and whatever the process died at, but for what goes
\* with an archive: one whose name a rename takes, or that stayed mapped.
THEOREM AcknowledgedStays == Spec => []AckedIsOnDisk
<1>1. LogInv => AckedIsOnDisk
  BY DEF LogInv
<1> QED
  BY LogInduction, <1>1, PTL

(***************************************************************************)
(* What the code would have to ensure for no archive to lose a record: a   *)
(* second between any two rotations, and a mapping after each of them.     *)
(***************************************************************************)

SafeRotations == ~RemapFails /\ (Rename => now > rotated)

ArchivesKept ==
  /\ replaced = {}
  /\ \A t \in 0 .. MaxTime : t > rotated => archives[t] = <<>>
  /\ \/ mapped = Current \/ position = MaxSize
     \/ pc \in {"sized", "opened", "down"}

LEMMA SafeStep ==
  ASSUME LogInv, ArchivesKept, [Next]_vars, [SafeRotations]_vars
  PROVE  ArchivesKept'
<1> USE DEF fileVars, memoryVars, clockVars, ghostVars
<1>1. /\ archives \in [0 .. MaxTime -> Seq(Records)]
      /\ now \in 0 .. MaxTime /\ rotated \in -1 .. now
  BY DEF LogInv, LogTypes
<1>2. CASE UNCHANGED vars
  BY <1>2 DEF vars, ArchivesKept
<1>3. CASE Rename
  <2>1. now > rotated
    <3>1. rotated' # rotated \/ now > rotated
      BY <1>1, <1>3, <1>2 DEF Rename, SafeRotations, vars
    <3>2. pc' # pc
      BY <1>3 DEF Rename
    <3> QED
      BY <1>3, <3>2 DEF SafeRotations, vars
  <2>2. Payloads(archives[now]) = {}
    BY <1>1, <2>1, Nothing DEF ArchivesKept
  <2>3. position' = MaxSize
    BY <1>3 DEF Rename, LogInv, AtTheEnd
  <2>4. \A t \in 0 .. MaxTime : t > now => archives'[t] = <<>>
    BY <1>1, <1>3 DEF Rename, ArchivesKept
  <2> QED
    BY <1>3, <2>2, <2>3, <2>4 DEF Rename, ArchivesKept
<1>4. CASE RemapFails
  <2>1. pc' # pc
    BY <1>4 DEF RemapFails, ReturnError
  <2> QED
    BY <1>4, <2>1 DEF SafeRotations, vars
<1>5. CASE WriteMapped \/ FlushFails
  <2>1. pc = "write" /\ position < MaxSize
    BY <1>5 DEF WriteMapped, FlushFails, LogInv, AtTheEnd
  <2>2. mapped = Current
    BY <2>1 DEF ArchivesKept, LogInv, LogTypes
  <2>3. UNCHANGED <<archives, replaced, mapped, rotated>>
    BY <1>5, <2>2 DEF WriteMapped, FlushFails, CopyToMapping, Current, Unlinked
  <2> QED
    BY <2>2, <2>3 DEF ArchivesKept
<1>6. CASE FinishAppend \/ WriteFails
  <2>1. pc = "written" /\ position < MaxSize
    BY <1>6 DEF FinishAppend, WriteFails, LogInv, AtTheEnd
  <2>2. mapped = Current
    BY <2>1 DEF ArchivesKept, LogInv, LogTypes
  <2>3. UNCHANGED <<archives, replaced, mapped, rotated>>
    BY <1>6 DEF FinishAppend, WriteFails, ReturnError
  <2> QED
    BY <2>2, <2>3 DEF ArchivesKept
<1>7. CASE RenameFails \/ CreateNew \/ CreateFails \/ SetLengthFails
  <2>1. position' = MaxSize
    BY <1>7 DEF RenameFails, CreateNew, CreateFails, SetLengthFails, LogInv,
       AtTheEnd
  <2> QED
    BY <1>7, <2>1 DEF ArchivesKept, RenameFails, CreateNew, CreateFails,
       SetLengthFails, ReturnError
<1>8. CASE Open \/ InitMmap \/ Crash \/ Tick \/ BeginAppend
           \/ SetLength \/ Remap
  BY <1>8 DEF ArchivesKept, Open, InitMmap, Crash, Tick, BeginAppend, SetLength,
     Remap
<1> QED
  BY <1>2, <1>3, <1>4, <1>5, <1>6, <1>7, <1>8 DEF Next

\* Where no two rotations fall into one second and none fails at its last
\* call, no record is ever lost, whatever else fails or the process dies at.
THEOREM NothingIsLost ==
  Spec /\ [][SafeRotations]_vars => [](acked \subseteq OnDisk)
<1>1. Init => ArchivesKept
  BY DEF Init, ArchivesKept
<1>2. LogInv /\ ArchivesKept /\ [Next]_vars /\ [SafeRotations]_vars
        => ArchivesKept'
  BY SafeStep
<1>3. LogInv /\ ArchivesKept => acked \subseteq OnDisk
  BY DEF LogInv, AckedIsOnDisk, ArchivesKept
<1> QED
  BY LogInduction, <1>1, <1>2, <1>3, PTL DEF Spec

(***************************************************************************)
(* RateLimiter, for any number of callers, weights, and refill rates.      *)
(*                                                                         *)
(* A bucket refills when it is used, so the bound at each moment follows   *)
(* from a ledger that speaks of the last refill: what was granted since a  *)
(* time s before it, and what is left, is at most a full bucket and what   *)
(* was refilled since s; and nothing was granted after it.                 *)
(***************************************************************************)

USE LimiterParameters

BucketTypes ==
  /\ time \in 0 .. Horizon /\ lastRefill \in 0 .. time
  /\ tokens \in 0 .. MaxTokens
  /\ total \in Nat
  /\ before \in [0 .. Horizon -> Nat]
  /\ \A c \in Callers : call[c].need \in Nat

Ledger ==
  \A s \in 0 .. time :
    IF s <= lastRefill
      THEN total - before[s] + tokens <= MaxTokens + Rate * (lastRefill - s)
      ELSE total = before[s]

BucketInv == BucketTypes /\ DOMAIN call = Callers /\ Ledger

\* One use of the bucket, which grants n tokens.
Settle(n) ==
  /\ n \in Nat /\ n <= Refilled
  /\ tokens' = Refilled - n
  /\ lastRefill' = time
  /\ total' = total + n
  /\ UNCHANGED <<time, before>>

-----------------------------------------------------------------------------
\* Refilling never overfills the bucket, and adds what the time is worth.
LEMMA RefilledBounds ==
  ASSUME BucketTypes
  PROVE  /\ Refilled \in 0 .. MaxTokens
         /\ Refilled <= tokens + Rate * (time - lastRefill)
<1> DEFINE gain == Rate * (time - lastRefill)
<1>1. Rate \in Nat /\ time - lastRefill \in Nat
  BY DEF ParametersOK, BucketTypes
<1>2. gain \in Nat /\ gain = (time - lastRefill) * Rate
  BY <1>1
<1>3. tokens \in Nat /\ tokens <= MaxTokens /\ MaxTokens \in Nat
  BY DEF ParametersOK, BucketTypes
<1>4. Refilled = IF MaxTokens < tokens + gain THEN MaxTokens
                 ELSE tokens + gain
  BY <1>2 DEF Refilled, Smaller
<1> HIDE DEF gain
<1>5. Refilled \in 0 .. MaxTokens /\ Refilled <= tokens + gain
  BY <1>2, <1>3, <1>4
<1> QED
  BY <1>5 DEF gain

\* Time that passes in two parts refills as much as it does in one.
LEMMA Parts ==
  \A a, b, c \in Int :
    Rate \in Int => Rate * (c - a) = Rate * (b - a) + Rate * (c - b)
OBVIOUS

\* A use of the bucket keeps its ledger.
LEMMA SettleKeeps ==
  ASSUME BucketTypes, Ledger, NEW n, Settle(n)
  PROVE  Ledger' /\ time' = time /\ lastRefill' \in 0 .. time'
         /\ tokens' \in 0 .. MaxTokens /\ total' \in Nat
<1>1. /\ n \in Nat /\ total \in Nat /\ tokens \in Nat /\ MaxTokens \in Nat
      /\ time \in Nat /\ lastRefill \in Nat /\ lastRefill <= time
      /\ Rate \in Nat
  BY DEF Settle, ParametersOK, BucketTypes
<1>2. /\ Refilled \in Nat /\ Refilled <= MaxTokens /\ n <= Refilled
      /\ Refilled <= tokens + Rate * (time - lastRefill)
      /\ tokens' = Refilled - n /\ total' = total + n
      /\ lastRefill' = time /\ time' = time /\ before' = before
  BY RefilledBounds DEF Settle, ParametersOK
<1>3. ASSUME NEW s \in 0 .. time
      PROVE  total' - before[s] + tokens' <= MaxTokens + Rate * (time - s)
  <2>1. s \in Nat /\ s <= time /\ before[s] \in Nat /\ time <= Horizon
    BY <1>1 DEF BucketTypes, ParametersOK
  <2>2. total' - before[s] + tokens' = total - before[s] + Refilled
    BY <1>1, <1>2, <2>1
  <2>3. CASE s <= lastRefill
    <3> DEFINE early == Rate * (lastRefill - s)
               late  == Rate * (time - lastRefill)
    <3>1. total - before[s] + tokens <= MaxTokens + early
      BY <2>3 DEF Ledger
    <3>2. early \in Int /\ late \in Int
      BY <1>1, <2>1
    <3>3. Rate * (time - s) = early + late
      BY <1>1, <2>1, Parts
    <3>4. Refilled <= tokens + late
      BY <1>2
    <3> HIDE DEF early, late
    <3> QED
      BY <1>1, <1>2, <2>1, <2>2, <3>1, <3>2, <3>3, <3>4
  <2>4. CASE ~(s <= lastRefill)
    <3>1. total = before[s]
      BY <2>4 DEF Ledger
    <3>2. Rate * (time - s) \in Nat
      BY <1>1, <2>1
    <3> QED
      BY <1>1, <1>2, <2>1, <2>2, <3>1, <3>2
  <2> QED
    BY <2>3, <2>4
<1>4. Ledger'
  BY <1>1, <1>2, <1>3 DEF Ledger
<1> QED
  BY <1>1, <1>2, <1>4

\* What was granted before a new moment is what was granted so far.
LEMMA ElapseKeeps ==
  ASSUME BucketInv, Elapse
  PROVE  BucketInv'
<1>1. /\ time' = time + 1 /\ time \in Nat /\ time' \in 0 .. Horizon
      /\ lastRefill \in 0 .. time /\ lastRefill' = lastRefill
      /\ tokens' = tokens /\ total' = total /\ call' = call
      /\ before' = [before EXCEPT ![time'] = total]
  BY DEF Elapse, BucketInv, BucketTypes, ParametersOK, bucketVars
<1>2. BucketTypes'
  BY <1>1 DEF BucketInv, BucketTypes
<1>3. ASSUME NEW s \in 0 .. time
      PROVE  before'[s] = before[s]
  BY <1>1 DEF BucketInv, BucketTypes, ParametersOK
<1>4. before'[time'] = total
  BY <1>1 DEF BucketInv, BucketTypes
<1>5. Ledger'
  <2> SUFFICES ASSUME NEW s \in 0 .. time'
               PROVE  IF s <= lastRefill
                        THEN total - before'[s] + tokens
                               <= MaxTokens + Rate * (lastRefill - s)
                        ELSE total = before'[s]
    BY <1>1 DEF Ledger
  <2>1. CASE s = time'
    BY <1>1, <1>4, <2>1
  <2>2. CASE s # time'
    <3>1. s \in 0 .. time
      BY <1>1, <2>2
    <3> QED
      BY <1>3, <3>1 DEF BucketInv, Ledger
  <2> QED
    BY <2>1, <2>2
<1> QED
  BY <1>1, <1>2, <1>5 DEF BucketInv

\* A step of a caller uses the bucket once, or not at all.
LEMMA StepUses ==
  ASSUME BucketInv, NEW c \in Callers, Step(c)
  PROVE  \/ UNCHANGED <<time, bucketVars, before>>
         \/ \E n \in Nat : Settle(n)
<1>1. call[c].need \in Nat
  BY DEF BucketInv, BucketTypes
<1>2. CASE Succeed(c)
  <2>1. Settle(call[c].need)
    BY <1>1, <1>2 DEF Succeed, Consume, Settle
  <2> QED
    BY <1>1, <2>1
<1>3. CASE SleepForTokens(c) \/ TimeOut(c) \/ BackOff(c)
  <2>1. Refuse(call[c].need) /\ UNCHANGED <<time, before>>
    BY <1>3 DEF SleepForTokens, TimeOut, BackOff
  <2>2. Refilled \in Nat /\ total \in Nat
    BY RefilledBounds DEF BucketInv, BucketTypes, ParametersOK
  <2>3. Settle(0)
    BY <2>1, <2>2 DEF Refuse, Settle
  <2> QED
    BY <2>3
<1>4. CASE \/ GiveUp(c)
           \/ \E n \in Weights :
                \/ BeginBackoff(c, n)
                \/ BeginAcquire(c, n, Never)
                \/ \E d \in Timeouts : BeginAcquire(c, n, time + d)
  BY <1>4 DEF GiveUp, BeginBackoff, BeginAcquire
<1> QED
  BY <1>2, <1>3, <1>4 DEF Step

\* A call asks for the weight of its request.
LEMMA StepNeeds ==
  ASSUME BucketInv, NEW c \in Callers, Step(c)
  PROVE  /\ DOMAIN call' = Callers
         /\ \A d \in Callers : call'[d].need \in Nat
<1> USE DEF BucketInv, BucketTypes, Idle
<1>1. CASE \E n \in Weights : BeginBackoff(c, n)
  BY <1>1 DEF BeginBackoff, ParametersOK
<1>2. CASE \E n \in Weights :
             \/ BeginAcquire(c, n, Never)
             \/ \E d \in Timeouts : BeginAcquire(c, n, time + d)
  <2>1. PICK n \in Weights, e \in {Never} \cup {time + d : d \in Timeouts} :
          BeginAcquire(c, n, e)
    BY <1>2
  <2> QED
    BY <2>1 DEF BeginAcquire, ParametersOK
<1>3. CASE Succeed(c) \/ TimeOut(c) \/ GiveUp(c)
  BY <1>3 DEF Succeed, TimeOut, GiveUp
<1>4. CASE SleepForTokens(c)
  BY <1>4 DEF SleepForTokens
<1>5. CASE BackOff(c)
  BY <1>5 DEF BackOff
<1> QED
  BY <1>1, <1>2, <1>3, <1>4, <1>5 DEF Step

LEMMA BucketStart == InitLimiter => BucketInv
<1> SUFFICES ASSUME InitLimiter PROVE BucketInv
  OBVIOUS
<1>1. BucketTypes /\ DOMAIN call = Callers
  BY DEF InitLimiter, Idle, BucketTypes, ParametersOK
<1>2. /\ time = 0 /\ lastRefill = 0 /\ total = 0 /\ tokens = MaxTokens
      /\ before[0] = 0
  BY DEF InitLimiter, ParametersOK
<1>3. MaxTokens \in Nat /\ Rate \in Nat
  BY DEF ParametersOK
<1>4. Ledger
  BY <1>2, <1>3 DEF Ledger
<1> QED
  BY <1>1, <1>4 DEF BucketInv

LEMMA BucketStep == BucketInv /\ [NextLimiter]_limiterVars => BucketInv'
<1> SUFFICES ASSUME BucketInv, [NextLimiter]_limiterVars PROVE BucketInv'
  OBVIOUS
<1>1. CASE UNCHANGED limiterVars
  BY <1>1 DEF limiterVars, bucketVars, BucketInv, BucketTypes, Ledger
<1>2. CASE Elapse
  BY <1>2, ElapseKeeps
<1>3. ASSUME NEW c \in Callers, Step(c) PROVE BucketInv'
  <2>1. CASE UNCHANGED <<time, bucketVars, before>>
    BY <1>3, <2>1, StepNeeds DEF bucketVars, BucketInv, BucketTypes, Ledger
  <2>2. ASSUME NEW n \in Nat, Settle(n) PROVE BucketInv'
    <3>1. BucketTypes'
      BY <1>3, <2>2, StepNeeds, SettleKeeps DEF BucketInv, BucketTypes, Settle
    <3> QED
      BY <1>3, <2>2, <3>1, StepNeeds, SettleKeeps DEF BucketInv
  <2> QED
    BY <1>3, <2>1, <2>2, StepUses
<1> QED
  BY <1>1, <1>2, <1>3 DEF NextLimiter

LEMMA BucketInduction == SpecLimiter => []BucketInv
BY BucketStart, BucketStep, PTL DEF SpecLimiter

-----------------------------------------------------------------------------
\* In any stretch of time the bucket lets through at most a full bucket and
\* what is refilled meanwhile, whoever calls.
THEOREM BurstsBounded == SpecLimiter => []BurstBounded
<1>1. BucketInv => BurstBounded
  <2> SUFFICES ASSUME BucketInv, NEW s \in 0 .. time
               PROVE  total - before[s] <= MaxTokens + Rate * (time - s)
    BY DEF BurstBounded
  <2>1. /\ total \in Nat /\ tokens \in Nat /\ MaxTokens \in Nat
        /\ time \in Nat /\ lastRefill \in Nat /\ lastRefill <= time
        /\ Rate \in Nat /\ s \in Nat /\ s <= time /\ before[s] \in Nat
    BY DEF BucketInv, BucketTypes, ParametersOK
  <2>2. CASE s <= lastRefill
    <3> DEFINE early == Rate * (lastRefill - s)
               late  == Rate * (time - lastRefill)
    <3>1. total - before[s] + tokens <= MaxTokens + early
      BY <2>2 DEF BucketInv, Ledger
    <3>2. early \in Nat /\ late \in Nat
      BY <2>1, <2>2
    <3>3. Rate * (time - s) = early + late
      BY <2>1, Parts
    <3> HIDE DEF early, late
    <3> QED
      BY <2>1, <3>1, <3>2, <3>3
  <2>3. CASE ~(s <= lastRefill)
    <3>1. total = before[s]
      BY <2>3 DEF BucketInv, Ledger
    <3>2. Rate * (time - s) \in Nat
      BY <2>1
    <3> QED
      BY <2>1, <3>1, <3>2
  <2> QED
    BY <2>2, <2>3
<1> QED
  BY BucketInduction, <1>1, PTL

(***************************************************************************)
(* CheckpointDaemon, for any tasks, any size of the channel and any number *)
(* of requests.                                                            *)
(*                                                                         *)
(* The loop ends with a checkpoint counted for each accepted request       *)
(* because, all along, those not counted yet are in the channel before the *)
(* first Shutdown, and because it runs while it selects.                   *)
(***************************************************************************)

\* The requests of a channel for checkpoints that the loop will come to.
Due(s) == {i \in 1 .. Len(s) : /\ s[i] = "Immediate"
                               /\ \A j \in 1 .. i - 1 : s[j] # "Shutdown"}

LEMMA DueIsFinite ==
  ASSUME NEW s \in Seq(Daemon!Request)
  PROVE  IsFiniteSet(Due(s)) /\ Cardinality(Due(s)) \in Nat
<1>1. Len(s) \in Nat
  BY LenProperties
<1>2. IsFiniteSet(1 .. Len(s))
  BY <1>1, FS_Interval
<1>3. Due(s) \subseteq 1 .. Len(s)
  BY DEF Due
<1> QED
  BY <1>2, <1>3, FS_Subset, FS_CardinalityType

\* A request that is sent is due unless a Shutdown was sent before it.
LEMMA SendAddsDue ==
  ASSUME NEW s \in Seq(Daemon!Request), NEW m \in Daemon!Request
  PROVE  Cardinality(Due(Append(s, m))) =
           IF m = "Immediate" /\ ~Daemon!Contains(s, "Shutdown")
             THEN Cardinality(Due(s)) + 1 ELSE Cardinality(Due(s))
<1> DEFINE v == Append(s, m)
           n == Len(s)
<1>1. /\ Len(v) = n + 1 /\ v[n + 1] = m /\ n \in Nat
      /\ \A i \in 1 .. n : v[i] = s[i]
  BY AppendProperties, LenProperties
<1> HIDE DEF v
<1>2. Daemon!Contains(s, "Shutdown") <=> \E j \in 1 .. n : v[j] = "Shutdown"
  BY <1>1 DEF Daemon!Contains
<1> HIDE DEF n
<1>3. ASSUME NEW i PROVE i \in Due(v) /\ i # n + 1 <=> i \in Due(s)
  BY <1>1 DEF Due, n
<1>4. n + 1 \in Due(v) <=> m = "Immediate" /\ ~Daemon!Contains(s, "Shutdown")
  BY <1>1, <1>2 DEF Due
<1>5. n + 1 \notin Due(s)
  BY <1>1 DEF Due, n
<1>6. Due(v) \ {n + 1} = Due(s)
  BY <1>3, <1>5
<1>7. CASE n + 1 \in Due(v)
  <2>1. Due(v) = Due(s) \cup {n + 1}
    BY <1>6, <1>7
  <2> QED
    BY <1>4, <1>5, <1>7, <2>1, DueIsFinite, FS_AddElement DEF v
<1>8. CASE n + 1 \notin Due(v)
  BY <1>4, <1>6, <1>8 DEF v
<1> QED
  BY <1>7, <1>8

\* The first request of the channel counts if it asks for a checkpoint, and
\* nothing is due behind a Shutdown.
LEMMA ReceiveTakesDue ==
  ASSUME NEW s \in Seq(Daemon!Request), s # <<>>
  PROVE  /\ Tail(s) \in Seq(Daemon!Request)
         /\ Head(s) = "Shutdown" => Cardinality(Due(s)) = 0
         /\ Head(s) = "Immediate" =>
              Cardinality(Due(s)) = Cardinality(Due(Tail(s))) + 1
         /\ Head(s) \notin {"Shutdown", "Immediate"} =>
              Cardinality(Due(s)) = Cardinality(Due(Tail(s)))
<1> DEFINE v == Tail(s)
           n == Len(s)
           later == Due(s) \ {1}
<1>1. /\ v \in Seq(Daemon!Request) /\ Len(v) = n - 1 /\ Head(s) = s[1]
      /\ n \in Nat /\ n # 0
      /\ \A i \in 1 .. n - 1 : v[i] = s[i + 1]
  BY HeadTailProperties, LenProperties, EmptySeq
<1> HIDE DEF v
<1>2. 1 \in Due(s) <=> Head(s) = "Immediate"
  BY <1>1 DEF Due
<1>3. Head(s) = "Shutdown" => Due(s) = {}
  BY <1>1 DEF Due
<1>4. ASSUME Head(s) # "Shutdown", NEW i \in 1 .. n - 1
      PROVE  i \in Due(v) <=> i + 1 \in Due(s)
  <2>1. i \in 1 .. Len(v) /\ i + 1 \in 1 .. n /\ v[i] = s[i + 1]
    BY <1>1
  <2>2. ASSUME \A j \in 1 .. i - 1 : v[j] # "Shutdown",
               NEW k \in 1 .. (i + 1) - 1
        PROVE  s[k] # "Shutdown"
    <3>1. CASE k = 1
      BY <1>1, <1>4, <3>1
    <3>2. CASE k # 1
      <4>1. k - 1 \in 1 .. i - 1 /\ k - 1 \in 1 .. n - 1 /\ (k - 1) + 1 = k
        BY <1>1, <3>2
      <4>2. v[k - 1] = s[k]
        BY <1>1, <4>1
      <4> QED
        BY <2>2, <4>1, <4>2
    <3> QED
      BY <3>1, <3>2
  <2>3. ASSUME \A k \in 1 .. (i + 1) - 1 : s[k] # "Shutdown",
               NEW j \in 1 .. i - 1
        PROVE  v[j] # "Shutdown"
    BY <1>1, <2>3
  <2> QED
    BY <2>1, <2>2, <2>3 DEF Due
<1>5. ASSUME Head(s) # "Shutdown"
      PROVE  Cardinality(later) = Cardinality(Due(v))
  <2> DEFINE f == [i \in Due(v) |-> i + 1]
  <2>1. \A i \in Due(v) : i \in 1 .. n - 1
    BY <1>1 DEF Due
  <2>2. \A i \in Due(v) : i + 1 \in later
    BY <1>1, <1>4, <1>5, <2>1
  <2>3. \A k \in later : k - 1 \in Due(v) /\ (k - 1) + 1 = k
    <3> SUFFICES ASSUME NEW k \in later
                 PROVE  k - 1 \in Due(v) /\ (k - 1) + 1 = k
      OBVIOUS
    <3>1. k \in 1 .. n /\ k # 1
      BY DEF Due
    <3>2. k - 1 \in 1 .. n - 1 /\ (k - 1) + 1 = k
      BY <1>1, <3>1
    <3> QED
      BY <1>4, <1>5, <3>2
  <2>4. f \in [Due(v) -> later]
    BY <2>2
  <2>5. \A i, j \in Due(v) : f[i] = f[j] => i = j
    BY <2>1
  <2>6. \A k \in later : \E i \in Due(v) : f[i] = k
    BY <2>3
  <2>7. f \in Bijection(Due(v), later)
    BY <2>4, <2>5, <2>6 DEF Bijection, Injection, Surjection, IsInjective
  <2>8. ExistsBijection(Due(v), later)
    BY <2>7 DEF ExistsBijection
  <2> QED
    BY <1>1, <2>8, DueIsFinite, FS_Bijection
<1>6. CASE Head(s) = "Immediate"
  <2>1. Cardinality(later) = Cardinality(Due(s)) - 1
    BY <1>2, <1>6, DueIsFinite, FS_RemoveElement
  <2> QED
    BY <1>1, <1>5, <1>6, <2>1, DueIsFinite DEF v
<1>7. CASE Head(s) \notin {"Shutdown", "Immediate"}
  <2>1. later = Due(s)
    BY <1>2, <1>7
  <2> QED
    BY <1>1, <1>5, <1>7, <2>1 DEF v
<1>8. CASE Head(s) = "Shutdown"
  BY <1>1, <1>3, <1>8, FS_EmptySet DEF v
<1> QED
  BY <1>6, <1>7, <1>8

DaemonInv ==
  /\ channel \in Seq(Daemon!Request)
  /\ task \in [Tasks -> {"idle", "storing", "taking", "sending", "waiting"}]
  /\ checkpoints \in Nat /\ accepted \in Nat /\ ticks \in Nat
  /\ receiver = "home" <=> loop = "unborn"
  /\ \A t \in Tasks : task[t] = "taking" /\ receiver = "home" => running
  /\ loop = "selecting" => running
  /\ loop \in {"unborn", "selecting"} =>
       checkpoints + Cardinality(Due(channel)) = accepted + ticks
  /\ loop \notin {"unborn", "selecting"} => checkpoints = accepted + ticks

LEMMA DaemonStart == Daemon!Init => DaemonInv
<1> SUFFICES ASSUME Daemon!Init PROVE DaemonInv
  OBVIOUS
<1>1. << >> \in Seq(Daemon!Request) /\ Len(<< >>) = 0
  BY EmptySeq
<1>2. Due(channel) = {}
  BY <1>1 DEF Due, Daemon!Init
<1>3. Cardinality(Due(channel)) = 0
  BY <1>2, FS_EmptySet
<1> QED
  BY <1>1, <1>3 DEF Daemon!Init, DaemonInv

\* What a step does that is not one of a request's.
LEMMA TasksKeepDaemon ==
  ASSUME DaemonInv, NEW t \in Tasks,
         \/ Daemon!Start(t) \/ Daemon!StoreRunning(t)
         \/ Daemon!Spawn(t) \/ Daemon!AlreadyConsumed(t)
         \/ Daemon!Stop(t) \/ Daemon!SendFails(t)
         \/ \E timedOut \in BOOLEAN : Daemon!Return(t, timedOut)
  PROVE  DaemonInv'
<1> USE DEF Daemon!loopVars, Daemon!countVars, Daemon!Go
<1>1. CASE Daemon!Start(t)
  BY <1>1 DEF DaemonInv, Daemon!Start
<1>2. CASE Daemon!StoreRunning(t)
  BY <1>2 DEF DaemonInv, Daemon!StoreRunning
<1>3. CASE Daemon!Spawn(t)
  <2>1. running /\ loop = "unborn"
    BY <1>3 DEF DaemonInv, Daemon!Spawn
  <2> QED
    BY <1>3, <2>1 DEF DaemonInv, Daemon!Spawn
<1>4. CASE Daemon!AlreadyConsumed(t)
  BY <1>4 DEF DaemonInv, Daemon!AlreadyConsumed
<1>5. CASE Daemon!Stop(t) \/ Daemon!SendFails(t)
  BY <1>5 DEF DaemonInv, Daemon!Stop, Daemon!SendFails
<1>6. ASSUME NEW timedOut \in BOOLEAN, Daemon!Return(t, timedOut)
      PROVE  DaemonInv'
  BY <1>6 DEF DaemonInv, Daemon!Return
<1> QED
  BY <1>1, <1>2, <1>3, <1>4, <1>5, <1>6

\* A request that is accepted is due.
LEMMA AskKeepsDaemon ==
  ASSUME DaemonInv, NEW t \in Tasks, NEW m \in {"Immediate", "FlushWAL"},
         Daemon!Ask(t, m)
  PROVE  DaemonInv'
<1>1. /\ m \in Daemon!Request /\ channel' = Append(channel, m)
      /\ UNCHANGED <<running, receiver, checkpoints, loop, ticks, task>>
      /\ accepted' = IF /\ m = "Immediate"
                        /\ ~Daemon!Contains(channel, "Shutdown")
                        /\ loop \in {"unborn", "selecting"}
                     THEN accepted + 1 ELSE accepted
  BY DEF Daemon!Ask, Daemon!Send, Daemon!loopVars, Daemon!Request
<1>2. channel' \in Seq(Daemon!Request)
  BY <1>1, AppendProperties DEF DaemonInv
<1>3. Cardinality(Due(channel')) =
        IF m = "Immediate" /\ ~Daemon!Contains(channel, "Shutdown")
          THEN Cardinality(Due(channel)) + 1 ELSE Cardinality(Due(channel))
  BY <1>1, SendAddsDue DEF DaemonInv
<1>4. Cardinality(Due(channel)) \in Nat
  BY DueIsFinite DEF DaemonInv
<1>5. loop \in {"unborn", "selecting"} =>
        checkpoints + Cardinality(Due(channel')) = accepted' + ticks
  <2> SUFFICES ASSUME loop \in {"unborn", "selecting"}
               PROVE  checkpoints + Cardinality(Due(channel'))
                        = accepted' + ticks
    OBVIOUS
  <2>1. /\ checkpoints + Cardinality(Due(channel)) = accepted + ticks
        /\ checkpoints \in Nat /\ accepted \in Nat /\ ticks \in Nat
    BY DEF DaemonInv
  <2> QED
    BY <1>1, <1>3, <1>4, <2>1
<1>6. loop \notin {"unborn", "selecting"} => accepted' = accepted
  BY <1>1
<1>7. accepted' \in Nat
  BY <1>1 DEF DaemonInv
<1> QED
  BY <1>1, <1>2, <1>5, <1>6, <1>7 DEF DaemonInv

\* A Shutdown takes nothing away from what was due before it.
LEMMA SendShutdownKeepsDaemon ==
  ASSUME DaemonInv, NEW t \in Tasks, Daemon!SendShutdown(t)
  PROVE  DaemonInv'
<1>1. /\ "Shutdown" \in Daemon!Request /\ channel' = Append(channel, "Shutdown")
      /\ UNCHANGED <<running, receiver, checkpoints, loop, ticks, accepted>>
      /\ task' = [task EXCEPT ![t] = "waiting"]
  BY DEF Daemon!SendShutdown, Daemon!Send, Daemon!Go, Daemon!loopVars,
         Daemon!Request
<1>2. channel' \in Seq(Daemon!Request)
  BY <1>1, AppendProperties DEF DaemonInv
<1>3. Cardinality(Due(channel')) = Cardinality(Due(channel))
  BY <1>1, SendAddsDue DEF DaemonInv
<1> QED
  BY <1>1, <1>2, <1>3 DEF DaemonInv

\* What the loop takes from the channel it does.
LEMMA ReceiveKeepsDaemon ==
  ASSUME DaemonInv, Daemon!Receive
  PROVE  DaemonInv'
<1>1. /\ loop = "selecting" /\ channel # <<>> /\ channel' = Tail(channel)
      /\ loop' = IF Head(channel) = "Shutdown" THEN "leaving" ELSE loop
      /\ checkpoints' = IF Head(channel) = "Immediate" THEN checkpoints + 1
                        ELSE checkpoints
      /\ UNCHANGED <<running, receiver, ticks, task, accepted>>
  BY DEF Daemon!Receive, Daemon!countVars
<1>2. /\ channel' \in Seq(Daemon!Request)
      /\ Head(channel) = "Shutdown" => Cardinality(Due(channel)) = 0
      /\ Head(channel) = "Immediate" =>
           Cardinality(Due(channel)) = Cardinality(Due(channel')) + 1
      /\ Head(channel) \notin {"Shutdown", "Immediate"} =>
           Cardinality(Due(channel)) = Cardinality(Due(channel'))
  BY <1>1, ReceiveTakesDue DEF DaemonInv
<1>3. Cardinality(Due(channel)) \in Nat /\ Cardinality(Due(channel')) \in Nat
  BY <1>2, DueIsFinite DEF DaemonInv
<1> QED
  BY <1>1, <1>2, <1>3 DEF DaemonInv

LEMMA DaemonStep ==
  ASSUME DaemonInv, [Daemon!Next]_Daemon!daemonVars PROVE DaemonInv'
<1>1. CASE UNCHANGED Daemon!daemonVars
  BY <1>1 DEF Daemon!daemonVars, Daemon!loopVars, Daemon!countVars, DaemonInv
<1>2. CASE Daemon!Tick
  <2>1. /\ checkpoints' = checkpoints + 1 /\ ticks' = ticks + 1
        /\ loop = "selecting"
        /\ UNCHANGED <<running, receiver, channel, loop, task, accepted>>
    BY <1>2 DEF Daemon!Tick, DaemonInv, Daemon!countVars
  <2>2. Cardinality(Due(channel)) \in Nat
    BY DueIsFinite DEF DaemonInv
  <2> QED
    BY <2>1, <2>2 DEF DaemonInv
<1>3. CASE Daemon!StoreStopped
  BY <1>3 DEF Daemon!StoreStopped, Daemon!countVars, DaemonInv
<1>4. CASE Daemon!DropReceiver
  BY <1>4, EmptySeq DEF Daemon!DropReceiver, Daemon!countVars, DaemonInv
<1> QED
  BY <1>1, <1>2, <1>3, <1>4, TasksKeepDaemon, AskKeepsDaemon,
     SendShutdownKeepsDaemon, ReceiveKeepsDaemon
  DEF Daemon!Next, Daemon!Continue, Daemon!Leave

\* The loop ends with every checkpoint counted that was asked for before the
\* first stop, once, and with the scheduled ones.
THEOREM AcceptedAreMade == Daemon!Spec => []AcceptedIsMade
<1>1. DaemonInv => AcceptedIsMade
  BY DEF DaemonInv, AcceptedIsMade, Daemon!AcceptedIsMade
<1>2. DaemonInv /\ [Daemon!Next]_Daemon!daemonVars => DaemonInv'
  BY DaemonStep
<1> QED
  BY <1>1, <1>2, DaemonStart, PTL DEF Daemon!Spec

(***************************************************************************)
(* GracefulShutdown, for any callers and any finite set of workers.        *)
(*                                                                         *)
(* Whoever has waited was in a shutdown that had been requested, so no     *)
(* worker that registers counts as early any more; and a count of zero     *)
(* means that there is no worker, because the count is their number.       *)
(***************************************************************************)

Working == {w \in Workers : worker[w] # "out"}

ShutdownInv ==
  /\ requested \in BOOLEAN /\ error \in BOOLEAN
  /\ asker \in [Askers -> Shutdown!Place]
  /\ worker \in [Workers -> {"out", "early", "late"}]
  /\ active = Cardinality(Working)
  /\ \A c \in Askers : asker[c] # "idle" => requested
  /\ \A c \in Askers :
       asker[c] \in {"Cleaning", "Terminated"} /\ ~error =>
         \A w \in Workers : worker[w] # "early"

\* Every set of workers is finite, and has a number of members.
LEMMA WorkersAreFinite ==
  \A S \in SUBSET Workers : IsFiniteSet(S) /\ Cardinality(S) \in Nat
<1>1. Shutdown!IsFiniteSet(Workers) <=> IsFiniteSet(Workers)
  BY DEF Shutdown!IsFiniteSet, IsFiniteSet
<1>2. IsFiniteSet(Workers)
  BY <1>1, ShutdownParameters DEF Shutdown!ParametersOK
<1> QED
  BY <1>2, FS_Subset, FS_CardinalityType

LEMMA ShutdownStart == Shutdown!Init => ShutdownInv
<1> SUFFICES ASSUME Shutdown!Init PROVE ShutdownInv
  OBVIOUS
<1>1. Working = {}
  BY DEF Shutdown!Init, Working
<1>2. active = Cardinality(Working)
  BY <1>1, FS_EmptySet DEF Shutdown!Init
<1> QED
  BY <1>2 DEF Shutdown!Init, ShutdownInv, Shutdown!Place

\* A worker comes, and is early only if nobody has asked yet.
LEMMA RegisterKeepsShutdown ==
  ASSUME ShutdownInv, NEW w \in Workers, Shutdown!Register(w)
  PROVE  ShutdownInv'
<1>1. /\ worker[w] = "out" /\ active' = active + 1
      /\ worker' = [worker EXCEPT ![w] =
                      IF requested THEN "late" ELSE "early"]
      /\ UNCHANGED <<requested, error, asker>>
  BY DEF Shutdown!Register
<1>2. Working' = Working \cup {w} /\ w \notin Working
  BY <1>1 DEF Working, ShutdownInv
<1>3. active' = Cardinality(Working')
  <2>1. Working \in SUBSET Workers
    BY DEF Working
  <2> QED
    BY <1>1, <1>2, <2>1, WorkersAreFinite, FS_AddElement DEF ShutdownInv
<1>4. \A c \in Askers :
        asker'[c] \in {"Cleaning", "Terminated"} /\ ~error' =>
          \A v \in Workers : worker'[v] # "early"
  BY <1>1 DEF ShutdownInv
<1> QED
  BY <1>1, <1>3, <1>4 DEF ShutdownInv

LEMMA UnregisterKeepsShutdown ==
  ASSUME ShutdownInv, NEW w \in Workers, Shutdown!Unregister(w)
  PROVE  ShutdownInv'
<1>1. /\ worker[w] # "out" /\ active' = active - 1
      /\ worker' = [worker EXCEPT ![w] = "out"]
      /\ UNCHANGED <<requested, error, asker>>
  BY DEF Shutdown!Unregister
<1>2. Working' = Working \ {w} /\ w \in Working
  BY <1>1 DEF Working, ShutdownInv
<1>3. active' = Cardinality(Working')
  <2>1. Working \in SUBSET Workers
    BY DEF Working
  <2> QED
    BY <1>1, <1>2, <2>1, WorkersAreFinite, FS_RemoveElement DEF ShutdownInv
<1>4. \A c \in Askers :
        asker'[c] \in {"Cleaning", "Terminated"} /\ ~error' =>
          \A v \in Workers : worker'[v] # "early"
  BY <1>1 DEF ShutdownInv
<1> QED
  BY <1>1, <1>3, <1>4 DEF ShutdownInv

\* A caller that does not end its wait in this step.
LEMMA CallerKeepsShutdown ==
  ASSUME ShutdownInv, NEW c \in Askers, NEW place \in Shutdown!Place,
         asker' = [asker EXCEPT ![c] = place],
         requested' \in BOOLEAN, requested => requested',
         place # "idle" => requested',
         error' \in BOOLEAN, error => error',
         place \in {"Cleaning", "Terminated"} =>
           \/ error'
           \/ asker[c] = "Cleaning"
           \/ \A w \in Workers : worker[w] # "early",
         UNCHANGED <<worker, active>>
  PROVE  ShutdownInv'
<1>1. Working' = Working
  BY DEF Working
<1>2. asker' \in [Askers -> Shutdown!Place]
  BY DEF ShutdownInv
<1>3. \A d \in Askers : asker'[d] # "idle" => requested'
  BY DEF ShutdownInv
<1>4. ASSUME NEW d \in Askers, asker'[d] \in {"Cleaning", "Terminated"},
             ~error', NEW w \in Workers
      PROVE  worker'[w] # "early"
  <2>1. CASE d = c
    BY <1>4, <2>1 DEF ShutdownInv
  <2>2. CASE d # c
    BY <1>4, <2>2 DEF ShutdownInv
  <2> QED
    BY <2>1, <2>2
<1> QED
  BY <1>1, <1>2, <1>3, <1>4 DEF ShutdownInv

LEMMA ProceedKeepsShutdown ==
  ASSUME ShutdownInv, NEW c \in Askers,
         Shutdown!Request(c) \/ Shutdown!Proceed(c)
  PROVE  ShutdownInv'
<1> USE DEF Shutdown!Go
<1>1. asker[c] # "idle" => requested
  BY DEF ShutdownInv
<1>2. Shutdown!Then(c) \in {"StoppingIngest", "done"}
  BY DEF Shutdown!Then
<1>3. requested \in BOOLEAN /\ error \in BOOLEAN
  BY DEF ShutdownInv
<1>4. CASE Shutdown!Request(c)
  BY <1>2, <1>3, <1>4, CallerKeepsShutdown
  DEF Shutdown!Request, Shutdown!Place
<1>5. CASE Shutdown!SetReason(c) \/ Shutdown!Signal(c)
  BY <1>1, <1>2, <1>3, <1>5, CallerKeepsShutdown
  DEF Shutdown!SetReason, Shutdown!Signal, Shutdown!Place
<1>6. CASE Shutdown!StopIngest(c) \/ Shutdown!Flush(c) \/ Shutdown!Complete(c)
  BY <1>1, <1>3, <1>6, CallerKeepsShutdown
  DEF Shutdown!StopIngest, Shutdown!Flush, Shutdown!Complete,
      Shutdown!SetPhase, Shutdown!Place
<1>7. CASE Shutdown!LockHandlers(c) \/ Shutdown!UnlockHandlers(c)
  BY <1>1, <1>3, <1>7, CallerKeepsShutdown
  DEF Shutdown!LockHandlers, Shutdown!UnlockHandlers, Shutdown!Place
<1>8. CASE Shutdown!WaitForWorkers(c)
  <2>1. Working \in SUBSET Workers /\ Cardinality(Working) = 0
    BY <1>8 DEF Shutdown!WaitForWorkers, ShutdownInv, Working
  <2>2. Working = {}
    BY <2>1, WorkersAreFinite, FS_EmptySet
  <2>3. \A w \in Workers : worker[w] # "early"
    BY <2>2 DEF Working
  <2> QED
    BY <1>1, <1>3, <1>8, <2>3, CallerKeepsShutdown
    DEF Shutdown!WaitForWorkers, Shutdown!stateVars, Shutdown!Place
<1>9. CASE Shutdown!WaitTimesOut(c)
  BY <1>1, <1>3, <1>9, CallerKeepsShutdown
  DEF Shutdown!WaitTimesOut, Shutdown!Place
<1>10. ASSUME NEW late \in BOOLEAN, Shutdown!CleanUp(c, late)
       PROVE  ShutdownInv'
  BY <1>1, <1>3, <1>10, CallerKeepsShutdown DEF Shutdown!CleanUp, Shutdown!Place
<1> QED
  BY <1>4, <1>5, <1>6, <1>7, <1>8, <1>9, <1>10 DEF Shutdown!Proceed

LEMMA ShutdownStep ==
  ASSUME ShutdownInv, [Shutdown!Next]_Shutdown!vars PROVE ShutdownInv'
<1>1. CASE UNCHANGED Shutdown!vars
  BY <1>1 DEF Shutdown!vars, Shutdown!stateVars, ShutdownInv, Working
<1> QED
  BY <1>1, RegisterKeepsShutdown, UnregisterKeepsShutdown, ProceedKeepsShutdown
  DEF Shutdown!Next

\* A shutdown that has ended waited until every worker there at the request
\* had gone, or has the time-out recorded as an error.
THEOREM CleanupWaits == Shutdown!Spec => []CleanupWaitsForWorkers
<1>1. ShutdownInv => CleanupWaitsForWorkers
  BY DEF ShutdownInv, CleanupWaitsForWorkers, Shutdown!CleanupWaitsForWorkers
<1>2. ShutdownInv /\ [Shutdown!Next]_Shutdown!vars => ShutdownInv'
  BY ShutdownStep
<1> QED
  BY <1>1, <1>2, ShutdownStart, PTL DEF Shutdown!Spec

(***************************************************************************)
(* OrderBook, for any finite set of prices, any depth and any updates.     *)
(*                                                                         *)
(* Without a gap each update applied is the next one, whose effect on the  *)
(* exchange's book is the one it has on this; and trimming keeps the best  *)
(* of the levels, because a finite set of prices has a greatest.           *)
(***************************************************************************)

USE DEF Depth!Book, Depth!Levels

\* The cardinality of the instance is that of FiniteSets.
LEMMA DepthCounts == \A S : Depth!Cardinality(S) = Cardinality(S)
BY DEF Depth!Cardinality, Cardinality

LEMMA DepthTypes ==
  /\ Prices \subseteq Nat /\ IsFiniteSet(Prices)
  /\ 0 \in Quantities /\ Quantities \subseteq Nat
  /\ MaxDepth \in Nat \ {0}
<1>1. Depth!IsFiniteSet(Prices) <=> IsFiniteSet(Prices)
  BY DEF Depth!IsFiniteSet, IsFiniteSet
<1> QED
  BY <1>1, DepthParameters DEF Depth!ParametersOK

Above(b, p) == {q \in Depth!Levels(b) : q > p}

LEMMA AboveIsFinite ==
  ASSUME NEW b, NEW p
  PROVE  IsFiniteSet(Above(b, p)) /\ Cardinality(Above(b, p)) \in Nat
BY DepthTypes, FS_Subset, FS_CardinalityType DEF Above

\* From every level one gets to a level that has none above it.
LEMMA TopLevel ==
  ASSUME NEW b, NEW p \in Depth!Levels(b)
  PROVE  \E q \in Depth!Levels(b) : q >= p /\ Above(b, q) = {}
<1> DEFINE T == {Cardinality(Above(b, q)) : q \in {p} \cup Above(b, p)}
<1>1. T \subseteq Nat /\ T # {}
  BY AboveIsFinite
<1>2. PICK n \in T : \A m \in T : ~(<<m, n>> \in OpToRel(<, Nat))
  BY <1>1, NatLessThanWellFounded, WFMin
<1>3. PICK q \in {p} \cup Above(b, p) : n = Cardinality(Above(b, q))
  BY <1>2
<1>4. q \in Depth!Levels(b) /\ q >= p
  BY <1>3, DepthTypes DEF Above
<1>5. ASSUME NEW r \in Above(b, q) PROVE FALSE
  <2>1. r \in {p} \cup Above(b, p)
    BY <1>4, DepthTypes DEF Above
  <2>2. Above(b, r) \subseteq Above(b, q) /\ Above(b, r) # Above(b, q)
    <3>1. r \in Above(b, q) /\ r \notin Above(b, r)
      BY <1>5, DepthTypes DEF Above
    <3>2. ASSUME NEW s \in Above(b, r) PROVE s \in Above(b, q)
      <4>1. s \in Nat /\ r \in Nat /\ q \in Nat /\ s > r /\ r > q
        BY <1>4, <1>5, DepthTypes DEF Above
      <4> QED
        BY <4>1 DEF Above
    <3> QED
      BY <3>1, <3>2
  <2>3. Cardinality(Above(b, r)) < n
    BY <1>3, <2>2, AboveIsFinite, FS_Subset
  <2>4. Cardinality(Above(b, r)) \in T
    BY <2>1
  <2>5. <<Cardinality(Above(b, r)), n>> \in OpToRel(<, Nat)
    BY <1>1, <2>3, <2>4 DEF OpToRel
  <2> QED
    BY <1>2, <2>4, <2>5
<1> QED
  BY <1>4, <1>5

\* Trimming leaves levels as they are or takes them away, and never the best.
LEMMA TrimKeepsBest ==
  ASSUME NEW b \in Depth!Book
  PROVE  /\ Depth!TrimDepth(b) \in Depth!Book
         /\ \A p \in Depth!Levels(Depth!TrimDepth(b)) :
              Depth!TrimDepth(b)[p] = b[p]
         /\ \A p \in Depth!Levels(b) :
              \E q \in Depth!Levels(Depth!TrimDepth(b)) : q >= p
<1> DEFINE c == Depth!TrimDepth(b)
<1>1. c = [p \in Prices |-> IF Cardinality(Above(b, p)) < MaxDepth
                            THEN b[p] ELSE 0]
  BY DepthCounts DEF Depth!TrimDepth, Above
<1> HIDE DEF c
<1>2. c \in Depth!Book
  BY <1>1, DepthTypes
<1>3. \A p \in Depth!Levels(c) : c[p] = b[p]
  BY <1>1
<1>4. ASSUME NEW p \in Depth!Levels(b)
      PROVE  \E q \in Depth!Levels(c) : q >= p
  <2>1. PICK q \in Depth!Levels(b) : q >= p /\ Above(b, q) = {}
    BY TopLevel
  <2>2. Cardinality(Above(b, q)) = 0
    BY <2>1, FS_EmptySet
  <2>3. c[q] = b[q]
    BY <1>1, <2>2, DepthTypes
  <2> QED
    BY <2>1, <2>3
<1> QED
  BY <1>2, <1>3, <1>4 DEF c

-----------------------------------------------------------------------------
Update == [price : Prices, quantity : Quantities]

DepthInv ==
  /\ updates \in Seq(Update)
  /\ books \in Seq(Depth!Book) /\ Len(books) = Len(updates) + 1
  /\ \A n \in 1 .. Len(updates) :
       books[n + 1] = [books[n] EXCEPT ![updates[n].price] =
                                          updates[n].quantity]
  /\ book \in Depth!Book
  /\ lastUpdate \in 0 .. Len(updates)
  /\ gapless => initialized
  /\ depth \in {"full", "trimmed", "thinned"}
  /\ Depth!BookIsTheExchanges

\* That a book is the exchange's, as far as levels were not trimmed.
Mirrors(b, there, d) ==
  /\ \A p \in Depth!Levels(b) : b[p] = there[p]
  /\ d = "full" => b = there
  /\ d # "thinned" =>
       \A p \in Depth!Levels(there) : \E q \in Depth!Levels(b) : q >= p

LEMMA MirrorsIs ==
  Depth!BookIsTheExchanges <=>
    (gapless => Mirrors(book, books[lastUpdate + 1], depth))
BY DEF Depth!BookIsTheExchanges, Mirrors

LEMMA DepthStart == Depth!Init => DepthInv
<1> SUFFICES ASSUME Depth!Init PROVE DepthInv
  OBVIOUS
<1>1. Depth!Empty \in Depth!Book
  BY DepthTypes DEF Depth!Empty
<1>2. /\ updates = <<>> /\ books = <<Depth!Empty>> /\ book = Depth!Empty
      /\ lastUpdate = 0 /\ gapless = FALSE /\ depth = "full"
  BY DEF Depth!Init
<1> HIDE DEF Depth!Book
<1>3. /\ updates \in Seq(Update) /\ Len(updates) = 0
      /\ books \in Seq(Depth!Book) /\ Len(books) = 1
  BY <1>1, <1>2, EmptySeq
<1> QED
  BY <1>1, <1>2, <1>3 DEF DepthInv, Depth!BookIsTheExchanges

LEMMA TradeKeepsDepth ==
  ASSUME DepthInv, NEW p \in Prices, NEW q \in Quantities, Depth!Trade(p, q)
  PROVE  DepthInv'
<1> DEFINE u == [price |-> p, quantity |-> q]
           n == Len(updates)
           b == [books[n + 1] EXCEPT ![p] = q]
<1>1. /\ updates \in Seq(Update) /\ books \in Seq(Depth!Book)
      /\ Len(books) = n + 1 /\ n \in Nat /\ lastUpdate \in 0 .. n
  BY LenProperties DEF DepthInv
<1>2. books[n + 1] \in Depth!Book
  BY <1>1, ElementOfSeq
<1>3. u \in Update /\ b \in Depth!Book /\ u.price = p /\ u.quantity = q
  BY <1>2 DEF Update
<1>4. /\ updates' = Append(updates, u) /\ books' = Append(books, b)
      /\ UNCHANGED <<book, lastUpdate, initialized, gapless, depth>>
  BY <1>1 DEF Depth!Trade, Depth!localVars
<1> HIDE DEF Depth!Book, u
<1>5. /\ updates' \in Seq(Update) /\ Len(updates') = n + 1
      /\ updates'[n + 1] = u
      /\ \A i \in 1 .. n : updates'[i] = updates[i]
  BY <1>1, <1>3, <1>4, AppendProperties
<1>6. /\ books' \in Seq(Depth!Book) /\ Len(books') = n + 2
      /\ books'[n + 2] = b
      /\ \A i \in 1 .. n + 1 : books'[i] = books[i]
  <2> HIDE DEF b, n
  <2>1. (n + 1) + 1 = n + 2
    BY <1>1
  <2> QED
    BY <1>1, <1>3, <1>4, <2>1, AppendProperties
<1>7. ASSUME NEW i \in 1 .. Len(updates')
      PROVE  books'[i + 1] = [books'[i] EXCEPT ![updates'[i].price] =
                                                  updates'[i].quantity]
  <2>1. CASE i = n + 1
    <3>1. books'[i] = books[n + 1] /\ books'[i + 1] = b /\ updates'[i] = u
      BY <1>1, <1>5, <1>6, <2>1
    <3> QED
      BY <1>3, <3>1
  <2>2. CASE i # n + 1
    <3>1. i \in 1 .. n
      BY <1>1, <1>5, <2>2
    <3>2. books'[i] = books[i] /\ books'[i + 1] = books[i + 1]
          /\ updates'[i] = updates[i]
      BY <1>1, <1>5, <1>6, <3>1
    <3> QED
      BY <3>1, <3>2 DEF DepthInv
  <2> QED
    BY <2>1, <2>2
<1>8. books'[lastUpdate + 1] = books[lastUpdate + 1]
  BY <1>1, <1>6
<1>9. Depth!BookIsTheExchanges'
  BY <1>4, <1>8 DEF DepthInv, Depth!BookIsTheExchanges
<1>10. Len(books') = Len(updates') + 1 /\ lastUpdate \in 0 .. Len(updates')
  BY <1>1, <1>5, <1>6
<1> QED
  BY <1>4, <1>5, <1>6, <1>7, <1>9, <1>10 DEF DepthInv

LEMMA SnapshotKeepsDepth ==
  ASSUME DepthInv, NEW n \in 0 .. MaxUpdates, Depth!SetSnapshot(n)
  PROVE  DepthInv'
<1>1. /\ n \in 0 .. Len(updates) /\ book' = books[n + 1] /\ lastUpdate' = n
      /\ initialized' = TRUE /\ depth' = "full" /\ UNCHANGED <<updates, books>>
  BY DEF Depth!SetSnapshot, Depth!exchangeVars
<1>2. n + 1 \in 1 .. Len(books)
  BY <1>1, LenProperties DEF DepthInv
<1>3. book' \in Depth!Book
  BY <1>1, <1>2, ElementOfSeq DEF DepthInv
<1>4. book' = books'[lastUpdate' + 1]
  BY <1>1
<1>5. \A p \in Depth!Levels(book') : p >= p
  BY DepthTypes
<1>6. Depth!BookIsTheExchanges'
  BY <1>1, <1>4, <1>5 DEF Depth!BookIsTheExchanges
<1> QED
  BY <1>1, <1>3, <1>6 DEF DepthInv

\* A book after an update, and what becomes of its depth when it is trimmed.
Updated(b, p, x) == [b EXCEPT ![p] = x]

NextDepth(b, changed, d) ==
  IF d # "full" /\ Depth!Levels(b) \ Depth!Levels(changed) # {}
    THEN "thinned"
  ELSE IF d = "full" /\ Depth!TrimDepth(changed) # changed
    THEN "trimmed" ELSE d

\* What the update does to the exchange's book it does to this one, and what
\* trimming it takes away is below the best level.
LEMMA UpdateMirrors ==
  ASSUME NEW b \in Depth!Book, NEW there \in Depth!Book,
         NEW p \in Prices, NEW x \in Quantities,
         NEW d \in {"full", "trimmed", "thinned"}, Mirrors(b, there, d)
  PROVE  Mirrors(Depth!TrimDepth(Updated(b, p, x)), Updated(there, p, x),
                 NextDepth(b, Updated(b, p, x), d))
<1> DEFINE changed == Updated(b, p, x)
           next == Updated(there, p, x)
           c == Depth!TrimDepth(changed)
           e == NextDepth(b, changed, d)
<1>1. /\ changed \in Depth!Book /\ next \in Depth!Book
      /\ changed[p] = x /\ next[p] = x
      /\ \A q \in Prices \ {p} : changed[q] = b[q] /\ next[q] = there[q]
  BY DEF Updated
<1>2. /\ c \in Depth!Book
      /\ \A q \in Depth!Levels(c) : c[q] = changed[q]
      /\ \A q \in Depth!Levels(changed) :
           \E r \in Depth!Levels(c) : r >= q
  BY <1>1, TrimKeepsBest
<1>3. d = "full" => changed = next
  BY DEF Mirrors
<1>4. e = IF d # "full" /\ Depth!Levels(b) \ Depth!Levels(changed) # {}
            THEN "thinned"
          ELSE IF d = "full" /\ c # changed THEN "trimmed" ELSE d
  BY DEF NextDepth
<1> HIDE DEF changed, next, c, e
<1>5. ASSUME NEW q \in Depth!Levels(c) PROVE c[q] = next[q]
  <2>1. c[q] = changed[q] /\ c[q] > 0
    BY <1>2
  <2>2. CASE q = p
    BY <1>1, <2>1, <2>2
  <2>3. CASE q # p
    <3>1. changed[q] = b[q] /\ next[q] = there[q]
      BY <1>1, <2>3
    <3> QED
      BY <2>1, <3>1 DEF Mirrors
  <2> QED
    BY <2>2, <2>3
<1>6. e = "full" => c = next
  BY <1>3, <1>4
<1>7. ASSUME e # "thinned", NEW q \in Depth!Levels(next)
      PROVE  \E r \in Depth!Levels(c) : r >= q
  <2>1. CASE q \in Depth!Levels(changed)
    BY <1>2, <2>1
  <2>2. CASE q \notin Depth!Levels(changed)
    <3>1. d # "full" /\ q # p
      BY <1>1, <1>3, <1>7, <1>4, <2>2
    <3>2. q \in Depth!Levels(there) /\ d # "thinned"
      BY <1>1, <1>7, <1>4, <3>1
    <3>3. PICK r \in Depth!Levels(b) : r >= q
      BY <3>2 DEF Mirrors
    <3>4. r \in Depth!Levels(changed)
      BY <1>7, <1>4, <3>1
    <3>5. PICK s \in Depth!Levels(c) : s >= r
      BY <1>2, <3>4
    <3> QED
      BY <3>3, <3>5, DepthTypes
  <2> QED
    BY <2>1, <2>2
<1>8. Mirrors(c, next, e)
  BY <1>5, <1>6, <1>7 DEF Mirrors
<1> QED
  BY <1>8 DEF changed, next, c, e

LEMMA DeltaKeepsDepth ==
  ASSUME DepthInv, NEW n \in 0 .. MaxUpdates, Depth!ApplyDelta(n)
  PROVE  DepthInv'
<1> DEFINE u == updates[n]
           changed == Updated(book, u.price, u.quantity)
<1>1. /\ n \in 1 .. Len(updates) /\ ~Depth!Duplicate(n)
      /\ book' = Depth!TrimDepth(changed)
      /\ depth' = NextDepth(book, changed, depth)
      /\ lastUpdate' = n
      /\ gapless' = (gapless /\ n <= lastUpdate + 1)
      /\ UNCHANGED <<updates, books, initialized>>
  BY DEF Depth!ApplyDelta, Depth!exchangeVars, Updated, NextDepth
<1>2. /\ Len(updates) \in Nat /\ Len(books) = Len(updates) + 1
      /\ u \in Update /\ books[n] \in Depth!Book
  <2>1. Len(updates) \in Nat /\ Len(books) = Len(updates) + 1
    BY LenProperties DEF DepthInv
  <2>2. n \in 1 .. Len(books)
    BY <1>1, <2>1
  <2> QED
    BY <1>1, <2>1, <2>2, ElementOfSeq DEF DepthInv
<1>3. u.price \in Prices /\ u.quantity \in Quantities
  BY <1>2 DEF Update
<1>4. changed \in Depth!Book
  BY <1>3 DEF DepthInv, Updated
<1>5. book' \in Depth!Book
  BY <1>1, <1>4, TrimKeepsBest
<1>6. depth' \in {"full", "trimmed", "thinned"}
  BY <1>1 DEF DepthInv, NextDepth
<1>7. ASSUME gapless'
      PROVE  Mirrors(book', books'[lastUpdate' + 1], depth')
  <2>1. gapless /\ initialized /\ n <= lastUpdate + 1
    BY <1>1, <1>7 DEF DepthInv
  <2>2. n = lastUpdate + 1
    BY <1>1, <1>2, <2>1 DEF DepthInv, Depth!Duplicate
  <2>3. Mirrors(book, books[n], depth)
    BY <2>1, <2>2, MirrorsIs DEF DepthInv
  <2>4. books'[lastUpdate' + 1] = Updated(books[n], u.price, u.quantity)
    BY <1>1 DEF DepthInv, Updated
  <2>5. book \in Depth!Book /\ depth \in {"full", "trimmed", "thinned"}
    BY DEF DepthInv
  <2> HIDE DEF u, Depth!Book, Depth!Levels
  <2> QED
    BY <1>1, <1>2, <1>3, <2>3, <2>4, <2>5, UpdateMirrors
<1>8. Depth!BookIsTheExchanges'
  BY <1>7 DEF Depth!BookIsTheExchanges, Mirrors
<1>9. gapless' => initialized'
  BY <1>1 DEF DepthInv
<1>10. lastUpdate' \in 0 .. Len(updates')
  BY <1>1, <1>2
<1> HIDE DEF u, Depth!Book
<1> QED
  BY <1>1, <1>5, <1>6, <1>8, <1>9, <1>10 DEF DepthInv

LEMMA DepthStep == ASSUME DepthInv, [Depth!Next]_Depth!vars PROVE DepthInv'
<1>1. CASE UNCHANGED Depth!vars
  BY <1>1 DEF Depth!vars, Depth!exchangeVars, Depth!localVars, DepthInv,
              Depth!BookIsTheExchanges
<1> QED
  BY <1>1, TradeKeepsDepth, SnapshotKeepsDepth, DeltaKeepsDepth DEF Depth!Next

\* While no update was missed, the levels of the book are the exchange's, all
\* of them or the best ones, whatever was repeated or came late.
THEOREM BookMirrorsExchange == Depth!Spec => []BookIsTheExchanges
<1>1. DepthInv => BookIsTheExchanges
  BY DEF DepthInv, BookIsTheExchanges
<1>2. DepthInv /\ [Depth!Next]_Depth!vars => DepthInv'
  BY DepthStep
<1> QED
  BY <1>1, <1>2, DepthStart, PTL DEF Depth!Spec

-----------------------------------------------------------------------------
(***************************************************************************)
(* The types of the six services, side by side.  What the sections above   *)
(* did not need of them comes first, service by service.                   *)
(***************************************************************************)

(* WriteAheadLog: payloads are numbers of appends that were begun.         *)

LogFields ==
  /\ exists \in BOOLEAN /\ extended \in BOOLEAN
  /\ sequence \in Nat /\ sequence <= position
  /\ pc \in Place
  /\ appended <= MaxAppends
  /\ Payloads(log) \subseteq 1 .. appended
  /\ \A t \in 0 .. MaxTime : Payloads(archives[t]) \subseteq 1 .. appended
  /\ replaced \subseteq 1 .. appended

LEMMA LogFieldsStart == Init => LogFields
<1> SUFFICES ASSUME Init PROVE LogFields
  OBVIOUS
<1>1. Payloads(log) = {} /\ \A t \in 0 .. MaxTime : Payloads(archives[t]) = {}
  BY Nothing DEF Init
<1> QED
  BY <1>1 DEF Init, LogFields, Place

\* What is at the position is in the file.
LEMMA OverwrittenIsThere ==
  ASSUME NEW f PROVE Overwritten(f) \subseteq Payloads(f)
BY DEF Overwritten, Payloads

\* A write brings the number of its append.
LEMMA CopyKeepsFields ==
  ASSUME LogInv, LogFields, pc = "write", CopyToMapping,
         appended' = appended
  PROVE  /\ Payloads(log') \subseteq 1 .. appended'
         /\ \A t \in 0 .. MaxTime :
              Payloads(archives'[t]) \subseteq 1 .. appended'
         /\ replaced' \subseteq 1 .. appended'
<1>1. appended \in 1 .. appended
  BY DEF LogInv, LogTypes, Unacked, Appending
<1>2. CASE mapped = Current
  <2>1. log' = Put(log) /\ archives' = archives /\ replaced' = replaced
    BY <1>2 DEF CopyToMapping, Current, Unlinked
  <2>2. Payloads(Put(log)) \subseteq Payloads(log) \cup {appended}
    BY RoomInLog
  <2> QED
    BY <1>1, <2>1, <2>2 DEF LogFields
<1>3. CASE mapped \in 0 .. MaxTime
  <2>1. /\ archives' = [archives EXCEPT ![mapped] = Put(archives[mapped])]
        /\ replaced' = replaced \cup Overwritten(archives[mapped])
        /\ log' = log
    BY <1>3 DEF CopyToMapping, Current, Unlinked
  <2>2. /\ position <= Len(archives[mapped])
        /\ archives[mapped] \in Seq(Records)
        /\ archives \in [0 .. MaxTime -> Seq(Records)]
    BY <1>3 DEF LogInv, LogTypes, AtTheEnd, MappingFits
  <2>3. Payloads(Put(archives[mapped])) \subseteq
          Payloads(archives[mapped]) \cup {appended}
    BY <2>2, PutPayloads DEF LogInv
  <2>4. Overwritten(archives[mapped]) \subseteq Payloads(archives[mapped])
    BY OverwrittenIsThere
  <2>5. Payloads(archives[mapped]) \subseteq 1 .. appended
    BY <1>3 DEF LogFields
  <2>6. ASSUME NEW t \in 0 .. MaxTime
        PROVE  Payloads(archives'[t]) \subseteq 1 .. appended
    <3>1. CASE t = mapped
      <4>1. archives'[t] = Put(archives[mapped])
        BY <2>1, <2>2, <3>1
      <4> QED
        BY <1>1, <2>3, <2>5, <4>1
    <3>2. CASE t # mapped
      <4>1. archives'[t] = archives[t]
        BY <2>1, <2>2, <3>2
      <4> QED
        BY <4>1 DEF LogFields
    <3> QED
      BY <3>1, <3>2
  <2> QED
    BY <2>1, <2>4, <2>5, <2>6 DEF LogFields
<1>4. CASE mapped = Unlinked
  <2>1. log' = log /\ archives' = archives /\ replaced' = replaced
    BY <1>4 DEF CopyToMapping, Current, Unlinked
  <2> QED
    BY <2>1 DEF LogFields
<1> QED
  BY <1>2, <1>3, <1>4 DEF LogInv, LogTypes

LEMMA LogFieldsKept ==
  ASSUME LogInv, LogFields, [Next]_vars
  PROVE  LogFields'
<1> USE DEF fileVars, memoryVars, clockVars, ghostVars, ReturnError
<1>1. position \in 0 .. MaxSize /\ appended \in Nat
  BY DEF LogInv, LogTypes
<1>2. CASE UNCHANGED vars
  BY <1>2 DEF vars, LogFields
<1>3. CASE Open
  BY <1>1, <1>3 DEF Open, LogFields, Place
<1>4. CASE InitMmap \/ Crash \/ Tick \/ CreateNew
  <2>1. /\ pc' \in Place /\ exists' \in BOOLEAN /\ extended' \in BOOLEAN
        /\ UNCHANGED <<log, archives, position, sequence, appended, replaced>>
    BY <1>4 DEF InitMmap, Crash, Tick, CreateNew, LogFields, Place
  <2> QED
    BY <2>1 DEF LogFields
<1>5. CASE RenameFails \/ CreateFails \/ SetLengthFails \/ RemapFails
  BY <1>5 DEF RenameFails, CreateFails, SetLengthFails, RemapFails, LogFields,
     Place
<1>6. CASE SetLength \/ Remap
  <2>1. /\ pc' \in Place /\ exists' = exists /\ extended' \in {extended, TRUE}
        /\ \/ position' = 0 /\ sequence' = 0
           \/ UNCHANGED <<position, sequence>>
        /\ UNCHANGED <<log, archives, appended, replaced>>
    BY <1>6 DEF SetLength, Remap, Place
  <2>2. sequence' \in Nat /\ sequence' <= position'
    BY <2>1 DEF LogFields
  <2> QED
    BY <2>1, <2>2 DEF LogFields
<1>7. CASE BeginAppend
  <2>1. /\ appended' = appended + 1 /\ appended < MaxAppends
        /\ pc' \in {"rotate", "write"}
        /\ UNCHANGED <<exists, extended, log, archives, position, sequence,
                       replaced>>
    BY <1>7 DEF BeginAppend
  <2>2. 1 .. appended \subseteq 1 .. appended' /\ appended' <= MaxAppends
    BY <1>1, <2>1
  <2>3. pc' \in Place
    BY <2>1 DEF Place
  <2>4. /\ Payloads(log) \subseteq 1 .. appended'
        /\ replaced \subseteq 1 .. appended'
        /\ \A t \in 0 .. MaxTime :
             Payloads(archives[t]) \subseteq 1 .. appended'
    BY <2>2 DEF LogFields
  <2> QED
    BY <2>1, <2>2, <2>3, <2>4 DEF LogFields
<1>8. CASE Rename
  <2>1. /\ archives' = [archives EXCEPT ![now] = log] /\ log' = <<>>
        /\ replaced' = replaced \cup Payloads(archives[now])
        /\ exists' = FALSE /\ extended' = FALSE /\ pc' = "renamed"
        /\ UNCHANGED <<position, sequence, appended>>
    BY <1>8 DEF Rename
  <2>2. \A t \in 0 .. MaxTime : archives'[t] \in {archives[t], log}
    BY <2>1 DEF LogInv, LogTypes
  <2>3. \A t \in 0 .. MaxTime : Payloads(archives'[t]) \subseteq 1 .. appended
    BY <2>2 DEF LogFields
  <2>4. replaced' \subseteq 1 .. appended
    BY <2>1 DEF LogInv, LogTypes, LogFields
  <2>5. Payloads(log') = {}
    BY <2>1, Nothing
  <2> QED
    BY <2>1, <2>3, <2>4, <2>5 DEF LogFields, Place
<1>9. CASE WriteMapped \/ FlushFails
  <2>1. /\ pc = "write" /\ pc' \in {"ready", "written"}
        /\ CopyToMapping \/ UNCHANGED <<log, archives, replaced>>
        /\ UNCHANGED <<exists, extended, position, sequence, appended>>
    BY <1>9 DEF WriteMapped, FlushFails
  <2>2. /\ Payloads(log') \subseteq 1 .. appended'
        /\ \A t \in 0 .. MaxTime :
             Payloads(archives'[t]) \subseteq 1 .. appended'
        /\ replaced' \subseteq 1 .. appended'
    BY <2>1, CopyKeepsFields DEF LogFields
  <2>3. pc' \in Place
    BY <2>1 DEF Place
  <2> QED
    BY <2>1, <2>2, <2>3 DEF LogFields
<1>10. CASE FinishAppend \/ WriteFails
  <2>1. /\ pc = "written" /\ pc' = "ready" /\ log' \in {log, Put(log)}
        /\ \/ position' = position + 1 /\ sequence' = sequence + 1
           \/ UNCHANGED <<position, sequence>>
        /\ UNCHANGED <<exists, extended, archives, appended, replaced>>
    BY <1>10 DEF FinishAppend, WriteFails
  <2>2. appended \in 1 .. appended
    BY <2>1 DEF LogInv, LogTypes, Unacked, Appending
  <2>3. Payloads(log') \subseteq 1 .. appended
    BY <2>1, <2>2, RoomInLog DEF LogFields
  <2>4. sequence' \in Nat /\ sequence' <= position'
    BY <1>1, <2>1 DEF LogFields
  <2> QED
    BY <2>1, <2>3, <2>4 DEF LogFields, Place
<1> QED
  BY <1>2, <1>3, <1>4, <1>5, <1>6, <1>7, <1>8, <1>9, <1>10 DEF Next

LEMMA LogFieldsEnough == LogInv /\ LogFields => TypeOK
<1> SUFFICES ASSUME LogInv, LogFields PROVE TypeOK
  OBVIOUS
<1>1. position \in 0 .. MaxSize /\ sequence \in 0 .. MaxSize
  BY DEF LogInv, LogTypes, LogFields
<1>2. mapped \in -2 .. MaxTime
  BY DEF LogInv, LogTypes, Current, Unlinked
<1> QED
  BY <1>1, <1>2 DEF LogInv, LogTypes, LogFields, TypeOK

(* CheckpointDaemon: a checkpoint is counted for a request or a tick.      *)

DaemonFields ==
  /\ running \in BOOLEAN
  /\ receiver \in {"home", "loop", "dropped"}
  /\ loop \in {"unborn", "selecting", "leaving", "dropping", "ended"}
  /\ Len(channel) <= ChannelSize
  /\ requests \in 0 .. MaxRequests /\ ticks \in 0 .. MaxTicks
  /\ accepted <= requests
  /\ checkpoints + Len(channel) <= requests + ticks

LEMMA DaemonLimits ==
  ChannelSize \in Nat \ {0} /\ MaxRequests \in Nat /\ MaxTicks \in Nat
BY DaemonParameters DEF Daemon!ParametersOK

LEMMA DaemonFieldsStart == Daemon!Init => DaemonFields
<1> SUFFICES ASSUME Daemon!Init PROVE DaemonFields
  OBVIOUS
<1>1. Len(channel) = 0
  BY EmptySeq DEF Daemon!Init
<1>2. /\ running = FALSE /\ receiver = "home" /\ loop = "unborn"
      /\ checkpoints = 0 /\ accepted = 0 /\ requests = 0 /\ ticks = 0
  BY DEF Daemon!Init
<1>3. running \in BOOLEAN
  BY <1>2
<1>4. /\ Len(channel) <= ChannelSize
      /\ requests \in 0 .. MaxRequests /\ ticks \in 0 .. MaxTicks
      /\ accepted <= requests
      /\ checkpoints + Len(channel) <= requests + ticks
  BY <1>1, <1>2, DaemonLimits
<1> QED
  BY <1>2, <1>3, <1>4 DEF DaemonFields

\* A request is sent when there is room for it.
LEMMA SendKeepsFields ==
  ASSUME DaemonInv, DaemonFields, NEW m \in Daemon!Request, Daemon!Send(m),
         accepted' \in {accepted, accepted + 1},
         UNCHANGED <<running, receiver, loop, ticks, checkpoints>>
  PROVE  DaemonFields'
<1>1. /\ channel' = Append(channel, m) /\ Len(channel) < ChannelSize
      /\ requests' = requests + 1 /\ requests < MaxRequests
  BY DEF Daemon!Send
<1>2. Len(channel') = Len(channel) + 1 /\ Len(channel) \in Nat
  BY <1>1, AppendProperties, LenProperties DEF DaemonInv
<1>3. Len(channel') <= ChannelSize
  BY <1>1, <1>2, DaemonLimits
<1>4. requests' \in 0 .. MaxRequests
  BY <1>1, DaemonLimits DEF DaemonFields
<1>5. accepted' <= requests'
  BY <1>1 DEF DaemonFields, DaemonInv
<1>6. checkpoints + Len(channel') <= requests' + ticks
  BY <1>1, <1>2 DEF DaemonFields, DaemonInv
<1> QED
  BY <1>3, <1>4, <1>5, <1>6 DEF DaemonFields

LEMMA DaemonFieldsKept ==
  ASSUME DaemonInv, DaemonFields, [Daemon!Next]_Daemon!daemonVars
  PROVE  DaemonFields'
<1> USE DEF Daemon!loopVars, Daemon!countVars
<1>1. /\ checkpoints \in Nat /\ accepted \in Nat /\ ticks \in Nat
      /\ channel \in Seq(Daemon!Request) /\ Len(channel) \in Nat
      /\ requests \in Nat
  BY LenProperties DEF DaemonInv, DaemonFields
<1>2. CASE UNCHANGED Daemon!daemonVars
  BY <1>2 DEF Daemon!daemonVars, DaemonFields
<1>3. ASSUME NEW t \in Tasks,
             \/ Daemon!Start(t) \/ Daemon!StoreRunning(t)
             \/ Daemon!Spawn(t) \/ Daemon!AlreadyConsumed(t)
             \/ Daemon!Stop(t) \/ Daemon!SendFails(t)
             \/ \E timedOut \in BOOLEAN : Daemon!Return(t, timedOut)
      PROVE  DaemonFields'
  BY <1>3 DEF Daemon!Start, Daemon!StoreRunning, Daemon!Spawn,
              Daemon!AlreadyConsumed, Daemon!Stop, Daemon!SendFails,
              Daemon!Return, DaemonFields
<1>4. ASSUME NEW t \in Tasks, NEW m \in {"Immediate", "FlushWAL"},
             Daemon!Ask(t, m)
      PROVE  DaemonFields'
  <2>1. accepted' \in {accepted, accepted + 1} /\ Daemon!Send(m)
        /\ m \in Daemon!Request
        /\ UNCHANGED <<running, receiver, loop, ticks, checkpoints>>
    BY <1>4 DEF Daemon!Ask, Daemon!Request
  <2> QED
    BY <2>1, SendKeepsFields
<1>5. ASSUME NEW t \in Tasks, Daemon!SendShutdown(t)
      PROVE  DaemonFields'
  <2>1. accepted' = accepted /\ Daemon!Send("Shutdown")
        /\ "Shutdown" \in Daemon!Request
        /\ UNCHANGED <<running, receiver, loop, ticks, checkpoints>>
    BY <1>5 DEF Daemon!SendShutdown, Daemon!Request
  <2> QED
    BY <2>1, SendKeepsFields
<1>6. CASE Daemon!Tick
  BY <1>1, <1>6, DaemonLimits DEF Daemon!Tick, DaemonFields
<1>7. CASE Daemon!Receive
  <2>1. /\ channel # <<>> /\ channel' = Tail(channel)
        /\ checkpoints' \in {checkpoints, checkpoints + 1}
        /\ loop' \in {"leaving", loop}
        /\ UNCHANGED <<running, receiver, ticks, accepted, requests>>
    BY <1>7 DEF Daemon!Receive
  <2>2. Len(channel') = Len(channel) - 1
    BY <1>1, <2>1, HeadTailProperties
  <2>3. Len(channel') <= ChannelSize
    BY <1>1, <2>2, DaemonLimits DEF DaemonFields
  <2>4. checkpoints' + Len(channel') <= requests + ticks
    BY <1>1, <2>1, <2>2 DEF DaemonFields
  <2> QED
    BY <2>1, <2>3, <2>4 DEF DaemonFields
<1>8. CASE Daemon!StoreStopped
  BY <1>8 DEF Daemon!StoreStopped, DaemonFields
<1>9. CASE Daemon!DropReceiver
  <2>1. Len(channel') = 0
    BY <1>9, EmptySeq DEF Daemon!DropReceiver
  <2> QED
    BY <1>1, <1>9, <2>1, DaemonLimits DEF Daemon!DropReceiver, DaemonFields
<1> QED
  BY <1>2, <1>3, <1>4, <1>5, <1>6, <1>7, <1>8, <1>9
     DEF Daemon!Next, Daemon!Continue, Daemon!Leave

LEMMA DaemonFieldsEnough == DaemonInv /\ DaemonFields => Daemon!TypeOK
<1> SUFFICES ASSUME DaemonInv, DaemonFields PROVE Daemon!TypeOK
  OBVIOUS
<1>1. Len(channel) \in Nat
  BY LenProperties DEF DaemonInv
<1>2. /\ checkpoints \in 0 .. MaxRequests + MaxTicks
      /\ accepted \in 0 .. MaxRequests
  BY <1>1, DaemonLimits DEF DaemonInv, DaemonFields
<1> QED
  BY <1>2 DEF DaemonInv, DaemonFields, Daemon!TypeOK

(* GracefulShutdown                                                        *)

ShutdownFields ==
  /\ phase \in Shutdown!Phases
  /\ reason \in Askers \cup {None}
  /\ handlers \in Askers \cup {None}

LEMMA ShutdownFieldsKept ==
  ASSUME ShutdownFields, [Shutdown!Next]_Shutdown!vars
  PROVE  ShutdownFields'
<1> USE DEF ShutdownFields, Shutdown!Phases, Shutdown!stateVars
<1>1. CASE UNCHANGED Shutdown!vars
  BY <1>1 DEF Shutdown!vars
<1>2. ASSUME NEW c \in Askers, Shutdown!Request(c) \/ Shutdown!Proceed(c)
      PROVE  ShutdownFields'
  BY <1>2 DEF Shutdown!Request, Shutdown!Proceed, Shutdown!SetReason,
              Shutdown!Signal, Shutdown!StopIngest, Shutdown!Flush,
              Shutdown!SetPhase, Shutdown!LockHandlers,
              Shutdown!UnlockHandlers, Shutdown!WaitForWorkers,
              Shutdown!WaitTimesOut, Shutdown!Complete, Shutdown!CleanUp
<1>3. ASSUME NEW w \in Workers, Shutdown!Register(w) \/ Shutdown!Unregister(w)
      PROVE  ShutdownFields'
  BY <1>3 DEF Shutdown!Register, Shutdown!Unregister
<1> QED
  BY <1>1, <1>2, <1>3 DEF Shutdown!Next

LEMMA ShutdownFieldsEnough == ShutdownInv /\ ShutdownFields => Shutdown!TypeOK
<1> SUFFICES ASSUME ShutdownInv, ShutdownFields PROVE Shutdown!TypeOK
  OBVIOUS
<1>1. Shutdown!Cardinality(Workers) = Cardinality(Workers)
  BY DEF Shutdown!Cardinality, Cardinality
<1>2. Working \in SUBSET Workers /\ IsFiniteSet(Workers)
  BY WorkersAreFinite DEF Working
<1>3. /\ Cardinality(Working) <= Cardinality(Workers)
      /\ Cardinality(Working) \in Nat /\ Cardinality(Workers) \in Nat
  BY <1>2, FS_Subset, WorkersAreFinite
<1>4. active \in 0 .. Shutdown!Cardinality(Workers)
  BY <1>1, <1>3 DEF ShutdownInv
<1> QED
  BY <1>4 DEF ShutdownInv, ShutdownFields, Shutdown!TypeOK

(* RateLimiter: every sleep ends at a time.                                *)

CallTypes ==
  call \in [Callers -> [at : {"idle", "acquire", "backoff"},
                        need : Weights \cup {0}, deadline : Nat,
                        until : Nat, attempt : 0 .. MaxRetries]]

\* A power of two is the number of the subsets of a set.
LEMMA Powers == ASSUME NEW n \in Nat PROVE 2 ^ n \in Nat
<1>1. IsFiniteSet(1 .. n) /\ Cardinality(1 .. n) = n
  BY FS_Interval
<1>2. /\ IsFiniteSet(SUBSET (1 .. n))
      /\ Cardinality(SUBSET (1 .. n)) = 2 ^ Cardinality(1 .. n)
  BY <1>1, FS_SUBSET
<1>3. Cardinality(SUBSET (1 .. n)) \in Nat
  BY <1>2, FS_CardinalityType
<1> QED
  BY <1>1, <1>2, <1>3

LEMMA CallTypesStart == InitLimiter => CallTypes
BY DEF InitLimiter, CallTypes, Idle, Never, ParametersOK

LEMMA CallTypesKept ==
  ASSUME BucketInv, CallTypes, [NextLimiter]_limiterVars
  PROVE  CallTypes'
<1> USE DEF CallTypes
<1>1. /\ time \in Nat /\ Rate \in Nat \ {0} /\ Horizon \in Nat
      /\ MaxRetries \in Nat /\ Weights \subseteq Nat /\ Timeouts \subseteq Nat
  BY DEF BucketInv, BucketTypes, ParametersOK
<1>2. /\ Idle \in [at : {"idle", "acquire", "backoff"},
                   need : Weights \cup {0}, deadline : Nat,
                   until : Nat, attempt : 0 .. MaxRetries]
      /\ Never \in Nat
  BY <1>1 DEF Idle, Never
<1>3. CASE UNCHANGED limiterVars \/ Elapse
  BY <1>3 DEF limiterVars, Elapse
<1>4. ASSUME NEW c \in Callers, Step(c) PROVE CallTypes'
  <2>1. CASE \E n \in Weights : BeginBackoff(c, n)
    <3>1. PICK n \in Weights : BeginBackoff(c, n)
      BY <2>1
    <3> DEFINE begun == [Idle EXCEPT !.at = "backoff", !.need = n]
    <3>2. begun \in [at : {"idle", "acquire", "backoff"},
                     need : Weights \cup {0}, deadline : Nat,
                     until : Nat, attempt : 0 .. MaxRetries]
      BY <1>1, <1>2 DEF Idle
    <3>3. call' = [call EXCEPT ![c] = begun]
      BY <3>1 DEF BeginBackoff
    <3> HIDE DEF begun
    <3> QED
      BY <3>2, <3>3
  <2>2. CASE \E n \in Weights :
               \/ BeginAcquire(c, n, Never)
               \/ \E d \in Timeouts : BeginAcquire(c, n, time + d)
    <3>1. PICK n \in Weights, e \in Nat : BeginAcquire(c, n, e)
      BY <1>1, <1>2, <2>2
    <3> QED
      BY <1>2, <3>1 DEF BeginAcquire, Idle
  <2>3. CASE Succeed(c) \/ TimeOut(c) \/ GiveUp(c)
    BY <1>2, <2>3 DEF Succeed, TimeOut, GiveUp
  <2>4. CASE SleepForTokens(c)
    <3> DEFINE n == call[c].need
               wake == WakeTime(n, call[c].deadline)
    <3>1. /\ Refuse(n) /\ call' = [call EXCEPT ![c].until = wake]
      BY <2>4 DEF SleepForTokens
    <3>2. n \in Nat /\ Refilled \in Nat /\ Refilled < n
          /\ call[c].deadline \in Nat
      BY <1>1, <3>1, RefilledBounds DEF Refuse, BucketInv, ParametersOK
    <3>3. wake \in Nat
      <4>1. n - Refilled + Rate - 1 \in Nat
        BY <1>1, <3>2
      <4>2. (n - Refilled + Rate - 1) \div Rate \in Nat
        BY <1>1, <4>1
      <4> QED
        BY <1>1, <3>2, <4>2 DEF WakeTime, Smaller
    <3> HIDE DEF wake
    <3> QED
      BY <3>1, <3>3
  <2>5. CASE BackOff(c)
    <3> DEFINE k == call[c].attempt
               wake == time + 2 ^ k
    <3>1. /\ call' = [call EXCEPT ![c].until = wake, ![c].attempt = k + 1]
          /\ k < MaxRetries
      BY <2>5 DEF BackOff
    <3>2. k \in Nat /\ k + 1 \in 0 .. MaxRetries
      BY <1>1, <3>1
    <3>3. wake \in Nat
      <4> HIDE DEF k
      <4>1. 2 ^ k \in Nat
        BY <3>2, Powers
      <4> QED
        BY <1>1, <4>1
    <3> HIDE DEF k, wake
    <3> QED
      BY <3>1, <3>2, <3>3
  <2> QED
    BY <1>4, <2>1, <2>2, <2>3, <2>4, <2>5 DEF Step
<1> QED
  BY <1>3, <1>4 DEF NextLimiter

LEMMA CallTypesEnough == BucketInv /\ CallTypes => TypeOKLimiter
BY DEF BucketInv, BucketTypes, CallTypes, TypeOKLimiter

(* OrderBook                                                               *)

DepthFields ==
  /\ initialized \in BOOLEAN /\ gapless \in BOOLEAN
  /\ bookState \in {"disconnected", "ready"}

LEMMA DepthFieldsKept ==
  ASSUME DepthFields, [Depth!Next]_Depth!vars
  PROVE  DepthFields'
<1> USE DEF DepthFields, Depth!localVars, Depth!exchangeVars
<1>1. CASE UNCHANGED Depth!vars
  BY <1>1 DEF Depth!vars
<1>2. ASSUME NEW p, NEW q, Depth!Trade(p, q) PROVE DepthFields'
  BY <1>2 DEF Depth!Trade
<1>3. ASSUME NEW n, Depth!SetSnapshot(n) PROVE DepthFields'
  BY <1>3 DEF Depth!SetSnapshot
<1>4. ASSUME NEW n, Depth!ApplyDelta(n) PROVE DepthFields'
  BY <1>4 DEF Depth!ApplyDelta
<1> QED
  BY <1>1, <1>2, <1>3, <1>4 DEF Depth!Next

LEMMA DepthFieldsEnough == DepthInv /\ DepthFields => Depth!TypeOK
BY DEF DepthInv, DepthFields, Depth!TypeOK, Update

(* FailoverStateMachine: a state that is about to be written is a state.   *)

FailoverInv ==
  /\ Failover!TypeOK
  /\ \A t \in Threads : job[t].at \in {"decide", "write"} =>
       job[t].goal \in Failover!FailoverState

LEMMA FailoverConstants ==
  /\ MaxCount \in Nat \ {0} /\ None \notin Threads
  /\ None \notin Failover!FailoverState
BY FailoverParameters DEF Failover!ParametersOK

\* A thread that is doing something has a job.
LEMMA JobOf ==
  ASSUME FailoverInv, NEW t \in Threads, NEW stage \in Failover!Stage,
         Failover!At(t, stage)
  PROVE  /\ job[t] \in Failover!Job /\ job[t].at = stage
         /\ job[t].id \in Ids
         /\ job[t].goal \in Failover!FailoverState \cup {None}
<1>1. job[t] \in Failover!Job \cup {Failover!Idle} /\ job[t].at = stage
  BY DEF FailoverInv, Failover!TypeOK, Failover!At
<1>2. Failover!Idle.at \notin Failover!Stage
  BY DEF Failover!Idle, Failover!Stage
<1>3. job[t] \in Failover!Job
  BY <1>1, <1>2
<1> QED
  BY <1>1, <1>3 DEF Failover!Job

\* A step changes the job of one thread, and the goal it leaves is a state
\* when there is something to decide or to write.
LEMMA JobKeeps ==
  ASSUME FailoverInv, NEW t \in Threads,
         NEW next \in Failover!Job \cup {Failover!Idle},
         next.at \in {"decide", "write"}
           => next.goal \in Failover!FailoverState,
         job' = [job EXCEPT ![t] = next]
  PROVE  /\ job' \in [Threads -> Failover!Job \cup {Failover!Idle}]
         /\ \A u \in Threads : job'[u].at \in {"decide", "write"} =>
              job'[u].goal \in Failover!FailoverState
<1>1. job \in [Threads -> Failover!Job \cup {Failover!Idle}]
  BY DEF FailoverInv, Failover!TypeOK
<1>2. job' \in [Threads -> Failover!Job \cup {Failover!Idle}]
  BY <1>1
<1>3. ASSUME NEW u \in Threads, job'[u].at \in {"decide", "write"}
      PROVE  job'[u].goal \in Failover!FailoverState
  <2>1. CASE u = t
    BY <1>1, <1>3, <2>1
  <2>2. CASE u # t
    BY <1>1, <1>3, <2>2 DEF FailoverInv
  <2> QED
    BY <2>1, <2>2
<1> QED
  BY <1>2, <1>3

\* A job that moves on to another stage, which is not "decide" or "write".
LEMMA MoveKeeps ==
  ASSUME FailoverInv, NEW t \in Threads, job[t] \in Failover!Job,
         NEW stage \in Failover!Stage \ {"decide", "write"},
         Failover!Move(t, stage)
  PROVE  /\ job' \in [Threads -> Failover!Job \cup {Failover!Idle}]
         /\ \A u \in Threads : job'[u].at \in {"decide", "write"} =>
              job'[u].goal \in Failover!FailoverState
<1> DEFINE next == [job[t] EXCEPT !.at = stage]
<1>1. next \in Failover!Job /\ next.at = stage
  BY DEF Failover!Job
<1>2. job' = [job EXCEPT ![t] = next]
  BY DEF Failover!Move, FailoverInv, Failover!TypeOK
<1> HIDE DEF next
<1> QED
  BY <1>1, <1>2, JobKeeps

\* The end of the counting.
LEMMA CountedKeeps ==
  ASSUME FailoverInv, NEW t \in Threads, job[t] \in Failover!Job,
         job' = [job EXCEPT ![t] = Failover!Counted(t)]
  PROVE  /\ job' \in [Threads -> Failover!Job \cup {Failover!Idle}]
         /\ \A u \in Threads : job'[u].at \in {"decide", "write"} =>
              job'[u].goal \in Failover!FailoverState
<1> DEFINE next == Failover!Counted(t)
<1>1. /\ next \in Failover!Job \cup {Failover!Idle}
      /\ next.at \notin {"decide", "write"}
  <2>1. /\ [job[t] EXCEPT !.at = "record"] \in Failover!Job
        /\ [job[t] EXCEPT !.at = "record"].at = "record"
    BY DEF Failover!Job, Failover!Stage
  <2>2. Failover!Idle.at = "idle"
    BY DEF Failover!Idle
  <2> QED
    BY <2>1, <2>2 DEF Failover!Counted
<1> HIDE DEF next
<1>2. job' = [job EXCEPT ![t] = next]
  BY DEF next
<1> QED
  BY <1>1, <1>2, JobKeeps

LEMMA IncrementKeeps ==
  ASSUME NEW n \in 0 .. MaxCount
  PROVE  Failover!Increment(n) \in 0 .. MaxCount
BY FailoverConstants DEF Failover!Increment

LEMMA FailoverStart == Failover!Init => FailoverInv
<1> SUFFICES ASSUME Failover!Init PROVE FailoverInv
  OBVIOUS
<1>1. \A t \in Threads : job[t] = Failover!Idle
  BY DEF Failover!Init
<1>2. Failover!Idle.at = "idle"
  BY DEF Failover!Idle
<1>3. \A t \in Threads : job[t].at = "idle"
  BY <1>1, <1>2
<1>4. job \in [Threads -> Failover!Job \cup {Failover!Idle}]
  BY DEF Failover!Init
<1>5. 0 \in 0 .. MaxCount
  BY FailoverConstants
<1>6. /\ failures \in [Ids -> 0 .. MaxCount]
      /\ successes \in [Ids -> 0 .. MaxCount]
  BY <1>5 DEF Failover!Init
<1>7. /\ state \in [Ids -> Failover!FailoverState]
      /\ venue \in [Ids -> {"primary", "backup"}]
  BY DEF Failover!Init, Failover!FailoverState
<1>8. Failover!TypeOK
  BY <1>4, <1>6, <1>7 DEF Failover!Init, Failover!TypeOK
<1> QED
  BY <1>3, <1>8 DEF FailoverInv

LEMMA RegisterKeepsFailover ==
  ASSUME FailoverInv, NEW t \in Threads,
         \/ \E i \in Ids : Failover!BeginRegister(t, i)
         \/ \E backup \in BOOLEAN : Failover!FinishRegister(t, backup)
  PROVE  FailoverInv'
<1> USE DEF Failover!mapVars, Failover!configVars
<1>1. ASSUME NEW i \in Ids, Failover!BeginRegister(t, i)
      PROVE  FailoverInv'
  <2> DEFINE next == [at |-> "register", id |-> i, event |-> "Register",
                      goal |-> None]
  <2>1. next \in Failover!Job /\ next.at = "register"
    BY DEF Failover!Job, Failover!Stage
  <2>2. /\ job' = [job EXCEPT ![t] = next] /\ failureLock' = t
        /\ UNCHANGED <<Failover!mapVars, successLock>>
    BY <1>1 DEF Failover!BeginRegister
  <2> HIDE DEF next
  <2>3. /\ job' \in [Threads -> Failover!Job \cup {Failover!Idle}]
        /\ \A u \in Threads : job'[u].at \in {"decide", "write"} =>
             job'[u].goal \in Failover!FailoverState
    BY <2>1, <2>2, JobKeeps
  <2> QED
    BY <2>2, <2>3 DEF FailoverInv, Failover!TypeOK
<1>2. ASSUME NEW backup \in BOOLEAN, Failover!FinishRegister(t, backup)
      PROVE  FailoverInv'
  <2>1. job[t].id \in Ids
    BY <1>2, JobOf DEF Failover!FinishRegister, Failover!Stage
  <2>2. Failover!Idle.at = "idle"
    BY DEF Failover!Idle
  <2>3. /\ job' = [job EXCEPT ![t] = Failover!Idle] /\ failureLock' = None
        /\ registered' = registered \cup {job[t].id}
        /\ withBackup' \subseteq withBackup \cup {job[t].id}
        /\ state' = [state EXCEPT ![job[t].id] = "Primary"]
        /\ venue' = [venue EXCEPT ![job[t].id] = "primary"]
        /\ failures' = [failures EXCEPT ![job[t].id] = 0]
        /\ successes' = [successes EXCEPT ![job[t].id] = 0]
        /\ UNCHANGED <<emergency, successLock>>
    BY <1>2 DEF Failover!FinishRegister
  <2>4. /\ job' \in [Threads -> Failover!Job \cup {Failover!Idle}]
        /\ \A u \in Threads : job'[u].at \in {"decide", "write"} =>
             job'[u].goal \in Failover!FailoverState
    BY <2>2, <2>3, JobKeeps
  <2>5. /\ state' \in [Ids -> Failover!FailoverState]
        /\ venue' \in [Ids -> {"primary", "backup"}]
    BY <2>3 DEF FailoverInv, Failover!TypeOK, Failover!FailoverState
  <2>6. 0 \in 0 .. MaxCount
    BY FailoverParameters DEF Failover!ParametersOK
  <2>7. /\ failures' \in [Ids -> 0 .. MaxCount]
        /\ successes' \in [Ids -> 0 .. MaxCount]
    BY <2>3, <2>6 DEF FailoverInv, Failover!TypeOK
  <2> QED
    BY <2>1, <2>3, <2>4, <2>5, <2>7 DEF FailoverInv, Failover!TypeOK
<1> QED
  BY <1>1, <1>2

LEMMA DecideKeepsFailover ==
  ASSUME FailoverInv, NEW t \in Threads,
         \/ \E i \in Ids, e \in Failover!FailoverEvent :
              Failover!ReadState(t, i, e)
         \/ Failover!Decide(t)
  PROVE  FailoverInv'
<1> USE DEF Failover!mapVars, Failover!configVars
<1>1. PICK next \in Failover!Job :
        /\ next.at \in {"decide", "write"} =>
             next.goal \in Failover!FailoverState
        /\ job' = [job EXCEPT ![t] = next]
        /\ UNCHANGED <<Failover!mapVars, failureLock, successLock>>
  <2>1. ASSUME NEW i \in Ids, NEW e \in Failover!FailoverEvent,
               Failover!ReadState(t, i, e)
        PROVE  \E next \in Failover!Job :
                 /\ next.at \in {"decide", "write"} =>
                      next.goal \in Failover!FailoverState
                 /\ job' = [job EXCEPT ![t] = next]
                 /\ UNCHANGED <<Failover!mapVars, failureLock, successLock>>
    <3> DEFINE next == [at |-> "decide", id |-> i, event |-> e,
                        goal |-> state[i]]
    <3>1. state[i] \in Failover!FailoverState
      BY DEF FailoverInv, Failover!TypeOK
    <3>2. next \in Failover!Job /\ next.goal \in Failover!FailoverState
      BY <3>1 DEF Failover!Job, Failover!Stage
    <3>3. /\ job' = [job EXCEPT ![t] = next]
          /\ UNCHANGED <<Failover!mapVars, failureLock, successLock>>
      BY <2>1 DEF Failover!ReadState
    <3> HIDE DEF next
    <3> QED
      BY <3>2, <3>3
  <2>2. ASSUME Failover!Decide(t)
        PROVE  \E next \in Failover!Job :
                 /\ next.at \in {"decide", "write"} =>
                      next.goal \in Failover!FailoverState
                 /\ job' = [job EXCEPT ![t] = next]
                 /\ UNCHANGED <<Failover!mapVars, failureLock, successLock>>
    <3> DEFINE new == Failover!NextState(job[t].id, job[t].goal, job[t].event)
               same == [job[t] EXCEPT !.at = "count", !.goal = None]
               other == [job[t] EXCEPT !.at = "write", !.goal = new]
    <3>1. /\ job[t] \in Failover!Job /\ job[t].at = "decide"
          /\ job[t].goal \in Failover!FailoverState
      BY <2>2, JobOf DEF Failover!Decide, Failover!Stage, FailoverInv
    <3>2. new \in Failover!FailoverState
      BY <3>1 DEF Failover!NextState, Failover!FailoverState
    <3>3. /\ job' \in {[job EXCEPT ![t] = same], [job EXCEPT ![t] = other]}
          /\ UNCHANGED <<Failover!mapVars, failureLock, successLock>>
      <4>1. job \in [Threads -> Failover!Job \cup {Failover!Idle}]
        BY DEF FailoverInv, Failover!TypeOK
      <4> QED
        BY <2>2, <4>1 DEF Failover!Decide
    <3> HIDE DEF new
    <3>4. /\ same \in Failover!Job /\ same.at = "count"
          /\ other \in Failover!Job /\ other.goal = new
      BY <3>1, <3>2 DEF Failover!Job, Failover!Stage
    <3> HIDE DEF same, other
    <3> QED
      BY <3>2, <3>3, <3>4
  <2> QED
    BY <2>1, <2>2
<1>2. /\ job' \in [Threads -> Failover!Job \cup {Failover!Idle}]
      /\ \A u \in Threads : job'[u].at \in {"decide", "write"} =>
           job'[u].goal \in Failover!FailoverState
  BY <1>1, JobKeeps
<1> QED
  BY <1>1, <1>2 DEF FailoverInv, Failover!TypeOK

LEMMA WriteKeepsFailover ==
  ASSUME FailoverInv, NEW t \in Threads,
         Failover!WriteState(t) \/ Failover!SwitchVenue(t)
  PROVE  FailoverInv'
<1> USE DEF Failover!configVars
<1>1. CASE Failover!WriteState(t)
  <2>1. /\ job[t] \in Failover!Job
        /\ job[t].goal \in Failover!FailoverState
    BY <1>1, JobOf DEF Failover!WriteState, Failover!Stage, Failover!At,
                       FailoverInv
  <2>2. /\ Failover!Move(t, "switch")
        /\ state' = [state EXCEPT ![job[t].id] = job[t].goal]
        /\ UNCHANGED <<registered, withBackup, venue, failures, successes,
                       emergency, failureLock, successLock>>
    BY <1>1 DEF Failover!WriteState
  <2>3. /\ job' \in [Threads -> Failover!Job \cup {Failover!Idle}]
        /\ \A u \in Threads : job'[u].at \in {"decide", "write"} =>
             job'[u].goal \in Failover!FailoverState
    BY <2>1, <2>2, MoveKeeps DEF Failover!Stage
  <2> QED
    BY <2>1, <2>2, <2>3 DEF FailoverInv, Failover!TypeOK
<1>2. CASE Failover!SwitchVenue(t)
  <2>1. job[t] \in Failover!Job
    BY <1>2, JobOf DEF Failover!SwitchVenue, Failover!Stage
  <2>2. Failover!Move(t, "count")
    BY <1>2 DEF Failover!SwitchVenue
  <2>3. PICK v \in {"primary", "backup", venue[job[t].id]} :
          /\ venue' = [venue EXCEPT ![job[t].id] = v]
          /\ UNCHANGED <<registered, withBackup, state, failures, successes,
                         emergency, failureLock, successLock>>
    BY <1>2 DEF Failover!SwitchVenue
  <2>4. /\ job' \in [Threads -> Failover!Job \cup {Failover!Idle}]
        /\ \A u \in Threads : job'[u].at \in {"decide", "write"} =>
             job'[u].goal \in Failover!FailoverState
    BY <2>1, <2>2, MoveKeeps DEF Failover!Stage
  <2>5. job[t].id \in Ids
    BY <2>1 DEF Failover!Job
  <2>6. venue' \in [Ids -> {"primary", "backup"}]
    BY <2>3, <2>5 DEF FailoverInv, Failover!TypeOK
  <2> QED
    BY <2>3, <2>4, <2>6 DEF FailoverInv, Failover!TypeOK
<1> QED
  BY <1>1, <1>2

LEMMA CountKeepsFailover ==
  ASSUME FailoverInv, NEW t \in Threads,
         \/ Failover!CountFailure(t) \/ Failover!ResetSuccesses(t)
         \/ Failover!CountSuccess(t) \/ Failover!ResetFailures(t)
         \/ Failover!CountNothing(t)
  PROVE  FailoverInv'
<1> USE DEF Failover!mapVars, Failover!configVars
<1>1. job[t] \in Failover!Job /\ job[t].id \in Ids
  BY JobOf DEF Failover!CountFailure, Failover!ResetSuccesses,
               Failover!CountSuccess, Failover!ResetFailures,
               Failover!CountNothing, Failover!Stage
<1>2. /\ job' \in [Threads -> Failover!Job \cup {Failover!Idle}]
      /\ \A u \in Threads : job'[u].at \in {"decide", "write"} =>
           job'[u].goal \in Failover!FailoverState
  <2>1. \/ Failover!Move(t, "reset")
        \/ job' = [job EXCEPT ![t] = Failover!Counted(t)]
    BY DEF Failover!CountFailure, Failover!ResetSuccesses,
           Failover!CountSuccess, Failover!ResetFailures,
           Failover!CountNothing
  <2>2. "reset" \in Failover!Stage \ {"decide", "write"}
    BY DEF Failover!Stage
  <2> QED
    BY <1>1, <2>1, <2>2, MoveKeeps, CountedKeeps
<1>3. 0 \in 0 .. MaxCount
  BY FailoverConstants
<1>4. /\ failures' \in [Ids -> 0 .. MaxCount]
      /\ successes' \in [Ids -> 0 .. MaxCount]
  BY <1>1, <1>3, IncrementKeeps
     DEF Failover!CountFailure, Failover!ResetSuccesses,
         Failover!CountSuccess, Failover!ResetFailures,
         Failover!CountNothing, FailoverInv, Failover!TypeOK
<1>5. /\ failureLock' \in Threads \cup {None}
      /\ successLock' \in Threads \cup {None}
      /\ UNCHANGED <<registered, withBackup, state, venue, emergency>>
  BY DEF Failover!CountFailure, Failover!ResetSuccesses,
         Failover!CountSuccess, Failover!ResetFailures,
         Failover!CountNothing, FailoverInv, Failover!TypeOK
<1> QED
  BY <1>2, <1>4, <1>5 DEF FailoverInv, Failover!TypeOK

LEMMA RecordKeepsFailover ==
  ASSUME FailoverInv, NEW t \in Threads, Failover!Record(t)
  PROVE  FailoverInv'
<1>1. /\ job' = [job EXCEPT ![t] = Failover!Idle]
      /\ emergency' \in BOOLEAN
      /\ UNCHANGED <<registered, withBackup, state, venue, failures,
                     successes, failureLock, successLock>>
  BY DEF Failover!Record, Failover!configVars
<1>2. Failover!Idle.at = "idle"
  BY DEF Failover!Idle
<1>3. /\ job' \in [Threads -> Failover!Job \cup {Failover!Idle}]
      /\ \A u \in Threads : job'[u].at \in {"decide", "write"} =>
           job'[u].goal \in Failover!FailoverState
  BY <1>1, <1>2, JobKeeps
<1> QED
  BY <1>1, <1>3 DEF FailoverInv, Failover!TypeOK

LEMMA FailoverStep ==
  ASSUME FailoverInv, [Failover!Next]_Failover!failoverVars
  PROVE  FailoverInv'
<1> USE DEF Failover!mapVars, Failover!configVars
<1>1. CASE UNCHANGED Failover!failoverVars
  BY <1>1 DEF Failover!failoverVars, FailoverInv, Failover!TypeOK
<1>2. CASE Failover!ExitEmergency
  BY <1>2 DEF Failover!ExitEmergency, FailoverInv, Failover!TypeOK
<1> QED
  BY <1>1, <1>2, RegisterKeepsFailover, DecideKeepsFailover,
     WriteKeepsFailover, CountKeepsFailover, RecordKeepsFailover
     DEF Failover!Next, Failover!Proceed

-----------------------------------------------------------------------------
(* The six side by side.                                                   *)

AllInv ==
  /\ LogInv /\ LogFields
  /\ DaemonInv /\ DaemonFields
  /\ ShutdownInv /\ ShutdownFields
  /\ BucketInv /\ CallTypes
  /\ DepthInv /\ DepthFields
  /\ FailoverInv

\* In whichever service a step is, it keeps the types of all variables.
THEOREM ServicesTypes == SpecAll => []TypesOK
<1>1. InitAll => AllInv
  <2> SUFFICES ASSUME InitAll PROVE AllInv
    OBVIOUS
  <2>1. /\ Init /\ Daemon!Init /\ Shutdown!Init
        /\ InitLimiter /\ Depth!Init /\ Failover!Init
    BY DEF InitAll
  <2>2. ShutdownFields
    BY <2>1 DEF Shutdown!Init, Shutdown!Phases, ShutdownFields
  <2>3. DepthFields
    BY <2>1 DEF Depth!Init, DepthFields
  <2> QED
    BY <2>1, <2>2, <2>3, LogStart, LogFieldsStart, DaemonStart,
       DaemonFieldsStart, ShutdownStart, BucketStart, CallTypesStart,
       DepthStart, FailoverStart DEF AllInv
<1>2. AllInv /\ [NextAll]_<<subject, walVars, daemonVars, shutdownVars,
                            limiterVars, depthVars, failoverVars>> => AllInv'
  <2> SUFFICES ASSUME AllInv,
                      [NextAll]_<<subject, walVars, daemonVars, shutdownVars,
                                  limiterVars, depthVars, failoverVars>>
               PROVE  AllInv'
    OBVIOUS
  <2>1. [Next]_vars
    BY DEF NextAll, walVars
  <2>2. [Daemon!Next]_Daemon!daemonVars
    <3>1. UNCHANGED daemonVars => UNCHANGED Daemon!daemonVars
      BY DEF daemonVars, Daemon!daemonVars, Daemon!loopVars, Daemon!countVars
    <3> QED
      BY <3>1 DEF NextAll
  <2>3. [Shutdown!Next]_Shutdown!vars
    <3>1. UNCHANGED shutdownVars => UNCHANGED Shutdown!vars
      BY DEF shutdownVars, Shutdown!vars, Shutdown!stateVars
    <3> QED
      BY <3>1 DEF NextAll
  <2>4. [NextLimiter]_limiterVars
    BY DEF NextAll
  <2>5. [Depth!Next]_Depth!vars
    <3>1. UNCHANGED depthVars => UNCHANGED Depth!vars
      BY DEF depthVars, Depth!vars, Depth!exchangeVars, Depth!localVars
    <3> QED
      BY <3>1 DEF NextAll
  <2>6. [Failover!Next]_Failover!failoverVars
    <3>1. UNCHANGED failoverVars => UNCHANGED Failover!failoverVars
      BY DEF failoverVars, Failover!failoverVars, Failover!mapVars,
             Failover!configVars
    <3> QED
      BY <3>1 DEF NextAll
  <2>7. LogInv' /\ LogFields'
    BY <2>1, LogStep, LogFieldsKept DEF AllInv
  <2>8. DaemonInv' /\ DaemonFields'
    BY <2>2, DaemonStep, DaemonFieldsKept DEF AllInv
  <2>9. ShutdownInv' /\ ShutdownFields'
    BY <2>3, ShutdownStep, ShutdownFieldsKept DEF AllInv
  <2>10. BucketInv' /\ CallTypes'
    BY <2>4, BucketStep, CallTypesKept DEF AllInv
  <2>11. DepthInv' /\ DepthFields'
    BY <2>5, DepthStep, DepthFieldsKept DEF AllInv
  <2>12. FailoverInv'
    BY <2>6, FailoverStep DEF AllInv
  <2> QED
    BY <2>7, <2>8, <2>9, <2>10, <2>11, <2>12 DEF AllInv
<1>3. AllInv => TypesOK
  BY LogFieldsEnough, DaemonFieldsEnough, ShutdownFieldsEnough,
     CallTypesEnough, DepthFieldsEnough DEF AllInv, FailoverInv, TypesOK
<1> QED
  BY <1>1, <1>2, <1>3, PTL DEF SpecAll
=============================================================================
