---------------------------- MODULE WriteAheadLog ----------------------------
(***************************************************************************)
(* persistence/wal_manager.rs: WalManager, which one caller at a time uses *)
(* (its users hold it behind a lock), with the files it leaves behind when *)
(* the process dies between any two of its writes.  Every operation on a   *)
(* file may fail; new then returns no manager, which is a crash here.      *)
(*                                                                         *)
(* Records have one size, so positions count records; MaxSize is what a    *)
(* file holds.  A write that was flushed survives; one that was not is not *)
(* there.  CRC32 is taken as injective: a checksum is what was hashed.     *)
(*                                                                         *)
(* enabled stays TRUE: set_enabled is "for testing" and has no caller, and *)
(* a log that is switched off answers Ok(0) and does nothing.  The error   *)
(* of set_len (364) is taken to be returned, as that of every other call   *)
(* there; as written the compiler asks for a conversion of it first.       *)
(***************************************************************************)
EXTENDS Integers, Sequences

CONSTANTS
  MaxSize,     \* max_wal_size, in records
  MaxAppends,  \* bound on the records appended
  MaxTime      \* bound on the clock, in seconds

ASSUME SizesAssumption ==
  MaxSize \in Nat \ {0} /\ MaxAppends \in Nat /\ MaxTime \in Nat

VARIABLES
  exists,    \* is there a file at wal_path?
  extended,  \* has its length been set to max_wal_size?
  log,       \* its records; zeros follow
  archives,  \* the archived log of each second, if any
  mapped,    \* the file that mmap_file maps
  position,  \* write_position
  sequence,  \* sequence_num
  pc,        \* what the process is doing
  appended,  \* number of appends begun: the number of a record's payload
  acked,     \* auxiliary: payloads whose append returned Ok
  replaced,  \* auxiliary: payloads that an archive lost
  now,       \* the clock, in seconds
  rotated    \* auxiliary: the clock at the last rotation

fileVars == <<exists, extended, log, archives>>
memoryVars == <<mapped, position, sequence>>
ghostVars == <<acked, replaced>>
clockVars == <<now, rotated>>
vars == <<fileVars, memoryVars, pc, appended, ghostVars, clockVars>>

Place == {"down", "opened", "ready", "rotate", "renamed", "created", "sized",
          "write", "written"}

\* What may be mapped: the log, a file that lost its name (or nothing), or
\* the archive of a second, which is that second.
Current == -1
Unlinked == -2

\* compute_checksum hashes the header, its checksum zero, and the payload.
Header(s, sum) == <<"header", s, sum>>
Record(s, p) == [sequence |-> s, payload |-> p,
                 checksum |-> <<Header(s, 0), p>>]
Payloads(f) == {f[i].payload : i \in 1 .. Len(f)}

\* The file with the record of this append at the position, and the payload
\* that was there.
Put(f) ==
  IF position < Len(f)
    THEN [f EXCEPT ![position + 1] = Record(sequence, appended)]
    ELSE Append(f, Record(sequence, appended))
Overwritten(f) == {f[i].payload : i \in {position + 1} \cap (1 .. Len(f))}

OnDisk == Payloads(log) \cup UNION {Payloads(archives[t]) : t \in 0 .. MaxTime}

Init ==
  /\ exists = FALSE /\ extended = FALSE /\ log = <<>>
  /\ archives = [t \in 0 .. MaxTime |-> <<>>]
  /\ mapped = Unlinked /\ position = 0 /\ sequence = 0
  /\ pc = "down"
  /\ appended = 0 /\ acked = {} /\ replaced = {}
  /\ now = 0 /\ rotated = -1

-----------------------------------------------------------------------------
\* Mutant: the position is not taken from the file.
OpenAtZero ==
  /\ pc = "down"
  /\ exists' = TRUE
  /\ position' = 0
  /\ sequence' = 0
  /\ pc' = "opened"
  /\ UNCHANGED <<extended, log, archives, mapped, appended, ghostVars,
                 clockVars>>

\* new: the position is the length of the file, which init_mmap extended.
Open ==
  /\ pc = "down"
  /\ exists' = TRUE
  /\ position' = IF extended THEN MaxSize ELSE 0
  /\ sequence' = 0
  /\ pc' = "opened"
  /\ UNCHANGED <<extended, log, archives, mapped, appended, ghostVars,
                 clockVars>>

\* init_mmap and recover_sequence_num
InitMmap ==
  /\ pc = "opened"
  /\ extended' = TRUE
  /\ mapped' = Current
  /\ pc' = "ready"
  /\ UNCHANGED <<exists, log, archives, position, sequence, appended,
                 ghostVars, clockVars>>

BeginAppend ==
  /\ pc = "ready" /\ appended < MaxAppends
  /\ appended' = appended + 1
  /\ pc' = IF position + 1 > MaxSize THEN "rotate" ELSE "write"
  /\ UNCHANGED <<fileVars, memoryVars, ghostVars, clockVars>>

\* append hands the error of a call to its caller.
ReturnError ==
  /\ pc' = "ready"
  /\ UNCHANGED <<appended, ghostVars, clockVars>>

\* rotate: the log gets the name of the current second, and takes the place of
\* a file that has it.  A mapping follows its file.
Rename ==
  /\ pc = "rotate" /\ exists
  /\ archives' = [archives EXCEPT ![now] = log]
  /\ replaced' = replaced \cup Payloads(archives[now])
  /\ exists' = FALSE /\ extended' = FALSE /\ log' = <<>>
  /\ mapped' = IF mapped = Current THEN now
               ELSE IF mapped = now THEN Unlinked ELSE mapped
  /\ rotated' = now
  /\ pc' = "renamed"
  /\ UNCHANGED <<position, sequence, appended, acked, now>>

\* For one, there is no file to rename since a rotation failed half-way.
RenameFails ==
  /\ pc = "rotate"
  /\ ReturnError
  /\ UNCHANGED <<fileVars, memoryVars>>

CreateNew ==
  /\ pc = "renamed"
  /\ exists' = TRUE
  /\ pc' = "created"
  /\ UNCHANGED <<extended, log, archives, memoryVars, appended, ghostVars,
                 clockVars>>

CreateFails ==
  /\ pc = "renamed"
  /\ ReturnError
  /\ UNCHANGED <<fileVars, memoryVars>>

\* The new file gets its length and is the one that is written to.
SetLength ==
  /\ pc = "created"
  /\ extended' = TRUE
  /\ position' = 0 /\ sequence' = 0
  /\ pc' = "sized"
  /\ UNCHANGED <<exists, log, archives, mapped, appended, ghostVars, clockVars>>

SetLengthFails ==
  /\ pc = "created"
  /\ ReturnError
  /\ UNCHANGED <<fileVars, memoryVars>>

\* init_mmap, at the end of a rotation
Remap ==
  /\ pc = "sized"
  /\ mapped' = Current
  /\ pc' = "write"
  /\ UNCHANGED <<fileVars, position, sequence, appended, ghostVars, clockVars>>

\* The mapping of the archived file stays, with the position at zero.
RemapFails ==
  /\ pc = "sized"
  /\ ReturnError
  /\ UNCHANGED <<fileVars, memoryVars>>

\* The bytes of the record reach the file that is mapped.
CopyToMapping ==
  \/ /\ mapped = Current
     /\ log' = Put(log)
     /\ UNCHANGED <<archives, replaced>>
  \/ /\ mapped \in 0 .. MaxTime
     /\ archives' = [archives EXCEPT ![mapped] = Put(@)]
     /\ replaced' = replaced \cup Overwritten(archives[mapped])
     /\ UNCHANGED log
  \/ /\ mapped = Unlinked
     /\ UNCHANGED <<log, archives, replaced>>

\* The record is copied to the mapping at the position and flushed.
WriteMapped ==
  /\ pc = "write"
  /\ CopyToMapping
  /\ pc' = "written"
  /\ UNCHANGED <<exists, extended, memoryVars, appended, acked, clockVars>>

\* The flush fails, with the bytes in the file or not.
FlushFails ==
  /\ pc = "write"
  /\ CopyToMapping \/ UNCHANGED <<log, archives, replaced>>
  /\ pc' = "ready"
  /\ UNCHANGED <<exists, extended, memoryVars, appended, acked, clockVars>>

\* The same bytes go through the file handle; append returns Ok.
FinishAppend ==
  /\ pc = "written"
  /\ log' = Put(log)
  /\ position' = position + 1 /\ sequence' = sequence + 1
  /\ acked' = acked \cup {appended}
  /\ pc' = "ready"
  /\ UNCHANGED <<exists, extended, archives, mapped, appended, replaced,
                 clockVars>>

\* seek, write_all or flush fails.
WriteFails ==
  /\ pc = "written"
  /\ log' \in {log, Put(log)}
  /\ ReturnError
  /\ UNCHANGED <<exists, extended, archives, memoryVars>>

\* The process dies, and its mapping with it.
Crash ==
  /\ pc # "down"
  /\ mapped' = Unlinked
  /\ pc' = "down"
  /\ UNCHANGED <<fileVars, position, sequence, appended, ghostVars, clockVars>>

Tick ==
  /\ now < MaxTime
  /\ now' = now + 1
  /\ UNCHANGED <<fileVars, memoryVars, pc, appended, ghostVars, rotated>>

Next ==
  \/ Open \/ InitMmap \/ Crash \/ Tick
  \/ BeginAppend \/ WriteMapped \/ FinishAppend \/ FlushFails \/ WriteFails
  \/ Rename \/ CreateNew \/ SetLength \/ Remap
  \/ RenameFails \/ CreateFails \/ SetLengthFails \/ RemapFails

Spec == Init /\ [][Next]_vars

-----------------------------------------------------------------------------
\* verify_checksum hashes the header as stored, the payload, and the header
\* again with its checksum zero.
VerifyChecksum(r) ==
  r.checksum = <<Header(r.sequence, r.checksum), r.payload,
                 Header(r.sequence, 0)>>

\* replay_from(0) returns records only if all of them verify; the zeros behind
\* the last record read as a record that does not.
ReplayFromStart ==
  IF extended \/ \E i \in 1 .. Len(log) : ~VerifyChecksum(log[i])
    THEN {} ELSE Payloads(log)

-----------------------------------------------------------------------------
\* The type of each variable.
TypeOK ==
  /\ exists \in BOOLEAN /\ extended \in BOOLEAN
  /\ Payloads(log) \subseteq 1 .. appended /\ Len(log) <= MaxSize
  /\ \A t \in 0 .. MaxTime : Payloads(archives[t]) \subseteq 1 .. appended
  /\ mapped \in -2 .. MaxTime
  /\ position \in 0 .. MaxSize /\ sequence \in 0 .. MaxSize
  /\ pc \in Place
  /\ appended \in 0 .. MaxAppends /\ acked \subseteq 1 .. appended
  /\ replaced \subseteq 1 .. appended
  /\ now \in 0 .. MaxTime /\ rotated \in -1 .. now

\* A record whose append returned is on disk for good, in the log or in an
\* archive, whatever call failed, whatever write the process died at and however
\* often it was started again.  It is lost with an archive alone: one that a
\* rename took the name of, or that the mapping still was of, since a rotation
\* failed at its last call.
AckedIsOnDisk == acked \subseteq OnDisk \cup replaced

\* "Logs every order state change BEFORE execution to guarantee zero data
\* loss": what was acknowledged since the last rotation is replayed.
ZeroDataLoss ==
  pc = "ready" => \A p \in acked : p \in Payloads(log) => p \in ReplayFromStart

=============================================================================
