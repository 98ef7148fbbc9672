----------------------------- MODULE ModelStore -----------------------------
(***************************************************************************)
(* First-run acquisition of the speech model: ensure_model downloads the   *)
(* archive beside its destination, resuming what is there, verifies it,    *)
(* unpacks it file by file into a staging directory and renames that into  *)
(* place.  The files outlive the process, which may end at any step.       *)
(***************************************************************************)
EXTENDS Naturals, Sequences, FiniteSets

CONSTANTS
    Size,       \* chunks of the archive (ModelSpec::bytes)
    Files,      \* files of the model
    Sentinel,   \* the file whose presence counts as an install
    MaxFaults   \* bound: faults of the network, of the disk and of the user

ASSUME SizeAssumption == Size \in Nat \ {0}
ASSUME SentinelAssumption == Sentinel \in Files /\ IsFiniteSet(Files)
ASSUME FaultAssumption == MaxFaults \in Nat

VARIABLES
    part,     \* the chunks of the .part file, in order; <<>> when there is none
    staging,  \* files that this unpacking has written, in the staging directory
    dir,      \* {} or {the files of the installed directory}
    step,     \* where ensure_model stands
    recv,     \* the chunk the server sends next
    online,   \* this launch has used the network
    faults

store == <<part, staging, dir, step, recv, online, faults>>

Garbage == 0
Archive == [i \in 1..Size |-> i]  \* what hashes to ModelSpec::sha256

StoreTypeOK ==
    /\ part \in Seq(0..Size) /\ Len(part) <= Size + MaxFaults
    /\ staging \subseteq Files
    /\ dir \subseteq SUBSET Files /\ Cardinality(dir) <= 1
    /\ step \in {"idle", "check", "fetch", "body", "verify", "extract", "clean", "ok", "error"}
    /\ recv \in 1..(Size + 1) /\ online \in BOOLEAN /\ faults \in 0..MaxFaults

StoreInit ==
    /\ part = <<>> /\ staging = {} /\ dir = {}
    /\ step = "idle" /\ recv = 1 /\ online = FALSE /\ faults = 0

Fault == faults < MaxFaults /\ faults' = faults + 1
LooksInstalled == \E d \in dir : Sentinel \in d

\* ensure_model returns at once when the sentinel is there.
CheckNothing ==
    /\ step = "check"
    /\ step' = "fetch"
    /\ UNCHANGED <<part, staging, dir, recv, online, faults>>
CheckSentinel ==
    /\ step = "check"
    /\ step' = IF LooksInstalled THEN "ok" ELSE "fetch"
    /\ UNCHANGED <<part, staging, dir, recv, online, faults>>

\* As long as the archive: nothing to fetch, the hash decides.
AlreadyFetched ==
    /\ step = "fetch" /\ Len(part) = Size
    /\ step' = "verify"
    /\ UNCHANGED <<part, staging, dir, recv, online, faults>>

\* A file longer than the archive is dropped, a shorter one is continued where
\* the server honours the range, and started over where it does not; so is one
\* that could not be dropped, or else the server refuses the range.
Kept == IF Len(part) > Size THEN <<>> ELSE part
Request ==
    /\ step = "fetch" /\ Len(part) # Size
    /\ \/ part' = Kept /\ recv' = Len(Kept) + 1
       \/ part' = <<>> /\ recv' = 1
    /\ online' = TRUE
    /\ step' = "body"
    /\ UNCHANGED <<staging, dir, faults>>

RequestFails ==
    /\ step = "fetch" /\ Len(part) # Size
    /\ Fault
    /\ part' \in {Kept, part}
    /\ online' = TRUE
    /\ step' = "error"
    /\ UNCHANGED <<staging, dir, recv>>

ReceiveChunk ==
    /\ step = "body" /\ recv <= Size
    /\ part' = Append(part, recv)
    /\ recv' = recv + 1
    /\ UNCHANGED <<staging, dir, step, online, faults>>

\* Substituted bytes, or more of them than there should be.
ReceiveGarbage ==
    /\ step = "body"
    /\ Fault
    /\ part' = Append(part, Garbage)
    /\ recv' = IF recv <= Size THEN recv + 1 ELSE recv
    /\ UNCHANGED <<staging, dir, step, online>>

EndOfBody ==
    /\ step = "body"
    /\ IF recv > Size THEN UNCHANGED faults ELSE Fault
    /\ step' = "verify"
    /\ UNCHANGED <<part, staging, dir, recv, online>>

\* A read or a write fails: what was written stays for the next launch.
Interrupted ==
    /\ step = "body"
    /\ Fault
    /\ step' = "error"
    /\ UNCHANGED <<part, staging, dir, recv, online>>

\* The archive cannot be read.
HashFails ==
    /\ step = "verify"
    /\ Fault
    /\ step' = "error"
    /\ UNCHANGED <<part, staging, dir, recv, online>>

\* What an earlier unpacking left in the staging directory is removed, or
\* written over where that fails.
Verified ==
    /\ step = "verify" /\ part = Archive
    /\ staging' = {}
    /\ step' = "extract"
    /\ UNCHANGED <<part, dir, recv, online, faults>>

\* Bytes that do not hash right are deleted, so that a retry starts clean;
\* that the deletion may fail goes unnoticed.
MismatchKept ==
    /\ step = "verify" /\ part # Archive
    /\ step' = "error"
    /\ UNCHANGED <<part, staging, dir, recv, online, faults>>
Mismatch ==
    /\ step = "verify" /\ part # Archive
    /\ \/ part' = <<>> /\ UNCHANGED faults
       \/ UNCHANGED part /\ Fault
    /\ step' = "error"
    /\ UNCHANGED <<staging, dir, recv, online>>

ExtractInPlace ==
    /\ step = "extract"
    /\ \E f \in Files \ UNION dir : dir' = {UNION dir \union {f}}
    /\ UNCHANGED <<part, staging, step, recv, online, faults>>
ExtractFile ==
    /\ step = "extract"
    /\ \E f \in Files \ staging : staging' = staging \union {f}
    /\ UNCHANGED <<part, dir, step, recv, online, faults>>

\* Unpacking or renaming fails; both leave everything where it is.
InstallFails ==
    /\ step = "extract"
    /\ Fault
    /\ step' = "error"
    /\ UNCHANGED <<part, staging, dir, recv, online>>

\* The rename moves the whole directory at once.
Rename ==
    /\ step = "extract" /\ staging = Files
    /\ IF dir = {} THEN dir' = {staging} /\ staging' = {} /\ step' = "clean"
                   ELSE UNCHANGED <<dir, staging>> /\ step' = "error"
    /\ UNCHANGED <<part, recv, online, faults>>

\* Removing the archive may fail unnoticed; then the sentinel is looked for.
CleanUp ==
    /\ step = "clean"
    /\ \/ part' = <<>> /\ UNCHANGED faults
       \/ UNCHANGED part /\ Fault
    /\ step' = IF LooksInstalled THEN "ok" ELSE "error"
    /\ UNCHANGED <<staging, dir, recv, online>>

EnsureModel ==
    \/ CheckSentinel \/ AlreadyFetched \/ Request \/ RequestFails
    \/ ReceiveChunk \/ ReceiveGarbage \/ EndOfBody \/ Interrupted
    \/ HashFails \/ Verified \/ Mismatch \/ ExtractFile \/ InstallFails \/ Rename \/ CleanUp
=============================================================================
