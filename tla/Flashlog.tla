------------------------------ MODULE Flashlog ------------------------------
(***************************************************************************)
(* internal/storage/flashlog: the append-only journal file under the       *)
(* NanaCoin service, one action per system call of Append and per turn of  *)
(* Replay's loop, with the power failing between any two of them.          *)
(*                                                                         *)
(* The file is an array of cells.  A record of payload p takes Size[p]     *)
(* cells for its header and payload and one more for its commit marker;    *)
(* a cell remembers which record wrote it, which stands for the magic, the *)
(* length, the sequence number and the CRC that Decode checks.  Decode     *)
(* does not know whose marker it finds, only that it is one, and neither   *)
(* does Decodes below.                                                     *)
(*                                                                         *)
(* There are two copies of the file: cache is what read and write see,     *)
(* disk what is left when the power fails.  Sync copies the one to the     *)
(* other; the operating system may do so for any cell at any time.         *)
(***************************************************************************)
EXTENDS Integers, Sequences, FiniteSets, TLAPS

CONSTANTS
    Payload,    \* the payloads the service appends, each a set of as many elements as it
                \* has cells, header included
    Cap,        \* the journal's capacity in cells (Journal.cap, bounded)
    Junk        \* a cell that is part of no record: never written, or torn

\* Cells of header and payload, per payload.
Size == [p \in Payload |-> Cardinality(p)]

ASSUME FlashlogAssumption ==
    /\ Size \in [Payload -> Nat \ {0}]
    /\ Cap \in Nat \ {0}

VARIABLES
    disk,       \* the file as it survives a power failure
    cache,      \* the file as WriteAt and ReadAll see it
    pc,         \* where the holder of Journal.mu is
    cur,        \* the payload being appended
    end,        \* Journal.end; during Replay its local off
    known,      \* the records replayed or appended since Open: Journal.seq is its length
    promised    \* history: what the last successful Append promised to keep

vars == <<disk, cache, pc, cur, end, known, promised>>

Cells == 1..Cap
BodyCell(n, p, k) == [seq |-> n, pay |-> p, ix |-> k]
MarkerCell(n, p) == [seq |-> n, pay |-> p, ix |-> 0]
Marker == [seq : Nat, pay : Payload, ix : {0}]
Cell == {Junk} \cup [seq : Nat, pay : Payload, ix : Nat]
Record == [pay : Payload, off : Nat]

\* len(buf) of an encoded record.
RecLen(p) == Size[p] + 1

\* Storage.Decode at offset off of file f finds record n with payload p: every
\* byte the CRC covers is that record's, and a commit marker follows.
Decodes(f, off, n, p) ==
    /\ off + RecLen(p) <= Cap
    /\ \A k \in 1..Size[p] : f[off + k] = BodyCell(n, p, k)
    /\ f[off + RecLen(p)] \in Marker

PcBooting == {"down", "replay"}
PcAppending == {"body", "bodySync", "marker", "markerSync"}

TypeOK ==
    /\ disk \in [Cells -> Cell]
    /\ cache \in [Cells -> Cell]
    /\ pc \in PcBooting \cup {"ready"} \cup PcAppending
    /\ cur \in Payload
    /\ end \in 0..Cap
    /\ known \in Seq(Record)
    /\ promised \in Seq(Record)

Init ==
    /\ disk = [i \in Cells |-> Junk]
    /\ cache = disk
    /\ pc = "down"
    /\ cur \in Payload
    /\ end = 0
    /\ known = <<>>
    /\ promised = <<>>

-----------------------------------------------------------------------------
(* Open and Replay.  core.New calls them in this order before anything else. *)

\* Mutant of Open: the reopened journal keeps the offset it had.
OpenKeepsEnd ==
    /\ pc = "down"
    /\ pc' = "replay"
    /\ known' = <<>>
    /\ UNCHANGED <<disk, cache, cur, end, promised>>

Open ==
    /\ pc = "down"
    /\ pc' = "replay"
    /\ end' = 0
    /\ known' = <<>>
    /\ UNCHANGED <<disk, cache, cur, promised>>

\* One turn of the loop: a record with the next sequence number is handed to fn.
ReplayRecord(p) ==
    /\ pc = "replay"
    /\ Decodes(cache, end, Len(known) + 1, p)
    /\ known' = Append(known, [pay |-> p, off |-> end])
    /\ end' = end + RecLen(p)
    /\ UNCHANGED <<disk, cache, pc, cur, promised>>

\* fn refuses the record: Replay returns the error and core.New fails.
ReplayRefused(p) ==
    /\ pc = "replay"
    /\ Decodes(cache, end, Len(known) + 1, p)
    /\ pc' = "down"
    /\ UNCHANGED <<disk, cache, cur, end, known, promised>>

\* Mutant of ReplayDone: j.end is left at zero.
ReplayDoneForgetsEnd ==
    /\ pc = "replay"
    /\ \A p \in Payload : ~Decodes(cache, end, Len(known) + 1, p)
    /\ cache' = [i \in Cells |-> IF i <= end THEN cache[i] ELSE Junk]
    /\ pc' = "ready"
    /\ end' = 0
    /\ UNCHANGED <<disk, cur, known, promised>>

\* Nothing decodes at off, or its sequence number is not the next: the tail is
\* cut off.  The truncation is not synced.
ReplayDone ==
    /\ pc = "replay"
    /\ \A p \in Payload : ~Decodes(cache, end, Len(known) + 1, p)
    /\ cache' = [i \in Cells |-> IF i <= end THEN cache[i] ELSE Junk]
    /\ pc' = "ready"
    /\ UNCHANGED <<disk, cur, end, known, promised>>

\* Truncate fails: Replay returns its error and core.New fails.
ReplayTruncateFails ==
    /\ pc = "replay"
    /\ \A p \in Payload : ~Decodes(cache, end, Len(known) + 1, p)
    /\ \E i \in Cells : i > end /\ cache[i] # Junk
    /\ pc' = "down"
    /\ UNCHANGED <<disk, cache, cur, end, known, promised>>

-----------------------------------------------------------------------------
(* Append. *)

\* The capacity check; over it Append returns ErrFull and changes nothing.
AppendStart(p) ==
    /\ pc = "ready"
    /\ end + RecLen(p) <= Cap
    /\ cur' = p
    /\ pc' = "body"
    /\ UNCHANGED <<disk, cache, end, known, promised>>

\* The file after the first n cells of the record are written at end.
BodyWritten(n) ==
    [i \in Cells |-> IF i \in (end + 1)..(end + n)
                     THEN BodyCell(Len(known) + 1, cur, i - end)
                     ELSE cache[i]]

WriteBody ==
    /\ pc = "body"
    /\ cache' = BodyWritten(Size[cur])
    /\ pc' = "bodySync"
    /\ UNCHANGED <<disk, cur, end, known, promised>>

\* WriteAt fails after writing some of the body: end and seq stay.
WriteBodyFails ==
    /\ pc = "body"
    /\ \E n \in 0..Size[cur] : cache' = BodyWritten(n)
    /\ pc' = "ready"
    /\ UNCHANGED <<disk, cur, end, known, promised>>

SyncBody ==
    /\ pc = "bodySync"
    /\ disk' = cache
    /\ pc' = "marker"
    /\ UNCHANGED <<cache, cur, end, known, promised>>

WriteMarker ==
    /\ pc = "marker"
    /\ cache' = [cache EXCEPT ![end + RecLen(cur)] = MarkerCell(Len(known) + 1, cur)]
    /\ pc' = "markerSync"
    /\ UNCHANGED <<disk, cur, end, known, promised>>

\* WriteAt fails with the marker unwritten, torn or whole.
WriteMarkerFails ==
    /\ pc = "marker"
    /\ \E c \in {cache[end + RecLen(cur)], Junk, MarkerCell(Len(known) + 1, cur)} :
          cache' = [cache EXCEPT ![end + RecLen(cur)] = c]
    /\ pc' = "ready"
    /\ UNCHANGED <<disk, cur, end, known, promised>>

\* Mutant of SyncMarker: Append returns without waiting for the second Sync.
SyncMarkerSkipped ==
    /\ pc = "markerSync"
    /\ known' = Append(known, [pay |-> cur, off |-> end])
    /\ promised' = known'
    /\ end' = end + RecLen(cur)
    /\ pc' = "ready"
    /\ UNCHANGED <<disk, cache, cur>>

\* Mutant of SyncMarker: j.end is advanced by the marker a second time.
SyncMarkerTwice ==
    /\ pc = "markerSync"
    /\ disk' = cache
    /\ known' = Append(known, [pay |-> cur, off |-> end])
    /\ promised' = known'
    /\ end' = end + RecLen(cur) + 1
    /\ pc' = "ready"
    /\ UNCHANGED <<cache, cur>>

\* The second Sync returns: the record exists, end and seq advance.
SyncMarker ==
    /\ pc = "markerSync"
    /\ disk' = cache
    /\ known' = Append(known, [pay |-> cur, off |-> end])
    /\ promised' = known'
    /\ end' = end + RecLen(cur)
    /\ pc' = "ready"
    /\ UNCHANGED <<cache, cur>>

\* Either Sync fails: Append returns the error, end and seq stay.
SyncFails ==
    /\ pc \in {"bodySync", "markerSync"}
    /\ pc' = "ready"
    /\ UNCHANGED <<disk, cache, cur, end, known, promised>>

-----------------------------------------------------------------------------
(* The environment. *)

\* The operating system writes one cell back on its own.
WriteBack(i) ==
    /\ disk[i] # cache[i]
    /\ disk' = [disk EXCEPT ![i] = cache[i]]
    /\ UNCHANGED <<cache, pc, cur, end, known, promised>>

\* The process ends between two system calls; the file cache outlives it.
ProcessStops ==
    /\ pc # "down"
    /\ pc' = "down"
    /\ UNCHANGED <<disk, cache, cur, end, known, promised>>

PowerFails ==
    /\ cache' = disk
    /\ pc' = "down"
    /\ UNCHANGED <<disk, cur, end, known, promised>>

Next ==
    \/ Open
    \/ \E p \in Payload : ReplayRecord(p)
    \/ \E p \in Payload : ReplayRefused(p)
    \/ ReplayDone
    \/ ReplayTruncateFails
    \/ \E p \in Payload : AppendStart(p)
    \/ WriteBody
    \/ WriteBodyFails
    \/ SyncBody
    \/ WriteMarker
    \/ WriteMarkerFails
    \/ SyncMarker
    \/ SyncFails
    \/ \E i \in Cells : WriteBack(i)
    \/ ProcessStops
    \/ PowerFails

Spec == Init /\ [][Next]_vars

-----------------------------------------------------------------------------
(* Properties. *)

Up == pc \notin PcBooting

\* The record at index i of a history is whole in file f, marker included.
Holds(f, s, i) == Decodes(f, s[i].off, i, s[i].pay)

\* s begins with all of r.
Extends(s, r) == Len(r) <= Len(s) /\ \A i \in 1..Len(r) : s[i] = r[i]

\* Where the record after history s belongs.
EndOf(s) == IF Len(s) = 0 THEN 0 ELSE s[Len(s)].off + RecLen(s[Len(s)].pay)

\* Whatever Append reported as written is on the medium itself, whole, at every
\* instant: no later write, failed append, truncation or power failure damages
\* it.  This is the first half of the contract in storage/journal.go.
AckedDurable == \A i \in 1..Len(promised) : Holds(disk, promised, i)

\* A service that has finished booting has every record that was ever
\* acknowledged, in order, and j.end and j.seq continue right after the last
\* record it knows, so no append can overwrite one.
BootsWithAllAcked ==
    Up => /\ Extends(known, promised)
          /\ end = EndOf(known)

\* The contract a caller of storage.Journal relies on.
Contract == INSTANCE DurableLog WITH
    Entry <- Record,
    log <- promised,
    view <- IF Up THEN known ELSE <<>>,
    up <- Up

ContractSpec == Contract!Spec

\* storage/journal.go:7-9: a record whose commit marker never landed is
\* invisible to Replay.  Every record Replay delivered is followed by the
\* marker that was written for it, not by one an earlier append left there.
OnlyOwnMarkers ==
    \A i \in 1..Len(known) :
        pc = "replay" => cache[known[i].off + RecLen(known[i].pay)] = MarkerCell(i, known[i].pay)

\* flashlog.go:125-127: after Replay the file on disk matches what the next
\* replay will find.  The records a booted service knows are on the medium.
KnownIsDurable == Up => \A i \in 1..Len(known) : Holds(disk, known, i)

-----------------------------------------------------------------------------
(***************************************************************************)
(* Proofs about the journal file for every set of payloads, every record   *)
(* size and every capacity: acknowledged records survive on the medium, a  *)
(* booted service has all of them, and the file implements its contract.   *)
(*                                                                         *)
(* The inductive invariant says where every record lies: histories are     *)
(* chains of adjacent records (Chain), none reaches past the end           *)
(* (Bounded), and a record in the making already fills the cells that pc   *)
(* says are written (InTheMaking).                                         *)
(***************************************************************************)

\* Each record begins where the one before it ends.
Chain(s) ==
    \A i \in 1..Len(s) :
        s[i].off = IF i = 1 THEN 0 ELSE s[i-1].off + RecLen(s[i-1].pay)

\* No record of s reaches past its end.
Bounded(s) == \A i \in 1..Len(s) : s[i].off + RecLen(s[i].pay) <= EndOf(s)

Whole(f, s) == \A i \in 1..Len(s) : Holds(f, s, i)

\* What pc says about the cells after end while Append runs.
InTheMaking ==
    /\ pc \in PcAppending => end + RecLen(cur) <= Cap
    /\ pc \in {"bodySync", "marker", "markerSync"} =>
          \A k \in 1..Size[cur] : cache[end + k] = BodyCell(Len(known) + 1, cur, k)
    /\ pc = "markerSync" => cache[end + RecLen(cur)] \in Marker

\* While Replay runs, what it delivered and what was promised agree as far as
\* both go.
ReplayAgrees ==
    pc = "replay" => Extends(known, promised) \/ Extends(promised, known)

KnownPlaced ==
    pc # "down" => /\ end = EndOf(known)
                   /\ Bounded(known)
                   /\ Chain(known)
                   /\ Whole(cache, known)

PromisedPlaced ==
    /\ Chain(promised)
    /\ Whole(disk, promised)
    /\ Whole(cache, promised)

IInv ==
    /\ TypeOK
    /\ PromisedPlaced
    /\ KnownPlaced
    /\ ReplayAgrees
    /\ Up => Extends(known, promised)
    /\ InTheMaking

-----------------------------------------------------------------------------

\* A record is one cell longer than its payload.
LEMMA RecLenType ==
    ASSUME NEW p \in Payload
    PROVE  /\ Size[p] \in Nat \ {0}
           /\ RecLen(p) \in Nat
           /\ RecLen(p) = Size[p] + 1
BY FlashlogAssumption DEF RecLen

\* What a history of records consists of.
LEMMA RecordType ==
    ASSUME NEW s \in Seq(Record), NEW i \in 1..Len(s)
    PROVE  /\ s[i] \in Record
           /\ s[i].off \in Nat
           /\ s[i].pay \in Payload
<1>1. s[i] \in Record
  OBVIOUS
<1> QED
  BY <1>1 DEF Record

\* What Decode finds at an offset is determined by the file: one payload at most.
LEMMA DecodeUnique ==
    ASSUME NEW f, NEW off \in Nat, NEW n \in Nat, NEW p \in Payload, NEW q \in Payload,
           Decodes(f, off, n, p), Decodes(f, off, n, q)
    PROVE  p = q
<1>1. f[off + 1] = BodyCell(n, p, 1)
  BY RecLenType DEF Decodes
<1>2. f[off + 1] = BodyCell(n, q, 1)
  BY RecLenType DEF Decodes
<1> QED
  BY <1>1, <1>2 DEF BodyCell

\* A file that agrees with another up to offset e has the same whole records there.
LEMMA WholeBelow ==
    ASSUME NEW f, NEW g, NEW s \in Seq(Record), NEW e \in Nat,
           \A i \in 1..Len(s) : s[i].off + RecLen(s[i].pay) <= e,
           \A i \in Cells : i <= e => g[i] = f[i],
           Whole(f, s)
    PROVE  Whole(g, s)
<1> SUFFICES ASSUME NEW i \in 1..Len(s)
             PROVE  Decodes(g, s[i].off, i, s[i].pay)
  BY DEF Whole, Holds
<1> DEFINE o == s[i].off
           p == s[i].pay
<1>1. o \in Nat /\ p \in Payload
  BY RecordType
<1> HIDE DEF o, p
<1>a. Size[p] \in Nat \ {0} /\ RecLen(p) = Size[p] + 1 /\ Cap \in Nat
  BY <1>1, RecLenType, FlashlogAssumption
<1>2. Decodes(f, o, i, p)
  BY DEF Whole, Holds, o, p
<1>3. o + RecLen(p) <= e
  BY DEF o, p
<1>4. ASSUME NEW k \in 1..RecLen(p)
      PROVE  g[o + k] = f[o + k]
  <2>1. o + k \in Cells /\ o + k <= e
    BY <1>1, <1>a, <1>2, <1>3 DEF Decodes, Cells
  <2> QED
    BY <2>1
<1>5. Decodes(g, o, i, p)
  <2>1. o + RecLen(p) <= Cap
    BY <1>2 DEF Decodes
  <2>2. ASSUME NEW k \in 1..Size[p]
        PROVE  g[o + k] = BodyCell(i, p, k)
    <3>1. k \in 1..RecLen(p)
      BY <1>a
    <3>2. f[o + k] = BodyCell(i, p, k)
      BY <1>2 DEF Decodes
    <3> QED
      BY <1>4, <3>1, <3>2
  <2>3. g[o + RecLen(p)] \in Marker
    <3>1. RecLen(p) \in 1..RecLen(p)
      BY <1>a
    <3>2. f[o + RecLen(p)] \in Marker
      BY <1>2 DEF Decodes
    <3>3. g[o + RecLen(p)] = f[o + RecLen(p)]
      BY <1>4, <3>1
    <3> QED
      BY <3>2, <3>3
  <2> QED
    BY <2>1, <2>2, <2>3 DEF Decodes
<1> QED
  BY <1>5 DEF o, p

\* Appending a record that begins at the end of a history keeps it a chain
\* and moves its end past the record.
LEMMA AppendPlaced ==
    ASSUME NEW s \in Seq(Record), NEW p \in Payload, Chain(s), Bounded(s), EndOf(s) \in Nat
    PROVE  LET t == Append(s, [pay |-> p, off |-> EndOf(s)])
           IN  /\ t \in Seq(Record)
               /\ Chain(t)
               /\ Bounded(t)
               /\ EndOf(t) = EndOf(s) + RecLen(p)
               /\ Extends(t, s)
<1> DEFINE r == [pay |-> p, off |-> EndOf(s)]
           t == Append(s, r)
<1>1. r \in Record /\ t \in Seq(Record) /\ Len(t) = Len(s) + 1 /\ Len(s) \in Nat
  BY DEF Record
<1>2. t[Len(s) + 1] = r /\ \A i \in 1..Len(s) : t[i] = s[i]
  OBVIOUS
<1>3. EndOf(t) = EndOf(s) + RecLen(p)
  BY <1>1, <1>2 DEF EndOf
<1>4. Chain(t)
  BY <1>1, <1>2 DEF Chain, EndOf
<1>5. RecLen(p) \in Nat
  BY RecLenType
<1>6. \A i \in 1..Len(s) : s[i].off \in Nat /\ RecLen(s[i].pay) \in Nat
  BY RecordType, RecLenType
<1>7. Bounded(t)
  <2> SUFFICES ASSUME NEW i \in 1..Len(t)
               PROVE  t[i].off + RecLen(t[i].pay) <= EndOf(t)
    BY DEF Bounded
  <2>1. CASE i \in 1..Len(s)
    <3>1. s[i].off + RecLen(s[i].pay) <= EndOf(s)
      BY <2>1 DEF Bounded
    <3> QED
      BY <1>2, <1>3, <1>5, <1>6, <2>1, <3>1
  <2>2. CASE i = Len(s) + 1
    BY <1>2, <1>3, <1>5, <2>2
  <2> QED
    BY <1>1, <2>1, <2>2
<1>8. Extends(t, s)
  BY <1>1, <1>2 DEF Extends
<1> QED
  BY <1>1, <1>3, <1>4, <1>7, <1>8

\* The files that a system call produces are files.
LEMMA CellType ==
    ASSUME NEW n \in Nat, NEW p \in Payload, NEW k \in Nat
    PROVE  /\ BodyCell(n, p, k) \in Cell
           /\ MarkerCell(n, p) \in Cell
           /\ MarkerCell(n, p) \in Marker
           /\ Junk \in Cell
BY DEF BodyCell, MarkerCell, Cell, Marker

\* Writing a body leaves a file.
LEMMA BodyWrittenType ==
    ASSUME TypeOK, NEW n \in Nat
    PROVE  BodyWritten(n) \in [Cells -> Cell]
<1> SUFFICES ASSUME NEW i \in Cells
             PROVE  (IF i \in (end + 1)..(end + n)
                     THEN BodyCell(Len(known) + 1, cur, i - end) ELSE cache[i]) \in Cell
  BY DEF BodyWritten
<1>1. CASE i \in (end + 1)..(end + n)
  <2>1. end \in Nat /\ i - end \in Nat
    BY <1>1, FlashlogAssumption DEF TypeOK, Cells
  <2>2. Len(known) + 1 \in Nat /\ cur \in Payload
    BY DEF TypeOK
  <2> QED
    BY <1>1, <2>1, <2>2, CellType
<1>2. CASE i \notin (end + 1)..(end + n)
  BY <1>2 DEF TypeOK
<1> QED
  BY <1>1, <1>2

\* Every step keeps the variables in their types.
LEMMA TypeStep ==
    ASSUME TypeOK, InTheMaking, [Next]_vars
    PROVE  TypeOK'
<1> USE DEF TypeOK
<1>0. Cap \in Nat /\ end \in Nat /\ Len(known) + 1 \in Nat /\ RecLen(cur) \in Nat /\ Size[cur] \in Nat
  BY FlashlogAssumption, RecLenType
<1>1. CASE Open
  BY <1>1, <1>0 DEF Open, PcBooting, PcAppending
<1>2. ASSUME NEW p \in Payload, ReplayRecord(p)
      PROVE  TypeOK'
  <2>1. [pay |-> p, off |-> end] \in Record
    BY <1>0 DEF Record
  <2>2. end + RecLen(p) \in 0..Cap
    BY <1>0, <1>2, RecLenType DEF ReplayRecord, Decodes
  <2> QED
    BY <1>2, <2>1, <2>2 DEF ReplayRecord, PcBooting, PcAppending
<1>3. ASSUME NEW p \in Payload, ReplayRefused(p)
      PROVE  TypeOK'
  BY <1>3 DEF ReplayRefused, PcBooting, PcAppending
<1>4. CASE ReplayDone
  BY <1>4, CellType DEF ReplayDone, PcBooting, PcAppending, Cell
<1>5. CASE ReplayTruncateFails
  BY <1>5 DEF ReplayTruncateFails, PcBooting, PcAppending
<1>6. ASSUME NEW p \in Payload, AppendStart(p)
      PROVE  TypeOK'
  BY <1>6 DEF AppendStart, PcBooting, PcAppending
<1>7. CASE WriteBody
  BY <1>7, <1>0, BodyWrittenType DEF WriteBody, PcBooting, PcAppending
<1>8. CASE WriteBodyFails
  <2>1. PICK n \in 0..Size[cur] : cache' = BodyWritten(n)
    BY <1>8 DEF WriteBodyFails
  <2>2. cache' \in [Cells -> Cell]
    BY <1>0, <2>1, BodyWrittenType
  <2> QED
    BY <1>8, <2>2 DEF WriteBodyFails, PcBooting, PcAppending
<1>9. CASE SyncBody
  BY <1>9 DEF SyncBody, PcBooting, PcAppending
<1>10. CASE WriteMarker
  BY <1>10, <1>0, CellType DEF WriteMarker, PcBooting, PcAppending
<1>11. CASE WriteMarkerFails
  <2>1. end + RecLen(cur) \in Cells
    BY <1>11, <1>0, RecLenType DEF WriteMarkerFails, InTheMaking, PcAppending, Cells
  <2>2. cache[end + RecLen(cur)] \in Cell
    BY <2>1
  <2>3. PICK c \in Cell : cache' = [cache EXCEPT ![end + RecLen(cur)] = c]
    BY <1>11, <1>0, <2>2, CellType DEF WriteMarkerFails
  <2> QED
    BY <1>11, <2>3 DEF WriteMarkerFails, PcBooting, PcAppending
<1>12. CASE SyncMarker
  <2>1. [pay |-> cur, off |-> end] \in Record
    BY <1>0 DEF Record
  <2>2. end + RecLen(cur) \in 0..Cap
    BY <1>0, <1>12 DEF SyncMarker, InTheMaking, PcAppending
  <2> QED
    BY <1>12, <2>1, <2>2 DEF SyncMarker, PcBooting, PcAppending
<1>13. CASE SyncFails
  BY <1>13 DEF SyncFails, PcBooting, PcAppending
<1>14. ASSUME NEW i \in Cells, WriteBack(i)
       PROVE  TypeOK'
  BY <1>14 DEF WriteBack
<1>15. CASE ProcessStops
  BY <1>15 DEF ProcessStops, PcBooting
<1>16. CASE PowerFails
  BY <1>16 DEF PowerFails, PcBooting
<1>17. CASE UNCHANGED vars
  BY <1>17 DEF vars
<1> QED
  BY <1>1, <1>2, <1>3, <1>4, <1>5, <1>6, <1>7, <1>8, <1>9, <1>10, <1>11, <1>12,
     <1>13, <1>14, <1>15, <1>16, <1>17 DEF Next

\* While the service is up, every promised record ends at or before end.
LEMMA PromisedBelowEnd ==
    ASSUME TypeOK, Up, KnownPlaced, Extends(known, promised)
    PROVE  \A i \in 1..Len(promised) : promised[i].off + RecLen(promised[i].pay) <= end
BY DEF Up, PcBooting, KnownPlaced, Extends, Bounded

\* A write that leaves the cells up to end alone keeps every history whole.
LEMMA WriteAfterEnd ==
    ASSUME IInv, Up, \A i \in Cells : i <= end => cache'[i] = cache[i]
    PROVE  Whole(cache', promised) /\ Whole(cache', known)
<1>1. end \in Nat /\ known \in Seq(Record) /\ promised \in Seq(Record)
  BY DEF IInv, TypeOK
<1>2. \A i \in 1..Len(promised) : promised[i].off + RecLen(promised[i].pay) <= end
  BY PromisedBelowEnd DEF IInv
<1>3. \A i \in 1..Len(known) : known[i].off + RecLen(known[i].pay) <= end
  BY DEF IInv, KnownPlaced, Bounded, Up, PcBooting
<1>4. Whole(cache, promised) /\ Whole(cache, known)
  BY DEF IInv, PromisedPlaced, KnownPlaced, Up, PcBooting
<1> QED
  BY <1>1, <1>2, <1>3, <1>4, WholeBelow

\* Only the pc moves, away from the file: the invariant holds whatever it is.
LEMMA OnlyPcMoves ==
    ASSUME IInv, TypeOK', pc' \in {"down", "ready"}, pc' = "ready" => Up,
           UNCHANGED <<disk, cache, cur, end, known, promised>>
    PROVE  IInv'
<1>1. PromisedPlaced'
  BY DEF IInv, PromisedPlaced, Chain, Whole, Holds, Decodes, RecLen
<1>2. KnownPlaced'
  BY DEF IInv, KnownPlaced, Up, PcBooting, Chain, Whole, Holds, Decodes, RecLen, Bounded, EndOf
<1>3. ReplayAgrees'
  BY DEF ReplayAgrees
<1>4. Up' => Extends(known, promised)'
  BY DEF IInv, Up, PcBooting, Extends
<1>5. InTheMaking'
  BY DEF InTheMaking, PcAppending
<1> QED
  BY <1>1, <1>2, <1>3, <1>4, <1>5 DEF IInv

\* A write past end by the running service, with the pc on any line of Append.
LEMMA CacheWrite ==
    ASSUME IInv, TypeOK', InTheMaking', Up, Up',
           \A i \in Cells : i <= end => cache'[i] = cache[i],
           UNCHANGED <<disk, cur, end, known, promised>>
    PROVE  IInv'
<1>1. Whole(cache', promised) /\ Whole(cache', known)
  BY WriteAfterEnd
<1>2. PromisedPlaced'
  BY <1>1 DEF IInv, PromisedPlaced, Chain, Whole, Holds, Decodes, RecLen
<1>3. KnownPlaced'
  <2>1. end = EndOf(known) /\ Bounded(known) /\ Chain(known)
    BY DEF IInv, KnownPlaced, Up, PcBooting
  <2> QED
    BY <1>1, <2>1 DEF KnownPlaced, Chain, Bounded, EndOf, RecLen, Whole, Holds, Decodes
<1>4. ReplayAgrees'
  BY DEF ReplayAgrees, Up, PcBooting
<1>5. Extends(known, promised)'
  BY DEF IInv, Extends
<1> QED
  BY <1>2, <1>3, <1>4, <1>5 DEF IInv

\* Replay delivers the promised history first: as long as some of it is
\* missing, the next promised record is what Decode finds.
LEMMA NextPromised ==
    ASSUME IInv, pc = "replay", Extends(promised, known), Len(known) < Len(promised)
    PROVE  LET i == Len(known) + 1
           IN  /\ i \in 1..Len(promised)
               /\ promised[i] \in Record
               /\ promised[i].off = end
               /\ Decodes(cache, end, i, promised[i].pay)
<1> DEFINE i == Len(known) + 1
<1>1. known \in Seq(Record) /\ promised \in Seq(Record) /\ Len(known) \in Nat /\ Len(promised) \in Nat
  BY DEF IInv, TypeOK
<1>2. i \in 1..Len(promised) /\ promised[i] \in Record
  BY <1>1
<1>3. promised[i].off = IF i = 1 THEN 0 ELSE promised[i-1].off + RecLen(promised[i-1].pay)
  BY <1>2 DEF IInv, PromisedPlaced, Chain
<1>4. end = IF Len(known) = 0 THEN 0
            ELSE known[Len(known)].off + RecLen(known[Len(known)].pay)
  BY DEF IInv, KnownPlaced, EndOf
<1>5. Len(known) # 0 => known[Len(known)] = promised[i-1]
  BY <1>1 DEF Extends
<1>6. promised[i].off = end
  BY <1>1, <1>3, <1>4, <1>5
<1>7. Decodes(cache, promised[i].off, i, promised[i].pay)
  BY <1>2 DEF IInv, PromisedPlaced, Whole, Holds
<1> QED
  BY <1>2, <1>6, <1>7

\* Replay reads one more record: it is the next acknowledged one if any is left.
LEMMA Step_ReplayRecord ==
    ASSUME IInv, TypeOK', NEW p \in Payload, ReplayRecord(p)
    PROVE  IInv'
<1>1. /\ pc = "replay" /\ pc' = "replay"
      /\ Decodes(cache, end, Len(known) + 1, p)
      /\ known' = Append(known, [pay |-> p, off |-> end])
      /\ end' = end + RecLen(p)
      /\ UNCHANGED <<disk, cache, cur, promised>>
  BY DEF ReplayRecord
<1>2. /\ known \in Seq(Record) /\ promised \in Seq(Record) /\ end \in Nat
      /\ Len(known) \in Nat /\ Len(promised) \in Nat
  BY DEF IInv, TypeOK
<1>3. PromisedPlaced'
  BY <1>1 DEF IInv, PromisedPlaced, Chain, Whole, Holds, Decodes, RecLen
<1>4. end = EndOf(known) /\ Bounded(known) /\ Chain(known) /\ Whole(cache, known)
  BY <1>1 DEF IInv, KnownPlaced
<1>5. /\ Chain(known') /\ Bounded(known') /\ EndOf(known') = end' /\ Extends(known', known)
  BY <1>1, <1>2, <1>4, AppendPlaced
<1>6. Whole(cache, known')
  <2> SUFFICES ASSUME NEW i \in 1..Len(known')
               PROVE  Decodes(cache, known'[i].off, i, known'[i].pay)
    BY DEF Whole, Holds
  <2>1. CASE i \in 1..Len(known)
    BY <1>1, <1>2, <1>4, <2>1 DEF Whole, Holds
  <2>2. CASE i = Len(known) + 1
    BY <1>1, <1>2, <2>2
  <2> QED
    BY <1>1, <1>2, <2>1, <2>2
<1>7. KnownPlaced'
  BY <1>1, <1>5, <1>6 DEF KnownPlaced, Chain, Bounded, EndOf, RecLen, Whole, Holds, Decodes
<1>8. ReplayAgrees'
  <2>1. CASE Extends(known, promised)
    <3>1. Extends(known', promised)
      BY <1>1, <1>2, <2>1 DEF Extends
    <3> QED
      BY <1>1, <3>1 DEF ReplayAgrees, Extends
  <2>2. CASE Extends(promised, known) /\ Len(known) < Len(promised)
    <3> DEFINE i == Len(known) + 1
    <3>1. /\ i \in 1..Len(promised) /\ promised[i] \in Record
          /\ promised[i].off = end
          /\ Decodes(cache, end, i, promised[i].pay)
      BY <1>1, <2>2, NextPromised
    <3>2. promised[i].pay = p
      BY <1>1, <1>2, <3>1, DecodeUnique DEF Record
    <3>3. promised[i] = [pay |-> p, off |-> end]
      BY <3>1, <3>2 DEF Record
    <3>4. Extends(promised, known')
      BY <1>1, <1>2, <2>2, <3>3 DEF Extends
    <3> QED
      BY <1>1, <3>4 DEF ReplayAgrees, Extends
  <2>3. CASE Extends(promised, known) /\ ~(Len(known) < Len(promised))
    <3>1. Extends(known, promised)
      BY <1>2, <2>3 DEF Extends
    <3> QED
      BY <2>1, <3>1
  <2> QED
    BY <1>1, <2>1, <2>2, <2>3 DEF IInv, ReplayAgrees
<1>9. ~Up' /\ InTheMaking'
  BY <1>1 DEF Up, PcBooting, InTheMaking, PcAppending
<1> QED
  BY <1>3, <1>7, <1>8, <1>9 DEF IInv

\* Replay stops only when no acknowledged record is left.
LEMMA Step_ReplayDone ==
    ASSUME IInv, TypeOK', ReplayDone
    PROVE  IInv'
<1>1. /\ pc = "replay" /\ pc' = "ready"
      /\ \A p \in Payload : ~Decodes(cache, end, Len(known) + 1, p)
      /\ \A i \in Cells : i <= end => cache'[i] = cache[i]
      /\ UNCHANGED <<disk, cur, end, known, promised>>
  BY DEF ReplayDone
<1>2. /\ known \in Seq(Record) /\ promised \in Seq(Record) /\ end \in Nat
      /\ Len(known) \in Nat /\ Len(promised) \in Nat
  BY DEF IInv, TypeOK
<1>3. Extends(known, promised)
  <2>1. CASE Extends(promised, known) /\ Len(known) < Len(promised)
    BY <1>1, <2>1, NextPromised DEF Record
  <2>2. CASE Extends(promised, known) /\ ~(Len(known) < Len(promised))
    BY <1>2, <2>2 DEF Extends
  <2> QED
    BY <1>1, <2>1, <2>2 DEF IInv, ReplayAgrees
<1>4. end = EndOf(known) /\ Bounded(known) /\ Chain(known) /\ Whole(cache, known)
  BY <1>1 DEF IInv, KnownPlaced
<1>5. Whole(cache', known)
  BY <1>1, <1>2, <1>4, WholeBelow DEF Bounded
<1>6. Whole(cache', promised)
  <2>1. \A i \in 1..Len(promised) : promised[i].off + RecLen(promised[i].pay) <= end
    BY <1>2, <1>3, <1>4 DEF Extends, Bounded
  <2>2. Whole(cache, promised)
    BY DEF IInv, PromisedPlaced
  <2> QED
    BY <1>1, <1>2, <2>1, <2>2, WholeBelow
<1>7. PromisedPlaced'
  BY <1>1, <1>6 DEF IInv, PromisedPlaced, Chain, Whole, Holds, Decodes, RecLen
<1>8. KnownPlaced'
  BY <1>1, <1>4, <1>5 DEF KnownPlaced, Chain, Bounded, EndOf, RecLen, Whole, Holds, Decodes
<1>9. Extends(known, promised)'
  BY <1>1, <1>3 DEF Extends
<1>10. ReplayAgrees' /\ InTheMaking'
  BY <1>1 DEF ReplayAgrees, InTheMaking, PcAppending
<1> QED
  BY <1>7, <1>8, <1>9, <1>10 DEF IInv

\* The second sync acknowledges a record whose body was synced before its marker.
LEMMA Step_SyncMarker ==
    ASSUME IInv, TypeOK', SyncMarker
    PROVE  IInv'
<1>1. /\ pc = "markerSync" /\ pc' = "ready" /\ Up
      /\ disk' = cache
      /\ known' = Append(known, [pay |-> cur, off |-> end])
      /\ promised' = known'
      /\ end' = end + RecLen(cur)
      /\ UNCHANGED <<cache, cur>>
  BY DEF SyncMarker, Up, PcBooting
<1>2. /\ known \in Seq(Record) /\ end \in Nat /\ Len(known) \in Nat /\ cur \in Payload
  BY DEF IInv, TypeOK
<1>4. end = EndOf(known) /\ Bounded(known) /\ Chain(known) /\ Whole(cache, known)
  BY <1>1 DEF IInv, KnownPlaced
<1>5. /\ Chain(known') /\ Bounded(known') /\ EndOf(known') = end' /\ Extends(known', known)
  BY <1>1, <1>2, <1>4, AppendPlaced
<1>6. Whole(cache, known')
  <2> SUFFICES ASSUME NEW i \in 1..Len(known')
               PROVE  Decodes(cache, known'[i].off, i, known'[i].pay)
    BY DEF Whole, Holds
  <2>1. CASE i \in 1..Len(known)
    BY <1>1, <1>2, <1>4, <2>1 DEF Whole, Holds
  <2>2. CASE i = Len(known) + 1
    <3>1. Decodes(cache, end, Len(known) + 1, cur)
      BY <1>1 DEF IInv, InTheMaking, PcAppending, Decodes
    <3> QED
      BY <1>1, <1>2, <2>2, <3>1
  <2> QED
    BY <1>1, <1>2, <2>1, <2>2
<1>7. KnownPlaced'
  BY <1>1, <1>5, <1>6 DEF KnownPlaced, Chain, Bounded, EndOf, RecLen, Whole, Holds, Decodes
<1>8. PromisedPlaced'
  BY <1>1, <1>5, <1>6 DEF PromisedPlaced, Chain, Whole, Holds, Decodes, RecLen
<1>9. Extends(known, promised)'
  BY <1>1, <1>2 DEF Extends
<1>10. ReplayAgrees' /\ InTheMaking'
  BY <1>1 DEF ReplayAgrees, InTheMaking, PcAppending
<1> QED
  BY <1>7, <1>8, <1>9, <1>10 DEF IInv

\* A record whole in both copies of the file is whole in any mixture of them.
LEMMA Mixture ==
    ASSUME NEW f, NEW g, NEW h, NEW s \in Seq(Record), Whole(f, s), Whole(g, s),
           \A i \in Cells : h[i] \in {f[i], g[i]}
    PROVE  Whole(h, s)
<1> SUFFICES ASSUME NEW i \in 1..Len(s)
             PROVE  Decodes(h, s[i].off, i, s[i].pay)
  BY DEF Whole, Holds
<1> DEFINE o == s[i].off
           p == s[i].pay
<1>1. o \in Nat /\ p \in Payload /\ Decodes(f, o, i, p) /\ Decodes(g, o, i, p)
  BY RecordType DEF Whole, Holds
<1> HIDE DEF o, p
<1>2. Size[p] \in Nat \ {0} /\ RecLen(p) = Size[p] + 1 /\ Cap \in Nat
  BY <1>1, RecLenType, FlashlogAssumption
<1>3. o + RecLen(p) <= Cap
  BY <1>1 DEF Decodes
<1>4. ASSUME NEW k \in 1..Size[p]
      PROVE  h[o + k] = BodyCell(i, p, k)
  <2>1. o + k \in Cells
    BY <1>1, <1>2, <1>3 DEF Cells
  <2>2. f[o + k] = BodyCell(i, p, k) /\ g[o + k] = BodyCell(i, p, k)
    BY <1>1 DEF Decodes
  <2> QED
    BY <2>1, <2>2
<1>5. h[o + RecLen(p)] \in Marker
  <2>1. o + RecLen(p) \in Cells
    BY <1>1, <1>2, <1>3 DEF Cells
  <2>2. f[o + RecLen(p)] \in Marker /\ g[o + RecLen(p)] \in Marker
    BY <1>1 DEF Decodes
  <2> QED
    BY <2>1, <2>2
<1>6. Decodes(h, o, i, p)
  BY <1>3, <1>4, <1>5 DEF Decodes
<1> QED
  BY <1>6 DEF o, p

\* A step that changes nothing but the disk, to a mixture of disk and cache or
\* to the cache, keeps the invariant.
LEMMA DiskMoves ==
    ASSUME IInv, TypeOK', InTheMaking', Up' = Up, pc' = pc \/ (Up /\ Up'),
           Whole(disk', promised),
           UNCHANGED <<cache, cur, end, known, promised>>
    PROVE  IInv'
<1>1. PromisedPlaced'
  BY DEF IInv, PromisedPlaced, Chain, Whole, Holds, Decodes, RecLen
<1>2. KnownPlaced'
  BY DEF IInv, KnownPlaced, Up, PcBooting, Chain, Whole, Holds, Decodes, RecLen, Bounded, EndOf
<1>3. ReplayAgrees'
  BY DEF IInv, ReplayAgrees, Up, PcBooting, Extends
<1>4. Up' => Extends(known, promised)'
  BY DEF IInv, Up, PcBooting, Extends
<1> QED
  BY <1>1, <1>2, <1>3, <1>4 DEF IInv

\* An empty journal satisfies the invariant.
LEMMA IInvInit ==
    ASSUME Init
    PROVE  IInv
<1>1. TypeOK
  BY FlashlogAssumption DEF Init, TypeOK, Cell, Cells, PcBooting
<1>2. known = <<>> /\ promised = <<>> /\ pc = "down"
  BY DEF Init
<1>3. PromisedPlaced /\ KnownPlaced /\ ReplayAgrees
  BY <1>2 DEF PromisedPlaced, Chain, Whole, KnownPlaced, ReplayAgrees
<1>4. ~Up /\ InTheMaking
  BY <1>2 DEF Up, PcBooting, InTheMaking, PcAppending
<1> QED
  BY <1>1, <1>3, <1>4 DEF IInv

\* Every step keeps the invariant.
LEMMA IInvStep ==
    ASSUME IInv, [Next]_vars
    PROVE  IInv'
<1>0. TypeOK'
  BY TypeStep DEF IInv
<1>a. /\ end \in Nat /\ Len(known) \in Nat /\ cur \in Payload
      /\ RecLen(cur) = Size[cur] + 1 /\ Size[cur] \in Nat \ {0}
      /\ cache \in [Cells -> Cell] /\ promised \in Seq(Record)
  BY RecLenType DEF IInv, TypeOK
<1>1. CASE Open
  <2>1. PromisedPlaced'
    BY <1>1 DEF Open, IInv, PromisedPlaced, Chain, Whole, Holds, Decodes, RecLen
  <2>2. KnownPlaced'
    BY <1>1 DEF Open, KnownPlaced, EndOf, Bounded, Chain, Whole
  <2>3. ReplayAgrees'
    BY <1>1, <1>a DEF Open, ReplayAgrees, Extends
  <2>4. ~Up' /\ InTheMaking'
    BY <1>1 DEF Open, Up, PcBooting, InTheMaking, PcAppending
  <2> QED
    BY <1>0, <2>1, <2>2, <2>3, <2>4 DEF IInv
<1>2. ASSUME NEW p \in Payload, ReplayRecord(p)
      PROVE  IInv'
  BY <1>0, <1>2, Step_ReplayRecord
<1>3. ASSUME NEW p \in Payload, ReplayRefused(p)
      PROVE  IInv'
  BY <1>0, <1>3, OnlyPcMoves DEF ReplayRefused
<1>4. CASE ReplayDone
  BY <1>0, <1>4, Step_ReplayDone
<1>5. CASE ReplayTruncateFails
  BY <1>0, <1>5, OnlyPcMoves DEF ReplayTruncateFails
<1>6. ASSUME NEW p \in Payload, AppendStart(p)
      PROVE  IInv'
  <2>1. /\ pc = "ready" /\ pc' = "body" /\ Up /\ Up' /\ end + RecLen(p) <= Cap /\ cur' = p
        /\ UNCHANGED <<disk, cache, end, known, promised>>
    BY <1>6 DEF AppendStart, Up, PcBooting
  <2>2. PromisedPlaced'
    BY <2>1 DEF IInv, PromisedPlaced, Chain, Whole, Holds, Decodes, RecLen
  <2>3. KnownPlaced'
    BY <2>1 DEF IInv, KnownPlaced, Chain, Whole, Holds, Decodes, RecLen, Bounded, EndOf
  <2>4. ReplayAgrees' /\ Extends(known, promised)'
    BY <2>1 DEF IInv, ReplayAgrees, Extends
  <2>5. InTheMaking'
    BY <2>1 DEF InTheMaking, PcAppending, RecLen
  <2> QED
    BY <1>0, <2>2, <2>3, <2>4, <2>5 DEF IInv
<1>7. CASE WriteBody
  <2>1. /\ pc = "body" /\ pc' = "bodySync" /\ Up /\ Up' /\ cache' = BodyWritten(Size[cur])
        /\ UNCHANGED <<disk, cur, end, known, promised>>
    BY <1>7 DEF WriteBody, Up, PcBooting
  <2>2. end + RecLen(cur) <= Cap
    BY <2>1 DEF IInv, InTheMaking, PcAppending
  <2>3. \A i \in Cells : i <= end => cache'[i] = cache[i]
    BY <1>a, <2>1 DEF BodyWritten
  <2>4. \A k \in 1..Size[cur] : cache'[end + k] = BodyCell(Len(known) + 1, cur, k)
    <3> TAKE k \in 1..Size[cur]
    <3>1. end + k \in Cells /\ end + k \in (end + 1)..(end + Size[cur]) /\ (end + k) - end = k
      BY <1>a, <2>2, FlashlogAssumption DEF Cells
    <3> QED
      BY <2>1, <3>1 DEF BodyWritten
  <2>5. InTheMaking'
    BY <2>1, <2>2, <2>4 DEF InTheMaking, PcAppending, RecLen, BodyCell
  <2> QED
    BY <1>0, <2>1, <2>3, <2>5, CacheWrite
<1>8. CASE WriteBodyFails
  <2>1. PICK n \in 0..Size[cur] : cache' = BodyWritten(n)
    BY <1>8 DEF WriteBodyFails
  <2>2. \A i \in Cells : i <= end => cache'[i] = cache[i]
    BY <1>a, <2>1 DEF BodyWritten
  <2> QED
    BY <1>0, <1>8, <2>2, CacheWrite DEF WriteBodyFails, InTheMaking, PcAppending, Up, PcBooting
<1>9. CASE SyncBody
  <2>1. Whole(disk', promised)
    BY <1>9 DEF SyncBody, IInv, PromisedPlaced
  <2>2. InTheMaking'
    BY <1>9 DEF SyncBody, IInv, InTheMaking, PcAppending, RecLen
  <2> QED
    BY <1>0, <1>9, <2>1, <2>2, DiskMoves DEF SyncBody, Up, PcBooting
<1>10. CASE WriteMarker
  <2>1. /\ pc = "marker" /\ pc' = "markerSync" /\ Up /\ Up'
        /\ cache' = [cache EXCEPT ![end + RecLen(cur)] = MarkerCell(Len(known) + 1, cur)]
        /\ UNCHANGED <<disk, cur, end, known, promised>>
    BY <1>10 DEF WriteMarker, Up, PcBooting
  <2>2. end + RecLen(cur) <= Cap /\ end + RecLen(cur) \in Cells
    BY <1>a, <2>1 DEF IInv, InTheMaking, PcAppending, Cells
  <2>3. \A i \in Cells : i < end + RecLen(cur) => cache'[i] = cache[i]
    BY <1>a, <2>1
  <2>4. cache'[end + RecLen(cur)] \in Marker
    BY <1>a, <2>1, <2>2, CellType
  <2>5. \A k \in 1..Size[cur] : cache'[end + k] = BodyCell(Len(known) + 1, cur, k)
    <3> TAKE k \in 1..Size[cur]
    <3>1. end + k \in Cells /\ end + k < end + RecLen(cur)
      BY <1>a, <2>2, FlashlogAssumption DEF Cells
    <3>2. cache[end + k] = BodyCell(Len(known) + 1, cur, k)
      BY <2>1 DEF IInv, InTheMaking
    <3> QED
      BY <2>3, <3>1, <3>2
  <2>6. InTheMaking'
    BY <2>1, <2>2, <2>4, <2>5 DEF InTheMaking, PcAppending, RecLen, BodyCell
  <2>7. \A i \in Cells : i <= end => cache'[i] = cache[i]
    BY <1>a, <2>3 DEF Cells
  <2> QED
    BY <1>0, <2>1, <2>6, <2>7, CacheWrite
<1>11. CASE WriteMarkerFails
  <2>1. /\ pc = "marker" /\ pc' = "ready" /\ Up /\ Up'
        /\ UNCHANGED <<disk, cur, end, known, promised>>
    BY <1>11 DEF WriteMarkerFails, Up, PcBooting
  <2>2. PICK c : cache' = [cache EXCEPT ![end + RecLen(cur)] = c]
    BY <1>11 DEF WriteMarkerFails
  <2>3. \A i \in Cells : i <= end => cache'[i] = cache[i]
    BY <1>a, <2>2 DEF Cells
  <2>4. InTheMaking'
    BY <2>1 DEF InTheMaking, PcAppending
  <2> QED
    BY <1>0, <2>1, <2>3, <2>4, CacheWrite
<1>12. CASE SyncMarker
  BY <1>0, <1>12, Step_SyncMarker
<1>13. CASE SyncFails
  BY <1>0, <1>13, OnlyPcMoves DEF SyncFails, Up, PcBooting
<1>14. ASSUME NEW i \in Cells, WriteBack(i)
       PROVE  IInv'
  <2>1. \A j \in Cells : disk'[j] \in {disk[j], cache[j]}
    BY <1>14 DEF WriteBack, IInv, TypeOK
  <2>2. Whole(disk', promised)
    BY <1>a, <2>1, Mixture DEF IInv, PromisedPlaced
  <2>3. InTheMaking'
    BY <1>14 DEF WriteBack, IInv, InTheMaking, RecLen
  <2> QED
    BY <1>0, <1>14, <2>2, <2>3, DiskMoves DEF WriteBack, Up, PcBooting
<1>15. CASE ProcessStops
  BY <1>0, <1>15, OnlyPcMoves DEF ProcessStops
<1>16. CASE PowerFails
  <2>1. PromisedPlaced'
    BY <1>16 DEF PowerFails, IInv, PromisedPlaced, Chain, Whole, Holds, Decodes, RecLen
  <2>2. KnownPlaced' /\ ReplayAgrees' /\ ~Up' /\ InTheMaking'
    BY <1>16 DEF PowerFails, KnownPlaced, ReplayAgrees, Up, PcBooting, InTheMaking, PcAppending
  <2> QED
    BY <1>0, <2>1, <2>2 DEF IInv
<1>17. CASE UNCHANGED vars
  BY <1>17 DEF vars, IInv, TypeOK, PromisedPlaced, KnownPlaced, ReplayAgrees, InTheMaking, Up,
               Chain, Whole, Holds, Decodes, RecLen, Bounded, EndOf, Extends
<1> QED
  BY <1>1, <1>2, <1>3, <1>4, <1>5, <1>6, <1>7, <1>8, <1>9, <1>10, <1>11, <1>12,
     <1>13, <1>14, <1>15, <1>16, <1>17 DEF Next

\* The invariant holds throughout.
LEMMA Invariance == Spec => []IInv
<1>1. Init => IInv
  BY IInvInit
<1>2. IInv /\ [Next]_vars => IInv'
  BY IInvStep
<1> QED
  BY <1>1, <1>2, PTL DEF Spec

\* The file, the cursors and the histories stay in their types (Journal in
\* flashlog.go): in particular no append carries end past the capacity.
THEOREM TypeCorrect == Spec => []TypeOK
<1>1. IInv => TypeOK
  BY DEF IInv
<1> QED
  BY <1>1, Invariance, PTL

\* What Append acknowledged is whole on the medium whatever fails afterwards.
THEOREM AckedSurvive == Spec => []AckedDurable
<1>1. IInv => AckedDurable
  BY DEF IInv, PromisedPlaced, Whole, AckedDurable
<1> QED
  BY <1>1, Invariance, PTL

\* A booted service has every acknowledged record and appends after its last one.
THEOREM BootComplete == Spec => []BootsWithAllAcked
<1>1. IInv => BootsWithAllAcked
  BY DEF IInv, BootsWithAllAcked, KnownPlaced, Up, PcBooting
<1> QED
  BY <1>1, Invariance, PTL

\* The file implements the contract of storage.Journal: every step of Append,
\* Replay and the failures is a step of DurableLog or changes nothing it sees.
THEOREM ImplementsContract == Spec => ContractSpec
<1> DEFINE view == IF Up THEN known ELSE <<>>
<1>1. Init => Contract!Init
  BY DEF Init, Contract!Init, Up, PcBooting
<1>2. ASSUME IInv, IInv', [Next]_vars
      PROVE  [Contract!Next]_(Contract!vars)
  <2>0. known \in Seq(Record) /\ Len(known) \in Nat
    BY <1>2 DEF IInv, TypeOK
  <2>1. CASE ReplayDone
    <3>1. ~Up /\ Up' /\ view' = known' /\ promised' = promised
      BY <2>1 DEF ReplayDone, Up, PcBooting
    <3>2. known' \in Seq(Record) /\ Extends(known', promised')
      BY <1>2, <3>1 DEF IInv, TypeOK
    <3>3. Contract!StartsWith(view', promised)
      BY <3>1, <3>2 DEF Contract!StartsWith, Extends
    <3>4. Contract!Boot
      BY <3>1, <3>2, <3>3 DEF Contract!Boot
    <3> QED
      BY <3>4 DEF Contract!Next
  <2>2. CASE SyncMarker
    <3>1. Up /\ Up' /\ view = known /\ view' = known' /\ promised' = known'
          /\ known' = Append(known, [pay |-> cur, off |-> end])
      BY <2>2 DEF SyncMarker, Up, PcBooting
    <3>2. [pay |-> cur, off |-> end] \in Record
      BY <1>2, FlashlogAssumption DEF IInv, TypeOK, Record
    <3>3. known' \in Seq(Record) /\ Len(known') = Len(known) + 1
      BY <2>0, <3>1, <3>2
    <3>4. \A i \in 1..Len(known) : known'[i] = known[i]
      BY <2>0, <3>1, <3>2
    <3>5. Contract!StartsWith(view', view)
      BY <2>0, <3>1, <3>3, <3>4 DEF Contract!StartsWith
    <3>6. Contract!Ack
      BY <3>1, <3>3, <3>5 DEF Contract!Ack
    <3> QED
      BY <3>6 DEF Contract!Next
  <2>3. CASE (ProcessStops \/ PowerFails) /\ Up
    <3>1. Up /\ ~Up' /\ view' = <<>> /\ promised' = promised
      BY <2>3 DEF ProcessStops, PowerFails, Up, PcBooting
    <3> QED
      BY <3>1 DEF Contract!Next, Contract!Stop
  <2>4. CASE (ProcessStops \/ PowerFails \/ Open) /\ ~Up
    <3>1. ~Up /\ ~Up' /\ promised' = promised
      BY <2>4 DEF ProcessStops, PowerFails, Open, Up, PcBooting
    <3>2. Up' = Up /\ view' = view
      BY <3>1 DEF Up
    <3> QED
      BY <3>1, <3>2 DEF Contract!vars
  <2>5. CASE \/ \E p \in Payload : ReplayRecord(p) \/ ReplayRefused(p)
             \/ ReplayTruncateFails
    <3>1. ~Up /\ ~Up' /\ promised' = promised
      BY <2>5 DEF ReplayRecord, ReplayRefused, ReplayTruncateFails, Up, PcBooting
    <3>2. Up' = Up /\ view' = view
      BY <3>1 DEF Up
    <3> QED
      BY <3>1, <3>2 DEF Contract!vars
  <2>6. CASE \/ \E p \in Payload : AppendStart(p)
             \/ WriteBody \/ WriteBodyFails \/ SyncBody
             \/ WriteMarker \/ WriteMarkerFails \/ SyncFails
    <3>1. Up /\ Up' /\ known' = known /\ promised' = promised
      BY <2>6 DEF AppendStart, WriteBody, WriteBodyFails, SyncBody, WriteMarker,
                  WriteMarkerFails, SyncFails, Up, PcBooting
    <3>2. Up' = Up /\ view' = view
      BY <3>1 DEF Up
    <3> QED
      BY <3>1, <3>2 DEF Contract!vars
  <2>7. CASE (\E i \in Cells : WriteBack(i)) \/ UNCHANGED vars
    <3>1. Up' = Up /\ known' = known /\ promised' = promised
      BY <2>7 DEF WriteBack, vars, Up, PcBooting
    <3>2. Up' = Up /\ view' = view
      BY <3>1 DEF Up
    <3> QED
      BY <3>1, <3>2 DEF Contract!vars
  <2>8. Open => ~Up
    BY DEF Open, Up, PcBooting
  <2> QED
    BY <1>2, <2>1, <2>2, <2>3, <2>4, <2>5, <2>6, <2>7, <2>8 DEF Next
<1> QED
  BY <1>1, <1>2, Invariance, PTL DEF Spec, ContractSpec, Contract!Spec

=============================================================================
