----------------------------- MODULE RunArchive -----------------------------
(***************************************************************************)
(* One archive of typescript/src/memory/run-archive.ts: the events file    *)
(* with its hash chain, the manifest that seals it, the writer of the      *)
(* session that began the run and the processes that later open the store  *)
(* and recover it, also while the writer or another recovery is at work:   *)
(* nothing locks an archive.  One action is one file operation; a process  *)
(* may die before each, or inside a write, and an append may fail half-way *)
(* in a process that goes on.                                              *)
(*                                                                         *)
(* The hash of a line is the sequence of the bodies it chains (no          *)
(* collisions); bytes are compared as lines.                               *)
(***************************************************************************)
EXTENDS Naturals, Sequences, SequencesExt, FiniteSets, FiniteSetsExt

CONSTANTS
    Process,
    Session,    \* the process that begins the run; the others open the store
    Settled,    \* how it may settle it
    MaxRecords, \* bound of the model: records before the settlement
    MaxFaults,  \* bound of the model: deaths and failed writes
    NoSeal      \* what an open archive has for a state

ASSUME SettledAssumption == Settled \subseteq {"terminal", "cancelled", "failed"}
ASSUME ArchiveBounds == MaxRecords \in Nat /\ MaxFaults \in Nat

VARIABLES
    created,  \* the run's directory exists
    events,   \* events.jsonl, by lines
    manifest, \* manifest.json
    proc,     \* what each process is doing, with its writer's fields
    acked,    \* what append() acknowledged as long as the archive was sound, as a chain
    sound,    \* history: see Alone, WriteFails and Crash
    faults

archiveVars == <<created, events, manifest, proc, acked, sound, faults>>

State == {"terminal", "cancelled", "failed", "interrupted"}
Body == {"event"} \cup State

Absent == [form |-> "absent"]
Torn == [form |-> "torn"]

\* A process that holds nothing of the archive any more, or not yet.
Away == {"off", "closed"}
Busy == {"idle", "scanning", "truncating", "checking", "writing", "reading", "sealing", "signing"}

\* The writer's sequence, previousHash and the body it appends; seen is what
\* it read back of the file.
Fresh == [pc |-> "off", sequence |-> 0, previous |-> <<>>, body |-> "event", seen |-> <<>>]

Line(sequence, previous, body, form) ==
    [sequence |-> sequence, previous |-> previous, body |-> body, form |-> form]

Lines == [sequence : Nat, previous : Seq(Body), body : Body, form : {"line", "bare", "torn", "junk"}]

ArchiveTypeOK ==
    /\ created \in BOOLEAN /\ acked \in Seq(Body) /\ sound \in BOOLEAN /\ faults \in 0..MaxFaults
    /\ \A i \in DOMAIN events : events[i] \in Lines
    /\ \A i \in 1..Len(events) - 1 : events[i].form \in {"line", "junk"}
    /\ \/ manifest \in {Absent, Torn}
       \/ manifest.state \in State /\ manifest.count \in Nat
    /\ \A p \in Process : /\ proc[p].pc \in Away \cup Busy /\ proc[p].body \in Body
                         /\ proc[p].sequence \in Nat
    /\ ~created => events = <<>>

ArchiveInit ==
    /\ created = FALSE
    /\ events = <<>>
    /\ manifest = Absent
    /\ proc = [p \in Process |-> Fresh]
    /\ acked = <<>>
    /\ sound = TRUE
    /\ faults = 0

-----------------------------------------------------------------------------
(* The file.                                                               *)

Bodies(lines) == [i \in DOMAIN lines |-> lines[i].body]

\* Both the verification and the recovery read the chain line by line.
Chained(lines, n) ==
    \A i \in 1..n :
        /\ lines[i].form \in {"line", "bare"}
        /\ lines[i].sequence = i - 1
        /\ lines[i].previous = SubSeq(Bodies(lines), 1, i - 1)

\* The first n lines are chained, each with its newline.
Whole(lines, n) == Chained(lines, n) /\ \A i \in 1..n : lines[i].form = "line"

ValidPrefix(lines) == Max({n \in 0..Len(lines) : Chained(lines, n)})

\* Bytes after a line without a newline become part of that line.
Joined(lines, line) ==
    IF lines # <<>> /\ Last(lines).form \in {"bare", "torn"}
    THEN Append(Front(lines), [Last(lines) EXCEPT !.form = IF line.form = "line" THEN "junk" ELSE "torn"])
    ELSE Append(lines, line)

NextLine(p, form) == Line(proc[p].sequence, proc[p].previous, proc[p].body, form)

\* verifyArchiveBytes
Verifies(lines, seal) ==
    /\ lines = seal.bytes
    /\ Chained(lines, Len(lines))
    /\ Len(lines) = seal.count
    /\ Bodies(lines) = seal.head

-----------------------------------------------------------------------------
(* The session's writer.                                                   *)

\* A process that is done with the archive, or dead, has its writer's fields no more.
Enters(p, pc) ==
    proc' = [proc EXCEPT ![p] = IF pc \in Away THEN [Fresh EXCEPT !.pc = pc] ELSE [@ EXCEPT !.pc = pc]]

Alone(p) == \A q \in Process \ {p} : proc[q].pc \in Away

\* beginRun: the directory is made exclusively.
BeginRun(p) ==
    /\ proc[p].pc = "off" /\ p = Session
    /\ created' = TRUE
    /\ Enters(p, "idle")
    /\ UNCHANGED <<events, manifest, acked, sound, faults>>

\* The record of append or of settle, after requireUnsealed; settle asks once more
\* before its append, which adds nothing.
Writes(p, body) ==
    /\ IF manifest = Absent
       THEN proc' = [proc EXCEPT ![p].pc = "writing", ![p].body = body]
       ELSE Enters(p, "closed")
    /\ UNCHANGED <<created, events, manifest, acked, sound, faults>>

StartAppend(p) == proc[p].pc = "idle" /\ proc[p].sequence < MaxRecords /\ Writes(p, "event")

StartSettle(p, s) == proc[p].pc = "idle" /\ Writes(p, s)

\* The line is flushed before append returns.
WriteLine(p) ==
    /\ proc[p].pc = "writing"
    /\ events' = Joined(events, NextLine(p, "line"))
    /\ proc' = [proc EXCEPT ![p].pc = IF proc[p].body = "event" THEN "idle" ELSE "reading",
                            ![p].sequence = @ + 1,
                            ![p].previous = Append(@, proc[p].body)]
    /\ acked' = IF sound THEN Append(proc[p].previous, proc[p].body) ELSE acked
    /\ UNCHANGED <<created, manifest, sound, faults>>

\* What a write that does not return leaves of its line: nothing, some bytes, all of
\* it but the newline, or all of it.
Cut(p) == {events} \cup {Joined(events, NextLine(p, form)) : form \in {"torn", "bare", "line"}}

Bare(lines) == lines # <<>> /\ Last(lines).form = "bare"

\* append rejects a session's record, its write cut short or its sync() failed after
\* it, and the session goes on to settle later.
WriteFails(p) ==
    /\ proc[p].pc = "writing" /\ proc[p].body = "event" /\ faults < MaxFaults
    /\ events' \in Cut(p)
    /\ Enters(p, "idle")
    /\ sound' = (sound /\ events' = events)
    /\ faults' = faults + 1
    /\ UNCHANGED <<created, manifest, acked>>

ReadBack(p) ==
    /\ proc[p].pc = "reading"
    /\ proc' = [proc EXCEPT ![p].pc = "sealing", ![p].seen = events]
    /\ UNCHANGED <<created, events, manifest, acked, sound, faults>>

\* Whatever settled the run.
SealOfTerminal(p) == [form |-> "seal", bytes |-> proc[p].seen, count |-> proc[p].sequence,
                      head |-> proc[p].previous, state |-> "terminal"]

SealOf(p) == [form |-> "seal", bytes |-> proc[p].seen, count |-> proc[p].sequence,
              head |-> proc[p].previous, state |-> proc[p].body]

\* writeFile empties the file, or makes it, before it writes.
OpenManifest(p) ==
    /\ proc[p].pc = "sealing"
    /\ manifest' = Torn
    /\ Enters(p, "signing")
    /\ UNCHANGED <<created, events, acked, sound, faults>>

\* Over a manifest that another process wrote since, its end may stay.
WriteManifest(p) ==
    /\ proc[p].pc = "signing"
    /\ manifest' = SealOf(p) \/ (manifest # Torn /\ manifest' = Torn)
    /\ Enters(p, "closed")
    /\ UNCHANGED <<created, events, acked, sound, faults>>

-----------------------------------------------------------------------------
(* Opening the store.                                                      *)

\* Without a manifest the run is taken for interrupted, though its writer or another
\* recovery may be at work.
Opens(p, recovers) ==
    /\ proc[p].pc = "off" /\ created
    /\ Enters(p, IF recovers THEN "scanning" ELSE "closed")
    /\ sound' = (sound /\ (recovers => Alone(p)))
    /\ UNCHANGED <<created, events, manifest, acked, faults>>

\* A run without a record is not taken for one.
OpenNonEmpty(p) == Opens(p, manifest = Absent /\ events # <<>>)

\* A manifest, valid or not, means the archive is settled; recoverRun looks once more,
\* which adds nothing.
Open(p) == Opens(p, manifest = Absent)

ScanTo(p, n, torn, sequence) ==
    /\ proc[p].pc = "scanning"
    /\ proc' = [proc EXCEPT ![p].pc = IF torn THEN "truncating" ELSE "checking",
                            ![p].sequence = sequence,
                            ![p].previous = SubSeq(Bodies(events), 1, n)]
    /\ UNCHANGED <<created, events, manifest, acked, sound, faults>>

\* The causal prefix ends at the first line that does not parse or link.
Scan(p) ==
    ScanTo(p, ValidPrefix(events), ValidPrefix(events) < Len(events), ValidPrefix(events))

\* How many lines of the prefix that was scanned are still there.
Common(p) ==
    Max({n \in 0..Min({proc[p].sequence, Len(events)}) :
            Whole(events, n) /\ SubSeq(Bodies(events), 1, n) = SubSeq(proc[p].previous, 1, n)})

\* The file cut at the byte where the scanned prefix ended.  If that prefix is not
\* there any more, the byte lies anywhere behind what is left of it, within a line
\* or beyond the file's end.
CutAtPrefix(p) ==
    IF Common(p) = proc[p].sequence
    THEN {SubSeq(events, 1, Common(p))}
    ELSE UNION {{SubSeq(events, 1, n), Joined(SubSeq(events, 1, n), NextLine(p, "torn"))} :
                n \in Common(p)..Len(events)}

\* requireUnsealed of the recovery's settle.
CheckUnsealed(p) == proc[p].pc = "checking" /\ Writes(p, "interrupted")

\* The last valid line goes with the tail.
TruncateShort(p) ==
    /\ proc[p].pc = "truncating"
    /\ events' = SubSeq(events, 1, Common(p) - 1)
    /\ Enters(p, "checking")
    /\ UNCHANGED <<created, manifest, acked, sound, faults>>

Truncate(p) ==
    /\ proc[p].pc = "truncating"
    /\ events' \in CutAtPrefix(p)
    /\ Enters(p, "checking")
    /\ UNCHANGED <<created, manifest, acked, sound, faults>>

-----------------------------------------------------------------------------
\* The process dies, or gives up at an error; an append it was in may be cut short.
Crash(p) ==
    /\ proc[p].pc \notin Away /\ faults < MaxFaults
    /\ faults' = faults + 1
    /\ Enters(p, "closed")
    /\ events' \in IF proc[p].pc = "writing" THEN Cut(p) ELSE {events}
    /\ sound' = (sound /\ (events' # events => ~Bare(events')))
    /\ UNCHANGED <<created, manifest, acked>>

-----------------------------------------------------------------------------
ArchiveStep(p) ==
    \/ WriteLine(p) \/ ReadBack(p) \/ OpenManifest(p) \/ WriteManifest(p)
    \/ Open(p) \/ Scan(p) \/ Truncate(p) \/ CheckUnsealed(p)
    \/ \E s \in Settled : StartSettle(p, s)

ArchiveNext == \E p \in Process : BeginRun(p) \/ StartAppend(p) \/ ArchiveStep(p) \/ WriteFails(p) \/ Crash(p)

ArchiveSpec == ArchiveInit /\ [][ArchiveNext]_archiveVars

\* A process goes on, a session at last settles, and somebody opens the store again.
FairArchive == ArchiveSpec /\ \A p \in Process : WF_archiveVars(ArchiveStep(p))

-----------------------------------------------------------------------------
\* "Sealed archives offer only verified read/replay" (docs/adr/0015:18), which the code
\* keeps as long as the archive is sound: whatever then sealed it, after whichever
\* deaths in or between writes, passes verifyArchiveBytes.
SealedVerifies == sound /\ manifest \notin {Absent, Torn} => Verifies(events, manifest)

\* "Durable (flushed) before returning" (run-archive.ts:182): what append() acknowledged
\* of a sound archive stays a verifiable prefix, the very records in their order,
\* whatever befalls the archive later and whoever truncates it beside whom.
AcknowledgedKept ==
    /\ Len(acked) <= ValidPrefix(events)
    /\ SubSeq(Bodies(events), 1, Len(acked)) = acked

\* What a reader of the archive relies on.
ArchiveIsTrue == ArchiveTypeOK /\ SealedVerifies /\ AcknowledgedKept

Log == INSTANCE SealedLog WITH
    None <- NoSeal,
    log <- SubSeq(Bodies(events), 1, ValidPrefix(events)),
    seal <- IF manifest \in {Absent, Torn} THEN NoSeal ELSE manifest.state

\* Every step of writer, crashes and recoveries that leaves the archive sound is
\* one of the sealed log, or none: the verifiable prefix only grows, nothing is
\* added once sealed, and the seal is the last record's.
ImplementsLog == Log!Init /\ [][sound' => [Log!Next]_(Log!vars)]_archiveVars

\* An interrupted run does not stay open for ever: sealed by its session or a
\* recovery, or left with a manifest that reads as damaged.
ArchivesSettle == created ~> manifest # Absent
=============================================================================
