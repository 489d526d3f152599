------------------------------- MODULE AuditLog -------------------------------
(***************************************************************************)
(* The audit store (pkg/audit/audit.go): Log, with its rotation, and       *)
(* ApplyRetention, which archives what has expired and rewrites the active *)
(* file from memory.  The daemon keeps a store open for its whole life,    *)
(* and providaptctl opens a store of its own on the same directory to log  *)
(* one entry.  s.mu orders the operations of one process; between the two  *)
(* processes nothing does, so each system call is a step.  Files are       *)
(* inodes: a handle follows its file when another process renames it.      *)
(* Entries are numbered in the order of their timestamps.                  *)
(***************************************************************************)
EXTENDS Naturals, Sequences, SequencesExt, FiniteSets

CONSTANTS
    Cli,            \* providaptctl processes that may run at the same time
    MaxSize,        \* s.maxSize: entries kept in memory
    MaxFile,        \* s.maxFileSize, in entries
    MaxBackups,     \* s.maxBackups
    MaxEntries,     \* bound: entries logged
    MaxInodes,      \* bound: files created
    MaxSeconds,     \* bound: seconds in which a backup or an archive is named
    MaxFailures     \* bound: failing system calls and crashes

\* maxSize, maxFileSize and maxBackups are positive constants of New
ASSUME AuditAssumption ==
    /\ "daemon" \notin Cli
    /\ {MaxSize, MaxFile, MaxBackups, MaxInodes, MaxSeconds} \subseteq Nat \ {0}
    /\ {MaxEntries, MaxFailures} \subseteq Nat

VARIABLES
    content,        \* the entries of a file
    active,         \* the file at s.path, or 0
    backup,         \* the rotated file that is named by a second, or 0
    archive,        \* the entries of the archive that is named by a second
    second,         \* the latest second that a process has read from the clock
    fragments,      \* the files that end in a part of a line
    garbled,        \* the entries that follow such a part on its line
    created,        \* how many files were created
    logged,         \* how many entries were handed to Log
    cutoff,         \* entries up to this one have expired
    at,             \* where a process is
    handle,         \* s.f of a process: a file, or 0 when it is closed
    buffer,         \* s.entries of the daemon
    pending,        \* the entry a process is logging
    rotated,        \* rotatedPath of a process: the second in the name, or 0
    kept,           \* ApplyRetention: the entries that are written back
    fd,             \* ApplyRetention: the file being rewritten, and how many were
    failed,
    accepted,       \* history: entries for which Log returned nil
    byCli,          \* history: those that providaptctl logged
    bumped,         \* history: entries that left a full buffer
    removed,        \* history: pruned backups, and files that a rename replaced
    revived,        \* history: entries of a file that a failed rotation put back and
                    \* that the daemon did not hold in memory
    unread,         \* history: entries of the active file that a replay did not bring
                    \* to memory
    replaced,       \* history: entries of an archive that a later one of the same
                    \* second replaced
    rewrote,        \* history: ApplyRetention has truncated the active file
    incomplete,     \* history: the active file was truncated and not yet rewritten
    torn            \* history: entries that a crash found in memory only

auditVars == <<content, active, backup, archive, second, fragments, garbled, created, logged, cutoff, at,
               handle, buffer, pending, rotated, kept, fd, failed, accepted, byCli, bumped, removed,
               revived, unread, replaced, rewrote, incomplete, torn>>
text == <<content, fragments, garbled>>
retention == <<kept, fd, rewrote, incomplete, torn, archive, replaced, cutoff>>
lost == <<removed, revived, unread>>

Process == {"daemon"} \cup Cli
Inode == 1 .. MaxInodes
Entry == 1 .. MaxEntries
Second == 1 .. MaxSeconds

AuditInit ==
    /\ content = [i \in Inode |-> <<>>]
    /\ active = 1
    /\ backup = [s \in Second |-> 0]
    /\ archive = [s \in Second |-> {}]
    /\ second = 1
    /\ fragments = {}
    /\ garbled = {}
    /\ created = 1
    /\ logged = 0
    /\ cutoff = 0
    /\ at = [p \in Process |-> IF p = "daemon" THEN "idle" ELSE "gone"]
    /\ handle = [p \in Process |-> IF p = "daemon" THEN 1 ELSE 0]
    /\ buffer = <<>>
    /\ pending = [p \in Process |-> 0]
    /\ rotated = [p \in Process |-> 0]
    /\ kept = <<>>
    /\ fd = [inode |-> 0, pos |-> 0]
    /\ failed = 0
    /\ accepted = {}
    /\ byCli = {}
    /\ bumped = {}
    /\ removed = {}
    /\ revived = {}
    /\ unread = {}
    /\ replaced = {}
    /\ rewrote = FALSE
    /\ incomplete = FALSE
    /\ torn = {}

Goto(p, step) == at' = [at EXCEPT ![p] = step]
Hold(p, inode) == handle' = [handle EXCEPT ![p] = inode]
Failure == failed < MaxFailures /\ failed' = failed + 1
Stamp(s) == s \in {second, second + 1} /\ second' = s
Newest(s) == IF Len(s) > MaxSize THEN SubSeq(s, Len(s) - MaxSize + 1, Len(s)) ELSE s
Oldest(s) == IF Len(s) > MaxSize THEN SubSeq(s, 1, Len(s) - MaxSize) ELSE <<>>

\* OpenFile(s.path, O_CREATE|O_APPEND): the file at the path, or a new one there
OpenActive ==
    IF active # 0 THEN UNCHANGED <<active, created>>
    ELSE created < MaxInodes /\ created' = created + 1 /\ active' = created'

(***************************************************************************)
(* Log.                                                                    *)
(***************************************************************************)

\* providaptctl: audit.New (what it replays into memory plays no part)
CliOpens(p) ==
    /\ at[p] = "gone" /\ logged < MaxEntries
    /\ OpenActive
    /\ Hold(p, active') /\ Goto(p, "idle")
    /\ UNCHANGED <<rotated, text, backup, second, logged, buffer, pending, failed, accepted, byCli, bumped,
                   lost, retention>>

\* a file that is too large is closed first, and the time for its new name is
\* taken; a closed one has no size
LogBegins(p) ==
    /\ at[p] = "idle" /\ logged < MaxEntries
    /\ logged' = logged + 1
    /\ pending' = [pending EXCEPT ![p] = logged']
    /\ IF handle[p] # 0 /\ Len(content[handle[p]]) > MaxFile
         THEN /\ Hold(p, 0) /\ Goto(p, "rename")
              /\ \E s \in Second : Stamp(s) /\ rotated' = [rotated EXCEPT ![p] = s]
         ELSE Goto(p, "write") /\ UNCHANGED <<handle, second, rotated>>
    /\ UNCHANGED <<text, active, backup, created, buffer, failed, accepted, byCli, bumped, lost, retention>>

\* rotate: the rename, over a backup of the same second; without a file at the
\* path it fails
RotateRenames(p) ==
    /\ at[p] = "rename"
    /\ IF active # 0
         THEN /\ backup' = [backup EXCEPT ![rotated[p]] = active]
              /\ removed' = removed \cup ({backup[rotated[p]]} \ {0})
              /\ active' = 0 /\ Goto(p, "open") /\ UNCHANGED rotated
         ELSE /\ Goto(p, "write") /\ rotated' = [rotated EXCEPT ![p] = 0]
              /\ UNCHANGED <<active, backup, removed>>
    /\ UNCHANGED <<text, second, created, logged, handle, buffer, pending, failed, accepted, byCli, bumped,
                   revived, unread, retention>>

Backups == {s \in Second : backup[s] # 0}

\* rotate: the new file is opened, and the oldest backups beyond maxBackups go
RotateOpens(p) ==
    LET excess == {s \in Backups : Cardinality({t \in Backups : t > s}) >= MaxBackups}
    IN  /\ at[p] = "open"
        /\ OpenActive
        /\ Hold(p, active') /\ Goto(p, "write")
        /\ backup' = [s \in Second |-> IF s \in excess THEN 0 ELSE backup[s]]
        /\ removed' = removed \cup {backup[s] : s \in excess}
        /\ rotated' = [rotated EXCEPT ![p] = 0]
        /\ UNCHANGED <<text, second, logged, buffer, pending, failed, accepted, byCli, bumped, revived, unread,
                       retention>>

\* rotate fails at the rename, or at the open; then what has the name now is renamed
\* back, over what another process put there, unless another process has pruned it.
\* The file that was closed stays closed.
RotateFails(p) ==
    LET s == rotated[p]
        file == backup[s]
    IN  /\ Failure
        /\ \/ at[p] = "rename" /\ UNCHANGED <<active, backup, removed, revived>>
           \/ at[p] = "open" /\ file = 0 /\ UNCHANGED <<active, backup, removed, revived>>
           \/ /\ at[p] = "open" /\ file # 0
              /\ active' = file
              /\ backup' = [backup EXCEPT ![s] = 0]
              /\ removed' = removed \cup ({active} \ {0})
              /\ revived' = revived \cup (ToSet(content[file]) \ ToSet(buffer))
        /\ Goto(p, "write") /\ rotated' = [rotated EXCEPT ![p] = 0]
        /\ UNCHANGED <<text, second, created, logged, handle, buffer, pending, accepted, byCli, bumped, unread,
                       retention>>

LogReturns(p) ==
    /\ Goto(p, IF p = "daemon" THEN "idle" ELSE "gone")
    /\ pending' = [pending EXCEPT ![p] = 0]
    /\ UNCHANGED <<rotated, active, backup, second, created, logged, handle, lost, retention>>

\* the write, which goes on a line that was begun, and the buffer of the daemon
LogWrites(p) ==
    LET e == pending[p]
        h == handle[p]
        grown == Append(buffer, e)
    IN  /\ at[p] = "write" /\ h # 0
        /\ content' = [content EXCEPT ![h] = Append(@, e)]
        /\ garbled' = IF h \in fragments THEN garbled \cup {e} ELSE garbled
        /\ fragments' = fragments \ {h}
        /\ accepted' = accepted \cup {e}
        /\ byCli' = IF p \in Cli THEN byCli \cup {e} ELSE byCli
        /\ buffer' = IF p = "daemon" THEN Newest(grown) ELSE buffer
        /\ bumped' = IF p = "daemon" THEN bumped \cup ToSet(Oldest(grown)) ELSE bumped
        /\ LogReturns(p) /\ UNCHANGED failed

\* the write fails: on a file that is closed, or part of the line may be there
LogFails(p) ==
    /\ at[p] = "write"
    /\ \/ handle[p] = 0 /\ UNCHANGED <<fragments, failed>>
       \/ handle[p] # 0 /\ Failure /\ fragments' \in {fragments, fragments \cup {handle[p]}}
    /\ LogReturns(p) /\ UNCHANGED <<content, garbled, buffer, accepted, byCli, bumped>>

(***************************************************************************)
(* ApplyRetention, in the daemon.                                          *)
(***************************************************************************)
Expire ==
    /\ cutoff < logged
    /\ cutoff' = cutoff + 1
    /\ UNCHANGED <<text, active, backup, archive, second, created, logged, at, handle, buffer, pending, rotated,
                   kept, fd, failed, accepted, byCli, bumped, lost, replaced, rewrote, incomplete, torn>>

Outdated == {e \in Entry : e <= cutoff}

\* the entries of a sequence that are in a set, in their order
Those(seq, S) ==
    LET K == {k \in DOMAIN seq : seq[k] \in S}
        Nth(i) == CHOOSE k \in K : Cardinality({j \in K : j <= k}) = i
    IN  [i \in 1 .. Cardinality(K) |-> seq[Nth(i)]]

\* writeEntriesNDJSON(archivePath, ...) replaces an archive of the same second
WriteArchive(entries) == \E s \in Second :
    /\ Stamp(s)
    /\ archive' = [archive EXCEPT ![s] = entries]
    /\ replaced' = replaced \cup (archive[s] \ entries)

\* mutant: what is kept and what is archived leave out the entry at the cutoff
RetainArchivesStrictly ==
    /\ at["daemon"] = "idle"
    /\ ToSet(buffer) \cap Outdated # {}
    /\ WriteArchive(ToSet(buffer) \cap (Outdated \ {cutoff}))
    /\ Hold("daemon", 0)
    /\ IF handle["daemon"] = 0 THEN UNCHANGED <<at, kept>>
       ELSE Goto("daemon", "truncate") /\ kept' = Those(buffer, Entry \ Outdated)
    /\ UNCHANGED <<rotated, text, active, backup, created, logged, cutoff, buffer, pending, fd, failed, accepted,
                   byCli, bumped, lost, rewrote, incomplete, torn>>

\* what has expired is written to the archive; then s.f is closed, and one that
\* is closed already ends the operation
RetainArchives ==
    /\ at["daemon"] = "idle"
    /\ ToSet(buffer) \cap Outdated # {}
    /\ WriteArchive(ToSet(buffer) \cap Outdated)
    /\ Hold("daemon", 0)
    /\ IF handle["daemon"] = 0 THEN UNCHANGED <<at, kept>>
       ELSE Goto("daemon", "truncate") /\ kept' = Those(buffer, Entry \ Outdated)
    /\ UNCHANGED <<rotated, text, active, backup, created, logged, cutoff, buffer, pending, fd, failed, accepted,
                   byCli, bumped, lost, rewrote, incomplete, torn>>

\* the archive cannot be written, or not to its end
ArchiveFails ==
    LET old == Those(buffer, Outdated)
    IN  /\ Failure
        /\ at["daemon"] = "idle" /\ old # <<>>
        /\ \E k \in 0 .. Len(old) - 1 : WriteArchive(ToSet(SubSeq(old, 1, k)))
        /\ UNCHANGED <<rotated, text, active, backup, created, logged, cutoff, at, handle, buffer, pending, kept, fd,
                       accepted, byCli, bumped, lost, rewrote, incomplete, torn>>

\* writeEntriesNDJSON(s.path, kept): opened with O_TRUNC and without O_APPEND
RetainTruncates ==
    /\ at["daemon"] = "truncate"
    /\ OpenActive
    /\ content' = [content EXCEPT ![active'] = <<>>]
    /\ fragments' = fragments \ {active'}
    /\ fd' = [inode |-> active', pos |-> 0]
    /\ incomplete' = TRUE
    /\ rewrote' = TRUE
    /\ Goto("daemon", "rewrite")
    /\ UNCHANGED <<rotated, garbled, backup, archive, second, logged, cutoff, handle, buffer, pending, kept,
                   failed, accepted, byCli, bumped, lost, replaced, torn>>

\* one entry, at the position of the descriptor; it may cover a part of a line
RetainRewrites ==
    LET next == fd.pos + 1
        old == content[fd.inode]
    IN  /\ at["daemon"] = "rewrite" /\ fd.pos < Len(kept)
        /\ content' = [content EXCEPT ![fd.inode] =
                         IF next > Len(old) THEN Append(old, kept[next])
                         ELSE [old EXCEPT ![next] = kept[next]]]
        /\ fragments' \in {fragments, fragments \ {fd.inode}}
        /\ fd' = [fd EXCEPT !.pos = next]
        /\ UNCHANGED <<kept, rotated, garbled, active, backup, archive, second, created, logged, cutoff, at, handle,
                       buffer, pending, failed, accepted, byCli, bumped, lost, replaced, rewrote, incomplete,
                       torn>>

\* the file is opened again, and the buffer holds what was kept
RetainReopens ==
    /\ at["daemon"] = "rewrite" /\ fd.pos = Len(kept)
    /\ OpenActive
    /\ Hold("daemon", active') /\ Goto("daemon", "idle")
    /\ buffer' = kept
    /\ kept' = <<>>
    /\ incomplete' = FALSE
    /\ fd' = [inode |-> 0, pos |-> 0]
    /\ UNCHANGED <<rotated, text, backup, archive, second, logged, cutoff, pending, failed, accepted, byCli,
                   bumped, lost, replaced, rewrote, torn>>

\* the rewrite or one of the opens fails; the file is opened for appending
\* again if that succeeds, and the buffer stays as it was
RetainFails(reopened) ==
    /\ Failure
    /\ \/ at["daemon"] = "truncate" /\ UNCHANGED fragments
       \/ at["daemon"] = "rewrite" /\ fd.pos < Len(kept) /\ fragments' \in {fragments, fragments \cup {fd.inode}}
       \/ at["daemon"] = "rewrite" /\ fd.pos = Len(kept) /\ ~reopened /\ UNCHANGED fragments
    /\ IF reopened THEN OpenActive /\ Hold("daemon", active') ELSE UNCHANGED <<active, created, handle>>
    /\ Goto("daemon", "idle")
    /\ kept' = <<>>
    /\ fd' = [inode |-> 0, pos |-> 0]
    /\ UNCHANGED <<rotated, content, garbled, backup, archive, second, logged, cutoff, buffer, pending, accepted,
                   byCli, bumped, lost, replaced, rewrote, incomplete, torn>>

Archived == UNION {archive[s] : s \in Second}
Named == ({backup[s] : s \in Second} \cup {active}) \ {0}
Stored == Archived \cup UNION {ToSet(content[i]) : i \in Named}

\* mutant: the file is not replayed
DaemonRestartsBlank ==
    /\ Failure
    /\ OpenActive
    /\ Hold("daemon", active') /\ Goto("daemon", "idle")
    /\ buffer' = <<>>
    /\ torn' = IF incomplete THEN torn \cup (ToSet(buffer) \ Stored) ELSE torn
    /\ incomplete' = FALSE
    /\ kept' = <<>>
    /\ fd' = [inode |-> 0, pos |-> 0]
    /\ rotated' = [rotated EXCEPT !["daemon"] = 0] /\ pending' = [pending EXCEPT !["daemon"] = 0]
    /\ UNCHANGED <<text, backup, archive, second, logged, cutoff, accepted, byCli, bumped, lost, replaced, rewrote>>

\* the daemon dies, and audit.New replays the active file, all of it or (an error
\* that New only reports) a first part; lines that do not parse are skipped
DaemonRestarts ==
    /\ Failure
    /\ OpenActive
    /\ Hold("daemon", active') /\ Goto("daemon", "idle")
    /\ \E k \in 0 .. Len(content[active']) :
         LET read == Those(SubSeq(content[active'], 1, k), Entry \ garbled)
         IN  /\ buffer' = Newest(read)
             /\ bumped' = bumped \cup ToSet(Oldest(read))
             /\ unread' = unread \cup (ToSet(content[active']) \ ToSet(read))
    /\ torn' = IF incomplete THEN torn \cup (ToSet(buffer) \ Stored) ELSE torn
    /\ incomplete' = FALSE
    /\ kept' = <<>>
    /\ fd' = [inode |-> 0, pos |-> 0]
    /\ rotated' = [rotated EXCEPT !["daemon"] = 0] /\ pending' = [pending EXCEPT !["daemon"] = 0]
    /\ UNCHANGED <<text, backup, archive, second, logged, cutoff, accepted, byCli, removed, revived, replaced,
                   rewrote>>

AuditNext ==
    \/ \E p \in Cli : CliOpens(p)
    \/ \E p \in Process :
         \/ LogBegins(p) \/ RotateRenames(p) \/ RotateOpens(p) \/ RotateFails(p) \/ LogWrites(p) \/ LogFails(p)
    \/ Expire
    \/ RetainArchives \/ ArchiveFails \/ RetainTruncates \/ RetainRewrites \/ RetainReopens
    \/ \E reopened \in BOOLEAN : RetainFails(reopened)
    \/ DaemonRestarts

AuditSpec == AuditInit /\ [][AuditNext]_auditVars

(***************************************************************************)
(* Properties.                                                             *)
(***************************************************************************)

\* An entry that Log accepted is in the active file, a backup or an archive (if
\* perhaps on a line that replay skips), or in a file that was pruned or replaced by
\* a rename: a crash, a failing rename or a failing rewrite loses none.  The
\* exceptions are what the daemon does not hold in memory when it rewrites the file
\* (entries that left a full buffer, entries of providaptctl, those of a file that a
\* failed rotation put back, and those that a replay did not read), what a crash in
\* the middle of the rewrite finds there only, and an archive that a second
\* retention within the second replaced.
NothingLost == \A e \in accepted :
    \/ e \in Stored \cup UNION {ToSet(content[i]) : i \in removed}
    \/ incomplete /\ e \in ToSet(buffer)
    \/ e \in torn \cup bumped \cup replaced
    \/ e \in byCli \cup revived \cup unread /\ rewrote

\* Every entry of the active file is in the memory of the daemon or archived,
\* which is what makes it safe to rewrite the file from memory; the exceptions are
\* entries that left a full buffer, those of providaptctl, those of a file that
\* a failed rotation put back after the daemon had started with another one, those
\* that a replay did not read, and those of an archive that was replaced.
FileIsInMemory == active # 0 =>
    ToSet(content[active]) \subseteq ToSet(buffer) \cup Archived \cup bumped \cup byCli \cup revived
                                       \cup unread \cup replaced

\* What New says of a replay that failed: "Non-fatal - entries remain on disk".
UnreadRemainOnDisk == unread \subseteq Stored \cup UNION {ToSet(content[i]) : i \in removed}
=============================================================================
