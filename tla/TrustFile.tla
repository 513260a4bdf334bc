------------------------------- MODULE TrustFile -------------------------------
(***************************************************************************)
(* .claude.json, in which tam marks the directory of an agent as trusted:  *)
(* ensure_claude_dir_trusted_at and write_json_atomic of                   *)
(* tam-daemon/src/provider.rs.  The daemon and each request of a bridge    *)
(* read the file, change what they read, write it to a temporary file      *)
(* whose name they all share and rename that; Claude replaces the file     *)
(* whenever it likes.  A file is an inode here, which goes on being        *)
(* written under whatever name it has by then.                             *)
(***************************************************************************)
EXTENDS Naturals, FiniteSets

CONSTANTS
    TrustWriters,  \* calls of ensure_claude_dir_trusted_at
    Cwds,          \* directories agents run in
    Above,         \* of each directory, itself and its ancestors
    NoFile,        \* no such file
    HalfTrust      \* what a reader makes of a truncated or mixed file: no JSON

\* What Claude keeps there besides the trusted directories is one number.
File == [trusted : SUBSET Cwds, claude : 0..1]
Empty == [trusted |-> {}, claude |-> 0]

ASSUME TrustAssumption ==
    /\ Above \in [Cwds -> SUBSET Cwds]
    /\ \A d \in Cwds : d \in Above[d]
    /\ IsFiniteSet(TrustWriters)
    /\ NoFile \notin Nat
    /\ HalfTrust \notin File

\* Enough for the two names and every writer's open file.
Inodes == 1..Cardinality(TrustWriters) + 2

VARIABLES
    content,      \* what is in each inode that has a name or is open
    path,         \* the inode named .claude.json
    tmp,          \* the inode named .claude.tam-tmp
    trustWriter,  \* how far each writer is
    given,        \* what tam, Claude and the user have put there
    trustRaced    \* two changed the file at once

trustFile == <<content, path, tmp, trustWriter, given, trustRaced>>

TrustWriter ==
    [at : {"idle"}]
        \cup [at : {"read"}, copy : File, dir : Cwds]
        \cup [at : {"opened", "written"}, copy : File, dir : Cwds, inode : Inodes]
TrustIdle == [at |-> "idle"]
TrustStep(w, s) == trustWriter' = [trustWriter EXCEPT ![w] = s]

AmidTrust == {w \in TrustWriters : trustWriter[w] # TrustIdle}
Holding == {w \in TrustWriters : trustWriter[w].at \in {"opened", "written"}}
OpenInodes == {trustWriter[w].inode : w \in Holding}
Free == Inodes \ (OpenInodes \cup {path, tmp})

\* An inode without a name that nobody has open is no more.
Put(i, c) ==
    content' = [j \in Inodes |-> IF j = i THEN c ELSE IF j \in Free THEN Empty ELSE content[j]]

\* The file as a reader finds it.
Current == IF path = NoFile THEN Empty ELSE content[path]

TrustInit ==
    /\ content = [i \in Inodes |-> Empty]
    /\ path \in {NoFile, 1}
    /\ tmp = NoFile
    /\ trustWriter = [w \in TrustWriters |-> TrustIdle]
    /\ given = Empty
    /\ trustRaced = FALSE

-----------------------------------------------------------------------------
(* Actions *)

\* dir_is_trusted: the directory or one above it.
DirIsTrusted(file, d) == file.trusted \cap Above[d] # {}

\* The file is read, and left alone when it cannot be parsed or trusts d.
ReadTrust(w, d) ==
    /\ trustWriter[w] = TrustIdle
    /\ Current # HalfTrust /\ ~DirIsTrusted(Current, d)
    /\ TrustStep(w, [at |-> "read", dir |-> d,
                     copy |-> [Current EXCEPT !.trusted = @ \cup {d}]])
    /\ trustRaced' = (trustRaced \/ AmidTrust # {})
    /\ UNCHANGED <<content, path, tmp, given>>

Opened(w, i) ==
    [at |-> "opened", copy |-> trustWriter[w].copy, dir |-> trustWriter[w].dir, inode |-> i]

\* Mutant of OpenTmp: the file itself is truncated and written.
OpenInPlace(w) ==
    /\ trustWriter[w].at = "read" /\ path # NoFile
    /\ Put(path, HalfTrust)
    /\ TrustStep(w, Opened(w, path))
    /\ UNCHANGED <<path, tmp, given, trustRaced>>

\* write_json_atomic: the temporary file is created, or truncated if there is one.
OpenTmp(w) ==
    /\ trustWriter[w].at = "read"
    /\ tmp' = IF tmp = NoFile THEN CHOOSE i \in Free : TRUE ELSE tmp
    /\ Put(tmp', HalfTrust)
    /\ TrustStep(w, Opened(w, tmp'))
    /\ UNCHANGED <<path, given, trustRaced>>

\* It is written, by whatever name it goes now, from the start: over what another
\* writer has written since it was truncated, which can leave the end of that.
WriteTmp(w) ==
    /\ trustWriter[w].at = "opened"
    /\ LET i == trustWriter[w].inode
       IN \/ Put(i, trustWriter[w].copy)
          \/ content[i] # HalfTrust /\ Put(i, HalfTrust)
    /\ TrustStep(w, [trustWriter[w] EXCEPT !.at = "written"])
    /\ UNCHANGED <<path, tmp, given, trustRaced>>

\* What is called .claude.tam-tmp now replaces the file; nothing is, if another
\* writer has renamed it.
RenameTmp(w) ==
    /\ trustWriter[w].at = "written"
    /\ IF tmp = NoFile THEN UNCHANGED <<path, tmp, given>>
       ELSE /\ path' = tmp
            /\ tmp' = NoFile
            /\ given' = [given EXCEPT !.trusted = @ \cup {trustWriter[w].dir}]
    /\ TrustStep(w, TrustIdle)
    /\ UNCHANGED <<content, trustRaced>>

\* Claude replaces the file by one that keeps more, or in which the user has
\* trusted a directory.
ClaudeWrites ==
    /\ Current # HalfTrust
    /\ \E new \in {[Current EXCEPT !.claude = 1]}
                     \cup {[Current EXCEPT !.trusted = @ \cup {d}] : d \in Cwds} :
          LET i == CHOOSE i \in Free : TRUE
          IN /\ Put(i, new)
             /\ path' = i
             /\ given' = [trusted |-> given.trusted \cup new.trusted,
                          claude |-> IF new.claude = 1 THEN 1 ELSE given.claude]
    /\ trustRaced' = (trustRaced \/ AmidTrust # {})
    /\ UNCHANGED <<tmp, trustWriter>>

\* A writer's process dies, and may leave the temporary file.
TrustWriterDies(w) ==
    /\ trustWriter[w] # TrustIdle
    /\ TrustStep(w, TrustIdle)
    /\ UNCHANGED <<content, path, tmp, given, trustRaced>>

TrustNext ==
    \/ \E w \in TrustWriters : \/ \E d \in Cwds : ReadTrust(w, d)
                          \/ OpenTmp(w) \/ WriteTmp(w) \/ RenameTmp(w) \/ TrustWriterDies(w)
    \/ ClaudeWrites

TrustSpec == TrustInit /\ [][TrustNext]_trustFile

-----------------------------------------------------------------------------
(* Properties *)

\* The variables have their types: there are inodes enough for every open file.
TrustTypeOK ==
    /\ content \in [Inodes -> File \cup {HalfTrust}]
    /\ path \in Inodes \cup {NoFile} /\ tmp \in Inodes \cup {NoFile}
    /\ trustWriter \in [TrustWriters -> TrustWriter]
    /\ given \in File
    /\ trustRaced \in BOOLEAN

\* When writers do not overlap, the file holds at every moment all the trust and
\* everything of Claude's that was ever put there, also when a writer dies.  (Two
\* that overlap share the temporary file, and one renames it while the other writes.)
TrustKept ==
    ~trustRaced => /\ Current # HalfTrust
              /\ given.trusted \subseteq Current.trusted
              /\ given.claude <= Current.claude
===============================================================================
