-------------------------------- MODULE Files --------------------------------
(***************************************************************************)
(* Several sessions of one folder work on the same files through the file  *)
(* tools (tools/read_file.go, write_file.go, edit_file.go).  Nothing locks *)
(* a file: a FileCoordinator remembers who wrote a path last and every     *)
(* session remembers when it last saw it, and a write that would replace   *)
(* what another session wrote and this one has not seen is refused.  A     *)
(* tool call is not atomic: it checks, reads, replaces the file by rename, *)
(* and records, each a step of its own here.                               *)
(*                                                                         *)
(* Two files: "w" lies in the sessions' folder, "r" in a plan's repository *)
(* outside it, at the same relative path.  Contents are version numbers;   *)
(* whether edit_file's old_string matches is free.                         *)
(***************************************************************************)
EXTENDS Naturals, FiniteSets

CONSTANTS Writers,       \* the sessions
          MaxFileCalls   \* tool calls over all sessions

Files == {"w", "r"}
Keys == {"file", "/repo/file"}

VARIABLES
  disk,         \* per file: the version on disk, who put it there (0: neither session) and,
                \*   as history, whether the call that did overlapped another on that file
  clock,        \* time.Now
  seen,         \* Session.LastSeen: per session and key, the time (0: never) and, as history,
                \*   the file it was taken for and whether that file changed meanwhile
  lastWriter,   \* WorkspaceRegistry.lastWriter of the folder, per key
  doing,        \* the tool call each session is in
  knows,        \* the version of each file a session has read or written (history)
  fileCalls,    \* tool calls made
  unseenLost    \* a version was replaced that its replacer had never seen (history)

fileVars == <<disk, clock, seen, lastWriter, doing, knows, fileCalls, unseenLost>>

NoCall == [tool |-> "none", file |-> "w", at |-> "none", base |-> 0, overlap |-> FALSE]

FilesInit ==
  /\ disk = [f \in Files |-> [version |-> 0, by |-> 0, contested |-> FALSE]]
  /\ clock = 1
  /\ seen = [s \in Writers |-> [k \in Keys |-> [at |-> 0, file |-> "w", torn |-> FALSE]]]
  /\ lastWriter = [k \in Keys |-> [by |-> 0, at |-> 0]]
  /\ doing = [s \in Writers |-> NoCall]
  /\ knows = [s \in Writers |-> [f \in Files |-> 0]]
  /\ fileCalls = 0 /\ unseenLost = FALSE

-----------------------------------------------------------------------------
(* Paths                                                                    *)

\* ReadRoot: an absolute path into a plan's repository is read from there, so
\* both files come out as the same relative path.
ReadKey(f) == "file"

\* FileCoordinator always takes the path relative to the session's own folder;
\* a file outside keeps its full name.
WriteKey(f) == IF f = "w" THEN "file" ELSE "/repo/file"

-----------------------------------------------------------------------------
(* Reading                                                                  *)

CallBegins(s) == doing[s].tool = "none" /\ fileCalls < MaxFileCalls /\ fileCalls' = fileCalls + 1

\* read_file: os.ReadFile ...
ReadFileStarts(s, f) ==
  /\ CallBegins(s)
  /\ doing' = [doing EXCEPT ![s] = [NoCall EXCEPT !.tool = "read_file", !.file = f, !.at = "read",
                                                  !.base = disk[f].version]]
  /\ UNCHANGED <<disk, clock, seen, lastWriter, knows, unseenLost>>

\* ... and only after the windows are cut Session.Touch, with the time of then.
TouchKey(s, k, f, torn) ==
  /\ clock' = clock + 1
  /\ seen' = [seen EXCEPT ![s][k] = [at |-> clock + 1, file |-> f, torn |-> torn]]

ReadFileTouches(s) ==
  LET c == doing[s] IN
  /\ c.tool = "read_file"
  /\ TouchKey(s, ReadKey(c.file), c.file, disk[c.file].version # c.base)
  /\ knows' = [knows EXCEPT ![s][c.file] = c.base]
  /\ doing' = [doing EXCEPT ![s] = NoCall]
  /\ UNCHANGED <<disk, lastWriter, fileCalls, unseenLost>>

\* A window that cannot be cut leaves no trace of the read.
ReadFileFails(s) ==
  /\ doing[s].tool = "read_file"
  /\ doing' = [doing EXCEPT ![s] = NoCall]
  /\ UNCHANGED <<disk, clock, seen, lastWriter, knows, fileCalls, unseenLost>>

-----------------------------------------------------------------------------
(* Writing and editing                                                      *)

\* Mutant of Conflict: any earlier look at the file counts.
ConflictUnseenOnly(s, k) ==
  lastWriter[k].by \notin {0, s} /\ seen[s][k].at = 0

\* FileCoordinator.check: somebody else wrote it since this session saw it.
Conflict(s, k) ==
  /\ lastWriter[k].by \notin {0, s}
  /\ seen[s][k].at = 0 \/ lastWriter[k].at > seen[s][k].at

\* Calls of two sessions that are both past the check of one file overlap.
Inside(t, f) == doing[t].tool \in {"write_file", "edit_file"} /\ doing[t].file = f

\* The call passes the check; write_file with the bytes already on disk
\* ("unchanged") and a refused call change nothing and are left out.
CheckPasses(s, f, tool) ==
  /\ CallBegins(s)
  /\ ~Conflict(s, WriteKey(f))
  /\ doing' = [t \in Writers |->
       IF t = s
       THEN [tool |-> tool, file |-> f, at |-> "checked", base |-> knows[s][f],
             overlap |-> \E u \in Writers \ {s} : Inside(u, f)]
       ELSE IF Inside(t, f) THEN [doing[t] EXCEPT !.overlap = TRUE] ELSE doing[t]]
  /\ disk' = [disk EXCEPT ![f].contested =
                @ \/ \E u \in Writers \ {s} : Inside(u, f) /\ doing[u].at \in {"replaced", "touched"}]
  /\ UNCHANGED <<clock, seen, lastWriter, knows, unseenLost>>

\* edit_file reads the file it is going to change.
EditReads(s) ==
  LET c == doing[s] IN
  /\ c.tool = "edit_file" /\ c.at = "checked"
  /\ doing' = [doing EXCEPT ![s] = [@ EXCEPT !.at = "read", !.base = disk[c.file].version]]
  /\ UNCHANGED <<disk, clock, seen, lastWriter, knows, fileCalls, unseenLost>>

\* old_string is missing or ambiguous, or the temporary file cannot be written.
CallFails(s) ==
  /\ doing[s].tool \in {"write_file", "edit_file"} /\ doing[s].at \in {"checked", "read"}
  /\ doing' = [doing EXCEPT ![s] = NoCall]
  /\ UNCHANGED <<disk, clock, seen, lastWriter, knows, fileCalls, unseenLost>>

\* The session's last look under this key was at the other file, or at a
\* version that was already being replaced.
Misled(s, f) == seen[s][WriteKey(f)].file # f \/ seen[s][WriteKey(f)].torn

\* atomicReplace: the new content is built on what the call read (edit_file) or
\* on what the session knew (write_file).
Replace(s) ==
  LET c == doing[s]
      blind == disk[c.file].by \notin {0, s} /\ disk[c.file].version # c.base
      raced == c.overlap \/ disk[c.file].contested
  IN  /\ \/ c.tool = "edit_file" /\ c.at = "read"
         \/ c.tool = "write_file" /\ c.at = "checked"
      /\ disk' = [disk EXCEPT ![c.file] = [version |-> @.version + 1, by |-> s,
                                                contested |-> c.overlap]]
      /\ unseenLost' = (unseenLost \/ (blind /\ ~raced /\ ~Misled(s, c.file)))
      /\ knows' = [knows EXCEPT ![s][c.file] = disk[c.file].version + 1]
      /\ doing' = [doing EXCEPT ![s].at = "replaced"]
      /\ UNCHANGED <<clock, seen, lastWriter, fileCalls>>

\* FileCoordinator.record: Touch, then RecordWrite with a later time.
RecordTouches(s) ==
  LET c == doing[s] IN
  /\ c.at = "replaced"
  /\ TouchKey(s, WriteKey(c.file), c.file, FALSE)
  /\ doing' = [doing EXCEPT ![s].at = "touched"]
  /\ UNCHANGED <<disk, lastWriter, knows, fileCalls, unseenLost>>

RecordWrite(s) ==
  LET c == doing[s] IN
  /\ c.at = "touched"
  /\ clock' = clock + 1
  /\ lastWriter' = [lastWriter EXCEPT ![WriteKey(c.file)] = [by |-> s, at |-> clock + 1]]
  /\ doing' = [doing EXCEPT ![s] = NoCall]
  /\ UNCHANGED <<disk, seen, knows, fileCalls, unseenLost>>

FilesNext ==
  \E s \in Writers :
    \/ \E f \in Files : ReadFileStarts(s, f)
    \/ ReadFileTouches(s) \/ ReadFileFails(s)
    \/ \E f \in Files, tool \in {"write_file", "edit_file"} : CheckPasses(s, f, tool)
    \/ EditReads(s) \/ CallFails(s) \/ Replace(s) \/ RecordTouches(s) \/ RecordWrite(s)

FilesSpec == FilesInit /\ [][FilesNext]_fileVars

-----------------------------------------------------------------------------
(* Properties                                                               *)

\* No session replaces, through write_file or edit_file, a version that another
\* session of the folder wrote and that it never saw.  Three windows of the code
\* are outside the promise: two calls on one file that overlap (nothing locks
\* between check and record), a look that was overtaken by a write before its
\* Touch, and a look at the namesake of the file in a plan's repository, which
\* is filed under the same key.
NothingOverwrittenUnseen == ~unseenLost

=============================================================================
