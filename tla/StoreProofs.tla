---------------------------- MODULE StoreProofs ----------------------------
(***************************************************************************)
(* What the sessions of one folder share is not lost between them, for     *)
(* every number of sessions and requests: the files they write (module     *)
(* Files), the plans (module Plans), the notes (module Memory).            *)
(***************************************************************************)
EXTENDS Files, Plans, Memory, FiniteSetTheorems, TLAPS

-----------------------------------------------------------------------------
(* Files                                                                    *)

DiskRecs == [version : Nat, by : Writers \cup {0}, contested : BOOLEAN]
SeenRecs == [at : Nat, file : Files, torn : BOOLEAN]
CallRecs == [tool : {"none", "read_file", "write_file", "edit_file"}, file : Files,
             at : {"none", "read", "checked", "replaced", "touched"}, base : Nat, overlap : BOOLEAN]

FileTypes ==
  /\ clock \in Nat
  /\ disk \in [Files -> DiskRecs]
  /\ seen \in [Writers -> [Keys -> SeenRecs]]
  /\ lastWriter \in [Keys -> [by : Writers \cup {0}, at : Nat]]
  /\ doing \in [Writers -> CallRecs]
  /\ knows \in [Writers -> [Files -> Nat]]

\* The call has replaced the file and not recorded it yet.
Recording(t, f) == Inside(t, f) /\ doing[t].at \in {"replaced", "touched"}

Stages ==
  \A s \in Writers :
    /\ doing[s].tool = "read_file" => doing[s].at = "read"
    /\ doing[s].at \in {"replaced", "touched"} => doing[s].tool \in {"write_file", "edit_file"}

\* Calls past the check of one file know that they overlap.
OverlapKnown ==
  \A s, t \in Writers, f \in Files : s # t /\ Inside(s, f) /\ Inside(t, f) => doing[s].overlap

\* Who recorded an uncontested version last is who wrote it.
RecorderWrote ==
  \A f \in Files : ~disk[f].contested =>
    /\ \A t \in Writers : Recording(t, f) => disk[f].by = t
    /\ disk[f].by # 0 => Recording(disk[f].by, f) \/ lastWriter[WriteKey(f)].by = disk[f].by

\* Nobody knows a version of the future, and a later look is a newer one.
KnownPast ==
  \A s \in Writers, f \in Files :
    /\ knows[s][f] <= disk[f].version
    /\ doing[s].tool = "read_file" /\ doing[s].file = f =>
         knows[s][f] <= doing[s].base /\ doing[s].base <= disk[f].version

SeenPast == \A s \in Writers, k \in Keys : seen[s][k].at <= clock

\* The version on disk is another session's, alone in its call.
Foreign(s, f) ==
  /\ disk[f].by \notin {0, s} /\ ~disk[f].contested
  /\ ~Misled(s, f)

\* A look that is later than the record of a version knows that version.
LookKnows ==
  \A s \in Writers, f \in Files :
    /\ Foreign(s, f) /\ ~Recording(disk[f].by, f)
    /\ lastWriter[WriteKey(f)].at <= seen[s][WriteKey(f)].at
    => knows[s][f] = disk[f].version

\* A call alone with its file builds on what is on disk.
BaseCurrent ==
  \A s \in Writers : LET c == doing[s] IN
    /\ c.tool = "edit_file" /\ c.at = "read" /\ ~c.overlap => c.base = disk[c.file].version
    /\ c.tool = "write_file" /\ c.at = "checked" /\ ~c.overlap /\ Foreign(s, c.file) =>
         c.base = disk[c.file].version

FilesInv ==
  /\ FileTypes /\ Stages /\ OverlapKnown /\ RecorderWrote /\ KnownPast /\ SeenPast /\ LookKnows
  /\ BaseCurrent /\ NothingOverwrittenUnseen
LEMMA FileNames == /\ \A f \in Files : WriteKey(f) \in Keys /\ ReadKey(f) \in Keys
                   /\ \A f, g \in Files : WriteKey(f) = WriteKey(g) => f = g
                   /\ \A f, g \in Files : ReadKey(f) = WriteKey(g) => g = "w"
  BY DEF Files, Keys, WriteKey, ReadKey

LEMMA FilesInitially == FilesInit => FilesInv
<1> SUFFICES ASSUME FilesInit
             PROVE  FilesInv
  OBVIOUS
<1>1. NoCall \in CallRecs /\ NoCall.tool = "none" /\ NoCall.at = "none"
  BY DEF NoCall, CallRecs, Files
<1>2. \A s \in Writers : doing[s] = NoCall
  BY DEF FilesInit
<1>3. FileTypes
  <2>1. disk \in [Files -> DiskRecs] /\ seen \in [Writers -> [Keys -> SeenRecs]]
    BY DEF FilesInit, DiskRecs, SeenRecs, Files
  <2>2. lastWriter \in [Keys -> [by : Writers \cup {0}, at : Nat]] /\ doing \in [Writers -> CallRecs]
    BY <1>1 DEF FilesInit
  <2>3. clock \in Nat /\ knows \in [Writers -> [Files -> Nat]]
    BY DEF FilesInit
  <2>4. QED
    BY <2>1, <2>2, <2>3 DEF FileTypes
<1>4. Stages /\ OverlapKnown /\ BaseCurrent
  BY <1>1, <1>2 DEF Stages, OverlapKnown, Inside, BaseCurrent
<1>5. \A f \in Files : disk[f].by = 0 /\ disk[f].version = 0
  BY DEF FilesInit
<1>6. RecorderWrote /\ LookKnows
  BY <1>1, <1>2, <1>5 DEF RecorderWrote, LookKnows, Recording, Foreign
<1>7. KnownPast
  BY <1>1, <1>2, <1>5 DEF KnownPast, FilesInit
<1>8. SeenPast /\ NothingOverwrittenUnseen
  BY DEF SeenPast, FilesInit, NothingOverwrittenUnseen
<1>9. QED
  BY <1>3, <1>4, <1>6, <1>7, <1>8 DEF FilesInv

LEMMA NoCallRec == NoCall \in CallRecs /\ NoCall.tool = "none" /\ NoCall.at = "none"
  BY DEF NoCall, CallRecs, Files

\* A call that starts to read, reads what it edits, or fails, touches nothing
\* that another session could notice.
LEMMA CallMoves ==
  ASSUME FilesInv, NEW s \in Writers, NEW rec \in CallRecs, doing' = [doing EXCEPT ![s] = rec],
         UNCHANGED <<disk, clock, seen, lastWriter, knows, unseenLost>>,
         doing[s].at \notin {"replaced", "touched"}, rec.at \notin {"replaced", "touched"},
         \/ rec.tool = "none"
         \/ rec.tool = "read_file" /\ rec.at = "read" /\ rec.base = disk[rec.file].version
         \/ /\ rec.tool = "edit_file" /\ rec.at = "read" /\ rec.base = disk[rec.file].version
            /\ Inside(s, rec.file) /\ rec.overlap = doing[s].overlap
  PROVE  FilesInv'
<1>1. doing'[s] = rec /\ \A t \in Writers : t # s => doing'[t] = doing[t]
  BY DEF FilesInv, FileTypes
<1>2. \A f \in Files : Inside(s, f)' => Inside(s, f) /\ doing'[s].overlap = doing[s].overlap
  BY <1>1 DEF Inside
<1>3. \A t \in Writers, f \in Files : Recording(t, f)' = Recording(t, f)
  BY <1>1 DEF Recording, Inside
<1>4. FileTypes'
  BY DEF FilesInv, FileTypes
<1>5. Stages'
  BY <1>1 DEF FilesInv, Stages
<1>6. OverlapKnown'
  BY <1>1, <1>2 DEF FilesInv, OverlapKnown, Inside
<1>7. RecorderWrote'
  <2>1. SUFFICES ASSUME NEW f \in Files, ~disk[f].contested
                 PROVE  /\ \A t \in Writers : Recording(t, f)' => disk[f].by = t
                        /\ disk[f].by # 0 => Recording(disk[f].by, f)' \/ lastWriter[WriteKey(f)].by = disk[f].by
    BY DEF RecorderWrote
  <2>2. disk[f].by \in Writers \cup {0}
    BY DEF FilesInv, FileTypes, DiskRecs
  <2>3. QED
    BY <1>3, <2>1, <2>2 DEF FilesInv, RecorderWrote
<1>8. KnownPast'
  <2>1. \A f \in Files : knows[s][f] <= disk[f].version /\ disk[f].version \in Nat
    BY DEF FilesInv, KnownPast, FileTypes, DiskRecs
  <2>2. QED
    BY <1>1, <2>1 DEF FilesInv, KnownPast
<1>9. SeenPast' /\ NothingOverwrittenUnseen'
  BY DEF FilesInv, SeenPast, NothingOverwrittenUnseen
<1>10. \A t \in Writers, f \in Files : Foreign(t, f)' = Foreign(t, f) /\ (Foreign(t, f) => disk[f].by \in Writers)
  BY DEF Foreign, Misled, FilesInv, FileTypes, DiskRecs
<1>11. LookKnows'
  BY <1>3, <1>10 DEF FilesInv, LookKnows
<1>12. BaseCurrent'
  <2>1. \A t \in Writers : doing[t].file \in Files
    BY DEF FilesInv, FileTypes, CallRecs
  <2>2. SUFFICES ASSUME NEW t \in Writers, t # s, NEW c, c = doing[t]
                 PROVE  /\ c.tool = "edit_file" /\ c.at = "read" /\ ~c.overlap => c.base = disk[c.file].version
                        /\ c.tool = "write_file" /\ c.at = "checked" /\ ~c.overlap /\ Foreign(t, c.file)' =>
                             c.base = disk[c.file].version
    BY <1>1 DEF BaseCurrent
  <2>3. QED
    BY <1>10, <2>1, <2>2 DEF FilesInv, BaseCurrent
<1>13. QED
  BY <1>4, <1>5, <1>6, <1>7, <1>8, <1>9, <1>11, <1>12 DEF FilesInv

LEMMA ReadingSteps ==
  ASSUME FilesInv, NEW s \in Writers,
         \/ \E f \in Files : ReadFileStarts(s, f)
         \/ ReadFileFails(s) \/ EditReads(s) \/ CallFails(s)
  PROVE  FilesInv'
<1>1. doing[s] \in CallRecs /\ doing[s].file \in Files /\ \A f \in Files : disk[f].version \in Nat
  BY DEF FilesInv, FileTypes, CallRecs, DiskRecs
<1>2. CASE \E f \in Files : ReadFileStarts(s, f)
  <2>1. PICK f \in Files : ReadFileStarts(s, f)
    BY <1>2
  <2>2. PICK rec : rec = [NoCall EXCEPT !.tool = "read_file", !.file = f, !.at = "read", !.base = disk[f].version]
    OBVIOUS
  <2>3. rec \in CallRecs /\ rec.tool = "read_file" /\ rec.at = "read" /\ rec.file = f /\ rec.base = disk[f].version
    BY <1>1, <2>2 DEF CallRecs, NoCall
  <2>4. /\ doing' = [doing EXCEPT ![s] = rec] /\ doing[s].tool = "none"
        /\ UNCHANGED <<disk, clock, seen, lastWriter, knows, unseenLost>>
    BY <2>1, <2>2 DEF ReadFileStarts, CallBegins
  <2>5. doing[s].at \notin {"replaced", "touched"}
    BY <2>4 DEF FilesInv, Stages
  <2>6. QED
    BY <2>3, <2>4, <2>5, CallMoves
<1>3. CASE ReadFileFails(s) \/ CallFails(s)
  <2>1. /\ doing' = [doing EXCEPT ![s] = NoCall] /\ UNCHANGED <<disk, clock, seen, lastWriter, knows, unseenLost>>
        /\ doing[s].at \notin {"replaced", "touched"}
    BY <1>3 DEF ReadFileFails, CallFails, FilesInv, Stages
  <2>2. QED
    BY <2>1, NoCallRec, CallMoves
<1>4. CASE EditReads(s)
  <2>1. PICK rec : rec = [doing[s] EXCEPT !.at = "read", !.base = disk[doing[s].file].version]
    OBVIOUS
  <2>2. doing[s].tool = "edit_file" /\ doing[s].at = "checked"
    BY <1>4 DEF EditReads
  <2>3. /\ rec \in CallRecs /\ rec.tool = "edit_file" /\ rec.at = "read" /\ rec.file = doing[s].file
        /\ rec.base = disk[rec.file].version /\ rec.overlap = doing[s].overlap
    BY <1>1, <2>1, <2>2 DEF CallRecs
  <2>4. doing' = [doing EXCEPT ![s] = rec] /\ UNCHANGED <<disk, clock, seen, lastWriter, knows, unseenLost>>
    BY <1>4, <2>1 DEF EditReads
  <2>5. Inside(s, rec.file)
    BY <2>2, <2>3 DEF Inside
  <2>6. QED
    BY <2>2, <2>3, <2>4, <2>5, CallMoves
<1>5. QED
  BY <1>2, <1>3, <1>4

LEMMA ReadFileTouchesStep ==
  ASSUME FilesInv, NEW s \in Writers, ReadFileTouches(s)
  PROVE  FilesInv'
<1>1. PICK g \in Files, base \in Nat, torn \in BOOLEAN :
        /\ doing[s].tool = "read_file" /\ doing[s].at = "read" /\ g = doing[s].file /\ base = doing[s].base
        /\ torn = (disk[g].version # base)
  BY DEF ReadFileTouches, FilesInv, FileTypes, CallRecs, Stages
<1>2. /\ doing' = [doing EXCEPT ![s] = NoCall] /\ knows' = [knows EXCEPT ![s][g] = base]
      /\ clock' = clock + 1
      /\ seen' = [seen EXCEPT ![s]["file"] = [at |-> clock + 1, file |-> g, torn |-> torn]]
      /\ UNCHANGED <<disk, lastWriter, unseenLost>>
  BY <1>1 DEF ReadFileTouches, TouchKey, ReadKey
<1>3. doing'[s] = NoCall /\ \A t \in Writers : t # s => doing'[t] = doing[t]
  BY <1>2 DEF FilesInv, FileTypes
<1>4. \A t \in Writers, f \in Files : Inside(t, f)' => t # s /\ Inside(t, f)
  BY <1>3, NoCallRec DEF Inside
<1>5. \A t \in Writers, f \in Files : Recording(t, f)' = Recording(t, f)
  BY <1>1, <1>3, NoCallRec DEF Recording, Inside
<1>6. /\ knows' \in [Writers -> [Files -> Nat]] /\ knows'[s][g] = base
      /\ \A f \in Files : f # g => knows'[s][f] = knows[s][f]
      /\ \A t \in Writers : t # s => knows'[t] = knows[t]
  BY <1>1, <1>2 DEF FilesInv, FileTypes
<1>7. clock \in Nat /\ [at |-> clock + 1, file |-> g, torn |-> torn] \in SeenRecs
  BY <1>1 DEF FilesInv, FileTypes, SeenRecs
<1>8. /\ seen' \in [Writers -> [Keys -> SeenRecs]]
      /\ seen'[s]["file"] = [at |-> clock + 1, file |-> g, torn |-> torn]
      /\ \A k \in Keys : k # "file" => seen'[s][k] = seen[s][k]
      /\ \A t \in Writers : t # s => seen'[t] = seen[t]
  BY <1>2, <1>7 DEF FilesInv, FileTypes, Keys
<1>9. FileTypes'
  BY <1>2, <1>6, <1>7, <1>8, NoCallRec DEF FilesInv, FileTypes
<1>10. Stages' /\ OverlapKnown'
  BY <1>3, <1>4, NoCallRec DEF FilesInv, Stages, OverlapKnown, Inside
<1>11. RecorderWrote'
  <2>1. SUFFICES ASSUME NEW f \in Files, ~disk[f].contested
                 PROVE  /\ \A t \in Writers : Recording(t, f)' => disk[f].by = t
                        /\ disk[f].by # 0 => Recording(disk[f].by, f)' \/ lastWriter[WriteKey(f)].by = disk[f].by
    BY <1>2 DEF RecorderWrote
  <2>2. disk[f].by \in Writers \cup {0}
    BY DEF FilesInv, FileTypes, DiskRecs
  <2>3. QED
    BY <1>2, <1>5, <2>1, <2>2 DEF FilesInv, RecorderWrote
<1>12. knows[s][g] <= base /\ base <= disk[g].version /\ knows[s][g] \in Nat /\ disk[g].version \in Nat
  BY <1>1 DEF FilesInv, KnownPast, FileTypes, DiskRecs
<1>13. KnownPast'
  BY <1>2, <1>3, <1>6, <1>12, NoCallRec DEF FilesInv, KnownPast
<1>14. SeenPast'
  <2>1. SUFFICES ASSUME NEW t \in Writers, NEW k \in Keys
                 PROVE  seen'[t][k].at <= clock + 1
    BY <1>2 DEF SeenPast
  <2>2. seen[t][k].at \in Nat /\ seen[t][k].at <= clock
    BY DEF FilesInv, FileTypes, SeenRecs, SeenPast
  <2>3. QED
    BY <1>7, <1>8, <2>2
<1>15. \A t \in Writers, f \in Files : t # s => Foreign(t, f)' = Foreign(t, f)
  BY <1>2, <1>8 DEF Foreign, Misled
<1>16. \A f \in Files : f # "w" => Foreign(s, f)' = Foreign(s, f) /\ seen'[s][WriteKey(f)] = seen[s][WriteKey(f)]
  BY <1>2, <1>8, FileNames DEF Foreign, Misled, WriteKey
<1>17. \A t \in Writers, f \in Files : Foreign(t, f)' => disk[f].by \in Writers
  BY <1>2 DEF Foreign, FilesInv, FileTypes, DiskRecs
<1>18. LookKnows'
  <2>1. SUFFICES ASSUME NEW t \in Writers, NEW f \in Files, Foreign(t, f)', ~Recording(disk[f].by, f)',
                        lastWriter[WriteKey(f)].at <= seen'[t][WriteKey(f)].at
                 PROVE  knows'[t][f] = disk[f].version
    BY <1>2 DEF LookKnows
  <2>2. ~Recording(disk[f].by, f)
    BY <1>2, <1>5, <1>17, <2>1
  <2>3. CASE t # s
    BY <1>6, <1>8, <1>15, <2>1, <2>2, <2>3, SMTT(20) DEF FilesInv, LookKnows
  <2>4. CASE t = s /\ f # "w"
    <3>1. knows[s][f] = disk[f].version
      BY <1>16, <2>1, <2>2, <2>4 DEF FilesInv, LookKnows
    <3>2. QED
      BY <1>6, <1>12, <2>4, <3>1
  <2>5. CASE t = s /\ f = "w"
    <3>1. seen'[s]["file"].file = f /\ ~seen'[s]["file"].torn
      BY <2>1, <2>5 DEF Foreign, Misled, WriteKey
    <3>2. g = f /\ ~torn
      BY <1>8, <3>1
    <3>3. QED
      BY <1>1, <1>6, <2>5, <3>2
  <2>6. QED
    BY <2>3, <2>4, <2>5
<1>19. BaseCurrent'
  <2>1. \A t \in Writers : doing[t].file \in Files
    BY DEF FilesInv, FileTypes, CallRecs
  <2>2. SUFFICES ASSUME NEW t \in Writers, t # s, NEW c, c = doing[t]
                 PROVE  /\ c.tool = "edit_file" /\ c.at = "read" /\ ~c.overlap => c.base = disk[c.file].version
                        /\ c.tool = "write_file" /\ c.at = "checked" /\ ~c.overlap /\ Foreign(t, c.file)' =>
                             c.base = disk[c.file].version
    BY <1>2, <1>3, NoCallRec DEF BaseCurrent
  <2>3. QED
    BY <1>15, <2>1, <2>2 DEF FilesInv, BaseCurrent
<1>20. QED
  BY <1>2, <1>9, <1>10, <1>11, <1>13, <1>14, <1>18, <1>19 DEF FilesInv, NothingOverwrittenUnseen
LEMMA CheckPassesStep ==
  ASSUME FilesInv, NEW s \in Writers, NEW g \in Files, NEW tool \in {"write_file", "edit_file"},
         CheckPasses(s, g, tool)
  PROVE  FilesInv'
<1>1. PICK others \in BOOLEAN, late \in BOOLEAN :
        /\ others = (\E u \in Writers \ {s} : Inside(u, g))
        /\ late = (\E u \in Writers \ {s} : Inside(u, g) /\ doing[u].at \in {"replaced", "touched"})
  OBVIOUS
<1>2. /\ doing[s].tool = "none" /\ UNCHANGED <<clock, seen, lastWriter, knows, unseenLost>>
      /\ ~Conflict(s, WriteKey(g))
      /\ disk' = [disk EXCEPT ![g].contested = @ \/ late]
      /\ doing' = [t \in Writers |->
           IF t = s
           THEN [tool |-> tool, file |-> g, at |-> "checked", base |-> knows[s][g], overlap |-> others]
           ELSE IF Inside(t, g) THEN [doing[t] EXCEPT !.overlap = TRUE] ELSE doing[t]]
  BY <1>1 DEF CheckPasses, CallBegins
<1>3. \A t \in Writers : doing[t] \in CallRecs /\ [doing[t] EXCEPT !.overlap = TRUE] \in CallRecs
  BY DEF FilesInv, FileTypes, CallRecs
<1>4. knows[s][g] \in Nat
  BY DEF FilesInv, FileTypes
<1>5. [tool |-> tool, file |-> g, at |-> "checked", base |-> knows[s][g], overlap |-> others] \in CallRecs
  BY <1>1, <1>4 DEF CallRecs
<1>6. doing' \in [Writers -> CallRecs]
  BY <1>2, <1>3, <1>5
<1>7. /\ doing'[s].tool = tool /\ doing'[s].file = g /\ doing'[s].at = "checked"
      /\ doing'[s].base = knows[s][g] /\ doing'[s].overlap = others
  BY <1>2
<1>8. \A t \in Writers : t # s =>
        /\ doing'[t].tool = doing[t].tool /\ doing'[t].file = doing[t].file /\ doing'[t].at = doing[t].at
        /\ doing'[t].base = doing[t].base /\ (Inside(t, g) => doing'[t].overlap)
        /\ doing[t].overlap => doing'[t].overlap
  BY <1>2, <1>3 DEF CallRecs
<1>9. /\ disk' \in [Files -> DiskRecs]
      /\ \A f \in Files : disk'[f].version = disk[f].version /\ disk'[f].by = disk[f].by
                          /\ (disk[f].contested => disk'[f].contested)
      /\ late => disk'[g].contested
  BY <1>1, <1>2, ZenonT(40) DEF FilesInv, FileTypes, DiskRecs
<1>10. \A t \in Writers, f \in Files : t # s => Inside(t, f)' = Inside(t, f)
  BY <1>8 DEF Inside
<1>11. \A t \in Writers, f \in Files : Recording(t, f)' = Recording(t, f)
  BY <1>2, <1>7, <1>8 DEF Recording, Inside
<1>12. \A t \in Writers, f \in Files : Foreign(t, f)' => Foreign(t, f) /\ disk[f].by \in Writers
  BY <1>2, <1>9 DEF Foreign, Misled, FilesInv, FileTypes, DiskRecs
<1>13. \A f \in Files : Inside(s, f)' => f = g
  BY <1>7 DEF Inside
<1>14. FileTypes'
  BY <1>2, <1>6, <1>9 DEF FilesInv, FileTypes
<1>15. Stages'
  BY <1>7, <1>8 DEF FilesInv, Stages
<1>16. OverlapKnown'
  <2>1. SUFFICES ASSUME NEW t \in Writers, NEW u \in Writers, NEW f \in Files, t # u, Inside(t, f)', Inside(u, f)'
                 PROVE  doing'[t].overlap
    BY DEF OverlapKnown
  <2>2. CASE t = s
    <3>1. f = g /\ Inside(u, g)
      BY <1>10, <1>13, <2>1, <2>2
    <3>2. QED
      BY <1>1, <1>7, <2>1, <2>2, <3>1
  <2>3. CASE t # s /\ u = s
    BY <1>8, <1>10, <1>13, <2>1, <2>3
  <2>4. CASE t # s /\ u # s
    BY <1>8, <1>10, <2>1, <2>4 DEF FilesInv, OverlapKnown
  <2>5. QED
    BY <2>2, <2>3, <2>4
<1>17. RecorderWrote'
  <2>1. SUFFICES ASSUME NEW f \in Files, ~disk'[f].contested, NEW by, by = disk[f].by
                 PROVE  /\ \A t \in Writers : Recording(t, f)' => by = t
                        /\ by # 0 => Recording(by, f)' \/ lastWriter[WriteKey(f)].by = by
    BY <1>2, <1>9 DEF RecorderWrote
  <2>2. by \in Writers \cup {0} /\ ~disk[f].contested
    BY <1>9, <2>1 DEF FilesInv, FileTypes, DiskRecs
  <2>3. QED
    BY <1>11, <2>1, <2>2 DEF FilesInv, RecorderWrote
<1>18. KnownPast'
  BY <1>2, <1>7, <1>8, <1>9 DEF FilesInv, KnownPast
<1>19. SeenPast' /\ NothingOverwrittenUnseen'
  BY <1>2 DEF FilesInv, SeenPast, NothingOverwrittenUnseen
<1>20. LookKnows'
  <2>1. SUFFICES ASSUME NEW t \in Writers, NEW f \in Files, Foreign(t, f)', NEW by, by = disk[f].by,
                        ~Recording(by, f)', lastWriter[WriteKey(f)].at <= seen[t][WriteKey(f)].at
                 PROVE  knows[t][f] = disk[f].version
    BY <1>2, <1>9 DEF LookKnows
  <2>2. QED
    BY <1>11, <1>12, <2>1 DEF FilesInv, LookKnows
<1>21. BaseCurrent'
  <2>1. SUFFICES ASSUME NEW t \in Writers, NEW c, c = doing'[t], ~c.overlap
                 PROVE  /\ c.tool = "edit_file" /\ c.at = "read" => c.base = disk[c.file].version
                        /\ c.tool = "write_file" /\ c.at = "checked" /\ Foreign(t, c.file)' =>
                             c.base = disk[c.file].version
    <3>1. \A t \in Writers : doing'[t].file \in Files
      BY <1>6 DEF CallRecs
    <3>2. QED
      BY <1>9, <2>1, <3>1 DEF BaseCurrent
  <2>2. CASE t # s
    <3>1. /\ c.tool = doing[t].tool /\ c.at = doing[t].at /\ c.base = doing[t].base /\ c.file = doing[t].file
          /\ ~doing[t].overlap /\ c.file \in Files
      BY <1>3, <1>8, <2>1, <2>2 DEF CallRecs
    <3>2. QED
      BY <1>12, <3>1 DEF FilesInv, BaseCurrent
  <2>3. CASE t = s
    <3>1. SUFFICES ASSUME Foreign(s, g)
                   PROVE  knows[s][g] = disk[g].version
      BY <1>7, <1>12, <2>1, <2>3
    <3>2. PICK u \in Writers : u = disk[g].by /\ u # s /\ u # 0 /\ ~disk[g].contested
      BY <3>1 DEF Foreign, FilesInv, FileTypes, DiskRecs
    <3>3. ~Recording(u, g)
      BY <1>1, <1>7, <2>1, <2>3, <3>2 DEF Recording
    <3>4. lastWriter[WriteKey(g)].by = u
      BY <3>2, <3>3 DEF FilesInv, RecorderWrote
    <3>5. /\ seen[s][WriteKey(g)].at \in Nat /\ lastWriter[WriteKey(g)].at \in Nat
          /\ ~(lastWriter[WriteKey(g)].at > seen[s][WriteKey(g)].at)
      <4>1. WriteKey(g) \in Keys
        BY FileNames
      <4>2. seen[s][WriteKey(g)].at \in Nat /\ lastWriter[WriteKey(g)].at \in Nat
        BY <4>1 DEF FilesInv, FileTypes, SeenRecs
      <4>3. QED
        BY <1>2, <3>2, <3>4, <4>2 DEF Conflict
    <3>6. QED
      BY <3>1, <3>2, <3>3, <3>5 DEF FilesInv, LookKnows
  <2>4. QED
    BY <2>2, <2>3
<1>22. QED
  BY <1>14, <1>15, <1>16, <1>17, <1>18, <1>19, <1>20, <1>21 DEF FilesInv

LEMMA ReplaceStep ==
  ASSUME FilesInv, NEW s \in Writers, Replace(s)
  PROVE  FilesInv'
<1>1. PICK c \in CallRecs : c = doing[s]
  BY DEF FilesInv, FileTypes
<1>2. PICK g \in Files : g = c.file
  BY DEF CallRecs
<1>3. /\ \/ c.tool = "edit_file" /\ c.at = "read"
         \/ c.tool = "write_file" /\ c.at = "checked"
      /\ disk' = [disk EXCEPT ![g] = [version |-> disk[g].version + 1, by |-> s, contested |-> c.overlap]]
      /\ knows' = [knows EXCEPT ![s][g] = disk[g].version + 1]
      /\ doing' = [doing EXCEPT ![s].at = "replaced"]
      /\ UNCHANGED <<clock, seen, lastWriter>>
  BY <1>1, <1>2 DEF Replace, FilesInv, FileTypes
<1>4. disk[g].version \in Nat /\ c.overlap \in BOOLEAN
  BY DEF CallRecs, FilesInv, FileTypes, DiskRecs
<1>5. [version |-> disk[g].version + 1, by |-> s, contested |-> c.overlap] \in DiskRecs
  BY <1>4 DEF DiskRecs
<1>6. /\ disk' \in [Files -> DiskRecs] /\ disk'[g].version = disk[g].version + 1 /\ disk'[g].by = s
      /\ disk'[g].contested = c.overlap /\ \A f \in Files : f # g => disk'[f] = disk[f]
  BY <1>3, <1>5 DEF FilesInv, FileTypes
<1>7. /\ doing' \in [Writers -> CallRecs] /\ doing'[s].tool = c.tool /\ doing'[s].file = g
      /\ doing'[s].at = "replaced" /\ doing'[s].overlap = c.overlap
      /\ \A t \in Writers : t # s => doing'[t] = doing[t]
  BY <1>1, <1>2, <1>3 DEF FilesInv, FileTypes, CallRecs
<1>8. /\ knows' \in [Writers -> [Files -> Nat]] /\ knows'[s][g] = disk[g].version + 1
      /\ \A f \in Files : f # g => knows'[s][f] = knows[s][f]
      /\ \A t \in Writers : t # s => knows'[t] = knows[t]
  BY <1>3, <1>4 DEF FilesInv, FileTypes
<1>9. FileTypes'
  BY <1>3, <1>6, <1>7, <1>8 DEF FilesInv, FileTypes
<1>10. Stages'
  BY <1>3, <1>7 DEF FilesInv, Stages
<1>11. \A t \in Writers, f \in Files : Inside(t, f)' = Inside(t, f)
  BY <1>1, <1>2, <1>7 DEF Inside
<1>12. OverlapKnown'
  BY <1>1, <1>7, <1>11 DEF FilesInv, OverlapKnown
<1>13. /\ \A t \in Writers, f \in Files : t # s => Recording(t, f)' = Recording(t, f)
       /\ \A f \in Files : Recording(s, f)' => f = g
       /\ Recording(s, g)' /\ Inside(s, g)
  BY <1>1, <1>2, <1>3, <1>7 DEF Recording, Inside
<1>14. ~c.overlap => \A t \in Writers : t # s => ~Inside(t, g)
  BY <1>1, <1>13 DEF FilesInv, OverlapKnown
<1>15. RecorderWrote'
  <2>1. SUFFICES ASSUME NEW f \in Files, ~disk'[f].contested, NEW by, by = disk'[f].by
                 PROVE  /\ \A t \in Writers : Recording(t, f)' => by = t
                        /\ by # 0 => Recording(by, f)' \/ lastWriter[WriteKey(f)].by = by
    BY <1>3 DEF RecorderWrote
  <2>2. CASE f = g
    BY <1>6, <1>13, <1>14, <2>1, <2>2 DEF Recording
  <2>3. CASE f # g
    <3>1. disk[f].by = by /\ by \in Writers \cup {0} /\ ~disk[f].contested
      BY <1>6, <2>1, <2>3 DEF FilesInv, FileTypes, DiskRecs
    <3>2. ~Recording(s, f)
      BY <1>1, <1>2, <2>3 DEF Recording, Inside
    <3>3. QED
      BY <1>13, <2>3, <3>1, <3>2 DEF FilesInv, RecorderWrote
  <2>4. QED
    BY <2>2, <2>3
<1>16. KnownPast'
  <2>1. SUFFICES ASSUME NEW t \in Writers, NEW f \in Files
                 PROVE  /\ knows'[t][f] <= disk'[f].version
                        /\ doing'[t].tool = "read_file" /\ doing'[t].file = f =>
                             knows'[t][f] <= doing'[t].base /\ doing'[t].base <= disk'[f].version
    BY DEF KnownPast
  <2>2. /\ knows[t][f] <= disk[f].version /\ disk[f].version <= disk'[f].version
        /\ knows[t][f] \in Nat /\ disk[f].version \in Nat /\ disk'[f].version \in Nat /\ doing[t].base \in Nat
    <3>1. knows[t][f] \in Nat /\ doing[t].base \in Nat /\ knows[t][f] <= disk[f].version
      BY DEF FilesInv, KnownPast, FileTypes, CallRecs
    <3>2. disk[f].version \in Nat /\ disk'[f].version \in Nat
      BY <1>6 DEF FilesInv, FileTypes, DiskRecs
    <3>3. disk[f].version <= disk'[f].version
      BY <1>6, <3>2
    <3>4. QED
      BY <3>1, <3>2, <3>3
  <2>3. CASE t = s
    BY <1>3, <1>6, <1>7, <1>8, <2>2, <2>3
  <2>4. CASE t # s
    BY <1>7, <1>8, <2>2, <2>4 DEF FilesInv, KnownPast
  <2>5. QED
    BY <2>3, <2>4
<1>17. SeenPast'
  BY <1>3 DEF FilesInv, SeenPast
<1>18. LookKnows'
  <2>1. SUFFICES ASSUME NEW t \in Writers, NEW f \in Files, Foreign(t, f)', NEW by, by = disk'[f].by,
                        ~Recording(by, f)', lastWriter[WriteKey(f)].at <= seen[t][WriteKey(f)].at
                 PROVE  knows'[t][f] = disk'[f].version
    BY <1>3 DEF LookKnows
  <2>2. f # g
    BY <1>6, <1>13, <2>1
  <2>3. Foreign(t, f) /\ by = disk[f].by /\ by \in Writers
    BY <1>3, <1>6, <2>1, <2>2 DEF Foreign, Misled, FilesInv, FileTypes, DiskRecs
  <2>4. ~Recording(by, f)
    BY <1>1, <1>2, <1>13, <2>1, <2>2, <2>3 DEF Recording, Inside
  <2>5. QED
    BY <1>6, <1>8, <2>1, <2>2, <2>3, <2>4 DEF FilesInv, LookKnows
<1>19. BaseCurrent'
  <2>1. SUFFICES ASSUME NEW t \in Writers, NEW d \in CallRecs, d = doing'[t], ~d.overlap
                 PROVE  /\ d.tool = "edit_file" /\ d.at = "read" => d.base = disk'[d.file].version
                        /\ d.tool = "write_file" /\ d.at = "checked" /\ Foreign(t, d.file)' =>
                             d.base = disk'[d.file].version
    BY <1>7 DEF BaseCurrent
  <2>2. CASE t = s
    BY <1>7, <2>1, <2>2
  <2>3. CASE t # s
    <3>1. SUFFICES ASSUME d.tool \in {"edit_file", "write_file"}
                   PROVE  /\ d.tool = "edit_file" /\ d.at = "read" => d.base = disk'[d.file].version
                          /\ d.tool = "write_file" /\ d.at = "checked" /\ Foreign(t, d.file)' =>
                               d.base = disk'[d.file].version
      OBVIOUS
    <3>2. d = doing[t] /\ d.file \in Files
      BY <1>7, <2>1, <2>3 DEF CallRecs
    <3>3. d.file # g
      BY <1>13, <2>1, <2>3, <3>1, <3>2 DEF FilesInv, OverlapKnown, Inside
    <3>4. disk'[d.file] = disk[d.file] /\ Foreign(t, d.file)' = Foreign(t, d.file)
      BY <1>3, <1>6, <3>2, <3>3 DEF Foreign, Misled
    <3>5. QED
      BY <2>1, <3>2, <3>4 DEF FilesInv, BaseCurrent
  <2>4. QED
    BY <2>2, <2>3
<1>20. NothingOverwrittenUnseen'
  <2>1. SUFFICES ASSUME disk[g].by \notin {0, s}, disk[g].version # c.base, ~c.overlap, ~disk[g].contested,
                        ~Misled(s, g)
                 PROVE  FALSE
    BY <1>1, <1>2 DEF Replace, FilesInv, NothingOverwrittenUnseen
  <2>2. Foreign(s, g)
    BY <2>1 DEF Foreign
  <2>3. QED
    BY <1>1, <1>2, <1>3, <2>1, <2>2 DEF FilesInv, BaseCurrent
<1>21. QED
  BY <1>9, <1>10, <1>12, <1>15, <1>16, <1>17, <1>18, <1>19, <1>20 DEF FilesInv
LEMMA RecordTouchesStep ==
  ASSUME FilesInv, NEW s \in Writers, RecordTouches(s)
  PROVE  FilesInv'
<1>1. PICK g \in Files, key \in Keys :
        g = doing[s].file /\ key = WriteKey(g) /\ doing[s].at = "replaced" /\ Recording(s, g)
  BY FileNames DEF RecordTouches, Recording, Inside, FilesInv, FileTypes, CallRecs, Stages
<1>2. /\ clock' = clock + 1 /\ doing' = [doing EXCEPT ![s].at = "touched"]
      /\ seen' = [seen EXCEPT ![s][key] = [at |-> clock + 1, file |-> g, torn |-> FALSE]]
      /\ UNCHANGED <<disk, lastWriter, knows, unseenLost>>
  BY <1>1 DEF RecordTouches, TouchKey
<1>3. clock \in Nat /\ [at |-> clock + 1, file |-> g, torn |-> FALSE] \in SeenRecs
  BY DEF FilesInv, FileTypes, SeenRecs
<1>4. /\ seen' \in [Writers -> [Keys -> SeenRecs]]
      /\ seen'[s][key] = [at |-> clock + 1, file |-> g, torn |-> FALSE]
      /\ \A k \in Keys : k # key => seen'[s][k] = seen[s][k]
      /\ \A t \in Writers : t # s => seen'[t] = seen[t]
  BY <1>2, <1>3 DEF FilesInv, FileTypes
<1>5. /\ doing' \in [Writers -> CallRecs] /\ doing'[s].tool = doing[s].tool /\ doing'[s].file = g
      /\ doing'[s].at = "touched" /\ doing'[s].overlap = doing[s].overlap
      /\ \A t \in Writers : t # s => doing'[t] = doing[t]
  BY <1>1, <1>2 DEF FilesInv, FileTypes, CallRecs
<1>6. FileTypes'
  BY <1>2, <1>3, <1>4, <1>5 DEF FilesInv, FileTypes
<1>7. \A t \in Writers, f \in Files : Inside(t, f)' = Inside(t, f) /\ Recording(t, f)' = Recording(t, f)
  BY <1>1, <1>5 DEF Inside, Recording
<1>8. doing[s].tool \in {"write_file", "edit_file"}
  BY <1>1 DEF Recording, Inside
<1>9. Stages' /\ OverlapKnown'
  BY <1>5, <1>7, <1>8 DEF FilesInv, Stages, OverlapKnown
<1>10. RecorderWrote'
  <2>1. SUFFICES ASSUME NEW f \in Files, ~disk[f].contested, NEW by, by = disk[f].by
                 PROVE  /\ \A t \in Writers : Recording(t, f)' => by = t
                        /\ by # 0 => Recording(by, f)' \/ lastWriter[WriteKey(f)].by = by
    BY <1>2 DEF RecorderWrote
  <2>2. by \in Writers \cup {0}
    BY <2>1 DEF FilesInv, FileTypes, DiskRecs
  <2>3. QED
    BY <1>7, <2>1, <2>2 DEF FilesInv, RecorderWrote
<1>11. KnownPast'
  BY <1>2, <1>5, <1>8 DEF FilesInv, KnownPast
<1>12. SeenPast'
  <2>1. SUFFICES ASSUME NEW t \in Writers, NEW k \in Keys
                 PROVE  seen'[t][k].at <= clock + 1
    BY <1>2 DEF SeenPast
  <2>2. seen[t][k].at \in Nat /\ seen[t][k].at <= clock
    BY DEF FilesInv, FileTypes, SeenRecs, SeenPast
  <2>3. QED
    BY <1>3, <1>4, <2>2
<1>13. \A t \in Writers, f \in Files : t # s \/ f # g =>
         Foreign(t, f)' = Foreign(t, f) /\ seen'[t][WriteKey(f)] = seen[t][WriteKey(f)]
  BY <1>1, <1>2, <1>4, FileNames DEF Foreign, Misled
<1>14. ~Foreign(s, g)'
  BY <1>1, <1>2 DEF Foreign, FilesInv, RecorderWrote
<1>15. LookKnows'
  <2>1. SUFFICES ASSUME NEW t \in Writers, NEW f \in Files, Foreign(t, f)', NEW by, by = disk[f].by,
                        ~Recording(by, f)', lastWriter[WriteKey(f)].at <= seen'[t][WriteKey(f)].at
                 PROVE  knows[t][f] = disk[f].version
    BY <1>2 DEF LookKnows
  <2>2. Foreign(t, f) /\ seen'[t][WriteKey(f)] = seen[t][WriteKey(f)]
    BY <1>13, <1>14, <2>1
  <2>3. by \in Writers
    BY <2>1, <2>2 DEF Foreign, FilesInv, FileTypes, DiskRecs
  <2>4. QED
    BY <1>7, <2>1, <2>2, <2>3 DEF FilesInv, LookKnows
<1>16. BaseCurrent'
  <2>1. SUFFICES ASSUME NEW t \in Writers, t # s, NEW c \in CallRecs, c = doing[t]
                 PROVE  /\ c.tool = "edit_file" /\ c.at = "read" /\ ~c.overlap => c.base = disk[c.file].version
                        /\ c.tool = "write_file" /\ c.at = "checked" /\ ~c.overlap /\ Foreign(t, c.file)' =>
                             c.base = disk[c.file].version
    BY <1>2, <1>5 DEF BaseCurrent
  <2>2. c.file \in Files
    BY DEF CallRecs
  <2>3. QED
    BY <1>13, <2>1, <2>2 DEF FilesInv, BaseCurrent
<1>17. QED
  BY <1>2, <1>6, <1>9, <1>10, <1>11, <1>12, <1>15, <1>16 DEF FilesInv, NothingOverwrittenUnseen

LEMMA RecordWriteStep ==
  ASSUME FilesInv, NEW s \in Writers, RecordWrite(s)
  PROVE  FilesInv'
<1>1. PICK g \in Files, key \in Keys :
        g = doing[s].file /\ key = WriteKey(g) /\ doing[s].at = "touched" /\ Recording(s, g)
  BY FileNames DEF RecordWrite, Recording, Inside, FilesInv, FileTypes, CallRecs, Stages
<1>2. /\ clock' = clock + 1 /\ doing' = [doing EXCEPT ![s] = NoCall]
      /\ lastWriter' = [lastWriter EXCEPT ![key] = [by |-> s, at |-> clock + 1]]
      /\ UNCHANGED <<disk, seen, knows, unseenLost>>
  BY <1>1 DEF RecordWrite
<1>3. clock \in Nat
  BY DEF FilesInv, FileTypes
<1>4. /\ lastWriter' \in [Keys -> [by : Writers \cup {0}, at : Nat]]
      /\ lastWriter'[key].by = s /\ lastWriter'[key].at = clock + 1
      /\ \A k \in Keys : k # key => lastWriter'[k] = lastWriter[k]
  BY <1>2, <1>3 DEF FilesInv, FileTypes
<1>5. doing'[s] = NoCall /\ \A t \in Writers : t # s => doing'[t] = doing[t]
  BY <1>2 DEF FilesInv, FileTypes
<1>6. /\ \A t \in Writers, f \in Files : Inside(t, f)' => t # s /\ Inside(t, f)
      /\ \A t \in Writers, f \in Files : t # s \/ f # g => Recording(t, f)' = Recording(t, f)
      /\ \A f \in Files : ~Recording(s, f)'
  BY <1>1, <1>5, NoCallRec DEF Recording, Inside
<1>7. FileTypes'
  BY <1>2, <1>3, <1>4, NoCallRec DEF FilesInv, FileTypes
<1>8. Stages' /\ OverlapKnown'
  BY <1>5, <1>6, NoCallRec DEF FilesInv, Stages, OverlapKnown
<1>9. RecorderWrote'
  <2>1. SUFFICES ASSUME NEW f \in Files, ~disk[f].contested, NEW by, by = disk[f].by
                 PROVE  /\ \A t \in Writers : Recording(t, f)' => by = t
                        /\ by # 0 => Recording(by, f)' \/ lastWriter'[WriteKey(f)].by = by
    BY <1>2 DEF RecorderWrote
  <2>2. by \in Writers \cup {0}
    BY <2>1 DEF FilesInv, FileTypes, DiskRecs
  <2>3. CASE f = g
    BY <1>1, <1>4, <1>6, <2>1, <2>3 DEF FilesInv, RecorderWrote
  <2>4. CASE f # g
    <3>1. lastWriter'[WriteKey(f)] = lastWriter[WriteKey(f)]
      BY <1>1, <1>4, <2>4, FileNames
    <3>2. QED
      BY <1>6, <2>1, <2>2, <2>4, <3>1 DEF FilesInv, RecorderWrote
  <2>5. QED
    BY <2>3, <2>4
<1>10. KnownPast'
  BY <1>2, <1>5, NoCallRec DEF FilesInv, KnownPast
<1>11. \A t \in Writers, k \in Keys : seen[t][k].at \in Nat /\ seen[t][k].at <= clock
  BY DEF FilesInv, FileTypes, SeenRecs, SeenPast
<1>12. SeenPast'
  <2>1. \A t \in Writers, k \in Keys : seen[t][k].at <= clock + 1
    BY <1>3, <1>11
  <2>2. QED
    BY <1>2, <2>1 DEF SeenPast
<1>13. \A t \in Writers, f \in Files : Foreign(t, f)' = Foreign(t, f)
  BY <1>2 DEF Foreign, Misled
<1>14. LookKnows'
  <2>1. SUFFICES ASSUME NEW t \in Writers, NEW f \in Files, Foreign(t, f), NEW by, by = disk[f].by,
                        ~Recording(by, f)', lastWriter'[WriteKey(f)].at <= seen[t][WriteKey(f)].at
                 PROVE  knows[t][f] = disk[f].version
    BY <1>2, <1>13 DEF LookKnows
  <2>2. by \in Writers /\ WriteKey(f) \in Keys
    BY <2>1, FileNames DEF Foreign, FilesInv, FileTypes, DiskRecs
  <2>3. f # g
    <3>1. SUFFICES ASSUME f = g
                   PROVE  FALSE
      OBVIOUS
    <3>2. clock + 1 <= seen[t][key].at
      BY <1>1, <1>4, <2>1, <3>1
    <3>3. QED
      BY <1>3, <1>11, <3>2
  <2>4. lastWriter'[WriteKey(f)] = lastWriter[WriteKey(f)] /\ ~Recording(by, f)
    BY <1>1, <1>4, <1>6, <2>1, <2>2, <2>3, FileNames
  <2>5. QED
    BY <2>1, <2>4 DEF FilesInv, LookKnows
<1>15. BaseCurrent'
  <2>1. SUFFICES ASSUME NEW t \in Writers, t # s, NEW c \in CallRecs, c = doing[t]
                 PROVE  /\ c.tool = "edit_file" /\ c.at = "read" /\ ~c.overlap => c.base = disk[c.file].version
                        /\ c.tool = "write_file" /\ c.at = "checked" /\ ~c.overlap /\ Foreign(t, c.file)' =>
                             c.base = disk[c.file].version
    BY <1>2, <1>5, NoCallRec DEF BaseCurrent, FilesInv, FileTypes
  <2>2. c.file \in Files
    BY DEF CallRecs
  <2>3. QED
    BY <1>13, <2>1, <2>2 DEF FilesInv, BaseCurrent
<1>16. QED
  BY <1>2, <1>7, <1>8, <1>9, <1>10, <1>12, <1>14, <1>15 DEF FilesInv, NothingOverwrittenUnseen

LEMMA FilesStep == FilesInv /\ [FilesNext]_fileVars => FilesInv'
<1>1. ASSUME FilesInv, UNCHANGED fileVars
      PROVE  FilesInv'
  BY <1>1 DEF fileVars, FilesInv, FileTypes, Stages, OverlapKnown, RecorderWrote, KnownPast, SeenPast, LookKnows,
              BaseCurrent, NothingOverwrittenUnseen, Foreign, Misled, Recording, Inside
<1>2. QED
  BY <1>1, ReadingSteps, ReadFileTouchesStep, CheckPassesStep, ReplaceStep, RecordTouchesStep, RecordWriteStep
     DEF FilesNext

\* The conflict check of write_file and edit_file (FileCoordinator in tools/write_file.go) keeps a
\* session from replacing a version of another that it never saw, outside the
\* windows named with the property, for any number of sessions and calls.
THEOREM FilesCorrect == FilesSpec => []NothingOverwrittenUnseen
<1>1. FilesInit => FilesInv
  BY FilesInitially
<1>2. FilesInv /\ [FilesNext]_fileVars => FilesInv'
  BY FilesStep
<1>3. FilesInv => NothingOverwrittenUnseen
  BY DEF FilesInv
<1>4. QED
  BY <1>1, <1>2, <1>3, PTL DEF FilesSpec
-----------------------------------------------------------------------------
(* Plans                                                                    *)

Words == {"title", "item", "done", "model"}
Lines == Seq(Words)
PlanRecs == [repo : {"none", "repo"}, lines : Lines, blind : BOOLEAN]
EnsureRecs == [at : {"none", "listed", "made"}, dir : Nat, blind : BOOLEAN]
AcceptRecs == [at : {"none", "started", "open", "read", "closing"}, proposal : Proposals, role : {"d", "b"},
               base : Lines, ok : BOOLEAN]

PlanTypes ==
  /\ planDirs \in Seq(PlanRecs) /\ planOf \in 0..Len(planDirs)
  /\ ensuring \in [Ensurers -> EnsureRecs]
  /\ accepting \in [Tabs -> AcceptRecs]
  /\ modelCall \in [at : {"none", "allowed"}, excused : BOOLEAN]
  /\ planPage \in BOOLEAN /\ planAccept \in BOOLEAN

\* Registry.mu: one caller of EnsurePlan at a time, whose directory is the one
\* it made, and which found no plan unless its listing failed.
OneRegistrar ==
  /\ \A c, d \in Ensurers : ensuring[c].at # "none" /\ ensuring[d].at # "none" => c = d
  /\ \A c \in Ensurers : ensuring[c].at = "made" =>
       ensuring[c].dir \in DOMAIN planDirs /\ planDirs[ensuring[c].dir].blind = ensuring[c].blind
  /\ \A c \in Ensurers : ensuring[c].at # "none" /\ ~ensuring[c].blind =>
       \A i \in DOMAIN planDirs : planDirs[i].repo # "repo"

BoundOnce ==
  \A i, j \in DOMAIN planDirs :
    /\ planDirs[i].repo = "repo" /\ ~planDirs[i].blind
    /\ planDirs[j].repo = "repo" /\ ~planDirs[j].blind
    => i = j

\* The gate is open only while an accept of the planner session is under way.
GateOwned == planAccept => AcceptUnderWay

CallExcused == modelCall.at = "allowed" => modelCall.excused /\ planOf # 0

\* A plan an accept has found stays.
HasPlan(role) == IF role = "d" THEN planOf # 0 ELSE \E i \in DOMAIN planDirs : planDirs[i].repo = "repo"
AcceptFound ==
  \A t \in Tabs :
    /\ accepting[t].at \in {"started", "open", "read"} => HasPlan(accepting[t].role)
    /\ accepting[t].at = "read" =>
         \E j \in DOMAIN accepting[t].base : accepting[t].base[j] = OldText(accepting[t].proposal)

PlansInv ==
  /\ PlanTypes /\ OneRegistrar /\ BoundOnce /\ GateOwned /\ CallExcused /\ AcceptFound /\ PlanGoverned
LEMMA PlanRecords ==
  /\ NotEnsuring \in EnsureRecs /\ NotEnsuring.at = "none"
  /\ NoAccept \in AcceptRecs /\ NoAccept.at = "none"
  /\ NoModelCall \in [at : {"none", "allowed"}, excused : BOOLEAN] /\ NoModelCall.at = "none"
  /\ \A blind \in BOOLEAN, ls \in Lines :
       NewDir(blind, ls) \in PlanRecs /\ NewDir(blind, ls).repo = "none" /\ NewDir(blind, ls).blind = blind
<1>1. << >> \in Lines
  BY DEF Lines
<1>2. QED
  BY <1>1 DEF NotEnsuring, NoAccept, NoModelCall, NewDir, EnsureRecs, AcceptRecs, PlanRecs, Proposals

LEMMA PlanLines ==
  /\ << >> \in Lines /\ <<"title">> \in Lines /\ <<"done">> \in Lines /\ <<"title", "item">> \in Lines
  /\ \A ls \in Lines : Append(ls, "model") \in Lines
  /\ \A a, b \in Lines : a \o b \in Lines
<1>1. "title" \in Words /\ "item" \in Words /\ "done" \in Words /\ "model" \in Words
  BY DEF Words
<1>2. QED
  BY <1>1 DEF Lines

LEMMA PlansInitially == PlansInit => PlansInv
<1> SUFFICES ASSUME PlansInit
             PROVE  PlansInv
  OBVIOUS
<1>1. planDirs \in Seq(PlanRecs) /\ Len(planDirs) = 0 /\ DOMAIN planDirs = {}
  BY DEF PlansInit
<1>2. PlanTypes
  <2>1. ensuring \in [Ensurers -> EnsureRecs] /\ accepting \in [Tabs -> AcceptRecs]
    BY PlanRecords DEF PlansInit
  <2>2. modelCall \in [at : {"none", "allowed"}, excused : BOOLEAN] /\ planPage \in BOOLEAN /\ planAccept \in BOOLEAN
    BY PlanRecords DEF PlansInit
  <2>3. planOf \in 0..Len(planDirs)
    BY <1>1 DEF PlansInit
  <2>4. QED
    BY <1>1, <2>1, <2>2, <2>3 DEF PlanTypes
<1>3. \A c \in Ensurers : ensuring[c].at = "none"
  BY PlanRecords DEF PlansInit
<1>4. OneRegistrar /\ BoundOnce
  BY <1>1, <1>3 DEF OneRegistrar, BoundOnce
<1>5. GateOwned /\ CallExcused /\ PlanGoverned
  BY PlanRecords DEF PlansInit, GateOwned, CallExcused, PlanGoverned
<1>6. AcceptFound
  BY PlanRecords DEF PlansInit, AcceptFound
<1>7. QED
  BY <1>2, <1>4, <1>5, <1>6 DEF PlansInv

\* The directories only grow, and keep what plan.json binds them to.
DirsGrow ==
  /\ planDirs' \in Seq(PlanRecs) /\ Len(planDirs) <= Len(planDirs')
  /\ \A i \in DOMAIN planDirs :
       i \in DOMAIN planDirs' /\ planDirs'[i].repo = planDirs[i].repo /\ planDirs'[i].blind = planDirs[i].blind
  /\ \A i \in DOMAIN planDirs' : i \notin DOMAIN planDirs => planDirs'[i].repo # "repo"

LEMMA LinesRewritten ==
  ASSUME PlanTypes, NEW i \in DOMAIN planDirs, NEW ls \in Lines,
         planDirs' = [planDirs EXCEPT ![i].lines = ls]
  PROVE  DirsGrow
<1>1. i \in 1..Len(planDirs) /\ planDirs[i] \in PlanRecs
  BY DEF PlanTypes
<1>2. PICK rec : rec = [planDirs[i] EXCEPT !.lines = ls]
  OBVIOUS
<1>3. rec \in PlanRecs /\ rec.repo = planDirs[i].repo /\ rec.blind = planDirs[i].blind
  BY <1>1, <1>2 DEF PlanRecs
<1>4. planDirs' = [planDirs EXCEPT ![i] = rec]
  BY <1>2
<1>5. QED
  BY <1>1, <1>3, <1>4 DEF PlanTypes, DirsGrow

LEMMA DirAdded ==
  ASSUME PlanTypes, NEW blind \in BOOLEAN, NEW ls \in Lines,
         planDirs' = Append(planDirs, NewDir(blind, ls))
  PROVE  /\ DirsGrow /\ Len(planDirs') = Len(planDirs) + 1
         /\ Len(planDirs) + 1 \in DOMAIN planDirs' /\ planDirs'[Len(planDirs) + 1].blind = blind
<1>1. PICK rec \in PlanRecs : rec = NewDir(blind, ls) /\ rec.repo = "none" /\ rec.blind = blind
  BY PlanRecords
<1>2. planDirs' = Append(planDirs, rec)
  BY <1>1
<1>3. /\ planDirs' \in Seq(PlanRecs) /\ Len(planDirs') = Len(planDirs) + 1
      /\ \A i \in 1..Len(planDirs) : planDirs'[i] = planDirs[i]
      /\ planDirs'[Len(planDirs) + 1] = rec
  BY <1>2 DEF PlanTypes
<1>4. DOMAIN planDirs = 1..Len(planDirs) /\ DOMAIN planDirs' = 1..(Len(planDirs) + 1) /\ Len(planDirs) \in Nat
  BY <1>3 DEF PlanTypes
<1>5. \A i \in DOMAIN planDirs' : i \notin DOMAIN planDirs => i = Len(planDirs) + 1
  BY <1>4
<1>6. QED
  BY <1>1, <1>3, <1>4, <1>5 DEF DirsGrow

LEMMA DirsStay == ASSUME PlanTypes, UNCHANGED planDirs PROVE DirsGrow
  BY DEF PlanTypes, DirsGrow

LEMMA RegistryKept ==
  ASSUME PlansInv, DirsGrow, UNCHANGED ensuring
  PROVE  OneRegistrar' /\ BoundOnce'
<1>1. OneRegistrar'
  BY DEF PlansInv, OneRegistrar, DirsGrow
<1>2. BoundOnce'
  BY DEF PlansInv, BoundOnce, DirsGrow
<1>3. QED
  BY <1>1, <1>2

LEMMA PlansFoundKept ==
  ASSUME PlansInv, DirsGrow, planOf' = planOf \/ planOf' # 0, NEW role, HasPlan(role)
  PROVE  HasPlan(role)'
  BY DEF PlansInv, DirsGrow, HasPlan

\* planDirFor names a plan where there is one.
LEMMA PlanForFound ==
  ASSUME PlansInv, NEW role \in {"d", "b"}
  PROVE  /\ HasPlan(role) => PlanFor(role) \in DOMAIN planDirs
         /\ PlanFor(role) # 0 => HasPlan(role)
<1>1. CASE role = "d"
  BY <1>1 DEF PlansInv, PlanTypes, HasPlan, PlanFor
<1>2. CASE role = "b"
  BY <1>2 DEF HasPlan, PlanFor
<1>3. QED
  BY <1>1, <1>2

\* What happens on the Plan page leaves registration alone.
LEMMA PageMoves ==
  ASSUME PlansInv, DirsGrow, UNCHANGED ensuring,
         accepting' \in [Tabs -> AcceptRecs], modelCall' \in [at : {"none", "allowed"}, excused : BOOLEAN],
         planPage' \in BOOLEAN, planAccept' \in BOOLEAN,
         planOf' \in 0..Len(planDirs'), planOf' = planOf \/ planOf' # 0,
         GateOwned', CallExcused', AcceptFound', PlanGoverned'
  PROVE  PlansInv'
<1>1. OneRegistrar' /\ BoundOnce'
  BY RegistryKept
<1>2. PlanTypes'
  BY DEF PlansInv, PlanTypes, DirsGrow
<1>3. QED
  BY <1>1, <1>2 DEF PlansInv

\* Registration leaves the page alone.
LEMMA RegistryMoves ==
  ASSUME PlansInv, UNCHANGED <<planOf, planPage, planAccept, accepting, modelCall, ungoverned>>,
         planDirs' \in Seq(PlanRecs), Len(planDirs) <= Len(planDirs'),
         \A i \in DOMAIN planDirs :
           i \in DOMAIN planDirs' /\ (planDirs[i].repo = "repo" => planDirs'[i].repo = "repo"),
         ensuring' \in [Ensurers -> EnsureRecs], OneRegistrar', BoundOnce'
  PROVE  PlansInv'
<1>1. PlanTypes'
  BY DEF PlansInv, PlanTypes
<1>2. GateOwned' /\ CallExcused' /\ PlanGoverned'
  BY DEF PlansInv, GateOwned, AcceptUnderWay, CallExcused, PlanGoverned
<1>3. \A role : HasPlan(role) => HasPlan(role)'
  BY DEF HasPlan
<1>4. AcceptFound'
  BY <1>3 DEF PlansInv, AcceptFound
<1>5. QED
  BY <1>1, <1>2, <1>4 DEF PlansInv

LEMMA EnsureListsStep ==
  ASSUME PlansInv, NEW c \in Ensurers, NEW fails \in BOOLEAN, EnsureLists(c, fails)
  PROVE  PlansInv'
<1>1. /\ UNCHANGED <<planDirs, planOf, planPage, planAccept, accepting, modelCall, ungoverned>>
      /\ RegistryLocked(c) /\ (fails \/ \A i \in DOMAIN planDirs : planDirs[i].repo # "repo")
      /\ ensuring' = [ensuring EXCEPT ![c] = [at |-> "listed", dir |-> 0, blind |-> fails]]
  BY DEF EnsureLists
<1>2. [at |-> "listed", dir |-> 0, blind |-> fails] \in EnsureRecs
  BY DEF EnsureRecs
<1>3. /\ ensuring' \in [Ensurers -> EnsureRecs] /\ ensuring'[c].at = "listed" /\ ensuring'[c].blind = fails
      /\ \A d \in Ensurers : d # c => ensuring'[d] = ensuring[d] /\ ensuring[d].at = "none"
  BY <1>1, <1>2 DEF PlansInv, PlanTypes, RegistryLocked
<1>4. OneRegistrar'
  BY <1>1, <1>3 DEF OneRegistrar
<1>5. BoundOnce'
  BY <1>1 DEF PlansInv, BoundOnce
<1>6. QED
  BY <1>1, <1>3, <1>4, <1>5, RegistryMoves DEF PlansInv, PlanTypes

LEMMA EnsureAllocatesStep ==
  ASSUME PlansInv, NEW c \in Ensurers, EnsureAllocates(c)
  PROVE  PlansInv'
<1>1. PICK blind \in BOOLEAN, n \in Nat : blind = ensuring[c].blind /\ n = Len(planDirs) + 1
  BY DEF PlansInv, PlanTypes, EnsureRecs
<1>2. /\ UNCHANGED <<planOf, planPage, planAccept, accepting, modelCall, ungoverned>>
      /\ ensuring[c].at = "listed" /\ planDirs' = Append(planDirs, NewDir(blind, << >>))
      /\ ensuring' = [ensuring EXCEPT ![c] = [@ EXCEPT !.at = "made", !.dir = n]]
  BY <1>1 DEF EnsureAllocates
<1>3. /\ DirsGrow /\ n \in DOMAIN planDirs' /\ planDirs'[n].blind = blind
  BY <1>1, <1>2, PlanLines, DirAdded DEF PlansInv
<1>4. /\ ensuring' \in [Ensurers -> EnsureRecs] /\ ensuring'[c].at = "made" /\ ensuring'[c].dir = n
      /\ ensuring'[c].blind = blind /\ \A d \in Ensurers : d # c => ensuring'[d] = ensuring[d]
  BY <1>1, <1>2 DEF PlansInv, PlanTypes, EnsureRecs
<1>5. \A d \in Ensurers : d # c => ensuring[d].at = "none"
  BY <1>2 DEF PlansInv, OneRegistrar
<1>6. ~blind => \A i \in DOMAIN planDirs : planDirs[i].repo # "repo"
  BY <1>1, <1>2 DEF PlansInv, OneRegistrar
<1>7. OneRegistrar'
  BY <1>3, <1>4, <1>5, <1>6 DEF OneRegistrar, DirsGrow
<1>8. BoundOnce'
  BY <1>3 DEF PlansInv, BoundOnce, DirsGrow
<1>9. QED
  BY <1>2, <1>3, <1>4, <1>7, <1>8, RegistryMoves DEF DirsGrow

LEMMA EnsureBindsStep ==
  ASSUME PlansInv, NEW c \in Ensurers, EnsureBinds(c)
  PROVE  PlansInv'
<1>1. PICK n \in DOMAIN planDirs : n = ensuring[c].dir /\ planDirs[n].blind = ensuring[c].blind
  BY DEF EnsureBinds, PlansInv, OneRegistrar
<1>2. PICK rec : rec = [planDirs[n] EXCEPT !.repo = "repo", !.lines = <<"title">>]
  OBVIOUS
<1>3. planDirs[n] \in PlanRecs /\ n \in 1..Len(planDirs)
  BY DEF PlansInv, PlanTypes
<1>4. rec \in PlanRecs /\ rec.repo = "repo" /\ rec.blind = planDirs[n].blind
  BY <1>2, <1>3, PlanLines DEF PlanRecs
<1>5. /\ UNCHANGED <<planOf, planPage, planAccept, accepting, modelCall, ungoverned>>
      /\ ensuring[c].at = "made" /\ planDirs' = [planDirs EXCEPT ![n] = rec]
      /\ ensuring' = [ensuring EXCEPT ![c] = NotEnsuring]
  BY <1>1, <1>2 DEF EnsureBinds
<1>6. /\ planDirs' \in Seq(PlanRecs) /\ Len(planDirs') = Len(planDirs) /\ DOMAIN planDirs' = DOMAIN planDirs
      /\ planDirs'[n] = rec /\ \A i \in DOMAIN planDirs : i # n => planDirs'[i] = planDirs[i]
  BY <1>3, <1>4, <1>5 DEF PlansInv, PlanTypes
<1>7. /\ ensuring' \in [Ensurers -> EnsureRecs] /\ \A d \in Ensurers : ensuring'[d].at = "none"
  BY <1>5, PlanRecords DEF PlansInv, PlanTypes, OneRegistrar
<1>8. OneRegistrar'
  BY <1>7 DEF OneRegistrar
<1>9. ~rec.blind => \A i \in DOMAIN planDirs : planDirs[i].repo # "repo"
  BY <1>1, <1>4, <1>5 DEF PlansInv, OneRegistrar
<1>10. BoundOnce'
  BY <1>6, <1>9 DEF PlansInv, BoundOnce
<1>11. QED
  BY <1>4, <1>5, <1>6, <1>7, <1>8, <1>10, RegistryMoves DEF PlansInv, PlanTypes

LEMMA EnsureFailsStep ==
  ASSUME PlansInv, NEW c \in Ensurers, EnsureFails(c)
  PROVE  PlansInv'
<1>1. /\ UNCHANGED <<planDirs, planOf, planPage, planAccept, accepting, modelCall, ungoverned>>
      /\ ensuring' = [ensuring EXCEPT ![c] = NotEnsuring]
  BY DEF EnsureFails
<1>2. /\ ensuring' \in [Ensurers -> EnsureRecs] /\ ensuring'[c].at = "none"
      /\ \A d \in Ensurers : d # c => ensuring'[d] = ensuring[d]
  BY <1>1, PlanRecords DEF PlansInv, PlanTypes
<1>3. OneRegistrar' /\ BoundOnce'
  BY <1>1, <1>2 DEF PlansInv, OneRegistrar, BoundOnce
<1>4. QED
  BY <1>1, <1>2, <1>3, RegistryMoves DEF PlansInv, PlanTypes

LEMMA PageSteps ==
  ASSUME PlansInv, PlanSurface \/ \E p \in Proposals : Propose(p)
  PROVE  PlansInv'
<1>1. /\ UNCHANGED <<planDirs, ensuring, planOf, planAccept, accepting, modelCall, ungoverned>>
      /\ planPage' \in BOOLEAN
  BY DEF PlanSurface, Propose, PlansInv, PlanTypes
<1>2. DirsGrow
  BY <1>1, DirsStay DEF PlansInv
<1>3. GateOwned' /\ CallExcused' /\ PlanGoverned'
  BY <1>1 DEF PlansInv, GateOwned, AcceptUnderWay, CallExcused, PlanGoverned
<1>4. AcceptFound'
  BY <1>1 DEF PlansInv, AcceptFound, HasPlan
<1>5. QED
  BY <1>1, <1>2, <1>3, <1>4, PageMoves DEF PlansInv, PlanTypes

LEMMA ModelCallStartsStep == PlansInv /\ ModelCallStarts => PlansInv'
<1> SUFFICES ASSUME PlansInv, ModelCallStarts
             PROVE  PlansInv'
  OBVIOUS
<1>1. /\ UNCHANGED <<ensuring, planPage, planAccept, accepting, ungoverned>> /\ PlanWriteAllowed
      /\ modelCall' = [at |-> "allowed", excused |-> ~planPage \/ AcceptUnderWay]
  BY DEF ModelCallStarts
<1>2. ~planPage \/ AcceptUnderWay
  BY <1>1 DEF PlanWriteAllowed, PlansInv, GateOwned
<1>3. modelCall' = [at |-> "allowed", excused |-> TRUE]
  BY <1>1, <1>2
<1>4. DirsGrow /\ planOf' \in 0..Len(planDirs') /\ planOf' # 0 /\ (planOf = 0 \/ planOf' = planOf)
  <2>1. CASE planOf = 0
    <3>1. planOf' = Len(planDirs) + 1 /\ planDirs' = Append(planDirs, NewDir(FALSE, <<"title">>))
      BY <2>1 DEF ModelCallStarts
    <3>2. DirsGrow /\ Len(planDirs') = Len(planDirs) + 1
      BY <3>1, PlanLines, DirAdded DEF PlansInv
    <3>3. Len(planDirs) \in Nat
      BY DEF PlansInv, PlanTypes
    <3>4. QED
      BY <2>1, <3>1, <3>2, <3>3
  <2>2. CASE planOf # 0
    BY <2>2, DirsStay DEF ModelCallStarts, PlansInv, PlanTypes
  <2>3. QED
    BY <2>1, <2>2
<1>5. GateOwned' /\ PlanGoverned'
  BY <1>1 DEF PlansInv, GateOwned, AcceptUnderWay, PlanGoverned
<1>6. CallExcused' /\ modelCall' \in [at : {"none", "allowed"}, excused : BOOLEAN]
  BY <1>3, <1>4 DEF CallExcused
<1>7. AcceptFound'
  <2>1. \A role : HasPlan(role) => HasPlan(role)'
    BY <1>4, PlansFoundKept
  <2>2. QED
    BY <1>1, <2>1 DEF PlansInv, AcceptFound
<1>8. QED
  BY <1>1, <1>4, <1>5, <1>6, <1>7, PageMoves DEF PlansInv, PlanTypes

LEMMA ModelCallWritesStep == PlansInv /\ ModelCallWrites => PlansInv'
<1> SUFFICES ASSUME PlansInv, ModelCallWrites
             PROVE  PlansInv'
  OBVIOUS
<1>1. /\ UNCHANGED <<ensuring, planOf, planPage, planAccept, accepting>> /\ modelCall' = NoModelCall
      /\ modelCall.at = "allowed" /\ ungoverned' = (ungoverned \/ (planPage /\ ~modelCall.excused))
      /\ planDirs' = [planDirs EXCEPT ![planOf].lines = Append(@, "model")]
  BY DEF ModelCallWrites
<1>2. planOf \in DOMAIN planDirs /\ modelCall.excused
  BY <1>1 DEF PlansInv, PlanTypes, CallExcused
<1>3. Append(planDirs[planOf].lines, "model") \in Lines
  <2>1. planDirs[planOf] \in PlanRecs
    BY <1>2 DEF PlansInv, PlanTypes
  <2>2. planDirs[planOf].lines \in Lines
    BY <2>1 DEF PlanRecs
  <2>3. QED
    BY <2>2, PlanLines
<1>4. DirsGrow
  BY <1>1, <1>2, <1>3, LinesRewritten DEF PlansInv
<1>5. GateOwned' /\ CallExcused' /\ PlanGoverned'
  BY <1>1, <1>2, PlanRecords DEF PlansInv, GateOwned, AcceptUnderWay, CallExcused, PlanGoverned
<1>6. AcceptFound'
  <2>1. \A role : HasPlan(role) => HasPlan(role)'
    BY <1>1, <1>4, PlansFoundKept
  <2>2. QED
    BY <1>1, <2>1 DEF PlansInv, AcceptFound
<1>7. planOf' \in 0..Len(planDirs')
  BY <1>1, <1>4 DEF PlansInv, PlanTypes, DirsGrow
<1>8. QED
  BY <1>1, <1>4, <1>5, <1>6, <1>7, PlanRecords, PageMoves DEF PlansInv, PlanTypes

\* An accept moves on; the gate stays open only for one that has it open.
LEMMA AcceptMoves ==
  ASSUME PlansInv, DirsGrow, UNCHANGED <<ensuring, planOf, modelCall, ungoverned>>,
         NEW t \in Tabs, NEW rec \in AcceptRecs, accepting' = [accepting EXCEPT ![t] = rec],
         planPage' \in BOOLEAN, planAccept' \in BOOLEAN,
         \/ planAccept' = FALSE
         \/ planAccept' = planAccept /\ accepting[t].role # "d"
         \/ planAccept' = planAccept /\ accepting[t].at \notin {"open", "read", "closing"}
         \/ rec.role = "d" /\ rec.at \in {"open", "read", "closing"},
         rec.at \in {"started", "open", "read"} => HasPlan(rec.role),
         rec.at = "read" => \E j \in DOMAIN rec.base : rec.base[j] = OldText(rec.proposal)
  PROVE  PlansInv'
<1>1. /\ accepting' \in [Tabs -> AcceptRecs] /\ accepting'[t] = rec
      /\ \A u \in Tabs : u # t => accepting'[u] = accepting[u]
  BY DEF PlansInv, PlanTypes
<1>2. GateOwned'
  <2>1. CASE planAccept' = FALSE
    BY <2>1 DEF GateOwned
  <2>2. CASE rec.role = "d" /\ rec.at \in {"open", "read", "closing"}
    BY <1>1, <2>2 DEF GateOwned, AcceptUnderWay
  <2>3. CASE planAccept' = planAccept /\ ~(accepting[t].role = "d" /\ accepting[t].at \in {"open", "read", "closing"})
    BY <1>1, <2>3 DEF PlansInv, GateOwned, AcceptUnderWay
  <2>4. QED
    BY <2>1, <2>2, <2>3
<1>3. \A role : HasPlan(role) => HasPlan(role)'
  BY PlansFoundKept
<1>4. AcceptFound'
  BY <1>1, <1>3 DEF PlansInv, AcceptFound
<1>5. CallExcused' /\ PlanGoverned' /\ planOf' \in 0..Len(planDirs')
  BY DEF PlansInv, CallExcused, PlanGoverned, PlanTypes, DirsGrow
<1>6. QED
  BY <1>1, <1>2, <1>4, <1>5, PageMoves DEF PlansInv, PlanTypes

LEMMA AcceptStartsStep ==
  ASSUME PlansInv, NEW t \in Tabs, NEW p \in Proposals, NEW role \in {"d", "b"}, AcceptStarts(t, p, role)
  PROVE  PlansInv'
<1>1. PICK rec : rec = [NoAccept EXCEPT !.at = "started", !.proposal = p, !.role = role]
  OBVIOUS
<1>2. rec \in AcceptRecs /\ rec.at = "started" /\ rec.role = role
  BY <1>1, PlanLines DEF AcceptRecs, NoAccept
<1>3. /\ UNCHANGED <<planDirs, ensuring, planOf, planAccept, modelCall, ungoverned>>
      /\ accepting[t].at = "none" /\ PlanFor(role) # 0 /\ accepting' = [accepting EXCEPT ![t] = rec]
      /\ planPage' \in BOOLEAN
  BY <1>1 DEF AcceptStarts, PlansInv, PlanTypes
<1>4. HasPlan(role) /\ DirsGrow
  BY <1>3, PlanForFound, DirsStay DEF PlansInv
<1>5. QED
  BY <1>2, <1>3, <1>4, AcceptMoves DEF PlansInv, PlanTypes

LEMMA AcceptBeginsStep ==
  ASSUME PlansInv, NEW t \in Tabs, AcceptBegins(t)
  PROVE  PlansInv'
<1>1. PICK rec : rec = [accepting[t] EXCEPT !.at = "open"]
  OBVIOUS
<1>2. accepting[t] \in AcceptRecs
  BY DEF PlansInv, PlanTypes
<1>3. rec \in AcceptRecs /\ rec.at = "open" /\ rec.role = accepting[t].role /\ rec.role \in {"d", "b"}
  BY <1>1, <1>2 DEF AcceptRecs
<1>4. /\ UNCHANGED <<planDirs, ensuring, planOf, planPage, modelCall, ungoverned>>
      /\ accepting[t].at = "started" /\ accepting' = [accepting EXCEPT ![t] = rec]
      /\ planAccept' = (planAccept \/ accepting[t].role = "d")
  BY <1>1 DEF AcceptBegins
<1>5. HasPlan(rec.role) /\ DirsGrow
  BY <1>3, <1>4, DirsStay DEF PlansInv, AcceptFound
<1>6. planAccept' \in BOOLEAN /\ (rec.role # "d" => planAccept' = planAccept)
  BY <1>3, <1>4 DEF PlansInv, PlanTypes
<1>7. QED
  BY <1>3, <1>4, <1>5, <1>6, AcceptMoves DEF PlansInv, PlanTypes

LEMMA AcceptReadsStep ==
  ASSUME PlansInv, NEW t \in Tabs, AcceptReads(t)
  PROVE  PlansInv'
<1>1. accepting[t] \in AcceptRecs /\ accepting[t].at = "open" /\ accepting[t].role \in {"d", "b"}
  BY DEF AcceptReads, PlansInv, PlanTypes, AcceptRecs
<1>2. HasPlan(accepting[t].role) /\ PlanFor(accepting[t].role) \in DOMAIN planDirs
  BY <1>1, PlanForFound DEF PlansInv, AcceptFound
<1>3. PICK lines \in Lines : lines = planDirs[PlanFor(accepting[t].role)].lines
  <2>1. planDirs[PlanFor(accepting[t].role)] \in PlanRecs
    BY <1>2 DEF PlansInv, PlanTypes
  <2>2. QED
    BY <2>1 DEF PlanRecs
<1>4. PICK at \in {"read", "closing"} :
        /\ accepting' = [accepting EXCEPT ![t] = [@ EXCEPT !.at = at, !.base = lines]]
        /\ at = "read" => Occurs(lines, OldText(accepting[t].proposal)) = 1
  BY <1>3 DEF AcceptReads
<1>5. PICK rec : rec = [accepting[t] EXCEPT !.at = at, !.base = lines]
  OBVIOUS
<1>6. /\ rec \in AcceptRecs /\ rec.at = at /\ rec.role = accepting[t].role /\ rec.base = lines
      /\ rec.proposal = accepting[t].proposal
  BY <1>1, <1>5 DEF AcceptRecs
<1>7. at = "read" => \E j \in DOMAIN lines : lines[j] = OldText(rec.proposal)
  <2>1. SUFFICES ASSUME at = "read", ~ \E j \in DOMAIN lines : lines[j] = OldText(rec.proposal)
                 PROVE  FALSE
    OBVIOUS
  <2>2. {j \in DOMAIN lines : lines[j] = OldText(rec.proposal)} = {}
    BY <2>1
  <2>3. QED
    BY <1>4, <1>6, <2>1, <2>2, FS_EmptySet DEF Occurs
<1>8. /\ UNCHANGED <<planDirs, ensuring, planOf, planPage, planAccept, modelCall, ungoverned>>
      /\ accepting' = [accepting EXCEPT ![t] = rec] /\ DirsGrow
  BY <1>4, <1>5, DirsStay DEF AcceptReads, PlansInv
<1>9. \/ rec.role = "d" /\ rec.at \in {"open", "read", "closing"}
      \/ planAccept' = planAccept /\ accepting[t].role # "d"
  BY <1>4, <1>6, <1>8
<1>10. planPage' \in BOOLEAN /\ planAccept' \in BOOLEAN
  BY <1>8 DEF PlansInv, PlanTypes
<1>11. rec.at = "read" => \E j \in DOMAIN rec.base : rec.base[j] = OldText(rec.proposal)
  BY <1>6, <1>7
<1>12. QED
  BY <1>2, <1>6, <1>8, <1>9, <1>10, <1>11, AcceptMoves

LEMMA EditedLines ==
  ASSUME NEW lines \in Lines, NEW p \in Proposals, \E j \in DOMAIN lines : lines[j] = OldText(p)
  PROVE  Edited(lines, p) \in Lines
<1>1. PICK i : i = CHOOSE j \in DOMAIN lines : lines[j] = OldText(p)
  OBVIOUS
<1>2. i \in 1..Len(lines)
  BY <1>1 DEF Lines
<1>3. PICK new \in Lines :
        new = CASE p = "add" -> <<"title", "item">> [] p = "reword" -> <<"done">> [] p = "drop" -> << >>
  BY PlanLines DEF Proposals
<1>4. SubSeq(lines, 1, i - 1) \in Lines /\ SubSeq(lines, i + 1, Len(lines)) \in Lines
  BY <1>2 DEF Lines
<1>5. Edited(lines, p) = SubSeq(lines, 1, i - 1) \o new \o SubSeq(lines, i + 1, Len(lines))
  BY <1>1, <1>3 DEF Edited
<1>6. SubSeq(lines, 1, i - 1) \o new \in Lines
  BY <1>3, <1>4, PlanLines
<1>7. (SubSeq(lines, 1, i - 1) \o new) \o SubSeq(lines, i + 1, Len(lines)) \in Lines
  BY <1>4, <1>6, PlanLines
<1>8. QED
  BY <1>5, <1>7

LEMMA AcceptReplacesStep ==
  ASSUME PlansInv, NEW t \in Tabs, AcceptReplaces(t)
  PROVE  PlansInv'
<1>1. accepting[t] \in AcceptRecs /\ accepting[t].at = "read" /\ accepting[t].role \in {"d", "b"}
  BY DEF AcceptReplaces, PlansInv, PlanTypes, AcceptRecs
<1>2. HasPlan(accepting[t].role) /\ PlanFor(accepting[t].role) \in DOMAIN planDirs
  BY <1>1, PlanForFound DEF PlansInv, AcceptFound
<1>3. PICK ls \in Lines : ls = Edited(accepting[t].base, accepting[t].proposal)
  BY <1>1, EditedLines DEF PlansInv, AcceptFound, AcceptRecs
<1>4. PICK rec : rec = [accepting[t] EXCEPT !.at = "closing", !.ok = TRUE]
  OBVIOUS
<1>5. rec \in AcceptRecs /\ rec.at = "closing" /\ rec.role = accepting[t].role
  BY <1>1, <1>4 DEF AcceptRecs
<1>6. /\ UNCHANGED <<ensuring, planOf, planPage, planAccept, modelCall, ungoverned>>
      /\ accepting' = [accepting EXCEPT ![t] = rec]
      /\ planDirs' = [planDirs EXCEPT ![PlanFor(accepting[t].role)].lines = ls]
  BY <1>3, <1>4 DEF AcceptReplaces
<1>7. DirsGrow
  BY <1>2, <1>6, LinesRewritten DEF PlansInv
<1>8. rec.role = "d" \/ accepting[t].role # "d"
  BY <1>5
<1>9. QED
  BY <1>5, <1>6, <1>7, <1>8, AcceptMoves DEF PlansInv, PlanTypes

LEMMA AcceptEndsStep ==
  ASSUME PlansInv, NEW t \in Tabs, AcceptEnds(t)
  PROVE  PlansInv'
<1>1. /\ UNCHANGED <<planDirs, ensuring, planOf, planPage, modelCall, ungoverned>>
      /\ accepting' = [accepting EXCEPT ![t] = NoAccept]
      /\ planAccept' = IF accepting[t].role = "d" THEN FALSE ELSE planAccept
  BY DEF AcceptEnds, GateAfter
<1>2. DirsGrow /\ planAccept' \in BOOLEAN
  BY <1>1, DirsStay DEF PlansInv, PlanTypes
<1>3. QED
  BY <1>1, <1>2, PlanRecords, AcceptMoves DEF PlansInv, PlanTypes

LEMMA RebootPlansStep == PlansInv /\ RebootPlans => PlansInv'
<1> SUFFICES ASSUME PlansInv, RebootPlans
             PROVE  PlansInv'
  OBVIOUS
<1>1. /\ planPage' = FALSE /\ planAccept' = FALSE /\ modelCall' = NoModelCall
      /\ ensuring' = [c \in Ensurers |-> NotEnsuring] /\ accepting' = [t \in Tabs |-> NoAccept]
      /\ UNCHANGED <<planDirs, planOf, ungoverned>>
  BY DEF RebootPlans
<1>2. PlanTypes'
  BY <1>1, PlanRecords DEF PlansInv, PlanTypes
<1>3. OneRegistrar' /\ BoundOnce'
  BY <1>1, PlanRecords DEF PlansInv, OneRegistrar, BoundOnce
<1>4. GateOwned' /\ CallExcused' /\ AcceptFound' /\ PlanGoverned'
  BY <1>1, PlanRecords DEF PlansInv, GateOwned, CallExcused, AcceptFound, PlanGoverned
<1>5. QED
  BY <1>2, <1>3, <1>4 DEF PlansInv

LEMMA PlansStep == PlansInv /\ [PlansNext]_planVars => PlansInv'
<1>1. ASSUME PlansInv, UNCHANGED planVars
      PROVE  PlansInv'
  BY <1>1 DEF planVars, PlansInv, PlanTypes, OneRegistrar, BoundOnce, GateOwned, AcceptUnderWay, CallExcused,
              AcceptFound, HasPlan, PlanGoverned
<1>2. QED
  BY <1>1, EnsureListsStep, EnsureAllocatesStep, EnsureBindsStep, EnsureFailsStep, PageSteps,
     ModelCallStartsStep, ModelCallWritesStep, AcceptStartsStep, AcceptBeginsStep, AcceptReadsStep,
     AcceptReplacesStep, AcceptEndsStep, RebootPlansStep
     DEF PlansNext

LEMMA BoundOnceCounts == PlansInv => OnePlan
<1> SUFFICES ASSUME PlansInv
             PROVE  OnePlan
  OBVIOUS
<1> DEFINE named == {i \in DOMAIN planDirs : planDirs[i].repo = "repo" /\ ~planDirs[i].blind}
<1>1. CASE named = {}
  BY <1>1, FS_EmptySet DEF OnePlan
<1>2. CASE named # {}
  <2>1. PICK i : i \in named
    BY <1>2
  <2>2. named = {i}
    BY <2>1 DEF PlansInv, BoundOnce
  <2>3. Cardinality(named) = 1
    BY <2>2, FS_Singleton
  <2>4. QED
    BY <2>3 DEF OnePlan
<1>3. QED
  BY <1>1, <1>2

\* A repository has one plan, and with the Plan page open the model writes only
\* in an accept's shadow (session/plans.go EnsurePlan, session/session.go
\* PlanWriteAllowed, agent/run.go AcceptPlanEdit), for any number of callers,
\* tabs and requests, and restarts anywhere.
THEOREM PlansCorrect == PlansSpec => []PlansKept
<1>1. PlansInit => PlansInv
  BY PlansInitially
<1>2. PlansInv /\ [PlansNext]_planVars => PlansInv'
  BY PlansStep
<1>3. PlansInv => PlansKept
  BY BoundOnceCounts DEF PlansInv, PlansKept
<1>4. QED
  BY <1>1, <1>2, <1>3, PTL DEF PlansSpec
-----------------------------------------------------------------------------
(* Memory                                                                   *)

Notes == [text : Texts, n : Nat]
Blocks == [Stores -> SUBSET Notes]
NotingRecs == [store : Stores \cup {"none"}, text : Texts, n : Nat]
LoadRecs == [kind : {"none", "create", "move"}, blocks : Blocks]

MemoryTypes ==
  /\ noteFile \in Blocks
  /\ prompt \in [Rememberers -> Blocks] /\ journaled \in [Rememberers -> Blocks]
  /\ loading \in [Rememberers -> LoadRecs]
  /\ noting \in [Rememberers -> NotingRecs]
  /\ memSteps \in [notes : Nat, asks : Nat, boots : Nat, stores : SUBSET Stores, texts : SUBSET Texts]
  /\ removedNotes \subseteq Nat /\ alive \subseteq Rememberers

Clean(block, ns) == \A x \in block : x.n \notin ns

\* Every note has a number of its own, never used again.
NumbersFresh ==
  /\ \A p \in Stores : \A x \in noteFile[p] : x.n > memSteps.notes
  /\ \A n \in removedNotes : n > memSteps.notes
  /\ \A s \in Rememberers : \A x \in prompt[s]["agent"] \cup journaled[s]["agent"] : x.n > memSteps.notes

NumbersOwn ==
  /\ \A p \in Stores : Clean(noteFile[p], removedNotes)
  /\ \A p \in Stores : \A x, y \in noteFile[p] : x.n = y.n => x = y
  /\ Clean(noteFile["agent"], Numbers("folder"))
  /\ \A s \in Rememberers : Clean(prompt[s]["agent"] \cup journaled[s]["agent"], Numbers("folder"))

\* What a request still has to do is the end of a flush or of a clear.
Flush1 == << <<"file", "folder">>, <<"blocks", "agent">>, <<"blocks", "folder">> >>
Flush2 == << <<"blocks", "agent">>, <<"blocks", "folder">> >>
Flush3 == << <<"blocks", "folder">> >>
Clear1 == << <<"blocks", "folder">>, <<"journal", "folder">> >>
Clear2 == << <<"journal", "folder">> >>
FlushPhase == flushing \in {<< >>, FlushSteps, Flush1, Flush2, Flush3, ClearSteps, Clear1, Clear2}

\* Numbers no prompt may hold: those forgotten, and those taken by the request
\* under way where it has already emptied the blocks.
PendingIn(q, p) == \E i \in DOMAIN q : q[i] = <<"blocks", p>>
BlocksPending(p) == PendingIn(flushing, p)
Taken == IF flushing = << >> THEN {} ELSE taken
Banned(p) == forgotten \cup IF BlocksPending(p) THEN {} ELSE Taken

PromptsClean == \A s \in alive \ excused, p \in Stores : Clean(prompt[s][p], Banned(p))
LoadsClean ==
  \A s \in Rememberers :
    /\ loading[s].blocks["agent"] = {}
    /\ loading[s].kind = "create" => Clean(loading[s].blocks["folder"], Banned("folder"))
    /\ loading[s].kind = "move" /\ s \notin excused => Clean(loading[s].blocks["folder"], forgotten \cup Taken)

RemovedAll == taken \subseteq removedNotes /\ forgotten \subseteq removedNotes

Filed == removedNotes \cup Numbers("folder") \cup Numbers("agent")
NotedKept ==
  /\ accepted \subseteq Filed
  /\ \A s \in Rememberers : noting[s] # NotNoting => noting[s].n \in Filed

MemoryInv ==
  /\ MemoryTypes /\ NumbersFresh /\ NumbersOwn /\ FlushPhase /\ PromptsClean /\ LoadsClean /\ RemovedAll
  /\ NotedKept

\* Where a request stands: what its next step is and what is left after it.
LEMMA Phases ==
  /\ FlushSteps # << >> /\ Head(FlushSteps)[1] = "file" /\ Head(FlushSteps)[2] = "agent" /\ Tail(FlushSteps) = Flush1
  /\ Flush1 # << >> /\ Head(Flush1)[1] = "file" /\ Head(Flush1)[2] = "folder" /\ Tail(Flush1) = Flush2
  /\ ClearSteps # << >> /\ Head(ClearSteps)[1] = "file" /\ Head(ClearSteps)[2] = "folder" /\ Tail(ClearSteps) = Clear1
<1>1. FlushSteps # << >> /\ Head(FlushSteps)[1] = "file" /\ Head(FlushSteps)[2] = "agent" /\ Tail(FlushSteps) = Flush1
  BY DEF FlushSteps, Flush1
<1>2. Flush1 # << >> /\ Head(Flush1)[1] = "file" /\ Head(Flush1)[2] = "folder" /\ Tail(Flush1) = Flush2
  BY DEF Flush1, Flush2
<1>3. ClearSteps # << >> /\ Head(ClearSteps)[1] = "file" /\ Head(ClearSteps)[2] = "folder" /\ Tail(ClearSteps) = Clear1
  BY DEF ClearSteps, Clear1
<1>4. QED  BY <1>1, <1>2, <1>3

LEMMA BlockPhases ==
  /\ Flush2 # << >> /\ Head(Flush2)[1] = "blocks" /\ Head(Flush2)[2] = "agent" /\ Tail(Flush2) = Flush3 /\ Len(Flush2) = 2
  /\ Flush3 # << >> /\ Head(Flush3)[1] = "blocks" /\ Head(Flush3)[2] = "folder" /\ Tail(Flush3) = << >> /\ Len(Flush3) = 1
  /\ Clear1 # << >> /\ Head(Clear1)[1] = "blocks" /\ Head(Clear1)[2] = "folder" /\ Tail(Clear1) = Clear2 /\ Len(Clear1) = 2
  /\ Clear2 # << >> /\ Head(Clear2)[1] = "journal"
<1>1. Flush2 # << >> /\ Head(Flush2)[1] = "blocks" /\ Head(Flush2)[2] = "agent" /\ Tail(Flush2) = Flush3 /\ Len(Flush2) = 2
  BY DEF Flush2, Flush3
<1>2. Flush3 # << >> /\ Head(Flush3)[1] = "blocks" /\ Head(Flush3)[2] = "folder" /\ Tail(Flush3) = << >> /\ Len(Flush3) = 1
  BY DEF Flush3
<1>3. Clear1 # << >> /\ Head(Clear1)[1] = "blocks" /\ Head(Clear1)[2] = "folder" /\ Tail(Clear1) = Clear2 /\ Len(Clear1) = 2
  BY DEF Clear1, Clear2
<1>4. Clear2 # << >> /\ Head(Clear2)[1] = "journal"
  BY DEF Clear2
<1>5. QED  BY <1>1, <1>2, <1>3, <1>4

LEMMA Pending ==
  /\ \A p \in Stores : PendingIn(FlushSteps, p) /\ PendingIn(Flush1, p) /\ PendingIn(Flush2, p)
  /\ \A p \in Stores : PendingIn(Flush3, p) <=> p = "folder"
  /\ \A p \in Stores : PendingIn(ClearSteps, p) <=> p = "folder"
  /\ \A p \in Stores : PendingIn(Clear1, p) <=> p = "folder"
  /\ \A p \in Stores : ~PendingIn(Clear2, p) /\ ~PendingIn(<< >>, p)
<1>1. \A p \in Stores : PendingIn(FlushSteps, p)
  BY DEF PendingIn, FlushSteps, Stores
<1>2. \A p \in Stores : PendingIn(Flush1, p) /\ PendingIn(Flush2, p)
  BY DEF PendingIn, Flush1, Flush2, Stores
<1>3. \A p \in Stores : PendingIn(Flush3, p) <=> p = "folder"
  BY DEF PendingIn, Flush3, Stores
<1>4. \A p \in Stores : PendingIn(ClearSteps, p) <=> p = "folder"
  BY DEF PendingIn, ClearSteps, Stores
<1>5. \A p \in Stores : PendingIn(Clear1, p) <=> p = "folder"
  BY DEF PendingIn, Clear1, Stores
<1>6. \A p \in Stores : ~PendingIn(Clear2, p) /\ ~PendingIn(<< >>, p)
  BY DEF PendingIn, Clear2, Stores
<1>7. QED  BY <1>1, <1>2, <1>3, <1>4, <1>5, <1>6

LEMMA MemoryStores == Stores = {"folder", "agent"} /\ "folder" \in Stores /\ "agent" \in Stores /\ "folder" # "agent"
  BY DEF Stores

LEMMA NoBlocks == Empty \in Blocks /\ Empty["folder"] = {} /\ Empty["agent"] = {}
  BY DEF Empty, Blocks, Stores

LEMMA BlockOfFile == \A p \in Stores : Block(p) \subseteq noteFile[p]
  BY DEF Block

LEMMA MemoryRecords ==
  /\ NotLoading \in LoadRecs /\ NotLoading.kind = "none" /\ NotLoading.blocks = Empty
  /\ NotNoting \in NotingRecs /\ NotNoting.n = 0
  /\ \A r \in LoadRecs : r.kind \in {"none", "create", "move"} /\ r.blocks \in Blocks
  /\ \A k \in {"create", "move"}, b \in Blocks : [kind |-> k, blocks |-> b] \in LoadRecs
<1>1. NotLoading \in LoadRecs /\ NotLoading.kind = "none" /\ NotLoading.blocks = Empty
  BY NoBlocks DEF NotLoading, LoadRecs
<1>2. NotNoting \in NotingRecs /\ NotNoting.n = 0
  BY DEF NotNoting, NotingRecs, Texts
<1>3. QED  BY <1>1, <1>2 DEF LoadRecs

LEMMA MemoryInitially == MemoryInit => MemoryInv
<1> SUFFICES ASSUME MemoryInit PROVE MemoryInv
  OBVIOUS
<1>1. MemoryTypes
  BY MemoryAssumption, NoBlocks, MemoryRecords DEF MemoryInit, MemoryTypes
<1>2. \A p \in Stores : noteFile[p] = {} /\ Numbers(p) = {}
  BY MemoryStores, NoBlocks DEF MemoryInit, Numbers
<1>3. \A s \in Rememberers : prompt[s]["agent"] = {} /\ journaled[s]["agent"] = {}
  BY NoBlocks DEF MemoryInit
<1>4. NumbersFresh /\ NumbersOwn
  BY <1>2, <1>3, MemoryStores DEF MemoryInit, NumbersFresh, NumbersOwn, Clean
<1>5. FlushPhase /\ PromptsClean /\ RemovedAll
  BY DEF MemoryInit, FlushPhase, PromptsClean, RemovedAll
<1>6. LoadsClean
  BY MemoryRecords, NoBlocks DEF MemoryInit, LoadsClean
<1>7. NotedKept
  BY DEF MemoryInit, NotedKept
<1>8. QED
  BY <1>1, <1>4, <1>5, <1>6, <1>7 DEF MemoryInv

\* The prompts and loads stay clean when nothing is banned that was not.
LEMMA BansNoMore ==
  ASSUME MemoryInv, UNCHANGED <<prompt, alive, loading, excused>>,
         \A p \in Stores : Banned(p)' \subseteq Banned(p),
         forgotten' \cup Taken' \subseteq forgotten \cup Taken
  PROVE  PromptsClean' /\ LoadsClean'
<1>1. PromptsClean'
  BY DEF MemoryInv, PromptsClean, Clean
<1>2. LoadsClean'
  BY MemoryStores DEF MemoryInv, LoadsClean, Clean
<1>3. QED  BY <1>1, <1>2

\* The request stands where it stood.
LEMMA BansSame ==
  ASSUME UNCHANGED <<flushing, taken, forgotten>>
  PROVE  /\ \A p : Banned(p)' = Banned(p)
         /\ Taken' = Taken
BY DEF Banned, Taken, BlocksPending

LEMMA FilesStand ==
  ASSUME MemoryInv, UNCHANGED <<noteFile, removedNotes, prompt, journaled>>,
         memSteps' = memSteps \/ memSteps'.notes = memSteps.notes
  PROVE  NumbersFresh' /\ NumbersOwn' /\ Filed' = Filed
<1>1. memSteps'.notes = memSteps.notes  OBVIOUS
<1>2. \A p : Numbers(p)' = Numbers(p)
  BY DEF Numbers
<1>3. QED
  BY <1>1, <1>2 DEF MemoryInv, NumbersFresh, NumbersOwn, Filed

LEMMA Asked ==
  ASSUME MemoryTypes, AskedOf
  PROVE  /\ memSteps' \in [notes : Nat, asks : Nat, boots : Nat, stores : SUBSET Stores, texts : SUBSET Texts]
         /\ memSteps'.notes = memSteps.notes
BY DEF MemoryTypes, AskedOf

LEMMA BannedRemoved ==
  ASSUME RemovedAll
  PROVE  /\ \A p : Banned(p) \subseteq removedNotes
         /\ forgotten \cup Taken \subseteq removedNotes
BY DEF RemovedAll, Banned, Taken

LEMMA NotePathStep ==
  ASSUME NEW s \in Rememberers, NEW p \in memSteps.stores, NEW t \in memSteps.texts, MemoryInv, NotePath(s, p, t)
  PROVE  MemoryInv'
<1> DEFINE n == memSteps.notes
<1>0. PICK new : new = [text |-> t, n |-> n]
  OBVIOUS
<1>1. p \in Stores /\ t \in Texts /\ n \in Nat /\ n > 0 /\ new \in Notes /\ new.n = n
  BY <1>0 DEF MemoryInv, MemoryTypes, NotePath, Notes
<1>2. /\ memSteps' \in [notes : Nat, asks : Nat, boots : Nat, stores : SUBSET Stores, texts : SUBSET Texts]
      /\ memSteps'.notes = n - 1
  BY <1>1 DEF MemoryInv, MemoryTypes, NotePath
<1>3. /\ noteFile' = [noteFile EXCEPT ![p] = @ \cup {new}]
      /\ noting' = [noting EXCEPT ![s] = [store |-> p, text |-> t, n |-> n]]
  BY <1>0 DEF NotePath
<1>4. UNCHANGED <<taken, prompt, journaled, alive, loading, wrote, flushing, accepted, removedNotes, forgotten, excused>>
  BY DEF NotePath
<1>5. noteFile \in [Stores -> SUBSET Notes]
  BY DEF MemoryInv, MemoryTypes, Blocks
<1>6. noteFile' \in Blocks /\ \A q \in Stores : noteFile'[q] = IF q = p THEN noteFile[q] \cup {new} ELSE noteFile[q]
  BY <1>1, <1>3, <1>5 DEF Blocks
<1>7. noting' \in [Rememberers -> NotingRecs]
  BY <1>1, <1>3 DEF MemoryInv, MemoryTypes, NotingRecs
<1>8. MemoryTypes'
  BY <1>2, <1>4, <1>6, <1>7 DEF MemoryInv, MemoryTypes
<1>9. \A q \in Stores : Numbers(q)' = IF q = p THEN Numbers(q) \cup {n} ELSE Numbers(q)
  <2>1. TAKE q \in Stores
  <2>2. Numbers(q)' = {x.n : x \in noteFile'[q]}
    BY DEF Numbers
  <2>3. QED  BY <1>1, <1>6, <2>2 DEF Numbers
<1>10. \A q \in Stores : \A x \in noteFile[q] : x.n \in Nat /\ x.n > n
  BY <1>5 DEF MemoryInv, NumbersFresh, Notes
<1>11. \A m \in removedNotes : m \in Nat /\ m > n
  BY DEF MemoryInv, MemoryTypes, NumbersFresh
<1>12. \A r \in Rememberers : \A x \in prompt[r]["agent"] \cup journaled[r]["agent"] : x.n \in Nat /\ x.n > n
  BY MemoryStores DEF MemoryInv, MemoryTypes, NumbersFresh, Blocks, Notes
<1>19. \A q \in Stores : \A x \in noteFile'[q] : x \in noteFile[q] \/ x = new
  BY <1>6
<1> HIDE DEF n
<1>13. NumbersFresh'
  BY <1>1, <1>19, <1>2, <1>4, <1>6, <1>10, <1>11, <1>12 DEF NumbersFresh
<1>14. NumbersOwn'
  <2>1. \A q \in Stores : Clean(noteFile'[q], removedNotes')
    BY <1>1, <1>4, <1>19, <1>11 DEF MemoryInv, NumbersOwn, Clean
  <2>2. \A q \in Stores : \A x, y \in noteFile'[q] : x.n = y.n => x = y
    BY <1>1, <1>19, <1>10 DEF MemoryInv, NumbersOwn
  <2>3. \A m \in Numbers("folder") : m > n
    BY <1>10, MemoryStores DEF Numbers
  <2>4. Clean(noteFile["agent"], Numbers("folder"))
    BY DEF MemoryInv, NumbersOwn
  <2>5. Clean(noteFile'["agent"], Numbers("folder")')
    <3>1. CASE p = "agent"
      <4>1. Numbers("folder")' = Numbers("folder") /\ noteFile'["agent"] = noteFile["agent"] \cup {new}
        BY <1>6, <1>9, <3>1, MemoryStores
      <4>2. n \notin Numbers("folder")
        BY <2>3, <1>1
      <4>3. QED  BY <1>1, <2>4, <4>1, <4>2 DEF Clean
    <3>2. CASE p = "folder"
      <4>1. Numbers("folder")' = Numbers("folder") \cup {n} /\ noteFile'["agent"] = noteFile["agent"]
        BY <1>6, <1>9, <3>2, MemoryStores
      <4>2. \A x \in noteFile["agent"] : x.n # n
        BY <1>1, <1>10, MemoryStores
      <4>3. QED  BY <2>4, <4>1, <4>2 DEF Clean
    <3>3. QED  BY <1>1, <3>1, <3>2, MemoryStores
  <2>6. \A r \in Rememberers : Clean(prompt'[r]["agent"] \cup journaled'[r]["agent"], Numbers("folder")')
    <3>1. Numbers("folder")' \subseteq Numbers("folder") \cup {n}
      BY <1>9, MemoryStores
    <3>2. QED  BY <1>1, <1>4, <1>12, <3>1 DEF MemoryInv, NumbersOwn, Clean
  <2>7. QED  BY <2>1, <2>2, <2>5, <2>6 DEF NumbersOwn
<1>15. FlushPhase' /\ RemovedAll'
  BY <1>4 DEF MemoryInv, FlushPhase, RemovedAll
<1>16. PromptsClean' /\ LoadsClean'
  BY <1>4, BansSame, BansNoMore
<1>17. NotedKept'
  <2>1. Filed' = Filed \cup {n}
    BY <1>1, <1>4, <1>9, MemoryStores DEF Filed
  <2>2. \A r \in Rememberers : noting'[r] # NotNoting => noting'[r].n \in Filed \cup {n}
    BY <1>3 DEF MemoryInv, MemoryTypes, NotedKept
  <2>3. QED  BY <1>4, <2>1, <2>2 DEF MemoryInv, NotedKept
<1>18. QED
  BY <1>8, <1>13, <1>14, <1>15, <1>16, <1>17 DEF MemoryInv

LEMMA RememberAnswersStep ==
  ASSUME NEW s \in Rememberers, MemoryInv, RememberAnswers(s)
  PROVE  MemoryInv'
<1>1. /\ UNCHANGED <<taken, noteFile, prompt, journaled, alive, loading, flushing, removedNotes, forgotten, excused, memSteps>>
      /\ noting' = [noting EXCEPT ![s] = NotNoting]
      /\ noting[s] # NotNoting
      /\ accepted' = accepted \cup {noting[s].n}
  BY DEF RememberAnswers
<1>2. MemoryTypes'
  BY <1>1, MemoryRecords DEF MemoryInv, MemoryTypes
<1>3. NumbersFresh' /\ NumbersOwn' /\ Filed' = Filed
  BY <1>1, FilesStand
<1>4. FlushPhase' /\ RemovedAll'
  BY <1>1 DEF MemoryInv, FlushPhase, RemovedAll
<1>5. PromptsClean' /\ LoadsClean'
  BY <1>1, BansSame, BansNoMore
<1>6. NotedKept'
  BY <1>1, <1>3 DEF MemoryInv, MemoryTypes, NotedKept
<1>7. QED  BY <1>2, <1>3, <1>4, <1>5, <1>6 DEF MemoryInv

\* A load begins: what is read of the folder's file was removed by nobody.
LEMMA StartsStep ==
  ASSUME NEW s \in Rememberers, NEW k \in {"create", "move"}, MemoryInv, Starts(s, k), memSteps' = memSteps \/ AskedOf
  PROVE  MemoryInv'
<1>1. PICK r : r = [kind |-> k, blocks |-> [Empty EXCEPT !["folder"] = Block("folder")]]
  OBVIOUS
<1>2. /\ UNCHANGED <<taken, noteFile, prompt, journaled, alive, noting, wrote, flushing, accepted, removedNotes, forgotten, excused>>
      /\ loading' = [loading EXCEPT ![s] = r]
  BY <1>1 DEF Starts
<1>3. Block("folder") \subseteq noteFile["folder"] /\ noteFile["folder"] \in SUBSET Notes
  BY BlockOfFile, MemoryStores DEF MemoryInv, MemoryTypes, Blocks
<1>4. /\ r.blocks \in Blocks /\ r.blocks["folder"] = Block("folder") /\ r.blocks["agent"] = {}
      /\ r.kind = k
  BY <1>1, <1>3, NoBlocks, MemoryStores DEF Blocks
<1>5. r \in LoadRecs
  BY <1>1, <1>4, MemoryRecords
<1>6. MemoryTypes'
  BY <1>2, <1>5, Asked DEF MemoryInv, MemoryTypes
<1>7. NumbersFresh' /\ NumbersOwn' /\ Filed' = Filed
  BY <1>2, Asked, FilesStand DEF MemoryInv
<1>8. FlushPhase' /\ RemovedAll' /\ NotedKept'
  BY <1>2, <1>7 DEF MemoryInv, FlushPhase, RemovedAll, NotedKept
<1>9. Clean(Block("folder"), removedNotes)
  BY <1>3, MemoryStores DEF MemoryInv, NumbersOwn, Clean
<1>10. PromptsClean'
  BY <1>2, BansSame DEF MemoryInv, PromptsClean
<1>11. LoadsClean'
  <2>1. \A q \in Rememberers : loading'[q] = IF q = s THEN r ELSE loading[q]
    BY <1>2 DEF MemoryInv, MemoryTypes
  <2>2. Clean(r.blocks["folder"], Banned("folder")) /\ Clean(r.blocks["folder"], forgotten \cup Taken)
    BY <1>4, <1>9, BannedRemoved DEF MemoryInv, Clean
  <2>3. QED
    BY <1>2, <1>4, <2>1, <2>2, BansSame DEF MemoryInv, LoadsClean
<1>12. QED
  BY <1>6, <1>7, <1>8, <1>10, <1>11 DEF MemoryInv

\* A load ends: the agent's notes are read now, the folder's were read clean.
LEMMA LoadEndsStep ==
  ASSUME NEW s \in Rememberers, MemoryInv, LoadEnds(s)
  PROVE  MemoryInv'
<1>1. PICK b : b = [loading[s].blocks EXCEPT !["agent"] = Block("agent")]
  OBVIOUS
<1>2. PICK j : j = IF loading[s].kind = "create" THEN b ELSE [journaled[s] EXCEPT !["folder"] = b["folder"]]
  OBVIOUS
<1>3. /\ UNCHANGED <<taken, noteFile, noting, wrote, flushing, accepted, removedNotes, forgotten, excused, memSteps>>
      /\ loading[s].kind # "none"
      /\ prompt' = [prompt EXCEPT ![s] = b]
      /\ journaled' = [journaled EXCEPT ![s] = j]
      /\ alive' = alive \cup {s}
      /\ loading' = [loading EXCEPT ![s] = NotLoading]
  <2>1. journaled' = [journaled EXCEPT ![s] = IF loading[s].kind = "create" THEN b ELSE [journaled[s] EXCEPT !["folder"] = b["folder"]]]
    BY <1>1 DEF LoadEnds
  <2>2. QED  BY <1>1, <1>2, <2>1 DEF LoadEnds
<1>4. Block("agent") \subseteq noteFile["agent"] /\ noteFile["agent"] \in SUBSET Notes
  BY BlockOfFile, MemoryStores DEF MemoryInv, MemoryTypes, Blocks
<1>5. loading[s].blocks \in Blocks /\ loading[s].kind \in {"create", "move"}
  BY <1>3, MemoryRecords DEF MemoryInv, MemoryTypes
<1>6. b \in Blocks /\ b["agent"] = Block("agent") /\ b["folder"] = loading[s].blocks["folder"]
  BY <1>1, <1>4, <1>5, MemoryStores DEF Blocks
<1>7. journaled[s] \in Blocks
  BY DEF MemoryInv, MemoryTypes
<1>8. j \in Blocks /\ j["agent"] \subseteq journaled[s]["agent"] \cup Block("agent")
  BY <1>2, <1>6, <1>7, MemoryStores DEF Blocks
<1>9. /\ \A q \in Rememberers : prompt'[q] = IF q = s THEN b ELSE prompt[q]
      /\ \A q \in Rememberers : journaled'[q] = IF q = s THEN j ELSE journaled[q]
      /\ \A q \in Rememberers : loading'[q] = IF q = s THEN NotLoading ELSE loading[q]
  BY <1>3 DEF MemoryInv, MemoryTypes
<1>10. MemoryTypes'
  BY <1>3, <1>6, <1>8, MemoryRecords DEF MemoryInv, MemoryTypes
<1>11. \A p : Numbers(p)' = Numbers(p)
  BY <1>3 DEF Numbers
<1>12. \A q \in Rememberers : prompt'[q]["agent"] \cup journaled'[q]["agent"]
           \subseteq prompt[q]["agent"] \cup journaled[q]["agent"] \cup noteFile["agent"]
  BY <1>4, <1>6, <1>8, <1>9
<1>13. NumbersFresh'
  BY <1>3, <1>12, MemoryStores DEF MemoryInv, NumbersFresh
<1>14. NumbersOwn'
  BY <1>3, <1>11, <1>12 DEF MemoryInv, NumbersOwn, Clean
<1>15. FlushPhase' /\ RemovedAll'
  BY <1>3 DEF MemoryInv, FlushPhase, RemovedAll
<1>16. NotedKept'
  BY <1>3, <1>11 DEF MemoryInv, NotedKept, Filed
<1>17. Clean(Block("agent"), Banned("agent"))
  BY <1>4, BannedRemoved, MemoryStores DEF MemoryInv, NumbersOwn, Clean
<1>18. s \notin excused => Clean(b["folder"], Banned("folder"))
  <2>1. Banned("folder") \subseteq forgotten \cup Taken
    BY DEF Banned
  <2>2. QED  BY <1>5, <1>6, <2>1 DEF MemoryInv, LoadsClean, Clean
<1>19. PromptsClean'
  BY <1>3, <1>6, <1>9, <1>17, <1>18, BansSame, MemoryStores DEF MemoryInv, MemoryTypes, PromptsClean
<1>20. LoadsClean'
  <2>1. \A q \in Rememberers : q # s => loading'[q] = loading[q]
    BY <1>9
  <2>2. loading'[s].kind = "none" /\ loading'[s].blocks["agent"] = {}
    BY <1>9, MemoryRecords, NoBlocks
  <2>3. QED  BY <1>3, <2>1, <2>2, BansSame DEF MemoryInv, LoadsClean
<1>21. QED
  BY <1>10, <1>13, <1>14, <1>15, <1>16, <1>19, <1>20 DEF MemoryInv

\* A reset reads both files in one step.
LEMMA ResetLoadsStep ==
  ASSUME NEW s \in Rememberers, MemoryInv, ResetLoads(s)
  PROVE  MemoryInv'
<1>1. PICK b : b = [p \in Stores |-> Block(p)]
  OBVIOUS
<1>2. /\ UNCHANGED <<taken, noteFile, journaled, alive, loading, noting, wrote, flushing, accepted, removedNotes, forgotten>>
      /\ loading[s].kind = "none" /\ AskedOf
      /\ prompt' = [prompt EXCEPT ![s] = b]
      /\ excused' = excused \ {s}
  BY <1>1 DEF ResetLoads
<1>3. \A p \in Stores : b[p] \subseteq noteFile[p] /\ noteFile[p] \in SUBSET Notes
  BY <1>1, BlockOfFile DEF MemoryInv, MemoryTypes, Blocks
<1>4. b \in Blocks
  BY <1>1, <1>3 DEF Blocks
<1>5. \A q \in Rememberers : prompt'[q] = IF q = s THEN b ELSE prompt[q]
  BY <1>2 DEF MemoryInv, MemoryTypes
<1>6. MemoryTypes' /\ memSteps'.notes = memSteps.notes
  BY <1>2, <1>4, Asked DEF MemoryInv, MemoryTypes
<1>7. \A p : Numbers(p)' = Numbers(p)
  BY <1>2 DEF Numbers
<1>8. \A q \in Rememberers : prompt'[q]["agent"] \subseteq prompt[q]["agent"] \cup noteFile["agent"]
  BY <1>3, <1>5, MemoryStores
<1>9. NumbersFresh'
  BY <1>2, <1>6, <1>8, MemoryStores DEF MemoryInv, NumbersFresh
<1>10. NumbersOwn'
  BY <1>2, <1>7, <1>8 DEF MemoryInv, NumbersOwn, Clean
<1>11. FlushPhase' /\ RemovedAll' /\ NotedKept'
  BY <1>2, <1>7 DEF MemoryInv, FlushPhase, RemovedAll, NotedKept, Filed
<1>12. \A p \in Stores : Clean(b[p], Banned(p))
  BY <1>3, BannedRemoved DEF MemoryInv, NumbersOwn, Clean
<1>13. PromptsClean'
  BY <1>2, <1>5, <1>12, BansSame DEF MemoryInv, MemoryTypes, PromptsClean
<1>14. LoadsClean'
  BY <1>2, BansSame DEF MemoryInv, LoadsClean
<1>15. QED
  BY <1>6, <1>9, <1>10, <1>11, <1>13, <1>14 DEF MemoryInv

\* Pruning takes lines out of the files and remembers their numbers.
LEMMA DropSessionWritesStep ==
  ASSUME NEW s \in Rememberers, MemoryInv, DropSessionWrites(s)
  PROVE  MemoryInv'
<1> DEFINE theirs(p) == {x \in noteFile[p] : Pruned(s, p, x)}
<1>1. /\ UNCHANGED <<taken, loading, noting, flushing, accepted, forgotten>>
      /\ AskedOf /\ loading[s].kind = "none"
      /\ alive' = alive \ {s} /\ excused' = excused \ {s}
      /\ noteFile' = [p \in Stores |-> noteFile[p] \ theirs(p)]
      /\ removedNotes' = removedNotes \cup {x.n : x \in UNION {theirs(p) : p \in Stores}}
      /\ prompt' = [prompt EXCEPT ![s] = Empty] /\ journaled' = [journaled EXCEPT ![s] = Empty]
  BY DEF DropSessionWrites
<1>2. \A p \in Stores : theirs(p) \subseteq noteFile[p] /\ noteFile[p] \in SUBSET Notes
  BY DEF MemoryInv, MemoryTypes, Blocks
<1> HIDE DEF theirs
<1>3. \A p \in Stores : noteFile'[p] = noteFile[p] \ theirs(p)
  BY <1>1
<1>4. \A m : m \in removedNotes' <=> m \in removedNotes \/ \E p \in Stores : \E x \in theirs(p) : m = x.n
  BY <1>1
<1>5. noteFile' \in Blocks /\ removedNotes' \subseteq Nat
  <2>1. noteFile' \in Blocks
    BY <1>1, <1>2 DEF Blocks
  <2>2. \A p \in Stores : \A x \in theirs(p) : x.n \in Nat
    BY <1>2 DEF Notes
  <2>3. removedNotes \subseteq Nat
    BY DEF MemoryInv, MemoryTypes
  <2>4. QED  BY <1>4, <2>1, <2>2, <2>3
<1>6. MemoryTypes' /\ memSteps'.notes = memSteps.notes
  BY <1>1, <1>5, Asked, NoBlocks DEF MemoryInv, MemoryTypes
<1>7. /\ \A q \in Rememberers : prompt'[q] = IF q = s THEN Empty ELSE prompt[q]
      /\ \A q \in Rememberers : journaled'[q] = IF q = s THEN Empty ELSE journaled[q]
  BY <1>1 DEF MemoryInv, MemoryTypes
<1>8. \A q \in Rememberers : prompt'[q]["agent"] \cup journaled'[q]["agent"] \subseteq prompt[q]["agent"] \cup journaled[q]["agent"]
  BY <1>7, NoBlocks
<1>9. \A p \in Stores : Numbers(p)' \subseteq Numbers(p)
  BY <1>3 DEF Numbers
<1>10. NumbersFresh'
  BY <1>2, <1>3, <1>4, <1>6, <1>8 DEF MemoryInv, NumbersFresh
<1>11. NumbersOwn'
  <2>1. ASSUME NEW p \in Stores, NEW x \in noteFile[p], NEW q \in Stores, NEW y \in noteFile[q], x.n = y.n
        PROVE  x = y /\ p = q
    <3>1. CASE p = q
      BY <2>1, <3>1 DEF MemoryInv, NumbersOwn
    <3>2. CASE p # q
      BY <2>1, <3>2, MemoryStores DEF MemoryInv, NumbersOwn, Clean, Numbers
    <3>3. QED  BY <3>1, <3>2
  <2>2. \A p \in Stores : Clean(noteFile'[p], removedNotes')
    BY <1>2, <1>3, <1>4, <2>1 DEF MemoryInv, NumbersOwn, Clean
  <2>3. QED
    BY <1>3, <1>8, <1>9, <2>2, MemoryStores DEF MemoryInv, NumbersOwn, Clean
<1>12. FlushPhase' /\ RemovedAll'
  BY <1>1, <1>4 DEF MemoryInv, FlushPhase, RemovedAll
<1>13. NotedKept'
  <2>1. \A p \in Stores : Numbers(p) \subseteq Numbers(p)' \cup removedNotes'
    <3>1. SUFFICES ASSUME NEW p \in Stores, NEW x \in noteFile[p] PROVE x.n \in Numbers(p)' \cup removedNotes'
      BY DEF Numbers
    <3>2. CASE x \in theirs(p)
      BY <1>4, <3>2
    <3>3. CASE x \notin theirs(p)
      BY <1>3, <3>3 DEF Numbers
    <3>4. QED  BY <3>2, <3>3
  <2>2. Filed \subseteq Filed'
    BY <1>4, <2>1, MemoryStores DEF Filed
  <2>3. QED  BY <1>1, <2>2 DEF MemoryInv, NotedKept
<1>14. PromptsClean'
  BY <1>1, BansSame DEF MemoryInv, MemoryTypes, PromptsClean
<1>15. LoadsClean'
  BY <1>1, BansSame DEF MemoryInv, LoadsClean
<1>16. QED
  BY <1>6, <1>10, <1>11, <1>12, <1>13, <1>14, <1>15 DEF MemoryInv

\* A request begins or breaks off: no more is banned than was.
LEMMA FlushBounds == MemoryInv /\ (FlushAsked \/ ClearPathFails) => MemoryInv'
<1> SUFFICES ASSUME MemoryInv, FlushAsked \/ ClearPathFails PROVE MemoryInv'
  OBVIOUS
<1>1. /\ UNCHANGED <<noteFile, prompt, journaled, alive, loading, noting, wrote, accepted, removedNotes, forgotten, excused>>
      /\ memSteps' = memSteps \/ AskedOf
  BY DEF FlushAsked, ClearPathFails
<1>2. MemoryTypes' /\ memSteps'.notes = memSteps.notes
  BY <1>1, Asked DEF MemoryInv, MemoryTypes
<1>3. NumbersFresh' /\ NumbersOwn' /\ Filed' = Filed
  BY <1>1, <1>2, FilesStand
<1>4. FlushPhase' /\ RemovedAll' /\ NotedKept'
  BY <1>1, <1>3 DEF MemoryInv, FlushPhase, RemovedAll, NotedKept, FlushAsked, ClearPathFails
<1>5. Taken' = {}
  BY DEF Taken, FlushAsked, ClearPathFails
<1>6. \A p : Banned(p)' = forgotten /\ forgotten \subseteq Banned(p)
  BY <1>1, <1>5 DEF Banned
<1>7. PromptsClean' /\ LoadsClean'
  BY <1>1, <1>5, <1>6, BansNoMore
<1>8. QED
  BY <1>2, <1>3, <1>4, <1>7 DEF MemoryInv

\* A file is removed before the blocks that came from it are emptied; the
\* folder's notes are in no block of the agent's.
LEMMA ClearPathStep == MemoryInv /\ ClearPath => MemoryInv'
<1> SUFFICES ASSUME MemoryInv, ClearPath PROVE MemoryInv'
  OBVIOUS
<1>1. PICK p : p = Head(flushing)[2]
  OBVIOUS
<1>2. /\ UNCHANGED <<prompt, journaled, alive, loading, noting, wrote, accepted, forgotten, memSteps>>
      /\ flushing # << >> /\ Head(flushing)[1] = "file" /\ flushing' = Tail(flushing)
      /\ noteFile' = [noteFile EXCEPT ![p] = {}]
      /\ removedNotes' = removedNotes \cup Numbers(p) /\ taken' = taken \cup Numbers(p)
      /\ excused' = excused \cup {s \in Rememberers : loading[s].kind = "move"}
  BY <1>1 DEF ClearPath
<1>3. \/ flushing = FlushSteps /\ p = "agent" /\ flushing' = Flush1
      \/ flushing = Flush1 /\ p = "folder" /\ flushing' = Flush2
      \/ flushing = ClearSteps /\ p = "folder" /\ flushing' = Clear1
  <2>1. flushing \notin {Flush2, Flush3, Clear1, Clear2}
    BY <1>2, BlockPhases
  <2>2. flushing \in {FlushSteps, Flush1, ClearSteps}
    BY <1>2, <2>1 DEF MemoryInv, FlushPhase
  <2>3. QED  BY <1>1, <1>2, <2>2, Phases
<1>4. p \in Stores /\ FlushPhase' /\ PendingIn(flushing', p) /\ PendingIn(flushing', "folder")
  BY <1>3, MemoryStores, Pending DEF FlushPhase
<1>5. noteFile \in [Stores -> SUBSET Notes]
  BY DEF MemoryInv, MemoryTypes, Blocks
<1>6. noteFile' \in Blocks /\ \A q \in Stores : noteFile'[q] = IF q = p THEN {} ELSE noteFile[q]
  BY <1>2, <1>4, <1>5 DEF Blocks
<1>7. Numbers(p) \subseteq Nat /\ \A m \in Numbers(p) : m > memSteps.notes
  BY <1>4, <1>5 DEF MemoryInv, NumbersFresh, Numbers, Notes
<1>8. MemoryTypes'
  BY <1>2, <1>6, <1>7 DEF MemoryInv, MemoryTypes
<1>9. \A q \in Stores : Numbers(q)' = IF q = p THEN {} ELSE Numbers(q)
  <2>1. TAKE q \in Stores
  <2>2. Numbers(q)' = {x.n : x \in noteFile'[q]}
    BY DEF Numbers
  <2>3. QED  BY <1>6, <2>2 DEF Numbers
<1>10. NumbersFresh'
  BY <1>2, <1>6, <1>7 DEF MemoryInv, NumbersFresh
<1>11. NumbersOwn'
  <2>1. \A q \in Stores : q # p => Clean(noteFile[q], Numbers(p))
    <3>1. SUFFICES ASSUME NEW q \in Stores, q # p, NEW x \in noteFile[q], NEW y \in noteFile[p] PROVE x.n # y.n
      BY DEF Clean, Numbers
    <3>2. QED  BY <1>4, <3>1, MemoryStores DEF MemoryInv, NumbersOwn, Clean, Numbers
  <2>2. \A q \in Stores : Clean(noteFile'[q], removedNotes')
    BY <1>2, <1>6, <2>1 DEF MemoryInv, NumbersOwn, Clean
  <2>3. QED
    BY <1>2, <1>6, <1>9, <2>2, MemoryStores DEF MemoryInv, NumbersOwn, Clean
<1>12. RemovedAll'
  BY <1>2 DEF MemoryInv, RemovedAll
<1>13. NotedKept'
  <2>1. Filed \subseteq Filed'
    BY <1>2, <1>4, <1>9, MemoryStores DEF Filed
  <2>2. QED  BY <1>2, <2>1 DEF MemoryInv, NotedKept
<1>14. \A q \in Stores : Banned(q)' \subseteq Banned(q) \/ (q = "agent" /\ p = "folder" /\ Banned(q)' \subseteq Banned(q) \cup Numbers("folder"))
  <2>1. TAKE q \in Stores
  <2>2. CASE PendingIn(flushing', q)
    BY <1>2, <2>2 DEF Banned, BlocksPending
  <2>3. CASE ~PendingIn(flushing', q)
    <3>1. flushing = ClearSteps /\ p = "folder" /\ q = "agent" /\ flushing' # << >>
      BY <1>3, <2>3, Pending, BlockPhases, MemoryStores
    <3>2. ~PendingIn(flushing, q)
      BY <3>1, Pending, MemoryStores
    <3>3. QED  BY <1>2, <3>1, <3>2 DEF Banned, BlocksPending, Taken
  <2>4. QED  BY <2>2, <2>3
<1>15. PromptsClean'
  <2>1. SUFFICES ASSUME NEW s \in alive \ excused, NEW q \in Stores PROVE Clean(prompt[s][q], Banned(q)')
    BY <1>2 DEF PromptsClean
  <2>2. Clean(prompt[s][q], Banned(q))
    BY DEF MemoryInv, PromptsClean
  <2>3. Clean(prompt[s]["agent"], Numbers("folder"))
    BY DEF MemoryInv, MemoryTypes, NumbersOwn, Clean
  <2>4. QED
    BY <1>14, <2>2, <2>3 DEF Clean
<1>16. LoadsClean'
  <2>1. Banned("folder")' = forgotten
    BY <1>2, <1>4 DEF Banned, BlocksPending
  <2>2. forgotten \subseteq Banned("folder")
    BY DEF Banned
  <2>3. QED
    BY <1>2, <2>1, <2>2 DEF MemoryInv, LoadsClean, Clean
<1>17. QED
  BY <1>4, <1>8, <1>10, <1>11, <1>12, <1>13, <1>15, <1>16 DEF MemoryInv

\* Blocks are emptied while no session is being created; sessions on the move
\* are excused.
LEMMA ClearBlocksStep == MemoryInv /\ ClearBlocks => MemoryInv'
<1> SUFFICES ASSUME MemoryInv, ClearBlocks PROVE MemoryInv'
  OBVIOUS
<1>1. PICK p : p = Head(flushing)[2]
  OBVIOUS
<1>2. /\ UNCHANGED <<taken, noteFile, journaled, alive, loading, noting, wrote, accepted, removedNotes, memSteps>>
      /\ flushing # << >> /\ Head(flushing)[1] = "blocks" /\ flushing' = Tail(flushing)
      /\ RegistryIdle
      /\ prompt' = [s \in Rememberers |-> IF s \in alive THEN [prompt[s] EXCEPT ![p] = {}] ELSE prompt[s]]
      /\ forgotten' = IF Len(flushing) = 1 THEN forgotten \cup taken ELSE forgotten
      /\ excused' = excused \cup {s \in Rememberers : loading[s].kind = "move"}
  BY <1>1 DEF ClearBlocks
<1>3. \/ flushing = Flush2 /\ p = "agent" /\ flushing' = Flush3 /\ forgotten' = forgotten
      \/ flushing = Flush3 /\ p = "folder" /\ flushing' = << >> /\ forgotten' = forgotten \cup taken
      \/ flushing = Clear1 /\ p = "folder" /\ flushing' = Clear2 /\ forgotten' = forgotten
  <2>1. flushing \notin {FlushSteps, Flush1, ClearSteps, Clear2}
    BY <1>2, Phases, BlockPhases
  <2>2. flushing \in {Flush2, Flush3, Clear1}
    BY <1>2, <2>1 DEF MemoryInv, FlushPhase
  <2>3. QED  BY <1>1, <1>2, <2>2, BlockPhases
<1>4. p \in Stores /\ FlushPhase'
  BY <1>3, MemoryStores DEF FlushPhase
<1>5. ASSUME NEW s \in Rememberers
      PROVE  prompt'[s] \in Blocks /\ \A q \in Stores : prompt'[s][q] = IF s \in alive /\ q = p THEN {} ELSE prompt[s][q]
  <2>1. prompt[s] \in Blocks
    BY DEF MemoryInv, MemoryTypes
  <2>2. prompt'[s] = IF s \in alive THEN [prompt[s] EXCEPT ![p] = {}] ELSE prompt[s]
    BY <1>2
  <2>3. QED  BY <1>4, <2>1, <2>2 DEF Blocks
<1>6. MemoryTypes'
  <2>1. prompt' \in [Rememberers -> Blocks]
    BY <1>2, <1>5
  <2>2. QED  BY <1>2, <2>1 DEF MemoryInv, MemoryTypes
<1>7. \A q : Numbers(q)' = Numbers(q)
  BY <1>2 DEF Numbers
<1>8. \A s \in Rememberers : prompt'[s]["agent"] \subseteq prompt[s]["agent"]
  BY <1>5, MemoryStores
<1>9. NumbersFresh'
  BY <1>2, <1>8 DEF MemoryInv, NumbersFresh
<1>10. NumbersOwn'
  BY <1>2, <1>7, <1>8 DEF MemoryInv, NumbersOwn, Clean
<1>11. RemovedAll' /\ NotedKept'
  BY <1>2, <1>7 DEF MemoryInv, RemovedAll, NotedKept, Filed
<1>12. \A q \in Stores : q # p => Banned(q)' \subseteq Banned(q)
  <2>1. TAKE q \in Stores
  <2>2. CASE flushing = Flush2
    BY <1>2, <1>3, <2>2, Pending, BlockPhases, MemoryStores DEF Banned, BlocksPending
  <2>3. CASE flushing = Flush3
    BY <1>2, <1>3, <2>3, Pending, BlockPhases, MemoryStores DEF Banned, BlocksPending, Taken
  <2>4. CASE flushing = Clear1
    BY <1>2, <1>3, <2>4, Pending, BlockPhases, MemoryStores DEF Banned, BlocksPending, Taken
  <2>5. QED  BY <1>3, <2>2, <2>3, <2>4
<1>13. PromptsClean'
  <2>1. SUFFICES ASSUME NEW s \in alive \ excused, NEW q \in Stores PROVE Clean(prompt'[s][q], Banned(q)')
    BY <1>2 DEF PromptsClean
  <2>2. Clean(prompt[s][q], Banned(q)) /\ s \in Rememberers
    BY DEF MemoryInv, MemoryTypes, PromptsClean
  <2>3. prompt'[s][q] = IF q = p THEN {} ELSE prompt[s][q]
    BY <1>5, <2>2
  <2>4. QED  BY <1>12, <2>2, <2>3 DEF Clean
<1>14. LoadsClean'
  BY <1>2 DEF MemoryInv, LoadsClean, RegistryIdle
<1>15. QED
  BY <1>4, <1>6, <1>9, <1>10, <1>11, <1>13, <1>14 DEF MemoryInv

\* The clear is journaled last; what it took is forgotten from here on.
LEMMA ClearJournaledStep == MemoryInv /\ ClearJournaled => MemoryInv'
<1> SUFFICES ASSUME MemoryInv, ClearJournaled PROVE MemoryInv'
  OBVIOUS
<1>1. /\ UNCHANGED <<taken, noteFile, prompt, alive, loading, noting, wrote, accepted, removedNotes, excused, memSteps>>
      /\ flushing # << >> /\ Head(flushing)[1] = "journal" /\ flushing' = << >>
      /\ journaled' = [s \in Rememberers |-> IF s \in alive THEN [journaled[s] EXCEPT !["folder"] = {}] ELSE journaled[s]]
      /\ forgotten' = forgotten \cup taken
  BY DEF ClearJournaled
<1>2. flushing = Clear2
  BY <1>1, Phases, BlockPhases DEF MemoryInv, FlushPhase
<1>3. \A s \in Rememberers : journaled'[s] \in Blocks /\ journaled'[s]["agent"] = journaled[s]["agent"]
  BY <1>1, MemoryStores DEF MemoryInv, MemoryTypes, Blocks
<1>4. MemoryTypes'
  <2>1. journaled' \in [Rememberers -> Blocks]
    BY <1>1, <1>3
  <2>2. QED  BY <1>1, <2>1 DEF MemoryInv, MemoryTypes
<1>5. \A q : Numbers(q)' = Numbers(q)
  BY <1>1 DEF Numbers
<1>6. NumbersFresh' /\ NumbersOwn'
  BY <1>1, <1>3, <1>5 DEF MemoryInv, NumbersFresh, NumbersOwn
<1>7. FlushPhase' /\ RemovedAll' /\ NotedKept'
  BY <1>1, <1>5 DEF MemoryInv, FlushPhase, RemovedAll, NotedKept, Filed
<1>8. /\ \A q \in Stores : Banned(q)' \subseteq Banned(q)
      /\ forgotten' \cup Taken' \subseteq forgotten \cup Taken
  BY <1>1, <1>2, Pending, BlockPhases DEF Banned, BlocksPending, Taken
<1>9. PromptsClean' /\ LoadsClean'
  BY <1>1, <1>8, BansNoMore
<1>10. QED
  BY <1>4, <1>6, <1>7, <1>9 DEF MemoryInv

\* After a restart every session is excused and nothing is under way.
LEMMA RebootMemoryStep == MemoryInv /\ RebootMemory => MemoryInv'
<1> SUFFICES ASSUME MemoryInv, RebootMemory PROVE MemoryInv'
  OBVIOUS
<1>1. /\ UNCHANGED <<taken, noteFile, journaled, alive, wrote, accepted, removedNotes, forgotten>>
      /\ memSteps.boots > 0 /\ memSteps' = [memSteps EXCEPT !.boots = @ - 1]
      /\ prompt' = journaled /\ flushing' = << >> /\ excused' = alive
      /\ loading' = [s \in Rememberers |-> NotLoading]
      /\ noting' = [s \in Rememberers |-> NotNoting]
  BY DEF RebootMemory
<1>2. /\ memSteps' \in [notes : Nat, asks : Nat, boots : Nat, stores : SUBSET Stores, texts : SUBSET Texts]
      /\ memSteps'.notes = memSteps.notes
  BY <1>1 DEF MemoryInv, MemoryTypes
<1>3. MemoryTypes'
  BY <1>1, <1>2, MemoryRecords DEF MemoryInv, MemoryTypes
<1>4. \A q : Numbers(q)' = Numbers(q)
  BY <1>1 DEF Numbers
<1>5. NumbersFresh' /\ NumbersOwn'
  BY <1>1, <1>2, <1>4 DEF MemoryInv, NumbersFresh, NumbersOwn, Clean
<1>6. FlushPhase' /\ RemovedAll' /\ NotedKept' /\ PromptsClean'
  BY <1>1, <1>4 DEF MemoryInv, FlushPhase, RemovedAll, NotedKept, Filed, PromptsClean
<1>7. LoadsClean'
  BY <1>1, MemoryRecords, NoBlocks DEF LoadsClean
<1>8. QED
  BY <1>3, <1>5, <1>6, <1>7 DEF MemoryInv

LEMMA MemoryStep == MemoryInv /\ [MemoryNext]_memoryVars => MemoryInv'
<1> SUFFICES ASSUME MemoryInv, [MemoryNext]_memoryVars PROVE MemoryInv'
  OBVIOUS
<1>1. CASE UNCHANGED memoryVars
  <2>1. \A q : Numbers(q)' = Numbers(q)
    BY <1>1 DEF memoryVars, Numbers
  <2>2. PromptsClean' /\ LoadsClean'
    BY <1>1, BansSame, BansNoMore DEF memoryVars
  <2>3. QED
    BY <1>1, <2>1, <2>2 DEF MemoryInv, memoryVars, MemoryTypes, NumbersFresh, NumbersOwn, FlushPhase, RemovedAll, NotedKept, Filed
<1>2. ASSUME NEW s \in Rememberers,
             \/ \E p \in memSteps.stores, t \in memSteps.texts : NotePath(s, p, t)
             \/ RememberAnswers(s) \/ CreateLoads(s) \/ MoveLoads(s) \/ LoadEnds(s) \/ ResetLoads(s) \/ DropSessionWrites(s)
      PROVE  MemoryInv'
  <2>1. CASE CreateLoads(s) \/ MoveLoads(s)
    BY <2>1, StartsStep DEF CreateLoads, MoveLoads
  <2>2. QED
    BY <1>2, <2>1, NotePathStep, RememberAnswersStep, LoadEndsStep, ResetLoadsStep, DropSessionWritesStep
<1>3. QED
  BY <1>1, <1>2, FlushBounds, ClearPathStep, ClearBlocksStep, ClearJournaledStep, RebootMemoryStep DEF MemoryNext

\* Notes: a note that remember acknowledged is in its file until the operator
\* has it removed, and once a flush or clear has answered no prompt built or
\* loaded under the registry's lock carries a note it removed (Manager.notePath,
\* clearPath, DropSessionWrites, Registry.create and ClearWorkspaceMemory).
THEOREM MemoryCorrect == MemorySpec => []MemoryKept
<1>1. MemoryInit => MemoryInv
  BY MemoryInitially
<1>2. MemoryInv /\ [MemoryNext]_memoryVars => MemoryInv'
  BY MemoryStep
<1>3. MemoryInv => MemoryKept
  <2>1. ASSUME MemoryInv PROVE FlushedForgotten
    BY <2>1 DEF MemoryInv, PromptsClean, Clean, Banned, FlushedForgotten
  <2>2. ASSUME MemoryInv PROVE NotesKept
    BY <2>2, MemoryStores DEF MemoryInv, NotedKept, Filed, NotesKept
  <2>3. QED  BY <2>1, <2>2 DEF MemoryKept
<1>4. QED
  BY <1>1, <1>2, <1>3, PTL DEF MemorySpec

=============================================================================
