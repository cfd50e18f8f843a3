--------------------------- MODULE OperatorFiles ---------------------------
(***************************************************************************)
(* The operator's files (internal/operatorfiles/manager.go), in two        *)
(* independent parts.                                                      *)
(*                                                                         *)
(* The mailbox: CheckInbox reads INBOX.md under Manager.mu and clears it   *)
(* with a rename, but the operator writes the file with any editor, so     *)
(* between the two the content may have become another one.  Gate has the  *)
(* decisions a mail may carry; here a mail is an id and a verb, and the    *)
(* question is what becomes of it.                                         *)
(*                                                                         *)
(* Adoption: AGENT_B.md is made from AGENTS.md and CLAUDE.md, which are    *)
(* then removed.  No lock is taken: two requests may run at once, the      *)
(* process may stop anywhere, each file operation may fail, and the        *)
(* operator may edit the files meanwhile.                                  *)
(***************************************************************************)
EXTENDS Integers, Sequences, FiniteSets, FiniteSetsExt

CONSTANTS
  MaxMails,   \* bound: mails the operator writes
  MaxFaults,  \* bound: failures of the file system, per part
  Adopters,   \* requests that adopt instructions
  MaxEdits    \* bound: edits of the instruction files by the operator

ASSUME MailsAssumption == MaxMails \in Nat

----------------------------------------------------------------------------
(* The mailbox.                                                            *)

VARIABLES
  mailIn,     \* content of INBOX.md: a mail, or NoMail
  mailSeq,    \* the verbs of the mails written
  checking,   \* CheckInbox between its read and its clear, NoCheck otherwise
  effects,    \* mail -> how often its effect happened: a line in PLAN.md, or an Action returned
  ended,      \* mail -> how it left INBOX.md
  unclear     \* mail -> how often clearing it failed

mailFileVars == <<mailIn, mailSeq, checking, effects, ended, unclear>>

Verbs == {"STOP", "REVISE", "TASK", "TASK_empty", "DELAY", "DELAY_bad", "ANSWER", "note", "blank", "big"}
NoMail == [id |-> 0, verb |-> "blank"]
NoCheck == [mail |-> NoMail, by |-> "none"]
RefusedVerbs == {"big", "TASK_empty", "DELAY_bad"}
MailIds == 1..MaxMails

OperatorFilesMailInit ==
  /\ mailIn = NoMail /\ mailSeq = <<>> /\ checking = NoCheck
  /\ effects = [i \in MailIds |-> 0]
  /\ ended = [i \in MailIds |-> {}]
  /\ unclear = [i \in MailIds |-> 0]

MailFaults == MapThenSumSet(LAMBDA i : unclear[i], MailIds)
Leaves(i, how) == ended' = [ended EXCEPT ![i] = @ \cup {how}]

\* The operator saves INBOX.md.  What was there and is not being read is withdrawn.
WriteMail(verb) ==
  /\ Len(mailSeq) < MaxMails
  /\ mailSeq' = Append(mailSeq, verb)
  /\ mailIn' = [id |-> Len(mailSeq) + 1, verb |-> verb]
  /\ IF mailIn # NoMail /\ mailIn # checking.mail THEN Leaves(mailIn.id, "withdrawn") ELSE UNCHANGED ended
  /\ UNCHANGED <<checking, effects, unclear>>

\* CheckInbox up to the clear.  A mail it cannot use stays: the caller gets an error.  A task
\* is in PLAN.md before INBOX.md is cleared; appending it may fail, and then it stays too.
CheckReads(by) ==
  /\ checking = NoCheck /\ mailIn # NoMail /\ mailIn.verb \notin RefusedVerbs
  /\ checking' = [mail |-> mailIn, by |-> by]
  /\ effects' = IF mailIn.verb = "TASK" THEN [effects EXCEPT ![mailIn.id] = @ + 1] ELSE effects
  /\ UNCHANGED <<mailIn, mailSeq, ended, unclear>>

\* What the caller does with the action: a gate waiting for an answer looks only at Stop and
\* Decision; an answer counts only for a gate, elsewhere it is a note.
ReturnedAction(c) ==
  CASE c.mail.verb \in {"blank", "TASK"} -> "consumed"
    [] c.by = "gate" /\ c.mail.verb \in {"REVISE", "DELAY", "note"} -> "dropped"
    [] c.by = "gate_off" /\ c.mail.verb \in {"REVISE", "DELAY", "note", "ANSWER"} -> "dropped"
    [] OTHER -> "acted"

\* clearInboxLocked renames an empty file over whatever INBOX.md is by now; only then is the
\* action returned.
CheckClears ==
  LET m == checking.mail
      how == ReturnedAction(checking)
  IN
  /\ checking # NoCheck
  /\ checking' = NoCheck
  /\ mailIn' = NoMail
  /\ effects' = IF how = "acted" THEN [effects EXCEPT ![m.id] = @ + 1] ELSE effects
  /\ ended' = [i \in MailIds |-> ended[i] \cup (IF i = m.id THEN {how} ELSE {})
                                         \cup (IF i = mailIn.id /\ i # m.id THEN {"overwritten"} ELSE {})]
  /\ UNCHANGED <<mailSeq, unclear>>

\* The mutant hands the action out although the mail is still there.
ClearFailsActs ==
  /\ checking # NoCheck /\ MailFaults < MaxFaults
  /\ checking' = NoCheck
  /\ unclear' = [unclear EXCEPT ![checking.mail.id] = @ + 1]
  /\ effects' = IF ReturnedAction(checking) = "acted" THEN [effects EXCEPT ![checking.mail.id] = @ + 1]
                ELSE effects
  /\ IF mailIn # checking.mail THEN Leaves(checking.mail.id, "withdrawn") ELSE UNCHANGED ended
  /\ UNCHANGED <<mailIn, mailSeq>>

\* The clear fails: the caller gets an error and no action.
ClearFails ==
  /\ checking # NoCheck /\ MailFaults < MaxFaults
  /\ checking' = NoCheck
  /\ unclear' = [unclear EXCEPT ![checking.mail.id] = @ + 1]
  /\ IF mailIn # checking.mail THEN Leaves(checking.mail.id, "withdrawn") ELSE UNCHANGED ended
  /\ UNCHANGED <<mailIn, mailSeq, effects>>

OperatorFilesMailNext ==
  \/ \E verb \in Verbs : WriteMail(verb)
  \/ \E by \in {"boundary", "gate", "gate_off"} : CheckReads(by)
  \/ CheckClears
  \/ ClearFails

\* A mail is in INBOX.md or its end is known: it was acted on, put in PLAN.md, dropped by a
\* gate, withdrawn, or overwritten by a clear that raced the operator's editor.  It takes
\* effect at most once; only a task repeats, once for each clear of it that failed.
MailConserved ==
  \A i \in DOMAIN mailSeq :
    /\ ended[i] = {} => i \in {mailIn.id, checking.mail.id}
    /\ effects[i] <= 1 + (IF mailSeq[i] = "TASK" THEN unclear[i] ELSE 0)
    /\ "acted" \in ended[i] => effects[i] = 1

----------------------------------------------------------------------------
(* Adoption of instructions.                                               *)

VARIABLES
  instr,      \* file -> the texts in it; {} is an empty file, Missing no file
  latest,     \* file -> the operator's latest text for it
  adopting,   \* request -> [at, read, cleanup]
  edits,      \* edits made
  diskFaults, \* failures so far
  late        \* files edited while a request had read them

adoptVars == <<instr, latest, adopting, edits, diskFaults, late>>

Missing == {0}
Sources == {"AGENTS.md", "CLAUDE.md"}
Target == "AGENT_B.md"
NotAdopting == [at |-> "idle", read |-> {}, names |-> {}, cleanup |-> FALSE]

OperatorFilesAdoptInit ==
  /\ instr = [f \in Sources \cup {Target} |->
                IF f = Target THEN Missing ELSE IF f = "AGENTS.md" THEN {1} ELSE {2}]
  /\ latest = [f \in Sources |-> IF f = "AGENTS.md" THEN 1 ELSE 2]
  /\ adopting = [a \in Adopters |-> NotAdopting]
  /\ edits = 0 /\ diskFaults = 0 /\ late = {}

Present == {f \in Sources : instr[f] # Missing}
AtAdopt(a, at) == adopting[a].at = at
Moves(a, rec) == adopting' = [adopting EXCEPT ![a] = rec]
FileFault == diskFaults < MaxFaults /\ diskFaults' = diskFaults + 1

\* Adopt: refused when AGENT_B.md exists or there is nothing to adopt; then the files are read.
AdoptReads(a) ==
  \E cleanup \in BOOLEAN :
    /\ AtAdopt(a, "idle") /\ instr[Target] = Missing /\ Present # {}
    /\ Moves(a, [at |-> "read", names |-> Present, cleanup |-> cleanup,
                 read |-> UNION {instr[f] : f \in Present}])
    /\ UNCHANGED <<instr, latest, edits, diskFaults, late>>

\* O_CREATE|O_EXCL: a request that comes second fails.
AdoptCreates(a) ==
  /\ AtAdopt(a, "read")
  /\ IF instr[Target] = Missing
     THEN /\ instr' = [instr EXCEPT ![Target] = {}]
          /\ Moves(a, [adopting[a] EXCEPT !.at = "created"])
     ELSE /\ Moves(a, NotAdopting)
          /\ UNCHANGED instr
  /\ UNCHANGED <<latest, edits, diskFaults, late>>

\* The content is written; on an error the file is removed again.
AdoptWrites(a) ==
  /\ AtAdopt(a, "created")
  /\ \/ /\ instr' = [instr EXCEPT ![Target] = adopting[a].read]
        /\ Moves(a, IF adopting[a].cleanup THEN [adopting[a] EXCEPT !.at = "written"] ELSE NotAdopting)
        /\ UNCHANGED diskFaults
     \/ /\ FileFault
        /\ instr' = [instr EXCEPT ![Target] = Missing]
        /\ Moves(a, NotAdopting)
  /\ UNCHANGED <<latest, edits, late>>

\* With cleanup the sources go one by one; the first failure ends it.
AdoptRemoves(a) ==
  \E f \in adopting[a].names :
    /\ AtAdopt(a, "written")
    /\ f = "CLAUDE.md" => "AGENTS.md" \notin adopting[a].names
    /\ \/ /\ instr' = [instr EXCEPT ![f] = Missing]
          /\ Moves(a, IF adopting[a].names = {f} THEN NotAdopting
                      ELSE [adopting[a] EXCEPT !.names = @ \ {f}])
          /\ UNCHANGED diskFaults
       \/ /\ FileFault
          /\ Moves(a, NotAdopting)
          /\ UNCHANGED instr
    /\ UNCHANGED <<latest, edits, late>>

\* The process stops: the requests are gone, the files stay as they are.
AdoptCrash ==
  /\ FileFault
  /\ adopting' = [a \in Adopters |-> NotAdopting]
  /\ UNCHANGED <<instr, latest, edits, late>>

\* The operator saves a new text.
EditSource(f) ==
  /\ edits < MaxEdits /\ edits' = edits + 1
  /\ instr' = [instr EXCEPT ![f] = {edits + 3}]
  /\ latest' = [latest EXCEPT ![f] = edits + 3]
  /\ late' = IF \E a \in Adopters : f \in adopting[a].names THEN late \cup {f} ELSE late \ {f}
  /\ UNCHANGED <<adopting, diskFaults>>

OperatorFilesAdoptNext ==
  \/ \E a \in Adopters : \/ AdoptReads(a) \/ AdoptCreates(a) \/ AdoptWrites(a) \/ AdoptRemoves(a)
  \/ AdoptCrash
  \/ \E f \in Sources : EditSource(f)

\* Whatever fails and whoever else adopts, the operator's latest instructions are in their own
\* file or in AGENT_B.md, unless they were saved while a request already had the older text.
InstructionsKept ==
  \A f \in Sources \ late : latest[f] \in instr[f] \cup instr[Target]

\* The two parts side by side.
OperatorFilesSpec ==
  /\ OperatorFilesMailInit /\ OperatorFilesAdoptInit
  /\ [][\/ OperatorFilesMailNext /\ UNCHANGED adoptVars
        \/ OperatorFilesAdoptNext /\ UNCHANGED mailFileVars]_<<mailFileVars, adoptVars>>

\* operatorfiles/manager.go: what the operator writes into the mailbox or the instruction files
\* is acted on, refused or still there, whichever step fails.
OperatorFilesKept == MailConserved /\ InstructionsKept
=============================================================================
