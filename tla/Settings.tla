------------------------------ MODULE Settings ------------------------------
(***************************************************************************)
(* The configuration: LoadWithRoots and its migrations, defaults,          *)
(* validation, the profile credentials and Save (internal/config), and the *)
(* requests that change it: the patch of /api/config, a profile's delete   *)
(* and probe, an agent's tools and server (web/server_profiles.go,         *)
(* server_actions.go, agent_server.go).                                    *)
(*                                                                         *)
(* A document keeps the fields on which the code branches; a value that is *)
(* merely copied is left out, and of the numeric ranges of Validate there  *)
(* is one, run.max_turns.  Absent is 0, "" or, where zero means something  *)
(* else, -1.  Save writes the file in place, so a process that stops       *)
(* during it leaves a document that cannot be parsed.                      *)
(***************************************************************************)
EXTENDS Integers, Sequences, FiniteSets

CONSTANTS
  Names,       \* the ids of profiles and the names of credentials
  Documents,   \* the configuration files the process may find
  Patches,     \* the changes the operator asks for
  Sizes,       \* the context sizes a probe may report, 0 for none
  MaxPatches,  \* bound: how many changes
  MaxFaultsCfg \* bound: failed reads and writes, and stops of the process

VARIABLES
  document,  \* harness.json
  creds,     \* the credential store: name -> key
  config,    \* Server.cfg while the process is up
  job,       \* the load or the request in progress
  asked,     \* changes so far
  faultsCfg,
  owed,      \* credentials whose key the first document holds
  apart,     \* the store may have another key than the one in use: a request failed
             \* after it stored one, or the profiles it loaded share a credential
  ahead      \* the file is not what the process runs with: a change that was made in
             \* place was not saved, or the file was truncated and not written

settingsVars == <<document, creds, config, job, asked, faultsCfg, owed, apart, ahead>>

CurrentConfigVersion == 6
\* The defaults stand for 10000 turns and for the byte and minute defaults of defaultConfig.
DefaultTurns == 9
DefaultIdle == 20
DefaultLimit == 16
Down == "down"

Profile(id) == [id |-> id, label |-> "Name", key |-> "", cred |-> "", nctx |-> -1, override |-> 0, cap |-> 0]
Document == [parses |-> TRUE, legacy |-> FALSE, version |-> 6, approval |-> "", turns |-> -1,
             idleOld |-> 0, idle |-> 0, limit |-> 0, memory |-> [dir |-> "", on |-> FALSE],
             servers |-> <<>>, main |-> "", aux |-> "", agents |-> <<>>, operator |-> FALSE]
Job == [kind |-> "none", at |-> "idle", next |-> Document, save |-> FALSE]

\* A document that parses has the sections of Document, its profiles the fields of Profile; the
\* structure of version 1 has one server.
FormedProfile(p) ==
  /\ p = [f \in DOMAIN Profile("") |-> p[f]]
  /\ p.id \in Names /\ p.cred \in Names \cup {""}
Formed(d) ==
  /\ d = [f \in DOMAIN Document |-> d[f]]
  /\ d.servers \in Seq({d.servers[i] : i \in DOMAIN d.servers})
  /\ \A i \in DOMAIN d.servers : FormedProfile(d.servers[i])
  /\ d.legacy \in BOOLEAN /\ (d.legacy => Len(d.servers) = 1)

\* A patch changes one field, or the key of one profile and the credential of another; a
\* profile's id is not empty.
FormedPatch(patch) ==
  /\ patch.field \in {"approval", "turns", "memory", "agent", "credential", "key", "profiles"}
  /\ patch.field \in {"key", "profiles"} => patch.id \in Names
  /\ patch.field = "credential" => patch.value \in Names \cup {""}
  /\ patch.field = "profiles" => patch.cred \in Names \cup {""}

ASSUME SettingsConstants ==
  /\ "" \notin Names
  /\ \A d \in Documents : Formed(d)
  /\ \A patch \in Patches : FormedPatch(patch)
  /\ Sizes \subseteq Nat

----------------------------------------------------------------------------
(* Loading.                                                                *)

\* AgentID of a profile's label: an odd label has no letter or digit.
AgentID(name) == IF name = "odd" THEN "" ELSE name

\* migrateV1: the single server becomes the profile "p", the rest passes through the current
\* structure, where the old timeout has no field.
MigrateV1(d) ==
  IF ~d.legacy THEN d
  ELSE [d EXCEPT !.legacy = FALSE, !.idleOld = 0,
                 !.servers = <<[d.servers[1] EXCEPT !.nctx = d.servers[1].override, !.override = 0]>>]

MigrateOperatorIdleTimeout(d, v) ==
  IF v = CurrentConfigVersion THEN d
  ELSE [d EXCEPT !.idleOld = 0, !.idle = IF d.idleOld # 0 /\ d.idle = 0 THEN d.idleOld ELSE @]

MigrateByteWindows(d, v) ==
  IF v >= 4 \/ d.limit = 0 THEN d ELSE [d EXCEPT !.limit = DefaultLimit]

\* legacyMainProfile: the first profile that was ready, or the first one.
LegacyMainProfile(d) ==
  LET Usable(p) == IF p.override > 0 THEN TRUE ELSE p.cap > 0
      ready == {i \in DOMAIN d.servers : Usable(d.servers[i])}
  IN
  IF d.servers = <<>> THEN ""
  ELSE IF ready = {} THEN d.servers[1].id
  ELSE d.servers[CHOOSE i \in ready : \A j \in ready : i <= j].id

\* The context size of a profile becomes explicit: the override, else what was probed.
MigrateModelProfiles(d, v) ==
  LET size(p) == IF p.nctx # -1 THEN p.nctx ELSE IF p.override # 0 THEN p.override ELSE p.cap
      named(p) == IF p.key # "" /\ p.cred = "" THEN [p EXCEPT !.cred = p.id] ELSE p
      resized(p) == IF v < 5 THEN [p EXCEPT !.nctx = size(p), !.override = 0] ELSE p
  IN
  [d EXCEPT !.main = IF v < 5 THEN LegacyMainProfile(d) ELSE @,
            !.servers = [i \in DOMAIN d.servers |-> named(resized(d.servers[i]))]]

\* One agent is made of the roles, named after the profile's label.
MigrateAgentObjects(d, v) ==
  LET main == IF d.main = "" THEN d.servers[1].id ELSE d.main
      bound == {i \in DOMAIN d.servers : d.servers[i].id = main}
      name == IF bound = {} THEN main ELSE d.servers[CHOOSE i \in bound : TRUE].label
  IN
  IF v >= 6 THEN d
  ELSE [d EXCEPT !.main = "", !.aux = "",
                 !.agents = IF d.servers = <<>> THEN <<>> ELSE <<[name |-> name, b |-> main, c |-> d.aux, tool |-> TRUE]>>]

\* applyDefaults: a zero is taken for an absent field, and an absent memory.dir replaces the
\* whole section.
ApplyDefaults(d) ==
  [d EXCEPT !.version = CurrentConfigVersion,
            !.turns = IF @ \in {-1, 0} THEN DefaultTurns ELSE @,
            !.approval = IF @ = "" THEN "boundary-only" ELSE @,
            !.memory = IF @.dir = "" THEN [dir |-> "memory", on |-> TRUE] ELSE @,
            !.limit = IF @ = 0 THEN DefaultLimit ELSE @,
            !.idle = IF @ = 0 THEN DefaultIdle ELSE @,
            !.agents = IF d.servers = <<>> THEN <<>> ELSE @,
            !.servers = [i \in DOMAIN d.servers |->
                          IF d.servers[i].nctx = -1 THEN [d.servers[i] EXCEPT !.nctx = 0] ELSE d.servers[i]]]

ValidServers(d) ==
  /\ \A i, j \in DOMAIN d.servers : d.servers[i].id = d.servers[j].id => i = j
  /\ \A i \in DOMAIN d.servers : LET p == d.servers[i] IN p.cap > 0 => p.nctx <= p.cap

ValidAgents(d) ==
  LET known == {d.servers[i].id : i \in DOMAIN d.servers} IN
  /\ (d.servers = <<>>) = (d.agents = <<>>)
  /\ \A i \in DOMAIN d.agents :
       /\ AgentID(d.agents[i].name) # ""
       /\ d.agents[i].b \in known
       /\ d.agents[i].c \in known \cup {""}
       /\ \A j \in DOMAIN d.agents : AgentID(d.agents[i].name) = AgentID(d.agents[j].name) => i = j

\* The ranges and enumerations, of which the model has one each.
ValidLimits(d) ==
  /\ d.turns > 0
  /\ d.approval \in {"boundary-only", "mutating", "all", "off"}

Validate(d) == ValidServers(d) /\ ValidAgents(d) /\ ValidLimits(d)

Migrated(d) ==
  LET v == d.version IN
  MigrateAgentObjects(MigrateModelProfiles(MigrateByteWindows(
    MigrateOperatorIdleTimeout(MigrateV1(d), v), v), v), v)

\* An inherited "mutating" of an unstamped file is corrected; the operator's mode never starts on.
Normalized(d) ==
  [ApplyDefaults(Migrated(d)) EXCEPT
     !.operator = FALSE,
     !.approval = IF d.version = 0 /\ d.approval = "mutating" THEN "boundary-only" ELSE @]

\* A file with an API key is rewritten even when its version is current.
NeedsSave(d) == d.legacy \/ d.version # CurrentConfigVersion \/ \E i \in DOMAIN d.servers : d.servers[i].key # ""

Readable(d) == d.parses /\ d.turns # 0

----------------------------------------------------------------------------
(* Credentials and Save.                                                   *)

CredentialName(p) == IF p.cred = "" THEN p.id ELSE p.cred
KeysIn(d) == {CredentialName(d.servers[i]) : i \in {j \in DOMAIN d.servers : d.servers[j].key # ""}}

\* ResolveProfileCredentials goes through the profiles in order: a key given is stored under the
\* profile's credential, a credential named without a key is read.  Two profiles may name the
\* same credential.  What is in the store when the first n profiles
\* are done:
StoreAfter(store, d, n) ==
  [c \in Names |->
     LET given == {i \in 1..n : d.servers[i].key # "" /\ CredentialName(d.servers[i]) = c}
     IN IF given = {} THEN store[c] ELSE d.servers[CHOOSE i \in given : \A j \in given : j <= i].key]

Stored(store, d) == StoreAfter(store, d, Len(d.servers))
Resolved(store, d) ==
  [d EXCEPT !.servers = [i \in DOMAIN d.servers |->
     LET p == d.servers[i] IN
     IF p.key # "" THEN [p EXCEPT !.cred = CredentialName(p)]
     ELSE IF p.cred # "" THEN [p EXCEPT !.key = StoreAfter(store, d, i)[p.cred]]
     ELSE p]]
\* What can fail at profile i: a credential it names is not stored; a store it uses.
NotStored(store, d, i) ==
  LET p == d.servers[i] IN p.key = "" /\ p.cred # "" /\ StoreAfter(store, d, i)[p.cred] = ""
UsesStore(d, i) == d.servers[i].key # "" \/ d.servers[i].cred # ""
Resolvable(store, d) == \A i \in DOMAIN d.servers : ~NotStored(store, d, i)

\* Save: no key, the current version, operator mode off.  The mutant does not stamp the version.
PersistedUnstamped(d) ==
  [d EXCEPT !.version = 0, !.operator = FALSE,
            !.servers = [i \in DOMAIN d.servers |-> [d.servers[i] EXCEPT !.key = ""]]]
Persisted(d) ==
  [d EXCEPT !.version = CurrentConfigVersion, !.operator = FALSE,
            !.servers = [i \in DOMAIN d.servers |-> [d.servers[i] EXCEPT !.key = ""]]]

----------------------------------------------------------------------------

SharedCredential(d) ==
  \E i, j \in DOMAIN d.servers : i # j /\ d.servers[i].cred # "" /\ d.servers[i].cred = d.servers[j].cred

SettingsInit ==
  /\ document \in Documents /\ owed = KeysIn(document)
  /\ creds = [n \in Names |-> ""]
  /\ config = Document /\ job = [Job EXCEPT !.kind = Down]
  /\ asked = 0 /\ faultsCfg = 0 /\ apart = FALSE /\ ahead = FALSE

\* LoadWithRoots up to the credentials.  A document it refuses leaves the process down.
Loads ==
  /\ job.kind = Down /\ Readable(document)
  /\ LET d == Normalized(document) IN
     /\ Validate(d)
     /\ job' = [kind |-> "load", at |-> "resolve", next |-> d, save |-> NeedsSave(document)]
  /\ UNCHANGED <<document, creds, config, asked, faultsCfg, owed, apart, ahead>>

\* mergeConfig on the running configuration: servers by id, everything else replaced.
Named(d, id) == {i \in DOMAIN d.servers : d.servers[i].id = id}
SetKey(d, id, key) ==
  LET at == Named(d, id)
      new == [Profile(id) EXCEPT !.key = key]
  IN [d EXCEPT !.servers = IF at = {} THEN Append(d.servers, new)
                           ELSE [i \in DOMAIN d.servers |->
                                   IF i \in at THEN [d.servers[i] EXCEPT !.key = key] ELSE d.servers[i]]]
SetCredential(d, id, cred) ==
  [d EXCEPT !.servers = [i \in DOMAIN d.servers |->
                           IF i \in Named(d, id) THEN [d.servers[i] EXCEPT !.cred = cred] ELSE d.servers[i]]]

Merge(d, patch) ==
  CASE patch.field = "approval" -> [d EXCEPT !.approval = patch.value]
    [] patch.field = "turns" -> [d EXCEPT !.turns = 0]
    [] patch.field = "memory" -> [d EXCEPT !.memory = [dir |-> "", on |-> @.on]]
    [] patch.field = "agent" ->
         [d EXCEPT !.agents = <<[name |-> "Name", b |-> patch.id, c |-> "", tool |-> TRUE]>>]
    [] patch.field = "credential" -> SetCredential(d, patch.id, patch.value)
    [] patch.field = "key" -> SetKey(d, patch.id, patch.value)
    [] patch.field = "profiles" -> SetCredential(SetKey(d, patch.id, patch.value), patch.other, patch.cred)

Asks == job.kind = "none" /\ asked < MaxPatches /\ asked' = asked + 1

\* The request: merge, defaults, validation; what Validate refuses changes nothing.
Patch(patch) ==
  /\ Asks
  /\ LET d == ApplyDefaults(Merge(config, patch)) IN
     IF Validate(d)
     THEN job' = [kind |-> "patch", at |-> "resolve", next |-> d, save |-> TRUE]
     ELSE UNCHANGED job
  /\ UNCHANGED <<document, creds, config, faultsCfg, owed, apart, ahead>>

\* A change of the running configuration, which is saved and not taken back when that fails.
SavesAs(kind, d) == job' = [kind |-> kind, at |-> "save", next |-> d, save |-> TRUE]
InPlace(d) ==
  /\ config' = d /\ SavesAs("keep", d)
  /\ UNCHANGED <<document, creds, faultsCfg, owed, apart, ahead>>

\* The DELETE of a profile that no agent has.
WithoutServer(ps, k) == [i \in 1..Len(ps) - 1 |-> IF i < k THEN ps[i] ELSE ps[i + 1]]
DeleteServer(k) ==
  /\ Asks
  /\ Len(config.servers) > 1
  /\ \A i \in DOMAIN config.agents :
       config.servers[k].id \notin {config.agents[i].b, config.agents[i].c}
  /\ InPlace([config EXCEPT !.servers = WithoutServer(@, k)])

\* runProbe: what the server reports, and the context size where none was set.  A failed
\* probe puts back the size that was known when it began.
Sized(p, size) == [p EXCEPT !.cap = size, !.nctx = IF @ = 0 THEN size ELSE @]
ServerProbed(k, size) ==
  /\ Asks
  /\ InPlace([config EXCEPT !.servers = [i \in DOMAIN @ |-> IF i = k THEN Sized(@[i], size) ELSE @[i]]])

\* An agent's tool is turned on or off; the model has one tool.
ToolTurned(agent) == [agent EXCEPT !.tool = ~@]
ToggleAgentTool(k) ==
  /\ Asks
  /\ InPlace([config EXCEPT !.agents = [i \in DOMAIN @ |-> IF i = k THEN ToolTurned(@[i]) ELSE @[i]]])

\* applyPendingAgentServer: the binding is taken back when it cannot be saved.  It was asked
\* for when the profile existed.
BindAgent(k, id) ==
  /\ Asks
  /\ SavesAs("copy", [config EXCEPT !.agents = [i \in DOMAIN @ |-> IF i = k THEN [@[i] EXCEPT !.b = id] ELSE @[i]]])
  /\ UNCHANGED <<document, creds, config, faultsCfg, owed, apart, ahead>>

Resolves ==
  /\ job.at = "resolve" /\ Resolvable(creds, job.next)
  /\ creds' = Stored(creds, job.next)
  /\ apart' = TRUE
  /\ job' = [job EXCEPT !.next = Resolved(creds, @), !.at = IF job.save THEN "save" ELSE "commit"]
  /\ UNCHANGED <<document, config, asked, faultsCfg, owed, ahead>>

\* A request that fails leaves the running configuration, a load that fails the process.
Gives == job' = [Job EXCEPT !.kind = IF job.kind = "load" THEN Down ELSE "none"]

\* The credential of profile k is not stored, or its store cannot be read or written: the
\* keys of the profiles before it are stored by now.
ResolveFails(k) ==
  /\ job.at = "resolve"
  /\ \A i \in 1..k - 1 : ~NotStored(creds, job.next, i)
  /\ \/ NotStored(creds, job.next, k) /\ UNCHANGED faultsCfg
     \/ /\ ~NotStored(creds, job.next, k) /\ UsesStore(job.next, k)
        /\ faultsCfg < MaxFaultsCfg /\ faultsCfg' = faultsCfg + 1
  /\ creds' = StoreAfter(creds, job.next, k - 1)
  /\ apart' = (apart \/ creds' # creds)
  /\ Gives
  /\ UNCHANGED <<document, config, asked, owed, ahead>>

\* Save validates what it is given.
Sound == Validate(job.next)

\* os.WriteFile truncates first.
SaveTruncates ==
  /\ job.at = "save" /\ Sound
  /\ document' = [Document EXCEPT !.parses = FALSE]
  /\ job' = [job EXCEPT !.at = "write"]
  /\ UNCHANGED <<creds, config, asked, faultsCfg, owed, apart, ahead>>

SaveWrites ==
  /\ job.at = "write"
  /\ document' = Persisted(job.next)
  /\ job' = [job EXCEPT !.at = "commit"]
  /\ UNCHANGED <<creds, config, asked, faultsCfg, owed, apart, ahead>>

\* A load and a patch have stored every key of the configuration they bring.
Commits ==
  /\ job.at = "commit"
  /\ config' = job.next
  /\ job' = Job
  /\ apart' = IF job.kind \in {"load", "patch"} THEN SharedCredential(job.next) ELSE apart
  /\ ahead' = FALSE
  /\ UNCHANGED <<document, creds, asked, faultsCfg, owed>>

\* What Save refuses, a file that cannot be opened, and one that could not be written after
\* it was truncated.
SaveFails ==
  /\ \/ job.at = "save" /\ ~Sound /\ UNCHANGED faultsCfg
     \/ job.at \in {"save", "write"} /\ faultsCfg < MaxFaultsCfg /\ faultsCfg' = faultsCfg + 1
  /\ ahead' = (ahead \/ job.kind = "keep" \/ job.at = "write")
  /\ Gives
  /\ UNCHANGED <<document, creds, config, asked, owed, apart>>

\* The process stops.
Stops ==
  /\ job.kind # Down /\ faultsCfg < MaxFaultsCfg
  /\ faultsCfg' = faultsCfg + 1
  /\ job' = [Job EXCEPT !.kind = Down]
  /\ apart' = FALSE /\ ahead' = FALSE
  /\ UNCHANGED <<document, creds, config, asked, owed>>

\* Operator mode is turned on and off in memory only.
ToggleOperator ==
  /\ job.kind = "none"
  /\ config' = [config EXCEPT !.operator = ~@]
  /\ UNCHANGED <<document, creds, job, asked, faultsCfg, owed, apart, ahead>>

SettingsNext ==
  \/ Loads \/ (\E p \in Patches : Patch(p))
  \/ \E k \in DOMAIN config.servers : DeleteServer(k) \/ \E size \in Sizes : ServerProbed(k, size)
  \/ \E k \in DOMAIN config.agents : ToggleAgentTool(k) \/ \E id \in Names : BindAgent(k, id)
  \/ Resolves \/ (\E k \in DOMAIN job.next.servers : ResolveFails(k))
  \/ SaveTruncates \/ SaveWrites \/ Commits \/ SaveFails \/ Stops \/ ToggleOperator

\* What the process runs with is what it would load if it were started again, operator mode
\* aside: no default, migration or credential makes a difference.  The exceptions: a key was
\* stored by a request that then failed, at a later profile or in Save; profiles share a
\* credential, and the last one's key replaces the others' (apart); the file could not be
\* written after it was truncated; and a profile was deleted or probed or a tool toggled in
\* the running configuration, and Save refused it or failed (ahead).  Until the next patch,
\* or the next change that is saved.
RestartSame ==
  job.kind = "none" /\ ~apart /\ ~ahead =>
    /\ Readable(document) /\ Validate(Normalized(document)) /\ ~NeedsSave(document)
    /\ Resolvable(creds, Normalized(document))
    /\ Resolved(creds, Normalized(document)) = [config EXCEPT !.operator = FALSE]

\* A key leaves harness.json for the credential store and is in one of them at every moment,
\* also when the process stops while the file is being rewritten.
KeyKept ==
  /\ \A n \in owed : creds[n] # "" \/ n \in KeysIn(document)
  /\ job.kind = "none" => KeysIn(document) = {}

\* config.go, migrate.go, server_profiles.go: a restart changes nothing and loses no key,
\* whatever version the file had; the exceptions are those of RestartSame.
SettingsKept == RestartSame /\ KeyKept
=============================================================================
