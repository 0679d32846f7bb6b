---------------------------- MODULE HostConfigs ----------------------------
(***************************************************************************)
(* `ccm install` writes its entry into a configuration of an editor, and   *)
(* its skill into a directory, over what the user has there (npm/bin/      *)
(* ccm.js).  One such file, installers that may overlap or be killed, and  *)
(* a user who edits.  A content is the user's version it comes from and    *)
(* whether the installer has rewritten it: the user's own keys in the      *)
(* installer's section are gone then.                                      *)
(***************************************************************************)
EXTENDS Naturals, FiniteSets

CONSTANTS
  Installers,
  MaxInstalls,       \* bound: installs started
  MaxUserEdits,      \* bound: edits, and versions the user has
  Broken             \* those of the versions that cannot be parsed

ASSUME HostAssumption == MaxUserEdits \in Nat

VARIABLES
  format,      \* how the file is written: "json", "toml", "skill" or "claude"
  config,      \* the content of the file
  backups,     \* backups[name]: the file .bak, or .bak.<hash> for a content
  installer,   \* installer[i]: the process
  userEdits, installs,
  replaced,    \* the user's contents that an installer has replaced
  spoiled      \* the user edited during an install, or a copy was cut short

hostVars == <<format, config, backups, installer, userEdits, installs, replaced, spoiled>>

UserVersions == 1 .. MaxUserEdits

NoConfig == [user |-> 0, ours |-> FALSE]

\* A copy that is not complete.
Torn == [user |-> MaxUserEdits + 1, ours |-> TRUE]

UserContents == [user : UserVersions, ours : {FALSE}]

\* What the installer makes of a content; a skill is the same for everybody.
Rendered(content) ==
  [user |-> IF format = "skill" THEN 0 ELSE content.user, ours |-> TRUE]

ConfigContents == {NoConfig} \cup [user : UserVersions \cup {0}, ours : BOOLEAN]

\* A backup is the first, or named by the content it was made for.
Names == [primary : {TRUE}, of : {NoConfig}] \cup [primary : {FALSE}, of : ConfigContents]
Primary == [primary |-> TRUE, of |-> NoConfig]
Hashed(content) == [primary |-> FALSE, of |-> content]

NewInstaller == [pc |-> "idle", read |-> NoConfig, saved |-> NoConfig, copying |-> Primary,
                 source |-> NoConfig]

HostInit ==
  /\ format \in {"json", "toml", "skill", "claude"}
  /\ config \in {NoConfig} \cup {content \in UserContents : content.user = 1}
  /\ backups = [name \in Names |-> NoConfig]
  /\ installer = [i \in Installers |-> NewInstaller]
  /\ userEdits = 0 /\ installs = 0
  /\ replaced = {} /\ spoiled = FALSE

Running(i) == installer[i].pc \notin {"idle", "done", "failed"}

Goto(i, pc) == installer' = [installer EXCEPT ![i].pc = pc]

\* What is done once the content is read, and once it is backed up.
AfterRead == IF format = "toml" THEN "backup" ELSE "write"
AfterBackup == IF format = "json" THEN "read" ELSE "write"

Start(i) ==
  /\ ~Running(i) /\ installs < MaxInstalls
  /\ installs' = installs + 1
  /\ installer' = [installer EXCEPT ![i] = [NewInstaller EXCEPT !.pc =
       IF format = "claude" THEN "read"
       ELSE IF config = NoConfig THEN "write"
       ELSE IF format = "toml" THEN "read"
       ELSE IF format = "skill" /\ config = Rendered(config) THEN "write"
       ELSE "backup"]]
  /\ UNCHANGED <<format, config, backups, userEdits, replaced, spoiled>>

\* A JSON configuration that cannot be parsed stays as it is.
ReadConfig(i) ==
  /\ installer[i].pc = "read"
  /\ installer' = [installer EXCEPT
       ![i].read = config,
       ![i].pc = IF format \in {"json", "claude"} /\ config.user \in Broken THEN "failed"
                 ELSE IF format = "claude" THEN "remove" ELSE AfterRead]
  /\ UNCHANGED <<format, config, backups, userEdits, installs, replaced, spoiled>>

-----------------------------------------------------------------------------
(* backupFileOnce *)

ReadForBackup(i) ==
  /\ installer[i].pc = "backup"
  /\ installer' = [installer EXCEPT ![i].saved = config, ![i].pc = "primary"]
  /\ UNCHANGED <<format, config, backups, userEdits, installs, replaced, spoiled>>

\* Mutant of Primaries: the first backup stands for every later content.
PrimaryIsEnough(i) == IF backups[Primary] = NoConfig THEN "copy" ELSE AfterBackup

\* The first backup is made, or is this content already, or another one is needed.
Primaries(i) ==
  IF backups[Primary] = NoConfig THEN "copy"
  ELSE IF backups[Primary] = installer[i].saved THEN AfterBackup ELSE "hashed"

CheckPrimary(i) ==
  /\ installer[i].pc = "primary"
  /\ installer' = [installer EXCEPT ![i].pc = Primaries(i), ![i].copying = Primary]
  /\ UNCHANGED <<format, config, backups, userEdits, installs, replaced, spoiled>>

CheckHashed(i) ==
  /\ installer[i].pc = "hashed"
  /\ LET name == Hashed(installer[i].saved)
     IN  installer' = [installer EXCEPT ![i].copying = name,
                                        ![i].pc = IF backups[name] = NoConfig THEN "copy" ELSE AfterBackup]
  /\ UNCHANGED <<format, config, backups, userEdits, installs, replaced, spoiled>>

\* copyFileSync never overwrites (COPYFILE_EXCL); a file that is gone fails too.
StartCopy(i) ==
  /\ installer[i].pc = "copy"
  /\ LET name == installer[i].copying
     IN  IF config = NoConfig \/ backups[name] # NoConfig
         THEN Goto(i, "failed") /\ UNCHANGED backups
         ELSE /\ backups' = [backups EXCEPT ![name] = Torn]
              /\ installer' = [installer EXCEPT ![i].pc = "copying", ![i].source = config]
  /\ UNCHANGED <<format, config, userEdits, installs, replaced, spoiled>>

FinishCopy(i) ==
  /\ installer[i].pc = "copying"
  /\ backups' = [backups EXCEPT ![installer[i].copying] = installer[i].source]
  /\ Goto(i, AfterBackup)
  /\ UNCHANGED <<format, config, userEdits, installs, replaced, spoiled>>

-----------------------------------------------------------------------------

\* writeJsonAtomic, writeTextAtomic
WriteConfig(i) ==
  /\ installer[i].pc = "write"
  /\ config' = Rendered(installer[i].read)
  /\ replaced' = replaced \cup ({config} \cap UserContents)
  /\ Goto(i, IF format = "toml" THEN "verify" ELSE "done")
  /\ UNCHANGED <<format, backups, userEdits, installs, spoiled>>

\* Something else than what was written is replaced by what was there before.
VerifyConfig(i) ==
  /\ installer[i].pc = "verify"
  /\ IF config = Rendered(installer[i].read)
     THEN Goto(i, "done") /\ UNCHANGED config
     ELSE Goto(i, "failed") /\ config' = installer[i].read
  /\ UNCHANGED <<format, backups, userEdits, installs, replaced, spoiled>>

\* claude mcp remove, which may fail or find nothing to remove.
RemoveEntry(i) ==
  /\ installer[i].pc = "remove"
  /\ \/ config' = NoConfig /\ Goto(i, "add")
     \/ UNCHANGED config /\ Goto(i, "failed")
  /\ UNCHANGED <<format, backups, userEdits, installs, replaced, spoiled>>

\* claude mcp add-json, with the user's environment that was read.
AddEntry(i) ==
  /\ installer[i].pc = "add"
  /\ \/ config = NoConfig /\ config' = Rendered(installer[i].read) /\ Goto(i, "done")
     \/ UNCHANGED config /\ Goto(i, "failed")
  /\ UNCHANGED <<format, backups, userEdits, installs, replaced, spoiled>>

KillInstaller(i) ==
  /\ Running(i)
  /\ spoiled' = (spoiled \/ (installer[i].pc = "copying" /\ ~installer[i].copying.primary))
  /\ Goto(i, "failed")
  /\ UNCHANGED <<format, config, backups, userEdits, installs, replaced>>

\* Any version, also one from before.
EditConfig ==
  /\ userEdits < MaxUserEdits
  /\ userEdits' = userEdits + 1
  /\ config' \in UserContents
  /\ spoiled' = (spoiled \/ \E i \in Installers : Running(i))
  /\ UNCHANGED <<format, backups, installer, installs, replaced>>

InstallerStep(i) ==
  \/ Start(i) \/ ReadConfig(i) \/ ReadForBackup(i) \/ CheckPrimary(i) \/ CheckHashed(i)
  \/ StartCopy(i) \/ FinishCopy(i) \/ WriteConfig(i) \/ VerifyConfig(i)
  \/ RemoveEntry(i) \/ AddEntry(i) \/ KillInstaller(i)

HostNext == EditConfig \/ \E i \in Installers : InstallerStep(i)

HostSpec == HostInit /\ [][HostNext]_hostVars

-----------------------------------------------------------------------------

\* Whatever the user had in a file that an install has replaced can be found in
\* a backup, after any number of installs and edits, overlapping installs and
\* kills (ccm.js:185-189). The user's edits during an install are not covered,
\* nor is a named backup whose copy was cut short.
ReplacedIsBackedUp ==
  ~spoiled /\ (\A i \in Installers : installer[i].pc # "copying") =>
    \A content \in replaced : \E name \in Names : backups[name] = content

=============================================================================
