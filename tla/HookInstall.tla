----------------------------- MODULE HookInstall -----------------------------
(***************************************************************************)
(* MaestroHookBridge.install(): Fabi adds its hooks to the settings of two *)
(* other programs, which their users, the programs themselves and other    *)
(* instances of the IDE write too.                                         *)
(***************************************************************************)
EXTENDS Naturals, Sequences, SequencesExt

CONSTANTS
  Instances,     \* the processes of the IDE, each with a command of its own
  Foreign,       \* the hooks of others
  Edited,        \* what is found, or written, by others: groups of hooks of one event
  Tables,        \* and the lines of config.toml
  MaxEdits,      \* bound: edits by others
  MaxHookFaults  \* bound: files that cannot be read, processes that die

HookInstallAssumption == {MaxEdits, MaxHookFaults} \subseteq Nat

VARIABLES
  program,    \* "claude" or "codex": installClaude() and installCodex() share nothing
  settings,   \* settings.json, or hooks.json: the groups of an event that is added to, or broken
  config,     \* config.toml of Codex, by lines
  install,    \* where the installation of an instance is
  got,        \* what it read
  edits, hookFaults

vars == <<program, settings, config, install, got, edits, hookFaults>>

(* A text that is not a JSON object. *)
Broken == <<<<"broken">>>>

(* The hook of an instance: its command names the managed helper. *)
ManagedGroup(p) == <<p>>
IsForeign(h) == h \notin Instances

(* Groups lose the hooks of any instance, and go when nothing is left. *)
RemoveManagedGroups(groups) ==
  SelectSeq([i \in DOMAIN groups |-> SelectSeq(groups[i], IsForeign)], LAMBDA g : g # <<>>)

(* Fault: only the hooks of this instance are replaced. *)
InstallOwn(p, groups) == Append(SelectSeq(groups, LAMBDA g : g # ManagedGroup(p)), ManagedGroup(p))

(* What installClaude() and installCodex() do of each event. *)
Install(p, groups) == Append(RemoveManagedGroups(groups), ManagedGroup(p))

(* Fault: the line is put at the end of the file. *)
AppendHooks(lines) == Append(SelectSeq(lines, LAMBDA l : l # "hooks = false"), "hooks = true")

(* hooks is true in [features]: the first line that says something of it is   *)
(* replaced, or one is added where the table ends, or the table is added.     *)
EnableCodexHooks(lines) ==
  LET header == SelectInSeq(lines, LAMBDA l : l = "[features]")
      Rest == {i \in DOMAIN lines : i > header /\ lines[i] \in {"[features]", "[other]"}}
      end == IF Rest = {} THEN Len(lines) + 1 ELSE CHOOSE i \in Rest : \A j \in Rest : i <= j
      Said == {i \in header + 1 .. end - 1 : lines[i] \in {"hooks = true", "hooks = false"}}
  IN IF header = 0 THEN lines \o <<"[features]", "hooks = true">>
     ELSE IF Said # {} THEN [lines EXCEPT ![CHOOSE i \in Said : \A j \in Said : i <= j] = "hooks = true"]
     ELSE InsertAt(lines, end, "hooks = true")

Goto(p, stage) == install' = [install EXCEPT ![p] = stage]
Keeps(p, text) == got' = [got EXCEPT ![p] = text]

------------------------------------------------------------------------------
(* ensureHooks(), at the start of the backend, or installHooks(): the helper  *)
(* is written, and the file is read.  Two of one process at a time, which     *)
(* would share a temporary file, are not considered.                          *)
Starts(p) ==
  /\ install[p] \in {"idle", "done", "failed"} /\ Goto(p, "reads")
  /\ UNCHANGED <<program, settings, config, got, edits, hookFaults>>

(* readJson(): a file that is not JSON is left alone. *)
Reads(p) ==
  /\ install[p] = "reads"
  /\ IF settings = Broken THEN Goto(p, "failed") /\ UNCHANGED got
     ELSE Goto(p, "writes") /\ Keeps(p, settings)
  /\ UNCHANGED <<program, settings, config, edits, hookFaults>>

(* A file that cannot be read counts as one that is not there. *)
ReadFails(p) ==
  /\ install[p] = "reads" /\ hookFaults < MaxHookFaults /\ hookFaults' = hookFaults + 1
  /\ Goto(p, "writes") /\ Keeps(p, <<>>)
  /\ UNCHANGED <<program, settings, config, edits>>

(* atomicWrite() renames a file that is whole. *)
Renames(p) ==
  /\ install[p] = "writes" /\ settings' = Install(p, got[p])
  /\ Goto(p, IF program = "codex" THEN "configures" ELSE "done")
  /\ UNCHANGED <<program, config, got, edits, hookFaults>>

(* enableCodexHooks() *)
ReadsConfig(p) ==
  /\ install[p] = "configures" /\ Goto(p, "enables") /\ Keeps(p, config)
  /\ UNCHANGED <<program, settings, config, edits, hookFaults>>

RenamesConfig(p) ==
  /\ install[p] = "enables" /\ Goto(p, "done") /\ config' = EnableCodexHooks(got[p])
  /\ UNCHANGED <<program, settings, got, edits, hookFaults>>

(* The process ends between two steps: its temporary file is left behind. *)
Dies(p) ==
  /\ install[p] \in {"reads", "writes", "configures", "enables"} /\ Goto(p, "idle")
  /\ hookFaults < MaxHookFaults /\ hookFaults' = hookFaults + 1
  /\ UNCHANGED <<program, settings, config, got, edits>>

(* A user, or the program, writes the files (external). *)
Edit ==
  /\ edits < MaxEdits /\ edits' = edits + 1
  /\ \/ settings' \in Edited \cup {Broken} /\ UNCHANGED config
     \/ \E g \in Foreign : settings # Broken /\ settings' = Append(settings, <<g>>) /\ UNCHANGED config
     \/ config' \in Tables /\ UNCHANGED settings
  /\ UNCHANGED <<program, install, got, hookFaults>>

Init ==
  /\ program \in {"claude", "codex"} /\ settings \in Edited \cup {Broken} /\ config \in Tables
  /\ install = [p \in Instances |-> "idle"] /\ got = [p \in Instances |-> <<>>]
  /\ edits = 0 /\ hookFaults = 0

Next ==
  \/ \E p \in Instances :
       \/ Starts(p) \/ Reads(p) \/ ReadFails(p) \/ Renames(p)
       \/ ReadsConfig(p) \/ RenamesConfig(p) \/ Dies(p)
  \/ Edit

Spec == Init /\ [][Next]_vars

TypeOK ==
  /\ \A p \in Instances :
       install[p] \in {"idle", "reads", "writes", "configures", "enables", "done", "failed"}
  /\ edits \in 0..MaxEdits /\ hookFaults \in 0..MaxHookFaults

(* The hooks of others in a file, in their order, and the groups with Fabi's. *)
Others(groups) == FlattenSeq([i \in DOMAIN groups |-> SelectSeq(groups[i], IsForeign)])
Managed(groups) == {i \in DOMAIN groups : \E j \in DOMAIN groups[i] : ~IsForeign(groups[i][j])}

(* Whether a line is of the table [features], which a TOML file has once. *)
Sections(lines) == {i \in DOMAIN lines : lines[i] = "[features]"}
InFeatures(lines, i) ==
  \E h \in Sections(lines) : h < i /\ \A j \in h + 1 .. i : lines[j] # "[other]"
IsOther(l) == l \notin {"hooks = true", "hooks = false", "[features]"}

(* Whoever installed before, and however often, an installation leaves one    *)
(* hook of Fabi, its own, and every hook of others that it has read, in order; *)
(* a text that it cannot parse is not touched.  What is written by others     *)
(* between its read and its rename is lost, and so is what it fails to read.  *)
MergesHooks ==
  \A p \in Instances :
    install[p] = "writes" /\ install'[p] \notin {"writes", "idle"} =>
      /\ Others(settings') = Others(got[p])
      /\ \E i \in DOMAIN settings' : Managed(settings') = {i} /\ settings'[i] = ManagedGroup(p)

(* And Codex is told to call them, the other lines of its configuration being *)
(* kept in their order.                                                       *)
EnablesHooks ==
  \A p \in Instances :
    install[p] = "enables" /\ install'[p] = "done" =>
      /\ \E i \in DOMAIN config' : config'[i] = "hooks = true" /\ InFeatures(config', i)
      /\ \A i \in DOMAIN config' : config'[i] = "hooks = false" => ~InFeatures(config', i)
      /\ SelectSeq(config', IsOther) = SelectSeq(got[p], IsOther)
      /\ \A i, j \in Sections(config') : i = j

HooksAreMerged == [][MergesHooks /\ EnablesHooks]_vars
==============================================================================
