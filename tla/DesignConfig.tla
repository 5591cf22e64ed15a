---------------------------- MODULE DesignConfig ----------------------------
(***************************************************************************)
(* The configuration of the impeccable design hook: the two config files   *)
(* (.impeccable/config.json and config.local.json), the ignores they hold, *)
(* the hook manifests of the harnesses, and what the commands of           *)
(* hook-admin.mjs make of them.  hook-lib.mjs reads the same files on      *)
(* every run of the hook.                                                  *)
(*                                                                         *)
(* A config file is a record: ok, whether it is there and parses; hook,    *)
(* the settings under its hook key (enabled is "unset", TRUE or FALSE)     *)
(* with legacy, the detector ignores that old versions kept there;         *)
(* detector, the ignores under its detector key; other, whether it holds   *)
(* keys of other tools.  Globs are the sets of files they match.           *)
(***************************************************************************)
EXTENDS Naturals, FiniteSets

CONSTANTS
  Files,      \* design-relevant files of the project
  Findings    \* records [rule, value]; value is "" for a rule without one

Ignores ==
  [kind : {"rule"}, rule : {f.rule : f \in Findings}, value : {""}, files : {{}}]
  \cup [kind : {"file"}, rule : {""}, value : {""}, files : SUBSET Files]
  \cup [kind : {"value"}, rule : {f.rule : f \in Findings},
        value : {f.value : f \in Findings} \cup {"*"}, files : SUBSET Files]

NoHook == [enabled |-> "unset", consent |-> FALSE, legacy |-> {}]
NoFile == [ok |-> FALSE, hook |-> NoHook, detector |-> {}, other |-> FALSE]

(***************************************************************************)
(* Reading.                                                                *)
(***************************************************************************)

\* applyConfigSource and applyDetectorConfigSource: the later file overrides
\* enabled; ignores accumulate, those of old versions too.
ApplyConfigSource(cfg, file) ==
  IF ~file.ok THEN cfg
  ELSE [enabled |-> IF file.hook.enabled = "unset" THEN cfg.enabled
                    ELSE file.hook.enabled = "on",
        ignores |-> cfg.ignores \cup file.hook.legacy \cup file.detector]

\* readConfig.
ReadConfig(shared, local) ==
  ApplyConfigSource(ApplyConfigSource([enabled |-> TRUE, ignores |-> {}], shared), local)

\* matchesAnyGlob over ignoreFiles.
FileIgnored(cfg, file) == \E i \in cfg.ignores : i.kind = "file" /\ file \in i.files

\* isIgnoredFindingValue: a wildcard value counts only with a file scope.
ValueIgnored(i, f, file) ==
  /\ i.kind = "value" /\ i.rule = f.rule /\ f.value # ""
  /\ i.value \in {f.value, "*"}
  /\ IF i.files = {} THEN i.value # "*" ELSE file \in i.files

\* filterFindings.
FilterFindings(cfg, file, found) ==
  {f \in found : \A i \in cfg.ignores :
                   ~(i.kind = "rule" /\ i.rule = f.rule) /\ ~ValueIgnored(i, f, file)}

(***************************************************************************)
(* Writing: hook-admin.mjs.  A file that does not parse is replaced.       *)
(***************************************************************************)

Existing(file) == IF file.ok THEN file ELSE [NoFile EXCEPT !.ok = TRUE]

\* writeHookConfig as it would be without the keys next to hook.
WriteHookConfig_Replaces(file, hook) ==
  [NoFile EXCEPT !.ok = TRUE,
                 !.hook = [enabled |-> IF hook.enabled = "unset" THEN file.hook.enabled ELSE hook.enabled,
                           consent |-> Existing(file).hook.consent \/ hook.consent, legacy |-> {}]]

\* writeHookConfig: what old versions kept under hook is stripped, and not
\* moved to detector.
WriteHookConfig(file, hook) ==
  LET e == Existing(file)
  IN [e EXCEPT !.hook = [enabled |-> IF hook.enabled = "unset" THEN @.enabled ELSE hook.enabled,
                         consent |-> @.consent \/ hook.consent, legacy |-> {}]]

\* writeDetectorConfig, given the ignores the command computed.
WriteDetectorConfig(file, ignores) ==
  LET e == Existing(file)
  IN [e EXCEPT !.hook.legacy = {}, !.detector = @ \cup ignores]

\* readRawDetectorConfig: the ignores of one file, under either key.
RawIgnores(file) == IF file.ok THEN file.hook.legacy \cup file.detector ELSE {}

\* addIgnoreRule and addIgnoreFile write the shared file, addIgnoreValue the
\* file its scope names; an entry that is there is not added twice.
AddIgnore(file, i) == WriteDetectorConfig(file, RawIgnores(file) \cup {i})

\* reset strips both keys and deletes a file in which nothing else is left.
ResetFile(file) ==
  IF ~file.ok THEN file
  ELSE IF file.other THEN [file EXCEPT !.hook = NoHook, !.detector = {}] ELSE NoFile

(***************************************************************************)
(* Manifests: the file in which a harness looks for hooks, and for one     *)
(* harness also a shared one.  ours and others count hook entries.         *)
(***************************************************************************)

Manifest == [ok : BOOLEAN, ours : 0..2, others : BOOLEAN]
Installed == [ok |-> TRUE, ours |-> 1, others |-> FALSE]
NoManifest == [ok |-> FALSE, ours |-> 0, others |-> FALSE]

HasMarker(man) == man.ok /\ man.ours > 0

\* mergeHookManifests: entries of ours are stripped, the fresh one is added.
MergeHookManifests(man) == [man EXCEPT !.ours = 1]

\* pruneImpeccableHookFromManifest; an empty manifest is deleted.
Prune(man) ==
  IF ~HasMarker(man) THEN man
  ELSE IF man.others THEN [man EXCEPT !.ours = 0] ELSE NoManifest

\* repairHookManifests, for a harness whose skill folder is there.
RepairManifests(m) ==
  IF HasMarker(m.shared) THEN [m EXCEPT !.dest = Prune(@)]
  ELSE [m EXCEPT !.dest = IF @.ok THEN MergeHookManifests(@) ELSE Installed]

\* setEnabled: on also records consent in the local file and repairs.
SetEnabled(c, on) ==
  LET s == WriteHookConfig(c.shared, [NoHook EXCEPT !.enabled = IF on THEN "on" ELSE "off"])
  IN IF ~on THEN [c EXCEPT !.shared = s]
     ELSE [c EXCEPT !.shared = s,
                    !.local = WriteHookConfig(@, [NoHook EXCEPT !.consent = TRUE]),
                    !.man = RepairManifests(@)]

=============================================================================
