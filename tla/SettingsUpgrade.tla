--------------------------- MODULE SettingsUpgrade ---------------------------
(***************************************************************************)
(* The start of the program on the database of an earlier release: the     *)
(* migrations (persistence/store.go), GetSettings, and the settings        *)
(* service, which normalizes and validates what it reads and saves         *)
(* (settings/service.go); the settings of a backup (backup/service.go,     *)
(* persistence/backup.go).  A setting is a class of values: "ok" is the    *)
(* default, "own" another value that is valid today, "old" was valid in    *)
(* earlier releases, "zero" is empty.                                      *)
(***************************************************************************)
EXTENDS Naturals

CONSTANT LegacyCompletion   \* some databases have the shortcut ctrl+space

Fields == {"hostKey", "history", "keepalive", "sort", "alerts", "shortcuts", "options"}
Classes == {"none", "zero", "old", "bad", "ok", "own"}
Valid == {"ok", "own"}
CurrentSettingsVersion == 15
LastMigration == 25

\* The migration that adds the column, and the class of its default.
AddedAt == [hostKey |-> 2, history |-> 12, keepalive |-> 15, sort |-> 16, alerts |-> 18,
            shortcuts |-> 22, options |-> 24]
ColumnDefault(f) == IF f \in {"alerts", "shortcuts"} THEN "zero" ELSE "ok"

\* The settings_version that the migrations up to m leave.
SettingsVersionAt(m) ==
  CASE m >= 24 -> 15 [] m \in 22..23 -> 13 [] m \in 19..21 -> 12 [] m = 18 -> 11 [] m \in 16..17 -> 10
    [] m = 15 -> 9 [] m \in 12..14 -> 8 [] m = 11 -> 7 [] m = 10 -> 6 [] m \in 8..9 -> 5
    [] m = 7 -> 4 [] m \in 4..6 -> 3 [] m = 3 -> 2 [] m = 2 -> 1 [] OTHER -> 0

VARIABLES
  schema,    \* the last migration that was applied
  version,   \* settings_version
  stored,    \* the classes of the stored settings
  app,       \* where the start of the program is
  kept,      \* the value of the settings service
  last       \* history: the settings that were written last

vars == <<schema, version, stored, app, kept, last>>

NoSettings == [f \in Fields |-> "none"]

TypeOK ==
  /\ schema \in 0..LastMigration /\ version \in 0..CurrentSettingsVersion
  /\ stored \in [Fields -> Classes]
  /\ app \in {"off", "migrate", "load", "up", "refused"}
  /\ kept \in [Fields -> {"none"} \cup Valid] /\ last \in [Fields -> Classes]

\* What a release at migration m may have stored: the defaults or values of the
\* user's own, and old values in some places.
WrittenAt(m, own, h, k) ==
  [f \in Fields |->
     CASE m < AddedAt[f] -> "none"
       [] f = "hostKey" /\ h -> "old"
       [] f = "shortcuts" /\ m \in 22..23 /\ k -> "old"
       [] OTHER -> IF own THEN "own" ELSE ColumnDefault(f)]

Init ==
  /\ schema \in 0..LastMigration
  /\ version = SettingsVersionAt(schema)
  /\ \E own \in BOOLEAN, h \in BOOLEAN, k \in {FALSE, LegacyCompletion} :
       stored = WrittenAt(schema, own, h, k)
  /\ app = "off" /\ kept = NoSettings /\ last = stored

-----------------------------------------------------------------------------
\* normalizeShortcutSettings of the store, with the version it is given.
normalizeShortcutSettings(c, v) ==
  IF c = "zero" \/ (c = "old" /\ v < 14) THEN "ok" ELSE c

\* normalize of the settings service.
normalize(s, v) ==
  [f \in Fields |->
     CASE f = "hostKey" -> IF s[f] \in {"old", "zero"} THEN "ok" ELSE s[f]
       [] f = "history" -> IF s[f] = "zero" \/ v < 8 THEN "ok" ELSE s[f]
       [] f = "keepalive" -> IF s[f] = "zero" \/ v < 9 THEN "ok" ELSE s[f]
       [] f = "shortcuts" -> IF v < 5 THEN "ok" ELSE normalizeShortcutSettings(s[f], v)
       [] f = "options" -> IF v < 15 THEN "ok" ELSE s[f]
       [] OTHER -> IF s[f] = "own" THEN "own" ELSE "ok"]

Validate(s) == \A f \in Fields : s[f] \in Valid

\* GetSettings: the shortcuts by the version that is stored; the result is current.
GetSettings ==
  [stored EXCEPT !["shortcuts"] = normalizeShortcutSettings(@, version),
                 !["options"] = IF version < 15 THEN "ok" ELSE @]

\* Faulty variant: the entry is committed first, the step may be cut off.
MigrateHalf ==
  /\ app = "migrate" /\ schema < LastMigration
  /\ schema' = schema + 1 /\ version' = SettingsVersionAt(schema + 1)
  /\ stored' \in {stored, [f \in Fields |-> IF AddedAt[f] = schema + 1 THEN ColumnDefault(f) ELSE stored[f]]}
  /\ UNCHANGED <<app, kept, last>>

\* One migration, with its entry in schema_migrations, is one transaction.
Migrate ==
  /\ app = "migrate" /\ schema < LastMigration
  /\ schema' = schema + 1
  /\ version' = IF SettingsVersionAt(schema + 1) # SettingsVersionAt(schema)
                  THEN SettingsVersionAt(schema + 1) ELSE version
  /\ stored' = [f \in Fields |-> IF AddedAt[f] = schema + 1 THEN ColumnDefault(f) ELSE stored[f]]
  /\ UNCHANGED <<app, kept, last>>

Start ==
  /\ app = "off"
  /\ app' = "migrate"
  /\ UNCHANGED <<schema, version, stored, kept, last>>

Migrated ==
  /\ app = "migrate" /\ schema = LastMigration
  /\ app' = "load"
  /\ UNCHANGED <<schema, version, stored, kept, last>>

\* The program ends, or a migration fails.
Stop ==
  /\ app # "off"
  /\ app' = "off" /\ kept' = NoSettings
  /\ UNCHANGED <<schema, version, stored, last>>

\* settings.New: what does not validate stops the start of the program.
Load ==
  LET s == normalize(GetSettings, CurrentSettingsVersion) IN
  /\ app = "load"
  /\ IF Validate(s) THEN app' = "up" /\ kept' = s ELSE app' = "refused" /\ UNCHANGED kept
  /\ UNCHANGED <<schema, version, stored, last>>

\* Save: a client changes one setting of what it has read.
Save(f, c) ==
  LET s == normalize([kept EXCEPT ![f] = c], CurrentSettingsVersion) IN
  /\ app = "up" /\ Validate(s)
  /\ stored' = s /\ version' = CurrentSettingsVersion
  /\ kept' = s /\ last' = s
  /\ UNCHANGED <<schema, app>>

\* The settings of a backup that a release with settings version v has written.
BackupOf(v, f) ==
  CASE f = "history" /\ v < 8 -> {"zero"}
    [] f = "keepalive" /\ v < 9 -> {"zero"}
    [] f = "sort" /\ v < 10 -> {"zero"}
    [] f = "alerts" /\ v < 11 -> {"zero"}
    [] f = "shortcuts" -> IF v < 13 THEN {"zero"} ELSE IF v = 13 THEN {"own", "old"} ELSE {"own"}
    [] f = "options" /\ v < 15 -> {"zero"}
    [] f = "hostKey" -> {"own", "old"}
    [] OTHER -> {"own"}

\* validateSettings of the backup service.
validateSettings(s, v) ==
  /\ v >= 13 => s["shortcuts"] \in Valid \cup {"old"}
  /\ v >= 9 => s["keepalive"] \in Valid
  /\ v >= 11 => s["alerts"] \in Valid
  /\ s["hostKey"] \in Valid \cup {"old"}

\* ImportBackup writes them so.
Imported(s, v) ==
  [f \in Fields |->
     CASE f \in {"history", "keepalive"} -> IF s[f] \in {"zero", "bad"} THEN "ok" ELSE s[f]
       [] f \in {"sort", "alerts"} -> IF s[f] = "own" THEN "own" ELSE "ok"
       [] f = "shortcuts" -> normalizeShortcutSettings(s[f], v)
       [] f = "options" -> IF v < 15 THEN "ok" ELSE s[f]
       [] OTHER -> s[f]]

\* The import, and Reload; a reload that fails leaves the value of the service.
ImportSettings(s, v) ==
  LET stored1 == Imported(s, v)
      read == normalize(stored1, CurrentSettingsVersion)
  IN
  /\ app = "up" /\ validateSettings(s, v)
  /\ stored' = stored1 /\ version' = CurrentSettingsVersion
  /\ kept' = IF Validate(read) THEN read ELSE kept
  /\ last' = s
  /\ UNCHANGED <<schema, app>>

Next ==
  \/ Start \/ Migrate \/ Migrated \/ Stop \/ Load
  \/ \E f \in Fields, c \in Classes \ {"none"} : Save(f, c)
  \/ \E v \in {4, 7, 8, 9, 10, 11, 13, 14, 15} :
       \E h \in BackupOf(v, "hostKey"), k \in BackupOf(v, "shortcuts") :
         ImportSettings([f \in Fields |-> CASE f = "hostKey" -> h [] f = "shortcuts" -> k
                                            [] OTHER -> CHOOSE c \in BackupOf(v, f) : TRUE], v)

Spec == Init /\ [][Next]_vars

-----------------------------------------------------------------------------
\* The program starts on every database that an earlier release, a save or an import
\* has left, wherever a migration was interrupted: "legacy default completion
\* shortcut was not migrated" is an error of the tests of the settings service.
SettingsLoad == app # "refused"

\* A start of the program resets no setting that the user had chosen, in this
\* release or in the one that wrote the database or the backup.
KeepsOwn == app = "load" /\ app' = "up" => \A f \in Fields : last[f] = "own" => kept'[f] = "own"

\* Once the settings are loaded, every column of them is there.
MigratedIsComplete == app \in {"load", "up"} => \A f \in Fields : stored[f] # "none"

\* An upgrade, a restart in the middle of it or an import leaves settings that are complete,
\* valid and the user's own (migrate, GetSettings, normalize, ImportBackup).
Upgrades == TypeOK' /\ SettingsLoad' /\ MigratedIsComplete' /\ KeepsOwn
SettingsAreKept == [][Upgrades]_vars

=============================================================================
