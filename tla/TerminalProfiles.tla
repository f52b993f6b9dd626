--------------------------- MODULE TerminalProfiles ---------------------------
(***************************************************************************)
(* Terminal profiles (persistence/terminal_profiles.go), the one that is   *)
(* the default, and the copy of the settings that the settings service     *)
(* keeps (settings/service.go, app_settings.go).  The database does not    *)
(* tie the default to the table of profiles.                               *)
(***************************************************************************)
EXTENDS Naturals

CONSTANTS Profiles,   \* ids of profiles besides "default"
          Machines,   \* servers
          Requests,   \* calls that may be in progress
          None

VARIABLES
  profiles,   \* the rows of terminal_profiles
  default,    \* default_terminal_profile_id of the stored settings
  cache,      \* the same of the settings service
  form,       \* the same of the settings a client has read and may save
  assigned,   \* terminal_profile_id of the servers
  request,    \* the calls: what is to be done next and with which profile
  stale,      \* history: the default was set to a profile that had gone
  overlap     \* history: two calls that change the settings overlapped

vars == <<profiles, default, cache, form, assigned, request, stale, overlap>>

All == Profiles \cup {"default"}
Idle == [step |-> "idle", profile |-> None, server |-> None]

TypeOK ==
  /\ profiles \subseteq All /\ "default" \in profiles
  /\ {default, cache, form} \subseteq All
  /\ assigned \in [Machines -> profiles \cup {None}]
  /\ request \in [Requests -> [step : {"idle", "default", "reload", "cache", "assign"},
                               profile : All \cup {None}, server : Machines \cup {None}]]
  /\ stale \in BOOLEAN /\ overlap \in BOOLEAN

Init ==
  /\ profiles = {"default"} /\ default = "default" /\ cache = "default" /\ form = "default"
  /\ assigned = [s \in Machines |-> None]
  /\ request = [r \in Requests |-> Idle]
  /\ stale = FALSE /\ overlap = FALSE

settings == <<default, cache, form, stale, overlap>>

\* CreateTerminalProfile and DuplicateTerminalProfile, under a name that is free.
CreateTerminalProfile(p) ==
  /\ p \notin profiles
  /\ profiles' = profiles \cup {p}
  /\ UNCHANGED <<settings, assigned, request>>

\* DeleteTerminalProfile: one transaction.
DeleteTerminalProfile(p, force) ==
  /\ p \in profiles \ {"default", default}
  /\ force \/ \A s \in Machines : assigned[s] # p
  /\ profiles' = profiles \ {p}
  /\ assigned' = [s \in Machines |-> IF assigned[s] = p THEN None ELSE assigned[s]]
  /\ UNCHANGED <<settings, request>>

\* A call that changes the settings begins beside another one.
Overlaps == \E r \in Requests : request[r].step \in {"default", "reload", "cache"}

\* SetDefaultTerminalProfile looks the profile up ...
SetDefaultTerminalProfile(r, p) ==
  /\ request[r] = Idle /\ p \in profiles
  /\ request' = [request EXCEPT ![r] = [Idle EXCEPT !.step = "default", !.profile = p]]
  /\ overlap' = (overlap \/ Overlaps)
  /\ UNCHANGED <<profiles, default, cache, form, assigned, stale>>

\* ... and writes it; then the service reloads the settings.
SetDefaultWrites(r) ==
  /\ request[r].step = "default"
  /\ default' = request[r].profile
  /\ stale' = (stale \/ request[r].profile \notin profiles)
  /\ request' = [request EXCEPT ![r] = [Idle EXCEPT !.step = "reload"]]
  /\ UNCHANGED <<profiles, cache, form, assigned, overlap>>

\* Reload: read the settings ...
Reload(r) ==
  /\ request[r].step = "reload"
  /\ request' = [request EXCEPT ![r] = [Idle EXCEPT !.step = "cache", !.profile = default]]
  /\ UNCHANGED <<profiles, settings, assigned>>

\* ... and keep them; the last step of Save too.
KeepValue(r) ==
  /\ request[r].step = "cache"
  /\ cache' = request[r].profile
  /\ request' = [request EXCEPT ![r] = Idle]
  /\ UNCHANGED <<profiles, default, form, assigned, stale, overlap>>

\* The settings view reads the settings.
GetSettings ==
  /\ form' = cache
  /\ UNCHANGED <<profiles, default, cache, assigned, request, stale, overlap>>

\* Faulty variant: the service trusts what it has.
SaveStoredOnly(r) ==
  /\ request[r] = Idle
  /\ default' = form
  /\ stale' = (stale \/ form \notin profiles)
  /\ overlap' = (overlap \/ Overlaps)
  /\ UNCHANGED <<profiles, cache, form, assigned, request>>

\* SaveSettings with Save: all the settings of the form are stored, and not compared
\* with the table of profiles.
SaveSettings(r) ==
  /\ request[r] = Idle
  /\ default' = form
  /\ stale' = (stale \/ form \notin profiles)
  /\ request' = [request EXCEPT ![r] = [Idle EXCEPT !.step = "cache", !.profile = form]]
  /\ overlap' = (overlap \/ Overlaps)
  /\ UNCHANGED <<profiles, cache, form, assigned>>

\* AssignServerTerminalProfile looks the profile up ...
AssignServerTerminalProfile(r, s, p) ==
  /\ request[r] = Idle /\ p \in profiles
  /\ request' = [request EXCEPT ![r] = [step |-> "assign", profile |-> p, server |-> s]]
  /\ UNCHANGED <<profiles, settings, assigned>>

\* ... and writes it, which the foreign key refuses if the profile has gone.
AssignWrites(r) ==
  /\ request[r].step = "assign"
  /\ assigned' = IF request[r].profile \in profiles
                   THEN [assigned EXCEPT ![request[r].server] = request[r].profile] ELSE assigned
  /\ request' = [request EXCEPT ![r] = Idle]
  /\ UNCHANGED <<profiles, settings>>

Next ==
  \/ \E p \in Profiles : CreateTerminalProfile(p) \/ \E force \in BOOLEAN : DeleteTerminalProfile(p, force)
  \/ GetSettings
  \/ \E r \in Requests :
       \/ \E p \in All : SetDefaultTerminalProfile(r, p) \/ \E s \in Machines : AssignServerTerminalProfile(r, s, p)
       \/ SetDefaultWrites(r) \/ Reload(r) \/ KeepValue(r) \/ SaveSettings(r) \/ AssignWrites(r)

Spec == Init /\ [][Next]_vars

\* GetResolvedTerminalProfile.
GetResolvedTerminalProfile(s) == IF assigned[s] # None THEN assigned[s] ELSE default

-----------------------------------------------------------------------------
\* Every server resolves to a profile that exists: deleting one never takes the
\* default or an assigned one away.  The exception is a default that had gone when
\* it was written, by a call that looked it up earlier or from an old form.
ResolvedExists == \A s \in Machines : GetResolvedTerminalProfile(s) \in profiles \/ stale

\* The service has the settings that are stored when no call is in progress, unless
\* two calls overlapped, whose last steps may come in the other order.
CacheIsStored == (~Overlaps /\ ~overlap) => cache = default

\* Profiles, the default among them, and the settings that name it stay consistent
\* (DeleteTerminalProfile, SetDefaultTerminalProfile, SaveSettings).
ProfilesAreSound == TypeOK /\ ResolvedExists /\ CacheIsStored

=============================================================================
