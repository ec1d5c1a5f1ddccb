------------------------------ MODULE Listeners ------------------------------
(***************************************************************************)
(* What decides which Telegram messages are read, side by side: the login  *)
(* of a session, the parser binding of a source, the adapter plugins and   *)
(* the listener process, and what is claimed of each.                      *)
(***************************************************************************)
EXTENDS Naturals, Sequences

CONSTANTS
  Plugins, MaxEdits,
  Admins, MaxCodes, MaxRequests, MaxAuthFaults,
  Writers, Keys, Configs, PatchVersions, PatchModes, MaxWrites,
  Sources, Accounts, Bindings, InitialSources, MaxChanges, MaxStarts, MaxFaults

VARIABLES
  store, file, twoFactor, locked, codes, used, req, announced, requests, authFaults, authOverlap,
  row, job, givenFor, writes, rowOverlap,
  disk, sound, plugins, failures, modules, edits,
  config, flag, version, channel, admin, up, task, lastVersion, applied, current, sup, health,
  assigned, snapshot, changes, starts, faults, overlapped, stranded, missed,
  unsignalled

Reg == INSTANCE AdapterRegistry
Auth == INSTANCE TelegramAuth WITH MaxFaults <- MaxAuthFaults, faults <- authFaults,
                                   overlapped <- authOverlap
Bind == INSTANCE SourceBinding WITH Versions <- PatchVersions, Modes <- PatchModes,
                                    overlapped <- rowOverlap
Lis == INSTANCE ListenerRefresh

-----------------------------------------------------------------------------
(* Properties. *)

\* Telegram login: an authorised session is announced and ready.
LoginIsUsable == Auth!LoginIsUsable

\* Source bindings: a parser's config is validated and stays with its parser.
PolicyStaysWithParser == Bind!PolicyStaysWithParser

\* Adapter plugins: what is registered is what is instantiated.
RegisteredIsImported == Reg!RegisteredIsImported

\* Listener process: a signalled change is applied.
QuietIsApplied == Lis!QuietIsApplied

\* Listener process: one supervisor a session unless refreshes overlap or a stop raises.
OneClientWithoutOverlap == Lis!OneClientWithoutOverlap
==============================================================================
