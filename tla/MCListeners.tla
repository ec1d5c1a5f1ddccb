---------------------------- MODULE MCListeners ----------------------------
(***************************************************************************)
(* Listeners for TLC: in every behavior one of the parts runs and the      *)
(* others rest.                                                            *)
(***************************************************************************)
EXTENDS Listeners, TLC

CONSTANTS w1, w2, s1, s2, a1, a2

VARIABLE which

Par == INSTANCE SourceParsing

Two == {w1, w2}
MCKeys == {"generic.digest_blocks", "source.own"}
MCConfigs == {Par!NoConfig, [minimum |-> 40], [family |-> "custom"]}
MCSources == {s1, s2}
MCAccounts == {a1, a2}
MCBindings == {<<"telegram", a1>>, <<"telegram", a2>>, <<"other", a1>>}
MCInitialSources == {(s1 :> <<"telegram", a1>> @@ s2 :> <<>>)}

ASSUME Lis!Constants

authVars == <<store, file, twoFactor, locked, codes, used, req, announced, requests, authFaults,
              authOverlap>>
bindVars == <<row, job, givenFor, writes, rowOverlap>>
regVars == <<disk, sound, plugins, failures, modules, edits>>
lisVars == <<config, flag, version, channel, admin, up, task, lastVersion, applied, current, sup,
             health, assigned, snapshot, changes, starts, faults, overlapped, stranded, missed,
             unsignalled>>

vars == <<which, authVars, bindVars, regVars, lisVars>>

Init ==
  /\ which \in {"auth", "binding", "registry", "listener"}
  /\ Auth!Init /\ (which # "auth" => file = "missing" /\ ~twoFactor /\ ~locked)
  /\ Bind!Init
  /\ Reg!Init /\ (which # "registry" => sound = {})
  /\ Lis!Init

Next ==
  \/ which = "auth" /\ Auth!Next /\ UNCHANGED <<which, bindVars, regVars, lisVars>>
  \/ which = "binding" /\ Bind!Next /\ UNCHANGED <<which, authVars, regVars, lisVars>>
  \/ which = "registry" /\ Reg!Next /\ UNCHANGED <<which, authVars, bindVars, lisVars>>
  \/ which = "listener" /\ Lis!Next /\ UNCHANGED <<which, authVars, bindVars, regVars>>

Spec == Init /\ [][Next]_vars

\* Two requests, and two plugins, are alike; w1 and w2 stand for both.
Symmetry == Permutations({w1, w2})
=============================================================================
