---------------------------- MODULE Installation ----------------------------
(***************************************************************************)
(* What the commands that change an installation promise together: each    *)
(* replaces the installation as a whole or leaves it as it was.  `inst` is *)
(* everything a command has to keep together: the managed executable,      *)
(* configuration and launchd manifest, the worker's account and the owner  *)
(* of its data.  A command that was killed, or whose roll-back failed      *)
(* too, may leave anything, which `torn` records.  `said` is what the last  *)
(* command reported: "ok", "failed", or "untidy", which is an error that   *)
(* says the change was made but not tidied up.  `left` says that the last  *)
(* command could not remove the data directory, as there are files in it   *)
(* that no command removes.                                                *)
(***************************************************************************)
EXTENDS Naturals

CONSTANTS Version, Manifest, Account, Owner

VARIABLES inst, left, said, torn

Absent == 0
Whole == [binary : Version, config : Version, plist : Manifest, account : Account, data : Owner]

Usable(i) == i.account = [user |-> TRUE, group |-> TRUE] /\ i.data = "worker"

\* A fresh installation, or one over the configuration an uninstallation kept.
Install ==
    /\ inst.binary = Absent /\ inst.plist = Absent
    /\ inst'.binary # Absent /\ inst'.config # Absent /\ inst'.plist # Absent
    /\ Usable(inst')

\* A new executable and manifest, with or without a new configuration.
Upgrade ==
    /\ Absent \notin {inst.binary, inst.config, inst.plist}
    /\ Absent \notin {inst'.binary, inst'.config, inst'.plist}
    /\ inst'.binary # inst.binary
    /\ Usable(inst')

Configure ==
    /\ inst.config # Absent
    /\ inst' = [inst EXCEPT !.config = inst'.config]
    /\ inst'.config # Absent

Uninstall ==
    /\ inst' = [inst EXCEPT !.binary = Absent, !.plist = Absent]

\* Nothing stays but a data directory that is not empty, which belongs to nobody now.
Purge ==
    /\ inst' = [binary |-> Absent, config |-> Absent, plist |-> Absent,
                account |-> [user |-> FALSE, group |-> FALSE], data |-> inst'.data]
    /\ inst'.data # "worker"
    /\ inst'.data # "absent" => left'

\* Nothing was changed, except that a data directory the command created stays behind
\* when the service it started has left files there.
Undone ==
    \/ inst' = inst
    \/ /\ inst.data = "absent" /\ left'
       /\ inst' = [inst EXCEPT !.data = inst'.data]

\* A command that reports a failure undid what it had done; one that reports success did
\* what it is for.
Finish ==
    /\ inst' \in Whole
    /\ IF said'.res = "failed" THEN Undone
       ELSE \/ said'.op = "install" /\ Install
            \/ said'.op = "upgrade" /\ Upgrade
            \/ said'.op = "start" /\ Configure
            \/ said'.op = "uninstall" /\ Uninstall
            \/ said'.op = "purge" /\ Purge
            \/ said'.op \in {"stop", "restart"} /\ inst' = inst
    /\ UNCHANGED torn

Tear == torn' = TRUE /\ inst' \in Whole

InstInit == inst \in Whole /\ torn = FALSE

InstNext == (~torn /\ Finish) \/ Tear

InstSpec == InstInit /\ [][InstNext]_<<inst, said, torn>>
=============================================================================
