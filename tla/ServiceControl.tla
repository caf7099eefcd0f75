--------------------------- MODULE ServiceControl ---------------------------
(***************************************************************************)
(* `lytecache service` (cmd_service.go, service/): the registration of     *)
(* `lytecache ui` with the service manager of the system or, on Windows    *)
(* without administrator rights, as a scheduled task; the record of which  *)
(* of the two was used, from which every later command decides what to     *)
(* act on; the processes that the managers run; and the state file from    *)
(* which `service status` tells the process id and the bound address.      *)
(*                                                                         *)
(* The service managers are external: they run one process for each        *)
(* registration that is wanted, start it again after a failure if asked    *)
(* to, and wait for it to end before they start it again. All processes    *)
(* were given the same port, and so was `lytecache ui` in the foreground.  *)
(* One operator runs the commands, one after the other.                    *)
(***************************************************************************)
EXTENDS Integers, FiniteSets

CONSTANTS
    MaxServiceCommands,     \* bound: commands the operator runs
    MaxFails,               \* bound: calls of the system that fail
    MaxCrashes,             \* bound: processes that die
    MaxForeground,          \* bound: runs of `lytecache ui` in the foreground
    MaxReboots              \* bound: restarts of the machine

ASSUME ServiceAssumption ==
    /\ MaxServiceCommands \in Nat /\ MaxFails \in Nat /\ MaxCrashes \in Nat
    /\ MaxForeground \in Nat /\ MaxReboots \in Nat

VARIABLES
    platform,       \* "windows", or "unix" for launchd and systemd
    registered,     \* the registrations that exist
    record,         \* the install record, or None
    cmd,            \* the command under way: its operation and its registration
    wanted,         \* what the managers are to keep running
    proc,           \* registration |-> where its process is
    file,           \* the state file: whose process it names, None, or Dead
    foreground,     \* `lytecache ui` runs in the foreground
    issued,         \* commands the operator has run
    fails, crashes, runs, reboots,
    last,           \* history: what the last completed install registered
    partial,        \* history: a later install ended before it wrote its record
    hidden          \* history: processes whose state file was not written, or
                    \* was removed by a process that ended later

installation == <<registered, record, cmd, issued, last, partial>>
counters == <<fails, crashes, runs, reboots>>
serviceVars == <<platform, installation, wanted, proc, file, foreground, counters, hidden>>

None == "none"
Dead == "dead"
NoCommand == [op |-> "idle", on |-> None]
Methods == {"os", "task"}
Regs == IF platform = "windows" THEN Methods ELSE {"os"}

ServiceInit ==
    /\ platform \in {"unix", "windows"}
    /\ registered = {} /\ record = None /\ cmd = NoCommand /\ wanted = {}
    /\ proc = [r \in Methods |-> None]
    /\ file = None /\ foreground = FALSE
    /\ issued = 0 /\ fails = 0 /\ crashes = 0 /\ runs = 0 /\ reboots = 0
    /\ last = None /\ partial = FALSE /\ hidden = {}

Fail == fails < MaxFails /\ fails' = fails + 1 /\ UNCHANGED <<crashes, runs, reboots>>

\* Who is bound to the port. A server closes its listener when it shuts down,
\* and when serving fails.
Bound == {r \in Methods : proc[r] \in {"listening", "serving", "stopping"}}
PortIsFree == Bound = {} /\ ~foreground

-----------------------------------------------------------------------------
(* Installing and uninstalling.                                            *)

\* A command begins; the ones after it wait for it to end.
BeginsCommand == cmd = NoCommand /\ issued < MaxServiceCommands /\ issued' = issued + 1
Processes == UNCHANGED <<proc, file, foreground, hidden>>

\* A task of the same name is overwritten; a service of the same name is an error.
Install ==
    \E r \in Regs :
        /\ BeginsCommand
        /\ r = "os" => r \notin registered
        /\ registered' = registered \cup {r}
        /\ cmd' = [op |-> "install", on |-> r]
        /\ UNCHANGED <<platform, record, wanted, counters, last, partial>> /\ Processes

\* WriteInstallRecord, which may fail: the registration stays, and the record is
\* the old one or, once it was opened, an empty one, which is read like a missing one.
InstallRecord ==
    /\ cmd.op = "install"
    /\ cmd' = NoCommand
    /\ \/ /\ record' = cmd.on
          /\ last' = cmd.on /\ partial' = FALSE
          /\ UNCHANGED counters
       \/ record' \in {record, None} /\ partial' = TRUE /\ Fail /\ UNCHANGED last
    /\ UNCHANGED <<platform, registered, issued, wanted>> /\ Processes

\* ReadInstallRecord: without a record, the service of the system.
Target == IF record = None THEN "os" ELSE record

\* What is not registered cannot be removed. A process that runs goes on.
UninstallForgetting ==
    /\ BeginsCommand
    /\ cmd' = [op |-> "uninstall", on |-> Target]
    /\ \/ /\ Target \in registered
          /\ registered' = registered \ {Target} /\ wanted' = wanted \ {Target}
          /\ UNCHANGED counters
       \/ Fail /\ UNCHANGED <<registered, wanted>>
    /\ UNCHANGED <<platform, record, last, partial>> /\ Processes
Uninstall ==
    /\ BeginsCommand
    /\ \/ /\ Target \in registered
          /\ registered' = registered \ {Target} /\ wanted' = wanted \ {Target}
          /\ cmd' = [op |-> "uninstall", on |-> Target]
          /\ UNCHANGED counters
       \/ Fail /\ UNCHANGED <<registered, wanted, cmd>>
    /\ UNCHANGED <<platform, record, last, partial>> /\ Processes

\* RemoveInstallRecord.
UninstallRecord ==
    /\ cmd.op = "uninstall"
    /\ cmd' = NoCommand
    /\ \/ record' = None /\ UNCHANGED counters
       \/ Fail /\ UNCHANGED record
    /\ UNCHANGED <<platform, registered, issued, wanted, last, partial>> /\ Processes

-----------------------------------------------------------------------------
(* Starting and stopping (withInstalledService).                           *)

\* The process of r is gone without having removed its state file.
Killed(r) ==
    /\ proc' = [proc EXCEPT ![r] = None]
    /\ file' = IF file = r THEN Dead ELSE file
    /\ hidden' = hidden \ {r}

\* The manager asks the process of t to end. A task is ended at once; so is a
\* process of launchd or systemd that does not handle signals yet; a Windows
\* service that still starts refuses.
Starting(t) == proc[t] \in {"launched", "listening"}
Ended(t) ==
    \/ /\ t = "os" /\ proc[t] \in {"serving", "deaf"}
       /\ proc' = [proc EXCEPT ![t] = IF proc[t] = "serving" THEN "stopping" ELSE "closed"]
       /\ UNCHANGED <<file, hidden>>
    \/ t = "os" /\ proc[t] \in {None, "stopping", "closed"} /\ UNCHANGED <<proc, file, hidden>>
    \/ (t = "task" \/ (Starting(t) /\ platform = "unix")) /\ Killed(t)

\* A command on what is not registered fails.
Control == BeginsCommand /\ Target \in registered /\ UNCHANGED <<registered, record, cmd, last, partial>>

ServiceStart ==
    /\ Control
    /\ wanted' = wanted \cup {Target}
    /\ UNCHANGED <<platform, counters>> /\ Processes

ServiceStop ==
    /\ Control
    /\ wanted' = wanted \ {Target}
    /\ Ended(Target)
    /\ UNCHANGED <<platform, foreground, counters>>

\* Restarting a task is to end it and to run it again, which may fail.
ServiceRestart ==
    /\ Control
    /\ Ended(Target)
    /\ \/ wanted' = wanted \cup {Target} /\ UNCHANGED counters
       \/ Target = "task" /\ Fail /\ wanted' = wanted \ {Target}
    /\ UNCHANGED <<platform, foreground>>

-----------------------------------------------------------------------------
(* A process of the service (runUIUnderServiceManager).                    *)

Process == UNCHANGED <<platform, installation, foreground>>

\* BuildConfig asks launchd and systemd to start it again after a failure.
RestartPolicy(r) == wanted' = IF platform = "unix" THEN wanted ELSE wanted \ {r}

Launch(r) ==
    /\ r \in wanted \cap registered /\ proc[r] = None
    /\ proc' = [proc EXCEPT ![r] = "launched"]
    /\ UNCHANGED <<wanted, file, hidden, counters>> /\ Process

\* buildUIServer. If it fails, for the port or for another reason, then so do
\* Program.Start and the process.
ListenSwallowing(r) ==
    /\ proc[r] = "launched"
    /\ proc' = [proc EXCEPT ![r] = IF PortIsFree THEN "listening" ELSE "idle"]
    /\ UNCHANGED <<wanted, file, hidden, counters>> /\ Process
ListenStateFirst(r) ==
    /\ proc[r] = "launched"
    /\ \/ /\ PortIsFree
          /\ proc' = [proc EXCEPT ![r] = "listening"]
          /\ file' = r
          /\ UNCHANGED wanted
       \/ /\ ~PortIsFree
          /\ proc' = [proc EXCEPT ![r] = None]
          /\ file' = Dead
          /\ RestartPolicy(r)
    /\ UNCHANGED <<hidden, counters>> /\ Process
Listen(r) ==
    /\ proc[r] = "launched"
    /\ \/ /\ PortIsFree
          /\ proc' = [proc EXCEPT ![r] = "listening"]
          /\ UNCHANGED <<wanted, counters>>
       \/ /\ proc' = [proc EXCEPT ![r] = None]
          /\ RestartPolicy(r)
          /\ \/ ~PortIsFree /\ UNCHANGED counters
             \/ PortIsFree /\ Fail
    /\ UNCHANGED <<file, hidden>> /\ Process

\* The rest of StartFunc: WriteState, of which a failure is only logged, and the
\* goroutine that serves.
Write(r) ==
    /\ proc[r] = "listening"
    /\ proc' = [proc EXCEPT ![r] = "serving"]
    /\ \/ file' = r /\ UNCHANGED <<hidden, counters>>
       \/ hidden' = hidden \cup {r} /\ Fail /\ UNCHANGED file
    /\ UNCHANGED wanted /\ Process

\* Serve returns an error, which is only logged: the process goes on.
ServeFails(r) ==
    /\ proc[r] = "serving" /\ Fail
    /\ proc' = [proc EXCEPT ![r] = "deaf"]
    /\ UNCHANGED <<wanted, file, hidden>> /\ Process

\* StopFunc: the server is shut down first, and then the state file removed,
\* whichever process wrote it.
Shutdown(r) ==
    /\ proc[r] = "stopping"
    /\ proc' = [proc EXCEPT ![r] = "closed"]
    /\ UNCHANGED <<wanted, file, hidden, counters>> /\ Process
RemoveState(r) ==
    /\ proc[r] = "closed"
    /\ proc' = [proc EXCEPT ![r] = None]
    /\ file' = None
    /\ hidden' = (hidden \cup ({file} \cap Methods)) \ {r}
    /\ UNCHANGED <<wanted, counters>> /\ Process

Crash(r) ==
    /\ proc[r] # None /\ crashes < MaxCrashes
    /\ crashes' = crashes + 1
    /\ Killed(r) /\ RestartPolicy(r)
    /\ UNCHANGED <<fails, runs, reboots>> /\ Process

\* runUI, from the moment it listens until it ends.
RunUI ==
    /\ PortIsFree /\ runs < MaxForeground
    /\ runs' = runs + 1 /\ foreground' = TRUE
    /\ UNCHANGED <<platform, installation, wanted, proc, file, hidden, fails, crashes, reboots>>
EndUI ==
    /\ foreground
    /\ foreground' = FALSE
    /\ UNCHANGED <<platform, installation, wanted, proc, file, hidden, counters>>

\* The machine restarts; what is registered starts with it.
Reboot ==
    /\ reboots < MaxReboots
    /\ reboots' = reboots + 1
    /\ proc' = [r \in Methods |-> None] /\ hidden' = {} /\ foreground' = FALSE
    /\ file' = IF file \in Methods THEN Dead ELSE file
    /\ wanted' = registered
    /\ cmd' = NoCommand /\ partial' = (partial \/ cmd.op = "install")
    /\ UNCHANGED <<platform, registered, record, issued, last, fails, crashes, runs>>

ServiceNext ==
    \/ Install \/ InstallRecord \/ Uninstall \/ UninstallRecord
    \/ ServiceStart \/ ServiceStop \/ ServiceRestart
    \/ \E r \in Methods :
          \/ Launch(r) \/ Listen(r) \/ Write(r) \/ ServeFails(r)
          \/ Shutdown(r) \/ RemoveState(r) \/ Crash(r)
    \/ RunUI \/ EndUI \/ Reboot

\* The managers start what is wanted, and processes do not stand still.
Fairness ==
    \A r \in Methods :
        /\ WF_serviceVars(Launch(r)) /\ WF_serviceVars(Listen(r)) /\ WF_serviceVars(Write(r))
        /\ WF_serviceVars(Shutdown(r)) /\ WF_serviceVars(RemoveState(r))

ServiceSpec == ServiceInit /\ [][ServiceNext]_serviceVars /\ Fairness

-----------------------------------------------------------------------------
(* Properties.                                                             *)

\* `service status` asks the manager of the system about its service, or goes on
\* if the record names the scheduled task. It stops there if the service is not
\* installed; otherwise it shows the process that the state file names, if alive.
Asked == Target = "task" \/ "os" \in registered
Status == IF Asked /\ file \in Methods /\ proc[file] # None THEN file ELSE None

\* The address that `service status` shows was really bound by the process it
\* names, and a process that serves is shown, unless its state file could not
\* be written, another process, ending later, removed it, or status takes the
\* service for not installed: a process goes on serving after its uninstall.
StatusIsTrue ==
    /\ Status # None => proc[Status] \in {"serving", "deaf", "stopping", "closed"}
    /\ \A r \in Methods : proc[r] = "serving" /\ r \notin hidden /\ Asked => Status = r

\* Between commands, while what the last completed install registered is still
\* registered, the commands act on it, whatever uninstalls have failed since,
\* and whichever of their two steps: they do not lose the scheduled task. Only a
\* later install that did not get to write its record may lead them elsewhere.
CommandsReachTheInstall ==
    cmd = NoCommand /\ ~partial /\ last \in registered => Target = last

\* What is to run is served, or no longer to run: a process that cannot listen
\* ends, so that its manager sees the failure. (A server whose serving failed
\* later stays as it is, and the port may be taken.)
WantedIsServed ==
    \A r \in Methods :
        r \in wanted \cap registered ~>
            \/ r \notin wanted \cap registered
            \/ \E q \in Methods : proc[q] \in {"serving", "deaf"}
            \/ foreground

-----------------------------------------------------------------------------
(* The invariants behind the proofs (CommandProofs).                       *)

ProcStates == {None, "launched", "listening", "serving", "deaf", "stopping", "closed"}

ServiceTypeOK ==
    /\ platform \in {"unix", "windows"}
    /\ registered \subseteq Methods /\ wanted \subseteq Methods /\ hidden \subseteq Methods
    /\ record \in Methods \cup {None} /\ last \in Methods \cup {None}
    /\ cmd \in [op : {"install", "uninstall"}, on : Methods] \cup {NoCommand}
    /\ proc \in [Methods -> ProcStates]
    /\ file \in Methods \cup {None, Dead}
    /\ foreground \in BOOLEAN /\ partial \in BOOLEAN
    /\ {issued, fails, crashes, runs, reboots} \subseteq Nat

\* The port is bound by one process at most: a process that listens has found
\* it free, and gives it up before it ends.
OnePort ==
    /\ \A r, q \in Methods : r \in Bound /\ q \in Bound => r = q
    /\ foreground => Bound = {}

\* The state file names a process that has written it and not yet removed it;
\* a process that serves is named, unless it is hidden.
FileIsCurrent ==
    /\ file \in Methods => proc[file] \in {"serving", "deaf", "stopping", "closed"}
    /\ \A r \in Methods : proc[r] = "serving" /\ r \notin hidden => file = r

\* While an uninstall is under way its registration is gone, and it was that of
\* the last install; at other times, but for an install that has not written
\* its record, the record leads to the last install if that is there.
RecordLeads ==
    /\ cmd.op = "uninstall" /\ ~partial => last \notin registered
    /\ cmd.op # "install" /\ ~partial /\ last \in registered => Target = last

ServiceInv == OnePort /\ FileIsCurrent /\ RecordLeads
=============================================================================
