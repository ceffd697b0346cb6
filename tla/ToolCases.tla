------------------------------ MODULE ToolCases -------------------------------
(***************************************************************************)
(* Hosts with tool folders on them: the cases in which the loader,         *)
(* tcs-verify, the pins, preflight and the sandbox of ToolFolder are       *)
(* compared; and contracts whose direct calls are waited for.              *)
(***************************************************************************)
EXTENDS ToolFolder, Cases

CONSTANTS Hosts,      \* the machines a desk is installed on
          OtherHosts, \* the machines its folders are copied to, or what it becomes
          Folders,    \* the folders of a tool
          Others,     \* the folders beside it
          Times,      \* the timeout_ms of contracts
          Retries,    \* the max_retries of contracts
          Vendored    \* the programs that a tool brings in its own folder

PathType == [dir : STRING, base : STRING]
FileType == [kind : {"none", "dir", "file", "link"}, exec : BOOLEAN, hash : STRING,
             bang : Seq(PathType), to : PathType]
FolderType == [linked : BOOLEAN, yaml : {"none", "bad", "rest", "good"}, name : STRING, clean : BOOLEAN,
               run : [{"run.sh", "run.py", "run"} -> FileType],
               runPin : STRING, interpPin : STRING, shim : PathType]
Files(m) == \A p \in DOMAIN m : p \in PathType /\ m[p] \in FileType

\* The folder of a tool is at ToolDir in the sandbox; outside there is no such directory.
ASSUME ToolsAssumption ==
    /\ Folders \union Others \subseteq FolderType
    /\ \A h \in Hosts \union OtherHosts : Files(h) /\ \A p \in DOMAIN h : p.dir # ToolDir
    /\ Times \subseteq Int /\ Retries \subseteq Int
    /\ Files(Vendored) /\ \A p \in DOMAIN Vendored : p.dir = ToolDir

ToolCase(host, fo) == [of |-> "folder", host |-> host, fo |-> fo]
WaitCase(ms, maxRetries) == [of |-> "wait", ms |-> ms, retries |-> maxRetries]

ToolInit ==
    /\ done = FALSE
    /\ \/ \E h \in Hosts, fo \in Folders : in = ToolCase(h, fo)
       \/ \E ms \in Times, n \in Retries : in = WaitCase(ms, n)

ToolSpec == ToolInit /\ [][Compute]_<<in, done>>

\* What tcs-verify has no complaint of, the desk loads, and both take the same script; a
\* folder that is a link, fields that do not decode and a name that was taken apart.
VerifiedToolsLoad == Case("folder") => \A o \in Others : /\ VerifiedLoads(in.host, <<in.fo, o>>)
                                                          /\ VerifiedLoads(in.host, <<o, in.fo>>)

\* The pins that -pin prints are taken where they were printed, and nowhere else unless the
\* script and the interpreter are the same.
PinsHoldTools == Case("folder") => \A h \in OtherHosts, o \in Others \union {in.fo} :
                                        PinsHold(in.host, in.fo, h, o)

\* In the sandbox a tool is run by the interpreter that was compared with its pin.
SandboxInterpreterVetted == Case("folder") => InterpreterVetted(in.host, in.fo, Vendored)

\* -check passes a tool if and only if the sandbox has every program it names.
PreflightTellsSandbox == Case("folder") => PreflightTells(in.host, in.fo, Vendored)

\* A direct call is not given up while its tool may still be tried again.
DirectToolIsAwaited == Case("wait") => DirectWaitCovers(in.ms, in.retries)
=============================================================================
