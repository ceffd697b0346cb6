------------------------------ MODULE ToolFolder ------------------------------
(***************************************************************************)
(* What is made of a tool's folder before it runs: the desk loads it       *)
(* (tools.go, integrity.go), tcs-verify lints it, -pin prints its pins,    *)
(* -check and GET /preflight look for what it needs (preflight.go), and    *)
(* bwrap is told what it may see (executor.go).                            *)
(*                                                                         *)
(* A host maps paths to what is there, and everything is an operator on    *)
(* hosts, folders and files:                                               *)
(*   path    [dir, base]; as the name of a program, dir is "" if it is to  *)
(*           be looked up in PATH                                          *)
(*   file    [kind, exec, hash, bang, to]: kind is "none", "dir", "file"   *)
(*           or "link", which stands for a link in any part of the path;   *)
(*           hash is Unreadable if it cannot be read; bang is the shebang, *)
(*           a sequence of names, options with base "-"; to is where a     *)
(*           link leads                                                    *)
(*   folder  [linked, yaml, name, clean, run, runPin, interpPin, shim]:    *)
(*           linked: the folder of the tool is itself a link to one; yaml  *)
(*           is "none", "bad", "rest" if only what tcs-verify reads of it  *)
(*           decodes, or "good"; clean: Lint() finds nothing in the        *)
(*           schemas; run maps the names of run scripts to files; a pin    *)
(*           that is not there is NoPin; shim is exec[0] of shim.yaml,     *)
(*           NoShim without that file, Templated if it is no literal       *)
(***************************************************************************)
EXTENDS Naturals, SequencesExt

Unreadable == "unreadable"
NoPin == ""

Path(dir, base) == [dir |-> dir, base |-> base]
NoPath == Path("", "")
NoShim == Path("", "no shim.yaml")
Templated == Path("", "{{")
Absent == [kind |-> "none", exec |-> FALSE, hash |-> Unreadable, bang |-> <<>>, to |-> NoPath]

\* What an algorithm that tries one candidate after the other takes, or none.
FirstOf(q, Test(_), none) == IF SelectInSeq(q, Test) = 0 THEN none ELSE q[SelectInSeq(q, Test)]

------------------------------------------------------------------------------
(* interp.go and hash.go.                                                    *)

\* SandboxPath, with one directory of each kind: /usr/local, which can be a link, and /usr.
SandboxPath == <<"/usr/local/bin", "/usr/bin">>

At(host, p) == IF p \in DOMAIN host THEN host[p] ELSE Absent
Stat(host, p) == LET f == At(host, p) IN IF f.kind = "link" THEN At(host, f.to) ELSE f

Executable(host, p) == Stat(host, p).kind = "file" /\ Stat(host, p).exec

\* LookPathIn(): NoPath is "not found".
LookPathIn(host, n) ==
    FirstOf(IF n.dir # "" THEN <<n>> ELSE [i \in DOMAIN SandboxPath |-> Path(SandboxPath[i], n.base)],
            LAMBDA p : Executable(host, p), NoPath)

\* ShebangInterpreter(): the program, or the first name env is given; NoPath is "none".
ShebangInterpreter(f) ==
    IF f.bang = <<>> \/ f.hash = Unreadable THEN NoPath
    ELSE IF Head(f.bang).base # "env" THEN Head(f.bang)
    ELSE FirstOf(Tail(f.bang), LAMBDA n : n.base # "-", NoPath)

\* ResolveInterpreter(): where it is, or NoPath if there is none or it is not found.
ResolveInterpreter(host, f) ==
    IF ShebangInterpreter(f) = NoPath THEN NoPath ELSE LookPathIn(host, ShebangInterpreter(f))

HashFile(f) == f.hash

------------------------------------------------------------------------------
(* The desk loads the tools.                                                 *)

Candidates == <<"run.sh", "run.py", "run">>
IsFile(f) == f.kind = "file"

\* resolveRunScript(): the first executable one; "" is the error.
ResolveRunScript(fo) == FirstOf(Candidates, LAMBDA c : IsFile(fo.run[c]) /\ fo.run[c].exec, "")

\* The file at runPath of a tool.
RunFile(fo) == IF ResolveRunScript(fo) = "" THEN Absent ELSE fo.run[ResolveRunScript(fo)]

\* A pin and a hash: HashFile() fails on what cannot be read.
Matches(pin, f) == HashFile(f) # Unreadable /\ HashFile(f) = pin

\* Fault: only the script is looked at.
VerifiesScript(host, fo) == fo.runPin # NoPin => Matches(fo.runPin, RunFile(fo))

\* Fault: an interpreter that is not found is let through.
VerifiesFound(host, fo) ==
    LET f == RunFile(fo)
        interp == ResolveInterpreter(host, f) IN
    /\ fo.runPin # NoPin => Matches(fo.runPin, f)
    /\ fo.interpPin # NoPin /\ interp # NoPath => Matches(fo.interpPin, Stat(host, interp))

\* verifyIntegrity().
VerifyIntegrity(host, fo) ==
    LET f == RunFile(fo)
        interp == ResolveInterpreter(host, f) IN
    /\ fo.runPin # NoPin => Matches(fo.runPin, f)
    /\ fo.interpPin # NoPin => interp # NoPath /\ Matches(fo.interpPin, Stat(host, interp))

\* A folder LoadTools() does not skip: os.ReadDir() does not follow a link, so IsDir() of
\* one is false, which is not even logged.
Loadable(host, fo) ==
    ~fo.linked /\ fo.yaml = "good" /\ ResolveRunScript(fo) # "" /\ VerifyIntegrity(host, fo)

\* LoadTools(): the folders that become tools, the first one of a name.
LoadTools(host, fos) ==
    {i \in DOMAIN fos : /\ Loadable(host, fos[i])
                        /\ \A k \in 1..(i - 1) : Loadable(host, fos[k]) => fos[k].name # fos[i].name}

\* FormatPins(): the block -pin prints for a tool, without a value it cannot compute.
PinOf(f) == IF HashFile(f) = Unreadable THEN NoPin ELSE HashFile(f)
FormatPins(host, fo) ==
    LET f == RunFile(fo)
        interp == ResolveInterpreter(host, f) IN
    [run    |-> PinOf(f),
     interp |-> IF PinOf(f) = NoPin \/ interp = NoPath THEN NoPin ELSE PinOf(Stat(host, interp))]

------------------------------------------------------------------------------
(* tcs-verify: the errors it reports; its warnings decide nothing.           *)

\* The candidate lintRunScript() looks at is the first that exists.
VerifyRunScript(fo) == FirstOf(Candidates, LAMBDA c : IsFile(fo.run[c]), "")

\* Fault: a script that is not executable is no error.
LintRunScriptAnyMode(host, fo) ==
    LET f == fo.run[VerifyRunScript(fo)] IN
    IF VerifyRunScript(fo) = "" THEN {"no run script"}
    ELSE {e \in {"run pin"} : fo.runPin # NoPin /\ ~Matches(fo.runPin, f)}

LintRunScript(host, fo) ==
    LET f == fo.run[VerifyRunScript(fo)]
        interp == ResolveInterpreter(host, f) IN
    IF VerifyRunScript(fo) = "" THEN {"no run script"}
    ELSE {e \in {"not executable"} : ~f.exec}
         \union {e \in {"run pin"} : fo.runPin # NoPin /\ ~Matches(fo.runPin, f)}
         \union {e \in {"interpreter pin"} :
                   fo.interpPin # NoPin /\ (interp = NoPath \/ ~Matches(fo.interpPin, Stat(host, interp)))}

\* resolveTarget() and lintFile(), which follow links.
LintFile(host, fo) ==
    CASE fo.yaml = "none" -> {"no tcs.yaml"}
      [] fo.yaml = "bad" -> {"invalid YAML"}
      [] OTHER -> {e \in {"schema"} : ~fo.clean} \union LintRunScript(host, fo)

\* The exit code of tcs-verify on these folders is 0.
AllVerified(host, fos) == \A i \in DOMAIN fos : LintFile(host, fos[i]) = {}

------------------------------------------------------------------------------
(* The sandbox, and what preflight says of it.                               *)

\* What sandboxArgs() binds, of the directories there are, and the tool's folder.
Bound == {"/usr/local/bin", "/usr/bin"}
ToolDir == "/deskbox/tool"
SandboxArgs(host, vendored) ==
    [p \in DOMAIN host \union DOMAIN vendored |->
        IF p.dir = ToolDir THEN At(vendored, p)
        ELSE IF p.dir \in Bound /\ (At(host, p).kind = "link" => At(host, p).to.dir \in Bound)
        THEN At(host, p) ELSE Absent]

InsideSandboxRoots(p) == p.dir \in {"/usr/local/bin", "/usr/bin"}

\* Fault: everything on the box counts as reachable.
ResolveDepAnywhere(host, n) == IF LookPathIn(host, n) = NoPath THEN "missing" ELSE "ok"

\* resolveDep(): the status.
ResolveDep(host, n) ==
    CASE LookPathIn(host, n) = NoPath -> "missing"
      [] LookPathIn(host, n) # NoPath /\ ~InsideSandboxRoots(LookPathIn(host, n)) -> "outside_sandbox"
      [] OTHER -> "ok"

\* toolDependencies(): the names of the programs the tool declares, shimCommand() one
\* of them if it is a literal.
ToolDependencies(fo) ==
    ({ShebangInterpreter(RunFile(fo))}
     \union (IF fo.shim = NoShim THEN {} ELSE {Path("", "tcs-shim"), fo.shim})) \ {NoPath, Templated}

Fatal(status, sandboxed) == status = "missing" \/ (status = "outside_sandbox" /\ sandboxed)

\* -check exits with 0, and "ok" of GET /preflight.
CheckPasses(host, fo, sandboxed) ==
    \A n \in ToolDependencies(fo) : ~Fatal(ResolveDep(host, n), sandboxed)

------------------------------------------------------------------------------
(* How long the tool may take, in milliseconds.                              *)

Timeout(ms) == IF ms <= 0 THEN 30000 ELSE ms

\* Fault: the first run is not counted.
MaxTotalDurationOfRetries(ms, maxRetries) == Timeout(ms) * maxRetries + 5000

\* MaxTotalDuration(): how long a direct call waits.
MaxTotalDuration(ms, maxRetries) == Timeout(ms) * (maxRetries + 1) + 5000

\* The attempts process() makes of a job that fails in time, and its sleep after each
\* but the last.
Attempts(maxRetries) == IF maxRetries > 1 THEN maxRetries ELSE 1
Backoff(attempt) == 100 * 2^(attempt - 1)

------------------------------------------------------------------------------
(* What these say of each other, for a host and the folders on it.           *)

\* tcs-verify takes the first script that exists, the desk the first that can be run: of
\* folders without errors they take the same script, and the desk loads every one, unless
\* the folder is a link, its own fields of a contract do not decode or the name was taken.
VerifiedLoads(host, fos) ==
    AllVerified(host, fos) =>
    \A i \in DOMAIN fos :
       /\ VerifyRunScript(fos[i]) = ResolveRunScript(fos[i])
       /\ \/ i \in LoadTools(host, fos)
          \/ fos[i].linked \/ fos[i].yaml = "rest"
          \/ \E k \in 1..(i - 1) : fos[k].name = fos[i].name

Pinned(host, fo) == [fo EXCEPT !.runPin = FormatPins(host, fo).run, !.interpPin = FormatPins(host, fo).interp]

\* The block that -pin prints for a tool, pasted into its contract, is one the desk loads
\* it with and tcs-verify has no complaint of; and on a host where the script or the
\* interpreter is another, the desk does not load it.
PinsHold(host, fo, otherHost, otherFolder) ==
    LET pinned == Pinned(host, fo)
        there == [otherFolder EXCEPT !.runPin = pinned.runPin, !.interpPin = pinned.interpPin]
        Interp(h, x) == Stat(h, ResolveInterpreter(h, RunFile(x)))
    IN Loadable(host, fo) /\ pinned.runPin # NoPin =>
       /\ Loadable(host, pinned)
       /\ VerifyRunScript(fo) = ResolveRunScript(fo) => LintRunScript(host, pinned) = {}
       /\ Loadable(otherHost, there) =>
            /\ HashFile(RunFile(there)) = HashFile(RunFile(fo))
            /\ pinned.interpPin # NoPin => HashFile(Interp(otherHost, there)) = HashFile(Interp(host, fo))

\* A link that leads out of what bwrap binds: /usr/local of the ostree systems.
Leaves(host, p) == At(host, p).kind = "link" /\ At(host, p).to.dir \notin Bound

\* The interpreter a job is run by in the sandbox is the one whose hash was compared
\* with the pin, which looked for it outside; but for a link that leads out of the sandbox.
InterpreterVetted(host, fo, vendored) ==
    LET f == RunFile(fo)
        view == SandboxArgs(host, vendored)
        seen == ResolveInterpreter(view, f)
    IN Loadable(host, fo) /\ fo.interpPin # NoPin =>
       seen = NoPath \/ Matches(fo.interpPin, Stat(view, seen)) \/ Leaves(host, ResolveInterpreter(host, f))

\* What -check says of a tool is what its jobs will find: none of its programs is fatal if
\* and only if all can be found in the sandbox; but for a link that leads out of it, and
\* for a program that the tool brings in its own folder.
PreflightTells(host, fo, vendored) ==
    LET view == SandboxArgs(host, vendored)
        Known(n) == ~Leaves(host, LookPathIn(host, n)) /\ n.dir # ToolDir
    IN Loadable(host, fo) /\ (\A n \in ToolDependencies(fo) : Known(n)) =>
       (CheckPasses(host, fo, TRUE) <=> \A n \in ToolDependencies(fo) : LookPathIn(view, n) # NoPath)

\* A direct call on an idle desk is told the outcome of its tool, however often it times
\* out; from the seventh attempt on the sleeps, which double, outgrow the five seconds, and
\* below zero, which nothing refuses, the wait is shorter than the one run there is.
DirectWaitCovers(ms, maxRetries) ==
    maxRetries \in 0..6 =>
    MaxTotalDuration(ms, maxRetries) >=
        Attempts(maxRetries) * Timeout(ms) + MapThenSumSet(Backoff, 1..(Attempts(maxRetries) - 1))
=============================================================================
