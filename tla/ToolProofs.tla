------------------------------ MODULE ToolProofs ------------------------------
(***************************************************************************)
(* Theorems about ToolFolder, for any hosts and folders: the loader and    *)
(* tcs-verify agree on a folder, the pins hold, what the desk looks for    *)
(* outside the sandbox is what a job finds in it, and a direct call waits  *)
(* for its tool.                                                           *)
(***************************************************************************)
EXTENDS ToolCases, FiniteSetTheorems, TLAPS

------------------------------------------------------------------------------
(* What the algorithms that take the first of some candidates take.          *)

LEMMA MinIs ==
    ASSUME NEW S \in SUBSET {1, 2, 3}, S # {}
    PROVE  Min(S) \in S /\ \A i \in S : Min(S) <= i
<1>1. \E x \in S : \A y \in S : x <= y
    <2>1. CASE 1 \in S
        BY <2>1
    <2>2. CASE 1 \notin S /\ 2 \in S
        BY <2>2
    <2>3. CASE 1 \notin S /\ 2 \notin S
        <3>1. S = {3}
            BY <2>3
        <3>. QED
            BY <3>1
    <2>. QED
        BY <2>1, <2>2, <2>3
<1>. QED
    BY <1>1 DEF Min

\* The first index of a set, or 0.
First(S) == IF S # {} THEN Min(S) ELSE 0

LEMMA FirstIs ==
    ASSUME NEW S \in SUBSET {1, 2, 3}
    PROVE  First(S) = IF 1 \in S THEN 1 ELSE IF 2 \in S THEN 2 ELSE IF 3 \in S THEN 3 ELSE 0
<1>1. CASE S = {}
    BY <1>1 DEF First
<1>2. CASE S # {}
    <2>1. First(S) \in S /\ \A i \in S : First(S) <= i
        BY <1>2, MinIs DEF First
    <2>. HIDE DEF First
    <2>2. First(S) \in {1, 2, 3}
        BY <2>1
    <2>3. CASE 1 \in S
        <3>1. First(S) <= 1
            BY <2>1, <2>3
        <3>. QED
            BY <2>2, <2>3, <3>1
    <2>4. CASE 1 \notin S /\ 2 \in S
        <3>1. First(S) <= 2 /\ First(S) # 1
            BY <2>1, <2>4
        <3>. QED
            BY <2>2, <2>4, <3>1
    <2>5. CASE 1 \notin S /\ 2 \notin S
        BY <2>1, <2>2, <2>5
    <2>. QED
        BY <2>3, <2>4, <2>5
<1>. QED
    BY <1>1, <1>2

\* The desk takes the first script that is an executable file, tcs-verify the first file.
Runs(f) == IsFile(f) /\ f.exec

LEMMA ResolveIs ==
    ASSUME NEW fo
    PROVE  ResolveRunScript(fo) = IF Runs(fo.run["run.sh"]) THEN "run.sh"
                                  ELSE IF Runs(fo.run["run.py"]) THEN "run.py"
                                  ELSE IF Runs(fo.run["run"]) THEN "run" ELSE ""
<1>. DEFINE I == {i \in 1..Len(Candidates) : IsFile(fo.run[Candidates[i]]) /\ fo.run[Candidates[i]].exec}
<1>1. ResolveRunScript(fo) = IF First(I) = 0 THEN "" ELSE Candidates[First(I)]
    BY DEF ResolveRunScript, FirstOf, SelectInSeq, First
<1>2. /\ 1..Len(Candidates) = {1, 2, 3}
      /\ Candidates[1] = "run.sh" /\ Candidates[2] = "run.py" /\ Candidates[3] = "run"
    BY DEF Candidates
<1>3. I = {i \in {1, 2, 3} : Runs(fo.run[Candidates[i]])}
    BY <1>2 DEF Runs
<1>. HIDE DEF I
<1>4. First(I) = IF 1 \in I THEN 1 ELSE IF 2 \in I THEN 2 ELSE IF 3 \in I THEN 3 ELSE 0
    BY <1>3, FirstIs
<1>5. /\ 1 \in I <=> Runs(fo.run["run.sh"])
      /\ 2 \in I <=> Runs(fo.run["run.py"])
      /\ 3 \in I <=> Runs(fo.run["run"])
    BY <1>2, <1>3
<1>. HIDE DEF First
<1>6. CASE 1 \in I
    <2>1. First(I) = 1
        BY <1>4, <1>6
    <2>2. ResolveRunScript(fo) = Candidates[1]
        BY <1>1, <2>1
    <2>. QED
        BY <1>2, <1>5, <1>6, <2>2
<1>7. CASE 1 \notin I /\ 2 \in I
    <2>1. First(I) = 2
        BY <1>4, <1>7
    <2>2. ResolveRunScript(fo) = Candidates[2]
        BY <1>1, <2>1
    <2>. QED
        BY <1>2, <1>5, <1>7, <2>2
<1>8. CASE 1 \notin I /\ 2 \notin I /\ 3 \in I
    <2>1. First(I) = 3
        BY <1>4, <1>8
    <2>2. ResolveRunScript(fo) = Candidates[3]
        BY <1>1, <2>1
    <2>. QED
        BY <1>2, <1>5, <1>8, <2>2
<1>9. CASE 1 \notin I /\ 2 \notin I /\ 3 \notin I
    <2>1. First(I) = 0
        BY <1>4, <1>9
    <2>. QED
        BY <1>1, <1>5, <1>9, <2>1
<1>. QED
    BY <1>6, <1>7, <1>8, <1>9

LEMMA VerifyIs ==
    ASSUME NEW fo
    PROVE  VerifyRunScript(fo) = IF IsFile(fo.run["run.sh"]) THEN "run.sh"
                                 ELSE IF IsFile(fo.run["run.py"]) THEN "run.py"
                                 ELSE IF IsFile(fo.run["run"]) THEN "run" ELSE ""
<1>. DEFINE I == {i \in 1..Len(Candidates) : IsFile(fo.run[Candidates[i]])}
<1>1. VerifyRunScript(fo) = IF First(I) = 0 THEN "" ELSE Candidates[First(I)]
    BY DEF VerifyRunScript, FirstOf, SelectInSeq, First
<1>2. /\ 1..Len(Candidates) = {1, 2, 3}
      /\ Candidates[1] = "run.sh" /\ Candidates[2] = "run.py" /\ Candidates[3] = "run"
    BY DEF Candidates
<1>3. I = {i \in {1, 2, 3} : IsFile(fo.run[Candidates[i]])}
    BY <1>2
<1>. HIDE DEF I
<1>4. First(I) = IF 1 \in I THEN 1 ELSE IF 2 \in I THEN 2 ELSE IF 3 \in I THEN 3 ELSE 0
    BY <1>3, FirstIs
<1>5. /\ 1 \in I <=> IsFile(fo.run["run.sh"])
      /\ 2 \in I <=> IsFile(fo.run["run.py"])
      /\ 3 \in I <=> IsFile(fo.run["run"])
    BY <1>2, <1>3
<1>. HIDE DEF First
<1>6. CASE 1 \in I
    <2>1. First(I) = 1
        BY <1>4, <1>6
    <2>2. VerifyRunScript(fo) = Candidates[1]
        BY <1>1, <2>1
    <2>. QED
        BY <1>2, <1>5, <1>6, <2>2
<1>7. CASE 1 \notin I /\ 2 \in I
    <2>1. First(I) = 2
        BY <1>4, <1>7
    <2>2. VerifyRunScript(fo) = Candidates[2]
        BY <1>1, <2>1
    <2>. QED
        BY <1>2, <1>5, <1>7, <2>2
<1>8. CASE 1 \notin I /\ 2 \notin I /\ 3 \in I
    <2>1. First(I) = 3
        BY <1>4, <1>8
    <2>2. VerifyRunScript(fo) = Candidates[3]
        BY <1>1, <2>1
    <2>. QED
        BY <1>2, <1>5, <1>8, <2>2
<1>9. CASE 1 \notin I /\ 2 \notin I /\ 3 \notin I
    <2>1. First(I) = 0
        BY <1>4, <1>9
    <2>. QED
        BY <1>1, <1>5, <1>9, <2>1
<1>. QED
    BY <1>6, <1>7, <1>8, <1>9

\* A name with a directory is that file or nothing; another is looked up in PATH.
Local(n) == Path("/usr/local/bin", n.base)
Usr(n) == Path("/usr/bin", n.base)

LEMMA LookIs ==
    ASSUME NEW host, NEW n
    PROVE  LookPathIn(host, n) = IF n.dir # "" THEN IF Executable(host, n) THEN n ELSE NoPath
                                 ELSE IF Executable(host, Local(n)) THEN Local(n)
                                 ELSE IF Executable(host, Usr(n)) THEN Usr(n) ELSE NoPath
<1>. DEFINE Two == [i \in DOMAIN SandboxPath |-> Path(SandboxPath[i], n.base)]
            q == IF n.dir # "" THEN <<n>> ELSE Two
            I == {i \in 1..Len(q) : Executable(host, q[i])}
<1>1. LookPathIn(host, n) = IF First(I) = 0 THEN NoPath ELSE q[First(I)]
    BY DEF LookPathIn, FirstOf, SelectInSeq, First
<1>2. CASE n.dir # ""
    <2>1. q = <<n>>
        BY <1>2
    <2>. HIDE DEF q, Two
    <2>2. 1..Len(q) = {1} /\ q[1] = n
        BY <2>1
    <2>3. I = {i \in {1} : Executable(host, q[i])}
        BY <2>2
    <2>. HIDE DEF I
    <2>4. First(I) = IF 1 \in I THEN 1 ELSE 0
        BY <2>3, FirstIs
    <2>5. 1 \in I <=> Executable(host, n)
        BY <2>2, <2>3
    <2>6. CASE 1 \in I
        <3>1. First(I) = 1
            BY <2>4, <2>6
        <3>2. LookPathIn(host, n) = q[1]
            BY <1>1, <3>1
        <3>. QED
            BY <1>2, <2>2, <2>5, <2>6, <3>2
    <2>7. CASE 1 \notin I
        <3>1. First(I) = 0
            BY <2>4, <2>7
        <3>. QED
            BY <1>1, <1>2, <2>5, <2>7, <3>1
    <2>. QED
        BY <2>6, <2>7
<1>3. CASE n.dir = ""
    <2>1. DOMAIN SandboxPath = 1..2 /\ SandboxPath[1] = "/usr/local/bin" /\ SandboxPath[2] = "/usr/bin"
        BY DEF SandboxPath
    <2>2. Two[1] = Local(n) /\ Two[2] = Usr(n)
        BY <2>1 DEF Local, Usr
    <2>3. Len(Two) = 2
        BY <2>1
    <2>4. q = Two
        BY <1>3
    <2>. HIDE DEF q, Two
    <2>5. 1..Len(q) = 1..2
        BY <2>3, <2>4
    <2>6. I = {i \in {1, 2} : Executable(host, q[i])}
        BY <2>5
    <2>. HIDE DEF I
    <2>7. First(I) = IF 1 \in I THEN 1 ELSE IF 2 \in I THEN 2 ELSE 0
        BY <2>6, FirstIs
    <2>8. (1 \in I <=> Executable(host, Local(n))) /\ (2 \in I <=> Executable(host, Usr(n)))
        BY <2>2, <2>4, <2>6
    <2>9. CASE 1 \in I
        <3>1. First(I) = 1
            BY <2>7, <2>9
        <3>2. LookPathIn(host, n) = Two[1]
            BY <1>1, <2>4, <3>1
        <3>. QED
            BY <1>3, <2>2, <2>8, <2>9, <3>2
    <2>10. CASE 1 \notin I /\ 2 \in I
        <3>1. First(I) = 2
            BY <2>7, <2>10
        <3>2. LookPathIn(host, n) = Two[2]
            BY <1>1, <2>4, <3>1
        <3>. QED
            BY <1>3, <2>2, <2>8, <2>10, <3>2
    <2>11. CASE 1 \notin I /\ 2 \notin I
        <3>1. First(I) = 0
            BY <2>7, <2>11
        <3>. QED
            BY <1>1, <1>3, <2>8, <2>11, <3>1
    <2>. QED
        BY <2>9, <2>10, <2>11
<1>. QED
    BY <1>2, <1>3
------------------------------------------------------------------------------
(* tcs-verify and the loader.                                                *)

\* A folder tcs-verify has no complaint of: both take the same script, and its pins match.
LEMMA VerifiedFolder ==
    ASSUME NEW host, NEW fo, LintFile(host, fo) = {}
    PROVE  /\ fo.yaml # "none" /\ fo.yaml # "bad"
           /\ VerifyRunScript(fo) = ResolveRunScript(fo)
           /\ ResolveRunScript(fo) # ""
           /\ VerifyIntegrity(host, fo)
<1>. DEFINE v == VerifyRunScript(fo)
            f == fo.run[v]
            interp == ResolveInterpreter(host, f)
            Complaint == {e \in {"interpreter pin"} :
                            fo.interpPin # NoPin /\ (interp = NoPath \/ ~Matches(fo.interpPin, Stat(host, interp)))}
<1>1. fo.yaml # "none" /\ fo.yaml # "bad" /\ LintRunScript(host, fo) = {}
    BY DEF LintFile
<1>2. v # ""
    BY <1>1 DEF LintRunScript
<1>3. /\ {e \in {"not executable"} : ~f.exec} = {}
      /\ {e \in {"run pin"} : fo.runPin # NoPin /\ ~Matches(fo.runPin, f)} = {}
      /\ Complaint = {}
    BY <1>1, <1>2 DEF LintRunScript
<1>4. /\ f.exec
      /\ fo.runPin # NoPin => Matches(fo.runPin, f)
      /\ fo.interpPin # NoPin => interp # NoPath /\ Matches(fo.interpPin, Stat(host, interp))
    BY <1>3
<1>5. v = ResolveRunScript(fo)
    BY <1>2, <1>4, VerifyIs, ResolveIs DEF Runs
<1>6. RunFile(fo) = f
    BY <1>2, <1>5 DEF RunFile
<1>. QED
    BY <1>1, <1>2, <1>4, <1>5, <1>6 DEF VerifyIntegrity

LEMMA VerifiedAreLoaded ==
    ASSUME NEW host, NEW fos, \A i \in DOMAIN fos : fos[i] \in FolderType
    PROVE  VerifiedLoads(host, fos)
<1>. SUFFICES ASSUME AllVerified(host, fos), NEW i \in DOMAIN fos
              PROVE  /\ VerifyRunScript(fos[i]) = ResolveRunScript(fos[i])
                     /\ \/ i \in LoadTools(host, fos)
                        \/ fos[i].linked \/ fos[i].yaml = "rest"
                        \/ \E k \in 1..(i - 1) : fos[k].name = fos[i].name
    BY DEF VerifiedLoads
<1>1. LintFile(host, fos[i]) = {}
    BY DEF AllVerified
<1>2. /\ VerifyRunScript(fos[i]) = ResolveRunScript(fos[i])
      /\ ~fos[i].linked /\ fos[i].yaml = "good" => Loadable(host, fos[i])
      /\ fos[i].yaml # "none" /\ fos[i].yaml # "bad"
    BY <1>1, VerifiedFolder DEF Loadable
<1>3. fos[i].yaml \in {"rest", "good"}
    BY <1>2 DEF FolderType
<1>. QED
    BY <1>2, <1>3 DEF LoadTools

------------------------------------------------------------------------------
(* The pins.                                                                 *)

\* The script is taken by what there is of scripts.
LEMMA SameScript ==
    ASSUME NEW fo, NEW pinned, pinned.run = fo.run
    PROVE  /\ ResolveRunScript(pinned) = ResolveRunScript(fo)
           /\ VerifyRunScript(pinned) = VerifyRunScript(fo)
           /\ RunFile(pinned) = RunFile(fo)
<1>1. ResolveRunScript(pinned) = ResolveRunScript(fo) /\ VerifyRunScript(pinned) = VerifyRunScript(fo)
    BY ResolveIs, VerifyIs
<1>. QED
    BY <1>1 DEF RunFile

LEMMA PinsAreTaken ==
    ASSUME NEW host, NEW fo \in FolderType, NEW otherHost, NEW otherFolder \in FolderType
    PROVE  PinsHold(host, fo, otherHost, otherFolder)
<1>. DEFINE pins == FormatPins(host, fo)
            pinned == Pinned(host, fo)
            there == [otherFolder EXCEPT !.runPin = pinned.runPin, !.interpPin = pinned.interpPin]
            f == RunFile(fo)
            g == RunFile(there)
            interp == ResolveInterpreter(host, f)
            other == ResolveInterpreter(otherHost, g)
<1>. SUFFICES ASSUME Loadable(host, fo), pinned.runPin # NoPin
              PROVE  /\ Loadable(host, pinned)
                     /\ VerifyRunScript(fo) = ResolveRunScript(fo) => LintRunScript(host, pinned) = {}
                     /\ Loadable(otherHost, there) =>
                          /\ HashFile(g) = HashFile(f)
                          /\ pinned.interpPin # NoPin =>
                                HashFile(Stat(otherHost, other)) = HashFile(Stat(host, interp))
    BY DEF PinsHold
<1>1. /\ pinned.runPin = pins.run /\ pinned.interpPin = pins.interp
      /\ pinned.linked = fo.linked /\ pinned.yaml = fo.yaml /\ pinned.run = fo.run
      /\ ResolveRunScript(pinned) = ResolveRunScript(fo)
      /\ VerifyRunScript(pinned) = VerifyRunScript(fo)
      /\ RunFile(pinned) = f
    <2>1. /\ pinned.runPin = pins.run /\ pinned.interpPin = pins.interp
          /\ pinned.linked = fo.linked /\ pinned.yaml = fo.yaml /\ pinned.run = fo.run
        BY DEF Pinned, FolderType
    <2>. HIDE DEF pinned, pins
    <2>. QED
        BY <2>1, SameScript
<1>2. there.runPin = pinned.runPin /\ there.interpPin = pinned.interpPin
    BY DEF FolderType
<1>3. /\ pins.run = PinOf(f)
      /\ pins.interp = IF PinOf(f) = NoPin \/ interp = NoPath THEN NoPin ELSE PinOf(Stat(host, interp))
    BY DEF FormatPins
<1>. HIDE DEF pins, pinned, there, f, g, interp, other
<1>4. pinned.runPin = HashFile(f) /\ Matches(pinned.runPin, f)
    BY <1>1, <1>3 DEF PinOf, Matches
<1>5. ASSUME pinned.interpPin # NoPin
      PROVE  /\ interp # NoPath /\ pinned.interpPin = HashFile(Stat(host, interp))
             /\ Matches(pinned.interpPin, Stat(host, interp))
    BY <1>1, <1>3, <1>5 DEF PinOf, Matches
<1>6. VerifyIntegrity(host, pinned)
    BY <1>1, <1>4, <1>5 DEF VerifyIntegrity, interp
<1>7. ~fo.linked /\ fo.yaml = "good" /\ ResolveRunScript(fo) # ""
    BY DEF Loadable
<1>8. Loadable(host, pinned)
    BY <1>1, <1>6, <1>7 DEF Loadable
<1>9. ASSUME VerifyRunScript(fo) = ResolveRunScript(fo)
      PROVE  LintRunScript(host, pinned) = {}
    <2>1. f = pinned.run[VerifyRunScript(pinned)] /\ f.exec
        BY <1>1, <1>7, <1>9, ResolveIs DEF RunFile, Runs, f
    <2>2. ~(pinned.interpPin # NoPin /\ (interp = NoPath \/ ~Matches(pinned.interpPin, Stat(host, interp))))
        BY <1>5
    <2>. QED
        BY <1>1, <1>4, <1>7, <1>9, <2>1, <2>2 DEF LintRunScript, interp
<1>10. ASSUME Loadable(otherHost, there)
       PROVE  /\ HashFile(g) = HashFile(f)
              /\ pinned.interpPin # NoPin => HashFile(Stat(otherHost, other)) = HashFile(Stat(host, interp))
    <2>1. /\ Matches(pinned.runPin, g)
          /\ pinned.interpPin # NoPin => Matches(pinned.interpPin, Stat(otherHost, other))
        BY <1>2, <1>10 DEF Loadable, VerifyIntegrity, g, other
    <2>. QED
        BY <1>4, <1>5, <2>1 DEF Matches
<1>. QED
    BY <1>8, <1>9, <1>10
------------------------------------------------------------------------------
(* What a job finds in the sandbox.                                          *)

\* No path of the host is in the tool's folder, every vendored one is.
Apart(host, vendored) ==
    (\A p \in DOMAIN host : p.dir # ToolDir) /\ \A p \in DOMAIN vendored : p.dir = ToolDir

\* Outside the tool's folder, the sandbox has what the host has in the bound directories,
\* but for the links that lead out of them.
LEMMA SeenIs ==
    ASSUME NEW host, NEW vendored, Apart(host, vendored), NEW p, p.dir # ToolDir
    PROVE  At(SandboxArgs(host, vendored), p) =
           IF p.dir \in Bound /\ ~Leaves(host, p) THEN At(host, p) ELSE Absent
<1>. DEFINE view == SandboxArgs(host, vendored)
<1>1. CASE p \in DOMAIN host
    <2>1. view[p] = IF p.dir \in Bound /\ (At(host, p).kind = "link" => At(host, p).to.dir \in Bound)
                    THEN At(host, p) ELSE Absent
        BY <1>1 DEF SandboxArgs
    <2>2. p \in DOMAIN view
        BY <1>1 DEF SandboxArgs
    <2>. HIDE DEF view
    <2>3. At(view, p) = view[p]
        BY <2>2 DEF At
    <2>. QED
        BY <2>1, <2>3 DEF Leaves, view
<1>2. CASE p \notin DOMAIN host
    <2>1. p \notin DOMAIN view
        BY <1>2 DEF SandboxArgs, Apart
    <2>. HIDE DEF view
    <2>2. At(view, p) = Absent /\ At(host, p) = Absent
        BY <1>2, <2>1 DEF At
    <2>. QED
        BY <2>2 DEF view
<1>. QED
    BY <1>1, <1>2

\* What can be run in the sandbox, and is not the tool's own, is the host's.
LEMMA SeenIsThere ==
    ASSUME NEW host, NEW vendored, Apart(host, vendored), NEW p, p.dir # ToolDir,
           Executable(SandboxArgs(host, vendored), p)
    PROVE  /\ Stat(SandboxArgs(host, vendored), p) = Stat(host, p)
           /\ Executable(host, p)
           /\ p.dir \in Bound
<1>. DEFINE view == SandboxArgs(host, vendored)
            to == At(host, p).to
<1>. HIDE DEF view
<1>0. Executable(view, p)
    BY DEF view
<1>1. At(view, p) = IF p.dir \in Bound /\ ~Leaves(host, p) THEN At(host, p) ELSE Absent
    BY SeenIs DEF view
<1>2. At(view, p) # Absent
    <2>1. Absent.kind = "none"
        BY DEF Absent
    <2>. QED
        BY <1>0, <2>1 DEF Executable, Stat
<1>3. p.dir \in Bound /\ ~Leaves(host, p) /\ At(view, p) = At(host, p)
    BY <1>1, <1>2
<1>4. CASE At(host, p).kind = "link"
    <2>1. to.dir \in Bound /\ to.dir # ToolDir
        BY <1>3, <1>4 DEF Leaves, Bound, ToolDir
    <2>2. At(view, to) = IF to.dir \in Bound /\ ~Leaves(host, to) THEN At(host, to) ELSE Absent
        BY <2>1, SeenIs DEF view
    <2>3. Stat(view, p) = At(view, to) /\ Stat(host, p) = At(host, to)
        BY <1>3, <1>4 DEF Stat
    <2>4. At(view, to).kind = "file" /\ Absent.kind = "none"
        BY <1>0, <2>3 DEF Executable, Absent
    <2>5. At(view, to) = At(host, to)
        BY <2>2, <2>4
    <2>6. Stat(view, p) = Stat(host, p)
        BY <2>3, <2>5
    <2>. QED
        BY <1>0, <1>3, <2>6 DEF Executable, view
<1>5. CASE At(host, p).kind # "link"
    <2>1. Stat(view, p) = Stat(host, p)
        BY <1>3, <1>5 DEF Stat
    <2>. QED
        BY <1>0, <1>3, <2>1 DEF Executable, view
<1>. QED
    BY <1>4, <1>5

\* What can be run on the host, in a bound directory and not by a link that leads out,
\* can be run in the sandbox.
LEMMA ThereIsSeen ==
    ASSUME NEW host, NEW vendored, Apart(host, vendored), NEW p, p.dir \in Bound,
           ~Leaves(host, p), Executable(host, p)
    PROVE  Executable(SandboxArgs(host, vendored), p)
<1>. DEFINE view == SandboxArgs(host, vendored)
            to == At(host, p).to
<1>. HIDE DEF view
<1>1. At(view, p) = At(host, p)
    <2>1. p.dir # ToolDir
        BY DEF Bound, ToolDir
    <2>. QED
        BY <2>1, SeenIs DEF view
<1>2. CASE At(host, p).kind = "link"
    <2>1. to.dir \in Bound /\ to.dir # ToolDir
        BY <1>2 DEF Leaves, Bound, ToolDir
    <2>2. Stat(view, p) = At(view, to) /\ Stat(host, p) = At(host, to)
        BY <1>1, <1>2 DEF Stat
    <2>3. ~Leaves(host, to)
        BY <2>2 DEF Executable, Leaves
    <2>4. At(view, to) = At(host, to)
        BY <2>1, <2>3, SeenIs DEF view
    <2>. QED
        BY <2>2, <2>4 DEF Executable, view
<1>3. CASE At(host, p).kind # "link"
    <2>1. Stat(view, p) = Stat(host, p)
        BY <1>1, <1>3 DEF Stat
    <2>. QED
        BY <2>1 DEF Executable, view
<1>. QED
    BY <1>2, <1>3

\* The directories of PATH are bound ones.
LEMMA InPath ==
    ASSUME NEW n
    PROVE  /\ Local(n).dir \in Bound /\ Usr(n).dir \in Bound
           /\ Local(n).dir # ToolDir /\ Usr(n).dir # ToolDir
           /\ Local(n) # NoPath /\ Usr(n) # NoPath
           /\ \A p : p.dir \in Bound => InsideSandboxRoots(p)
<1>1. Local(n).dir = "/usr/local/bin" /\ Usr(n).dir = "/usr/bin" /\ NoPath.dir = ""
    BY DEF Local, Usr, Path, NoPath
<1>. QED
    BY <1>1 DEF Bound, ToolDir, InsideSandboxRoots
\* A program that is looked for outside is found in the sandbox, or nothing is, unless a
\* link leads to it out of there.
LEMMA FoundAlike ==
    ASSUME NEW host, NEW vendored, Apart(host, vendored), NEW n,
           LookPathIn(host, n) # NoPath, ~Leaves(host, LookPathIn(host, n)),
           LookPathIn(SandboxArgs(host, vendored), n) # NoPath
    PROVE  Stat(SandboxArgs(host, vendored), LookPathIn(SandboxArgs(host, vendored), n))
           = Stat(host, LookPathIn(host, n))
<1>. DEFINE view == SandboxArgs(host, vendored)
            seen == LookPathIn(view, n)
            interp == LookPathIn(host, n)
<1>. HIDE DEF view
<1>1. CASE n.dir # ""
    <2>1. interp = n /\ Executable(host, n) /\ seen = n /\ Executable(view, n)
        BY <1>1, LookIs DEF view
    <2>2. n.dir # ToolDir
        <3>1. ASSUME n.dir = ToolDir PROVE FALSE
            <4>1. At(host, n) = Absent /\ Absent.kind = "none"
                BY <3>1 DEF At, Absent, Apart
            <4>. QED
                BY <2>1, <4>1 DEF Executable, Stat
        <3>. QED
            BY <3>1
    <2>. QED
        BY <2>1, <2>2, SeenIsThere DEF view
<1>2. CASE n.dir = "" /\ Executable(host, Local(n))
    <2>1. interp = Local(n)
        BY <1>2, LookIs
    <2>2. Executable(view, Local(n))
        BY <1>2, <2>1, InPath, ThereIsSeen DEF view
    <2>3. seen = Local(n)
        BY <1>2, <2>2, LookIs
    <2>. QED
        BY <2>1, <2>2, <2>3, InPath, SeenIsThere DEF view
<1>3. CASE n.dir = "" /\ ~Executable(host, Local(n))
    <2>1. interp = Usr(n)
        BY <1>3, LookIs
    <2>2. ~Executable(view, Local(n))
        BY <1>3, InPath, SeenIsThere DEF view
    <2>3. seen = Usr(n) /\ Executable(view, Usr(n))
        BY <1>3, <2>2, LookIs DEF view
    <2>. QED
        BY <2>1, <2>3, InPath, SeenIsThere DEF view
<1>. QED
    BY <1>1, <1>2, <1>3

LEMMA InterpretersAreVetted ==
    ASSUME NEW host, NEW vendored, Apart(host, vendored), NEW fo
    PROVE  InterpreterVetted(host, fo, vendored)
<1>. DEFINE f == RunFile(fo)
            view == SandboxArgs(host, vendored)
            seen == ResolveInterpreter(view, f)
            interp == ResolveInterpreter(host, f)
            n == ShebangInterpreter(f)
<1>. SUFFICES ASSUME Loadable(host, fo), fo.interpPin # NoPin, seen # NoPath, ~Leaves(host, interp)
              PROVE  Matches(fo.interpPin, Stat(view, seen))
    BY DEF InterpreterVetted
<1>. HIDE DEF f, view
<1>1. interp # NoPath /\ Matches(fo.interpPin, Stat(host, interp))
    BY DEF Loadable, VerifyIntegrity, f
<1>2. interp = LookPathIn(host, n) /\ seen = LookPathIn(view, n)
    BY <1>1 DEF ResolveInterpreter
<1>. HIDE DEF n, seen, interp
<1>3. Stat(view, seen) = Stat(host, interp)
    BY <1>1, <1>2, FoundAlike DEF view
<1>. QED
    BY <1>1, <1>3

\* Preflight says "ok" of a name just when it is found in the sandbox.
LEMMA OkIsSeen ==
    ASSUME NEW host, NEW vendored, Apart(host, vendored), NEW n,
           ~Leaves(host, LookPathIn(host, n)), n.dir # ToolDir
    PROVE  ~Fatal(ResolveDep(host, n), TRUE) <=> LookPathIn(SandboxArgs(host, vendored), n) # NoPath
<1>. DEFINE view == SandboxArgs(host, vendored)
            at == LookPathIn(host, n)
            seen == LookPathIn(view, n)
<1>. HIDE DEF view
<1>1. ~Fatal(ResolveDep(host, n), TRUE) <=> at # NoPath /\ at.dir \in Bound
    <2>1. InsideSandboxRoots(at) <=> at.dir \in Bound
        BY DEF InsideSandboxRoots, Bound
    <2>. QED
        BY <2>1 DEF Fatal, ResolveDep
<1>2. ASSUME at # NoPath, at.dir \in Bound
      PROVE  seen # NoPath
    <2>1. Executable(host, at)
        BY <1>2, LookIs
    <2>2. Executable(view, at)
        BY <1>2, <2>1, ThereIsSeen DEF view
    <2>3. n.dir # "" => at = n
        BY <1>2, LookIs
    <2>4. n.dir = "" => at = Local(n) \/ at = Usr(n)
        BY <1>2, LookIs
    <2>. HIDE DEF at, seen
    <2>5. CASE n.dir # ""
        BY <1>2, <2>2, <2>3, <2>5, LookIs DEF at, seen
    <2>6. CASE n.dir = ""
        BY <2>2, <2>4, <2>6, LookIs, InPath DEF seen
    <2>. QED
        BY <2>5, <2>6
<1>3. ASSUME seen # NoPath
      PROVE  at # NoPath /\ at.dir \in Bound
    <2>1. CASE n.dir # ""
        <3>1. Executable(view, n) /\ seen = n
            BY <1>3, <2>1, LookIs
        <3>2. Executable(host, n) /\ n.dir \in Bound
            BY <3>1, SeenIsThere DEF view
        <3>. QED
            BY <1>3, <2>1, <3>1, <3>2, LookIs
    <2>2. CASE n.dir = ""
        <3>1. Executable(view, Local(n)) \/ Executable(view, Usr(n))
            BY <1>3, <2>2, LookIs
        <3>2. Executable(host, Local(n)) \/ Executable(host, Usr(n))
            BY <3>1, SeenIsThere, InPath DEF view
        <3>3. at = Local(n) \/ at = Usr(n)
            BY <2>2, <3>2, LookIs
        <3>. QED
            BY <3>3, InPath
    <2>. QED
        BY <2>1, <2>2
<1>. QED
    BY <1>1, <1>2, <1>3 DEF view

LEMMA PreflightIsTold ==
    ASSUME NEW host, NEW vendored, Apart(host, vendored), NEW fo
    PROVE  PreflightTells(host, fo, vendored)
<1>. DEFINE view == SandboxArgs(host, vendored)
<1>. SUFFICES ASSUME \A n \in ToolDependencies(fo) : ~Leaves(host, LookPathIn(host, n)) /\ n.dir # ToolDir
              PROVE  CheckPasses(host, fo, TRUE) <=>
                     \A n \in ToolDependencies(fo) : LookPathIn(view, n) # NoPath
    BY DEF PreflightTells
<1>1. \A n \in ToolDependencies(fo) :
         ~Fatal(ResolveDep(host, n), TRUE) <=> LookPathIn(view, n) # NoPath
    BY OkIsSeen
<1>. QED
    BY <1>1 DEF CheckPasses

------------------------------------------------------------------------------
(* The sleeps between the attempts.  Their sum is over a set, in an order     *)
(* that is not said: it is the same in any.                                   *)

\* The sleeps after the attempts of s.
Slept(s) == (IF 1 \in s THEN 100 ELSE 0) + (IF 2 \in s THEN 200 ELSE 0) + (IF 3 \in s THEN 400 ELSE 0)
            + (IF 4 \in s THEN 800 ELSE 0) + (IF 5 \in s THEN 1600 ELSE 0)

Taken(s) == CHOOSE x \in s : TRUE
IsSum(n, g) == g = [s \in SUBSET (1..n) |-> IF s = {} THEN 0 ELSE Backoff(Taken(s)) + g[s \ {Taken(s)}]]

LEMMA TakenIs == ASSUME NEW n \in 0..5, NEW s \in SUBSET (1..n), s # {} PROVE Taken(s) \in s /\ Taken(s) \in 1..5
<1>1. Taken(s) \in s
    <2>1. \E x \in s : TRUE
        OBVIOUS
    <2>. QED
        BY <2>1 DEF Taken
<1>2. s \subseteq 1..5
    OBVIOUS
<1>. QED
    BY <1>1, <1>2

LEMMA BackoffIs ==
    /\ Backoff(1) = 100 /\ Backoff(2) = 200 /\ Backoff(3) = 400 /\ Backoff(4) = 800 /\ Backoff(5) = 1600
    BY DEF Backoff

LEMMA SleptWithout ==
    ASSUME NEW s, NEW x \in s, x \in 1..5
    PROVE  Slept(s) = Backoff(x) + Slept(s \ {x})
<1>1. x \in {1, 2, 3, 4, 5}
    OBVIOUS
<1>. QED
    BY <1>1, BackoffIs DEF Slept

LEMMA SleepsSum ==
    ASSUME NEW n \in 0..5
    PROVE  MapThenSumSet(Backoff, 1..n) = Slept(1..n)
<1>. DEFINE g == CHOOSE h : IsSum(n, h)
<1>1. MapThenSumSet(Backoff, 1..n) = g[1..n]
    BY DEF MapThenSumSet, MapThenFoldSet, IsSum, Taken
<1>2. \E h : IsSum(n, h)
    <2>. DEFINE h == [s \in SUBSET (1..n) |-> Slept(s)]
    <2>1. ASSUME NEW s \in SUBSET (1..n), s # {}
          PROVE  h[s] = Backoff(Taken(s)) + h[s \ {Taken(s)}]
        <3>1. Taken(s) \in s /\ Taken(s) \in 1..5
            BY <2>1, TakenIs
        <3>. QED
            BY <3>1, SleptWithout
    <2>2. h[{}] = 0
        BY DEF Slept
    <2>. QED
        BY <2>1, <2>2 DEF IsSum
<1>3. IsSum(n, g)
    BY <1>2
<1>. HIDE DEF g
<1>. DEFINE Upto(m) == \A s \in SUBSET (1..n) : Cardinality(s) <= m => g[s] = Slept(s)
<1>4. \A s \in SUBSET (1..n) : IsFiniteSet(s) /\ Cardinality(s) \in Nat
    <2>1. IsFiniteSet(1..n)
        BY FS_Interval
    <2>2. \A s \in SUBSET (1..n) : IsFiniteSet(s)
        BY <2>1, FS_Subset
    <2>. QED
        BY <2>2, FS_CardinalityType
<1>5. Upto(0)
    <2>1. ASSUME NEW s \in SUBSET (1..n), Cardinality(s) <= 0 PROVE s = {}
        BY <1>4, <2>1, FS_EmptySet
    <2>2. g[{}] = Slept({})
        BY <1>3 DEF IsSum, Slept
    <2>. QED
        BY <2>1, <2>2
<1>6. ASSUME NEW m \in Nat, Upto(m) PROVE Upto(m + 1)
    <2>1. ASSUME NEW s \in SUBSET (1..n), Cardinality(s) <= m + 1, s # {} PROVE g[s] = Slept(s)
        <3>1. Taken(s) \in s /\ Taken(s) \in 1..5
            BY <2>1, TakenIs
        <3>2. s \ {Taken(s)} \in SUBSET (1..n) /\ Cardinality(s \ {Taken(s)}) <= m
            <4>1. IsFiniteSet(s) /\ Cardinality(s) \in Nat
                BY <1>4
            <4>2. Cardinality(s \ {Taken(s)}) = Cardinality(s) - 1
                BY <3>1, <4>1, FS_RemoveElement
            <4>3. Cardinality(s) - 1 <= m
                BY <2>1, <4>1
            <4>4. Cardinality(s \ {Taken(s)}) <= m
                BY <4>2, <4>3
            <4>5. s \ {Taken(s)} \in SUBSET (1..n)
                OBVIOUS
            <4>. QED
                BY <4>4, <4>5
        <3>3. g[s \ {Taken(s)}] = Slept(s \ {Taken(s)})
            BY <1>6, <3>2
        <3>4. g[s] = Backoff(Taken(s)) + g[s \ {Taken(s)}]
            BY <1>3, <2>1 DEF IsSum
        <3>. QED
            BY <3>1, <3>3, <3>4, SleptWithout
    <2>2. g[{}] = Slept({})
        BY <1>3 DEF IsSum, Slept
    <2>. QED
        BY <2>1, <2>2
<1>. HIDE DEF Upto
<1>7. Upto(5)
    <2>1. Upto(0 + 1) /\ 0 + 1 = 1
        BY <1>5, <1>6
    <2>2. Upto(1 + 1) /\ 1 + 1 = 2
        BY <1>6, <2>1
    <2>3. Upto(2 + 1) /\ 2 + 1 = 3
        BY <1>6, <2>2
    <2>4. Upto(3 + 1) /\ 3 + 1 = 4
        BY <1>6, <2>3
    <2>5. Upto(4 + 1) /\ 4 + 1 = 5
        BY <1>6, <2>4
    <2>. QED
        BY <2>5
<1>8. Cardinality(1..n) <= 5
    BY FS_Interval
<1>. QED
    BY <1>1, <1>7, <1>8 DEF Upto

LEMMA WaitCovers == ASSUME NEW ms \in Int, NEW maxRetries \in Int PROVE DirectWaitCovers(ms, maxRetries)
<1>. SUFFICES ASSUME maxRetries \in 0..6
              PROVE  MaxTotalDuration(ms, maxRetries)
                     >= Attempts(maxRetries) * Timeout(ms) + MapThenSumSet(Backoff, 1..(Attempts(maxRetries) - 1))
    BY DEF DirectWaitCovers
<1>. DEFINE n == Attempts(maxRetries) - 1
<1>1. n \in 0..5 /\ Attempts(maxRetries) <= maxRetries + 1 /\ Attempts(maxRetries) \in 1..6
    BY DEF Attempts
<1>2. MapThenSumSet(Backoff, 1..n) = Slept(1..n)
    BY <1>1, SleepsSum
<1>3. Slept(1..n) \in Nat /\ Slept(1..n) <= 3100
    BY <1>1 DEF Slept
<1>4. Timeout(ms) \in Nat
    BY DEF Timeout
<1>. HIDE DEF n
<1>5. ASSUME NEW t \in Nat, NEW a \in 1..6, a <= maxRetries + 1
      PROVE  t * (maxRetries + 1) >= a * t
    BY <1>5
<1>6. Timeout(ms) * (maxRetries + 1) >= Attempts(maxRetries) * Timeout(ms)
    BY <1>1, <1>4, <1>5
<1>7. MaxTotalDuration(ms, maxRetries) = Timeout(ms) * (maxRetries + 1) + 5000
    BY DEF MaxTotalDuration
<1>8. Timeout(ms) * (maxRetries + 1) \in Int /\ Attempts(maxRetries) * Timeout(ms) \in Int
    BY <1>1, <1>4
<1>. DEFINE wait == Timeout(ms) * (maxRetries + 1)
            runs == Attempts(maxRetries) * Timeout(ms)
            sleeps == MapThenSumSet(Backoff, 1..n)
<1>9. wait + 5000 >= runs + sleeps
    <2>1. wait \in Int /\ runs \in Int /\ wait >= runs /\ sleeps \in Nat /\ sleeps <= 3100
        BY <1>2, <1>3, <1>6, <1>8
    <2>. HIDE DEF wait, runs, sleeps
    <2>. QED
        BY <2>1
<1>. QED
    BY <1>7, <1>9 DEF n

------------------------------------------------------------------------------
(* The theorems: what is said of every case is true in every state.          *)

FolderCases == {ToolCase(h, fo) : h \in Hosts, fo \in Folders}
WaitCases == {WaitCase(ms, n) : ms \in Times, n \in Retries}

LEMMA CasesAre == ToolSpec => [](in \in FolderCases \union WaitCases)
<1>. DEFINE OK == in \in FolderCases \union WaitCases
<1>1. ToolInit => OK
    BY DEF ToolInit, FolderCases, WaitCases
<1>2. OK /\ [Compute]_<<in, done>> => OK'
    BY DEF Compute, FolderCases, WaitCases
<1>. QED
    BY <1>1, <1>2, PTL DEF ToolSpec

\* The host and the folder of a case.
LEMMA CaseHas ==
    ASSUME in \in FolderCases \union WaitCases, Case("folder")
    PROVE  /\ in.host \in Hosts /\ in.fo \in Folders /\ in.fo \in FolderType
           /\ Apart(in.host, Vendored) /\ Others \subseteq FolderType
<1>1. PICK h \in Hosts, fo \in Folders : in = ToolCase(h, fo)
    BY DEF Case, FolderCases, WaitCases, WaitCase
<1>2. in.host = h /\ in.fo = fo
    BY <1>1 DEF ToolCase
<1>3. Apart(h, Vendored)
    BY ToolsAssumption DEF Apart
<1>. QED
    BY <1>2, <1>3, ToolsAssumption

\* Of a folder that tcs-verify has no complaint of, alone or with any other, tcs-verify and
\* the desk take the same script, and the desk loads it, but for a folder that is a link, a
\* contract whose other fields do not decode and a name that is taken (LoadTools,
\* lintRunScript, resolveRunScript, verifyIntegrity).
THEOREM VerifiedLoad == ToolSpec => []VerifiedToolsLoad
<1>. DEFINE OK == in \in FolderCases \union WaitCases
<1>1. OK => VerifiedToolsLoad
    <2>. SUFFICES ASSUME OK, Case("folder"), NEW o \in Others
                  PROVE  VerifiedLoads(in.host, <<in.fo, o>>) /\ VerifiedLoads(in.host, <<o, in.fo>>)
        BY DEF VerifiedToolsLoad
    <2>1. in.fo \in FolderType /\ o \in FolderType
        BY CaseHas
    <2>2. /\ \A i \in DOMAIN <<in.fo, o>> : <<in.fo, o>>[i] \in FolderType
          /\ \A i \in DOMAIN <<o, in.fo>> : <<o, in.fo>>[i] \in FolderType
        BY <2>1
    <2>. QED
        BY <2>2, VerifiedAreLoaded
<1>. QED
    BY <1>1, CasesAre, PTL

\* The pins that -pin prints for a tool are accepted where they were printed, by the desk and
\* by tcs-verify, and a desk on another host, or after an edit, takes the tool with them only
\* if the hashes of the script and of the interpreter are the same (FormatPins, HashFile).
THEOREM PinsHeld == ToolSpec => []PinsHoldTools
<1>. DEFINE OK == in \in FolderCases \union WaitCases
<1>1. OK => PinsHoldTools
    BY CaseHas, PinsAreTaken DEF PinsHoldTools
<1>. QED
    BY <1>1, CasesAre, PTL

\* The interpreter that a job of a pinned tool finds in the sandbox has the hash that the pin
\* was compared with outside of it, or a link on the host leads out of the sandbox
\* (ResolveInterpreter against sandboxArgs).
THEOREM InterpreterHeld == ToolSpec => []SandboxInterpreterVetted
<1>. DEFINE OK == in \in FolderCases \union WaitCases
<1>1. OK => SandboxInterpreterVetted
    BY CaseHas, InterpretersAreVetted DEF SandboxInterpreterVetted
<1>. QED
    BY <1>1, CasesAre, PTL

\* -check passes a tool if and only if every program it names can be found by its jobs, but
\* for a link that leads out of the sandbox and the tool's own programs (resolveDep against
\* sandboxArgs).
THEOREM PreflightHeld == ToolSpec => []PreflightTellsSandbox
<1>. DEFINE OK == in \in FolderCases \union WaitCases
<1>1. OK => PreflightTellsSandbox
    BY CaseHas, PreflightIsTold DEF PreflightTellsSandbox
<1>. QED
    BY <1>1, CasesAre, PTL

\* A direct call waits at least as long as the attempts and the sleeps of its tool can take,
\* of any timeout and up to six retries (MaxTotalDuration against the backoff of process).
THEOREM WaitHeld == ToolSpec => []DirectToolIsAwaited
<1>. DEFINE OK == in \in FolderCases \union WaitCases
<1>1. OK => DirectToolIsAwaited
    <2>. SUFFICES ASSUME OK, Case("wait") PROVE DirectWaitCovers(in.ms, in.retries)
        BY DEF DirectToolIsAwaited
    <2>1. PICK ms \in Times, n \in Retries : in = WaitCase(ms, n)
        BY DEF Case, FolderCases, WaitCases, ToolCase
    <2>2. in.ms \in Int /\ in.retries \in Int
        BY <2>1, ToolsAssumption DEF WaitCase
    <2>. QED
        BY <2>2, WaitCovers
<1>. QED
    BY <1>1, CasesAre, PTL
=============================================================================
