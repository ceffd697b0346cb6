------------------------------ MODULE MCContract ------------------------------
(* What the program computes from its files, checked against what is meant,   *)
(* on small inputs: TLC picks a case, a step computes it.                     *)
EXTENDS SchemaCases, ToolCases, ShimCases, TLC

vars == <<in, done>>

\* Schemas and values.
Empty == [k \in {} |-> ""]
Leaf == {Empty, NotASchema, [type |-> "strng"], [type |-> "string", pattern |-> "x"], [const |-> Num(2)]}
        \union {[type |-> t] : t \in {"string", "integer", "number", "boolean", "null", "object", "array"}}
        \union {[type |-> "string", enum |-> {Str("a", 1, 1)}], [type |-> "string", minLength |-> 4],
                [type |-> "string", maxLength |-> 2], [type |-> "integer", minimum |-> 2],
                [type |-> "integer", maximum |-> 2], [type |-> "number", minimum |-> 1, maximum |-> 3],
                [type |-> "boolean", enum |-> {Bool(TRUE)}], [maxLength |-> 2], [type |-> "string", minLength |-> 3]}
Misfits == {[type |-> t, enum |-> Misfit] : t \in {"string", "null"}}
           \union {[type |-> "integer", minimum |-> Misfit], [type |-> "string", maxLength |-> Misfit],
                   [type |-> "array", minItems |-> Misfit], [type |-> "object", required |-> Misfit],
                   [type |-> "object", required |-> {"p", Misfit}],
                   [type |-> "object", properties |-> Misfit, additionalProperties |-> "false"]}
Item == {NotASchema, Empty, [type |-> "string"], [type |-> "strng"], [type |-> "integer", minimum |-> 2]}
Branches == UNION {[1..n -> Leaf] : n \in 0..2}
Few == {<<NotASchema>>, <<[type |-> "integer"], [type |-> "number"]>>, <<[type |-> "string"], [type |-> "null"]>>}
Flat == Leaf \union Misfits \union {[oneOf |-> b] : b \in Branches} \union {[anyOf |-> b] : b \in Branches}
        \union {[type |-> "string", oneOf |-> b] : b \in Few}
        \union {[type |-> "object", properties |-> [p |-> f], required |-> r, additionalProperties |-> a] :
                  f \in Item, r \in SUBSET {"p", "q"}, a \in {"true", "false", "schema"}}
        \union {[type |-> "array", items |-> f, minItems |-> n, maxItems |-> 2] : f \in Item, n \in {-1, 0, 2, 3, 4}}
Nested == {[k \in {w} |-> b] : w \in {"oneOf", "anyOf"},
                               b \in {<<[oneOf |-> c], d>> : c \in Few, d \in Item}}
          \union {[type |-> "object", properties |-> [p |-> [anyOf |-> c]]] : c \in Few}
          \union {[type |-> "array", items |-> [type |-> "object", properties |-> [p |-> f],
                                                additionalProperties |-> "false"]] : f \in Item}

Scalar == {Null, Bool(TRUE), Str("a", 1, 1), Str("ab", 2, 2)} \union {Num(n) : n \in 0..4}
Bag == {Obj(Empty)} \union {Obj([p |-> v]) : v \in Scalar} \union {Obj([q |-> Null])}
       \union {Obj([p |-> v, q |-> Null]) : v \in Scalar}
Accented == Str("e-acute", 2, 1)
MCValues == Scalar \union {Accented, Arr(<<Accented>>)} \union Bag \union {Arr(<<>>)}
         \union {Arr(<<v>>) : v \in Scalar \union Bag}
         \union {Arr(<<v, Num(2)>>) : v \in Scalar}

Below == {f.items : f \in {s \in Nested : Has(s, "items")}}
         \union {[oneOf |-> c] : c \in Few} \union {[anyOf |-> c] : c \in Few}
MCSchemas == Flat \union Nested \union Below
MCDepth == [s \in MCSchemas |-> IF s \in Leaf \union Misfits THEN 0 ELSE IF s \in Flat THEN 1
                                ELSE IF s \in Below THEN 2 ELSE 3]

\* Hosts: a program "py" in the two directories of PATH and in /opt.
File(hash) == [Absent EXCEPT !.kind = "file", !.exec = TRUE, !.hash = hash]
Plain(hash) == [File(hash) EXCEPT !.exec = FALSE]
LinkOut == [Absent EXCEPT !.kind = "link", !.to = Path("/var/usrlocal/bin", "py")]
LinkIn == [LinkOut EXCEPT !.to = Path("/usr/bin", "py")]
Programs == {Path(d, "py") : d \in {"/usr/local/bin", "/usr/bin", "/opt", "/var/usrlocal/bin"}}
            \union {Path("/usr/bin", "tcs-shim")}
HostOf(lo, us, op, sh) ==
    [p \in Programs |-> CASE p.base = "tcs-shim" -> sh [] p.dir = "/usr/local/bin" -> lo
                          [] p.dir = "/usr/bin" -> us [] p.dir = "/opt" -> op [] OTHER -> File("p2")]
MCHosts == {HostOf(lo, us, op, sh) : lo \in {Absent, File("p1"), Plain("p1"), LinkOut, LinkIn},
            us \in {Absent, File("p1"), File("p2")}, op \in {Absent, File("p2")}, sh \in {Absent, File("s")}}
MCVendored == [p \in {Path(ToolDir, "py")} |-> File("p2")]

Bangs == {<<>>, <<Path("/usr/bin", "env"), Path("", "-"), Path("", "py")>>, <<Path("/usr/bin", "env")>>,
          <<Path("/opt", "py")>>, <<Path(ToolDir, "py")>>}
Scripts == {Absent, [File("x1") EXCEPT !.kind = "dir"], Plain("x1"), File(Unreadable)}
           \union {[File("x1") EXCEPT !.bang = b] : b \in Bangs}
Folder(f, g) == [linked |-> FALSE, yaml |-> "good", name |-> "a", clean |-> TRUE, runPin |-> NoPin, interpPin |-> NoPin,
                 shim |-> NoShim, run |-> [c \in {"run.sh", "run.py", "run"} |->
                                             IF c = "run.sh" THEN f ELSE IF c = "run.py" THEN g ELSE Absent]]
MCFolders == {[Folder(f, g) EXCEPT !.runPin = rp, !.interpPin = ip] :
              f \in Scripts, g \in {Absent, File("x2")}, rp \in {NoPin, "x1", "x2"}, ip \in {NoPin, "p1", "p2"}}
           \union {[Folder(File("x1"), Absent) EXCEPT !.shim = s] :
                     s \in {Templated, Path("", "py"), Path("/opt", "py")}}
           \union {[Folder(File("x1"), Absent) EXCEPT !.yaml = y, !.clean = c] :
                     y \in {"none", "bad", "rest"}, c \in BOOLEAN}
           \union {[Folder(f, Absent) EXCEPT !.linked = TRUE] : f \in Scripts}
MCTimes == {-1, 0, 1, 100, 1000, 60000}
MCRetries == -1..9
MCOthers == {[Folder(File("x2"), Absent) EXCEPT !.name = n, !.linked = l] : n \in {"a", "b"}, l \in BOOLEAN}
MCOtherHosts == {HostOf(lo, us, Absent, Absent) : lo \in {Absent, File("p2")}, us \in {Absent, File("p1")}}

\* Command lines: templates and spreads over two fields, read in every way.
Read(how, f) == [how |-> how, f |-> f]
F == Read("field", "f")
G == Read("field", "g")
Template(if, text, data) == [if |-> if, text |-> text, data |-> data]
Exec == {Template(NoRef, <<"-", "-">>, NoRef), Template(NoRef, <<"-", "w">>, NoRef),
         Template(F, <<"-", "w">>, NoRef), Template(F, <<"w">>, G), Template(NoRef, <<>>, G),
         Template(NoRef, <<"-">>, G), Template(F, <<>>, G), [spread |-> "f"]}
Ways == {Read(h, "g") : h \in {"variable", "nested", "other"}} \union {Read("whole", "")}
OtherExec == {Template(NoRef, <<>>, r) : r \in Ways} \union {Template(r, <<"-", "w">>, NoRef) : r \in Ways}
OtherConfigs(n) == [1..n -> Exec \union OtherExec]
Cfg == [exec |-> <<>>, allow |-> FALSE, max |-> 3, success |-> {}, mode |-> "raw", field |-> "",
        includeExitCode |-> FALSE]
Text(t) == [list |-> FALSE, text |-> t, items |-> <<>>]
List(q) == [list |-> TRUE, text |-> <<>>, items |-> q]
MCInputs == UNION {[d -> {Text(<<>>), Text(<<"w">>), Text(<<"-", "-">>), List(<<<<"w">>, <<"-", "w">>>>)}] :
                     d \in SUBSET {"f", "g"}}
MCConfigs == {[Cfg EXCEPT !.exec = e] : e \in [1..3 -> Exec] \union OtherConfigs(1) \union OtherConfigs(2)}

\* Outputs, in up to three writes, and what is made of them.
Pieces == {<<>>, <<"n">>, <<"1">>, <<"w">>, <<"b">>, <<"s">>, <<"o">>, <<"e">>, <<"d">>, <<"1", "n">>,
           <<"n", "n">>, <<"1", "1">>}
Command == [Cfg EXCEPT !.exec = <<Template(NoRef, <<"w">>, NoRef)>>]
MCRuns == {[Command EXCEPT !.mode = o, !.field = f, !.includeExitCode = x, !.success = s] :
           o \in Modes, f \in {"", "matches", "exit_code"}, x \in BOOLEAN, s \in {{}, {0, 1}}}
          \union {[Command EXCEPT !.mode = o, !.max = n] : o \in Modes, n \in {-1, 0}}
MCOutputs == UNION {[1..n -> Pieces] : n \in 0..3}
MCCaps == 1..5
MCChars == STRING

Init ==
    /\ done = FALSE
    /\ \/ \E s \in Schemas : AsSchema(s) /\ in = GateCase(s)
       \/ \E h \in Hosts, fo \in Folders : in = ToolCase(h, fo)
       \/ \E ms \in Times, n \in Retries : in = WaitCase(ms, n)
       \/ \E cfg \in Configs : in = ArgvCase(cfg)
       \/ \E w \in Outputs : in = OutputCase(w)

Spec == Init /\ [][Compute]_vars
=============================================================================
