-------------------------------- MODULE Shim ---------------------------------
(***************************************************************************)
(* tcs-shim: a command line made of shim.yaml and the input, the output of *)
(* the command caught up to a cap, and one document made of it.            *)
(*                                                                         *)
(* An argument is a sequence of "-" and words.  An element of exec is      *)
(* [spread] or the template [if, text, data]: text and the value that data *)
(* refers to, if the one that if refers to is set; NoRef where there is    *)
(* none.  A reference [how, f] reads the field f, and how says in what the *)
(* parser of templates has it:                                             *)
(*   "field"     {{.f}}               an argument that is a FieldNode      *)
(*   "variable"  {{$.f}}              one that is a VariableNode           *)
(*   "nested"    {{print (.f)}}       a FieldNode in a PipeNode            *)
(*   "other"     {{index . "f"}}      anything else                        *)
(*   "whole"     {{.}}, {{json .}}    no field, all of the input           *)
(* The input maps the fields that are there to [list, text, items].        *)
(*                                                                         *)
(* The output is a sequence of pieces: "n" a newline, "1" that digit, "o"  *)
(* and "e" a JSON object without and with a field exit_code, "d" an object *)
(* with a field twice, "s" a JSON string with a byte in it that is not     *)
(* UTF-8, "b" such a byte, "w" a word.                                     *)
(***************************************************************************)
EXTENDS Integers, SequencesExt

CONSTANTS ExactDigits, \* how many digits 1 a float64 holds to the last: 16
          MaxDigits    \* how many make a number that is in its range: 309

NoField == ""
DoubleDash == <<"-", "-">>

------------------------------------------------------------------------------
(* The command line.                                                         *)

IsSpread(e) == "spread" \in DOMAIN e

NoRef == [how |-> "none", f |-> NoField]
Refs(e) == IF IsSpread(e) THEN {} ELSE {e.if, e.data}

\* The fields of references in which referencedFields() finds one.
FoundIn(refs) == {r.f : r \in {x \in refs : x.how \in {"field", "nested"}}}

\* Fault: a condition is not looked into.
ReferencedEmitted(e) == IF IsSpread(e) THEN {e.spread} ELSE FoundIn({e.data})

\* referencedFields(), which goes into pipes and knows only FieldNodes, and the field of
\* a spread.
ReferencedFields(e) == IF IsSpread(e) THEN {e.spread} ELSE FoundIn(Refs(e))

\* validateTemplates(): a contract that declares no properties takes any field.
ValidateTemplates(cfg, declared) ==
    declared # {} => \A i \in DOMAIN cfg.exec : ReferencedFields(cfg.exec[i]) \subseteq declared

\* What a reference prints as; a field that is not there, a list and the whole input are
\* words like any other.
Printed(input, r) ==
    IF r.how = "whole" THEN IF DOMAIN input = {} THEN <<"map[]">> ELSE <<"map[...]">>
    ELSE IF r.f \notin DOMAIN input THEN <<"<no value>">>
    ELSE IF input[r.f].list THEN <<"[...]">> ELSE input[r.f].text

\* The truth of a reference in a template.
Truth(input, r) ==
    IF r.how = "whole" THEN DOMAIN input # {}
    ELSE r.f \in DOMAIN input /\ (IF input[r.f].list THEN input[r.f].items ELSE input[r.f].text) # <<>>

\* renderTemplate() of an element of exec.
RenderTemplate(e, input) ==
    IF e.if # NoRef /\ ~Truth(input, e.if) THEN <<>>
    ELSE e.text \o (IF e.data = NoRef THEN <<>> ELSE Printed(input, e.data))

\* Fault: the branches of an if are taken for the author's text.
InterpolatesOutsideIf(e) == e.data.how \in {"field", "variable"} /\ e.if = NoRef

\* interpolatesInputData() and pipeReferencesField(): what is only tested is no data, nor
\* is what an argument prints that is neither a FieldNode nor a VariableNode.
InterpolatesInputData(e) == e.data.how \in {"field", "variable"}

\* checkFlagValue(), no error.
CheckFlagValue(cfg, text) == cfg.allow \/ text = <<>> \/ Head(text) # "-"

\* One more argument, from the i-th element, or the error.
WithArgument(cfg, acc, i, text, derived) ==
    IF acc.err \/ (derived /\ ~acc.afterDoubleDash /\ ~CheckFlagValue(cfg, text))
    THEN [acc EXCEPT !.err = TRUE]
    ELSE [acc EXCEPT !.argv = Append(@, [text |-> text, from |-> i]),
                     !.afterDoubleDash = @ \/ (~derived /\ text = DoubleDash)]

\* The items of a list that the i-th element spreads.
WithItems(cfg, acc, i, items) == FoldLeft(LAMBDA a, t : WithArgument(cfg, a, i, t, TRUE), acc, items)

\* The i-th element: an empty string is dropped, an empty item of a spread is not.
WithElement(cfg, input, acc, i) ==
    LET e == cfg.exec[i] IN
    IF IsSpread(e)
    THEN IF e.spread \notin DOMAIN input THEN acc
         ELSE IF ~input[e.spread].list THEN [acc EXCEPT !.err = TRUE]
         ELSE WithItems(cfg, acc, i, input[e.spread].items)
    ELSE IF RenderTemplate(e, input) = <<>> THEN acc
         ELSE WithArgument(cfg, acc, i, RenderTemplate(e, input), InterpolatesInputData(e))

\* buildArgv().
BuildArgv(cfg, input) ==
    FoldLeft(LAMBDA acc, i : IF acc.err THEN acc ELSE WithElement(cfg, input, acc, i),
             [argv |-> <<>>, afterDoubleDash |-> FALSE, err |-> FALSE], [i \in DOMAIN cfg.exec |-> i])

------------------------------------------------------------------------------
(* The output.                                                               *)

\* Fault: what fills the cap to the last byte is too much.
CapWriterTight(max, writes) ==
    FoldLeft(LAMBDA w, p :
               IF w.overflow THEN w
               ELSE IF Len(p) >= max - Len(w.buf)
               THEN [buf |-> w.buf \o SubSeq(p, 1, max - Len(w.buf)), overflow |-> TRUE]
               ELSE [w EXCEPT !.buf = @ \o p],
             [buf |-> <<>>, overflow |-> FALSE], writes)

\* A capWriter after these calls of Write().
CapWriter(max, writes) ==
    FoldLeft(LAMBDA w, p :
               IF w.overflow THEN w
               ELSE IF Len(p) > max - Len(w.buf)
               THEN [buf |-> w.buf \o SubSeq(p, 1, max - Len(w.buf)), overflow |-> TRUE]
               ELSE [w EXCEPT !.buf = @ \o p],
             [buf |-> <<>>, overflow |-> FALSE], writes)

\* isSuccess().
IsSuccess(code, allowed) == IF allowed = {} THEN code = 0 ELSE code \in allowed

Valid(b) == \A i \in DOMAIN b : b[i] \notin {"b", "s"}
Number(b) == b # <<>> /\ \A i \in DOMAIN b : b[i] = "1"
JSON(b) == b \in {<<"o">>, <<"e">>, <<"d">>, <<"s">>} \/ (Number(b) /\ Len(b) <= MaxDigits)

\* What json.Unmarshal() into an any makes of JSON: U+FFFD where a string is no UTF-8, the
\* last one of the fields of a name, and the float64 nearest to a number.
Unmarshal(b) == IF b = <<"s">> THEN <<"U+FFFD">>
                ELSE IF b = <<"d">> THEN <<"o">>
                ELSE IF Number(b) /\ Len(b) > ExactDigits THEN <<"1e+16">>
                ELSE b

TrimSpace(b) == LET ink == {i \in DOMAIN b : b[i] # "n"} IN
                IF ink = {} THEN <<>> ELSE SubSeq(b, Min(ink), Max(ink))

\* strings.Split() at the newlines.
Split(s) == FoldLeft(LAMBDA lines, c : IF c = "n" THEN Append(lines, <<>>)
                                       ELSE [lines EXCEPT ![Len(lines)] = Append(@, c)],
                     << <<>> >>, s)

\* Fault: every newline at the end is dropped.
SplitLinesTrimmed(b) == IF TrimSpace(b) = <<>> THEN <<>> ELSE Split(TrimSpace(b))

\* splitLines().
SplitLines(b) == LET s == IF b # <<>> /\ Last(b) = "n" THEN Front(b) ELSE b
                 IN IF s = <<>> THEN <<>> ELSE Split(s)

Fails(why) == [err |-> why, doc |-> <<>>]
Answer(doc) == [err |-> "", doc |-> doc]

\* A document with a field, and with the code of the command if it is asked for.
Document(cfg, field, data, code) ==
    [k \in {field} \union (IF cfg.includeExitCode THEN {"exit_code"} ELSE {}) |->
       IF cfg.includeExitCode /\ k = "exit_code" THEN code ELSE data]

\* buildOutput(): the document of the json mode is under "$", exit_code beside it.
BuildOutput(cfg, b, code) ==
    LET field == IF cfg.field = NoField THEN "data" ELSE cfg.field
        lines == SplitLines(b)
        Under(data) == Answer(Document(cfg, field, data, code))
    IN CASE cfg.mode = "json" ->
              IF ~JSON(TrimSpace(b)) \/ (cfg.includeExitCode /\ TrimSpace(b) \notin {<<"o">>, <<"d">>})
              THEN Fails("output")
              ELSE Answer(Document(cfg, "$", Unmarshal(TrimSpace(b)), code))
         [] cfg.mode = "raw" -> IF Valid(b) THEN Under(b) ELSE Fails("output")
         [] cfg.mode = "base64" -> Under(b)
         [] cfg.mode = "lines" -> IF Valid(b) THEN Under(lines) ELSE Fails("output")
         [] cfg.mode = "jsonl" -> IF \A k \in DOMAIN lines : JSON(lines[k])
                                  THEN Under([k \in DOMAIN lines |-> Unmarshal(lines[k])])
                                  ELSE Fails("output")

\* The cap on stdout: 32 MiB unless the configuration has one.
DefaultMaxOutput == 32 * 1024 * 1024
MaxOut(cfg) == IF cfg.max <= 0 THEN DefaultMaxOutput ELSE cfg.max

\* run(): child is the command, if it can be started, with what it writes and its code.
Run(cfg, declared, input, child) ==
    LET args == BuildArgv(cfg, input)
        stdout == CapWriter(MaxOut(cfg), child.writes)
    IN CASE ~ValidateTemplates(cfg, declared) -> Fails("config")
         [] ValidateTemplates(cfg, declared) /\ (args.err \/ args.argv = <<>>) -> Fails("command line")
         [] OTHER -> IF ~child.starts THEN Fails("not started")
                     ELSE IF stdout.overflow THEN Fails("too much")
                     ELSE IF ~IsSuccess(child.code, cfg.success) THEN Fails("failed")
                     ELSE BuildOutput(cfg, stdout.buf, child.code)

------------------------------------------------------------------------------
(* What the shim promises.                                                   *)

Dashes(text) == text # <<>> /\ Head(text) = "-"

\* The i-th argument is the author's text, whole.
Authors(cfg, argv, i) == LET e == cfg.exec[argv[i].from] IN ~IsSpread(e) /\ e.data = NoRef

\* It is printed by what interpolatesInputData() does not look into.
Overlooked(cfg, argv, i) ==
    LET e == cfg.exec[argv[i].from] IN ~IsSpread(e) /\ e.data.how \in {"nested", "other", "whole"}

\* An argument that looks like a flag is the author's text, or stands behind a literal
\* "--", however elements are dropped and lists spread before it; but for input that an
\* element prints without a FieldNode or VariableNode for its argument, which becomes a
\* flag and the "--" itself.
FlagsAreTheAuthors(cfg, input) ==
    LET r == BuildArgv(cfg, input)
        Own(i) == Authors(cfg, r.argv, i) \/ Overlooked(cfg, r.argv, i)
    IN ~r.err /\ ~cfg.allow =>
       \A i \in DOMAIN r.argv :
          Dashes(r.argv[i].text) => Own(i) \/ \E k \in 1..(i - 1) : Own(k) /\ r.argv[k].text = DoubleDash

\* The fields a configuration reads where referencedFields() finds none.
References(cfg) == UNION {Refs(cfg.exec[i]) : i \in DOMAIN cfg.exec}
Missed(cfg) == {r.f : r \in {x \in References(cfg) : x.how \in {"variable", "other"}}}
ReadsWhole(cfg) == \E r \in References(cfg) : r.how = "whole"

Agree(input, other, fields) ==
    \A f \in fields : /\ f \in DOMAIN input <=> f \in DOMAIN other
                      /\ f \in DOMAIN input => input[f] = other[f]

\* The command line depends on nothing but the fields the contract declares, when it
\* declares any, and those that are read where referencedFields() does not see it.
ReadsDeclared(cfg, declared, input, other) ==
    (/\ declared # {} /\ ValidateTemplates(cfg, declared) /\ ~ReadsWhole(cfg)
     /\ Agree(input, other, declared \union Missed(cfg)))
    => BuildArgv(cfg, input) = BuildArgv(cfg, other)

\* The cap is exact, in whatever pieces the output comes: nothing is lost below it, and
\* an output that goes over it is found out.
CapExact(max, writes) ==
    LET all == FlattenSeq(writes)
        w == CapWriter(max, writes)
    IN /\ w.overflow <=> Len(all) > max
       /\ w.buf = IF Len(all) > max THEN SubSeq(all, 1, max) ELSE all

\* The lines with newlines between them.
Joined(lines) == IF lines = <<>> THEN <<>>
                 ELSE FoldLeft(LAMBDA text, l : text \o <<"n">> \o l, Head(lines), Tail(lines))

\* The lines that a text is, but for its last newline.
AreLinesOf(lines, b) ==
    \/ Joined(lines) = b /\ (b = <<>> \/ Last(b) # "n")
    \/ lines # <<>> /\ Joined(lines) \o <<"n">> = b

\* JSON that Unmarshal() does not keep: a string that is no UTF-8, a field that is there
\* twice, a number with more digits than a float64 has.
Lossy(b) == b \in {<<"s">>, <<"d">>} \/ (Number(b) /\ Len(b) > ExactDigits)

\* Line by line the same, but for what Unmarshal() does not keep.
SameLines(items, lines) ==
    DOMAIN items = DOMAIN lines /\ \A k \in DOMAIN lines : items[k] = lines[k] \/ Lossy(lines[k])

\* A document from which the output can be made again, but for what is lossy.  It cannot
\* when the field is named exit_code like the code beside it, or when the output is one
\* empty line.
Holds(cfg, doc, b) ==
    LET field == IF cfg.field = NoField THEN "data" ELSE cfg.field
        taken == cfg.includeExitCode /\ field = "exit_code"
    IN /\ cfg.mode = "json" => doc["$"] = TrimSpace(b) \/ Lossy(TrimSpace(b))
       /\ cfg.mode \in {"raw", "base64"} => taken \/ doc[field] = b
       /\ cfg.mode \in {"lines", "jsonl"} => b = <<"n">> \/ AreLinesOf(SplitLines(b), b)
       /\ cfg.mode = "lines" => taken \/ doc[field] = SplitLines(b)
       /\ cfg.mode = "jsonl" => taken \/ SameLines(doc[field], SplitLines(b))

\* An answer is of a command that succeeded, with its code, and of all it wrote.
AnswerFaithful(cfg, input, child) ==
    LET r == Run(cfg, {}, input, child)
        all == FlattenSeq(child.writes)
    IN r.err = "" =>
       /\ child.starts /\ IsSuccess(child.code, cfg.success) /\ Len(all) <= MaxOut(cfg)
       /\ cfg.includeExitCode => r.doc["exit_code"] = child.code
       /\ Holds(cfg, r.doc, all)
=============================================================================
