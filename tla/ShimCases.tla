------------------------------- MODULE ShimCases -------------------------------
(***************************************************************************)
(* Configurations of tcs-shim, the inputs their command lines are built    *)
(* from, and the outputs their commands write.                             *)
(***************************************************************************)
EXTENDS Shim, Cases

CONSTANTS Chars,    \* what a text is made of
          Fields,   \* the names of the fields of an input
          Configs,  \* the configurations
          Inputs,   \* the inputs
          MaxExec,  \* how long a command line is compared for every two inputs
          Outputs,  \* what a command writes, call by call
          Caps,     \* the caps
          Runs,     \* the configurations of the commands that are run
          Codes     \* their codes

RefType == [how : {"field", "variable", "nested", "other"}, f : Fields]
           \union [how : {"none", "whole"}, f : {NoField}]
ElementType == [spread : Fields] \union [if : RefType, text : Seq(Chars), data : RefType]
ValueType == [list : BOOLEAN, text : Seq(Chars), items : Seq(Seq(Chars))]

Modes == {"json", "raw", "lines", "jsonl", "base64"}
Children(writes) == [starts : BOOLEAN, writes : {writes}, code : Codes]

\* A spread names its field (main.go:271), and a configuration its mode (main.go:210).
ASSUME ShimAssumption ==
    /\ NoField \notin Fields /\ {"<no value>", "[...]", "map[]", "map[...]"} \subseteq Chars
    /\ ExactDigits \in Nat /\ MaxDigits \in Nat
    /\ \A cfg \in Configs : cfg.exec \in Seq(ElementType)
    /\ \A input \in Inputs : \A f \in DOMAIN input : input[f] \in ValueType
    /\ Outputs \subseteq Seq(Seq(Chars)) /\ Caps \subseteq Nat
    /\ \A cfg \in Runs : cfg.mode \in Modes /\ cfg.max \in Int

ArgvCase(cfg) == [of |-> "argv", cfg |-> cfg]
OutputCase(writes) == [of |-> "output", writes |-> writes]

ShimInit ==
    /\ done = FALSE
    /\ (\E cfg \in Configs : in = ArgvCase(cfg)) \/ \E w \in Outputs : in = OutputCase(w)

ShimSpec == ShimInit /\ [][Compute]_<<in, done>>

\* No field of an input becomes a flag, unless the author allows it or hides it from the
\* walk that looks for fields.
ShimFlagsAreTheAuthors == Case("argv") => \A i \in Inputs : FlagsAreTheAuthors(in.cfg, i)

\* Two inputs that differ in nothing the contract declares, and in no field that the check
\* of the templates misses, make the same command line.
ShimReadsDeclared == Case("argv") /\ Len(in.cfg.exec) <= MaxExec =>
                        \A d \in SUBSET Fields, i, o \in Inputs : ReadsDeclared(in.cfg, d, i, o)

\* The cap loses nothing below it and finds out what is above it.
ShimCapExact == Case("output") => \A max \in Caps : CapExact(max, in.writes)

\* An answer of tcs-shim is all that a command that succeeded wrote, but for JSON that does
\* not survive decoding.
ShimAnswerFaithful ==
    Case("output") => \A cfg \in Runs, child \in Children(in.writes) : AnswerFaithful(cfg, <<>>, child)
=============================================================================
