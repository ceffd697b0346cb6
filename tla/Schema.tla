-------------------------------- MODULE Schema -------------------------------
(***************************************************************************)
(* The contract's schemas: the gate every input and every result passes    *)
(* (src/internal/tcs/validator.go) and the linter of tcs-verify (lint.go). *)
(*                                                                         *)
(* A JSON value is a record with its type t.  A schema is a record, or a   *)
(* function on strings, whose domain is the keywords it has.  A keyword    *)
(* whose value is not of the type it calls for, a bound that is a string,  *)
(* say, has the value Misfit, and so has what is no string in a list of    *)
(* required names.  What should be a schema and is not is NotASchema; a    *)
(* list of branches that is no list is the empty one, which both treat     *)
(* alike; a type that is no string is one that is no type.                 *)
(***************************************************************************)
EXTENDS Integers, Sequences, FiniteSets

CONSTANTS Schemas, \* what stands where a schema may, with all its parts
          Values,  \* the JSON values, with all their parts
          Depth,   \* how deep a schema is nested
          Misfit   \* what a keyword has that does not fit it

NotASchema == [notASchema |-> TRUE]
AsSchema(raw) == "notASchema" \notin DOMAIN raw

Has(s, k) == k \in DOMAIN s
Fit(s, k) == Has(s, k) /\ s[k] # Misfit
Elements(q) == {q[i] : i \in DOMAIN q}

\* Numbers, bounds too, are counted in halves, so that some are no integers.  A string has
\* its length in bytes and in characters; ascii says that all strings of a value have one.
Null == [t |-> "null", ascii |-> TRUE]
Bool(b) == [t |-> "boolean", b |-> b, ascii |-> TRUE]
Num(n) == [t |-> "number", half |-> n, ascii |-> TRUE]
Str(c, bytes, chars) == [t |-> "string", s |-> c, bytes |-> bytes, chars |-> chars, ascii |-> bytes = chars]
Arr(q) == [t |-> "array", items |-> q, ascii |-> \A i \in DOMAIN q : q[i].ascii]
Obj(m) == [t |-> "object", props |-> m, ascii |-> \A p \in DOMAIN m : m[p].ascii]

Integral(v) == v.t = "number" /\ v.half % 2 = 0

\* What of a schema is a schema again.
Parts(s) == (IF Has(s, "items") THEN {s.items} ELSE {})
            \union (IF Fit(s, "properties") THEN Elements(s.properties) ELSE {})
            \union UNION {Elements(s[k]) : k \in DOMAIN s \intersect {"oneOf", "anyOf"}}

ValueTypes == {"null", "boolean", "number", "string", "array", "object"}
Lengths == {"minItems", "maxItems", "minLength", "maxLength"}

\* What is in a value.
Members(v) == IF v.t = "array" THEN v.items ELSE IF v.t = "object" THEN v.props ELSE <<>>

\* A document is finite, and all of it is at hand.
ASSUME SchemaAssumption ==
    /\ Depth \in [Schemas -> Nat]
    /\ \A s \in Schemas : /\ \A q \in Parts(s) : q \in Schemas /\ Depth[q] < Depth[s]
                          /\ \A k \in DOMAIN s \intersect {"oneOf", "anyOf"} : s[k] \in Seq(Elements(s[k]))
                          /\ \A k \in DOMAIN s \intersect Lengths : s[k] = Misfit \/ s[k] \in Int
    /\ \A v \in Values :
         /\ v.t \in ValueTypes
         /\ v.t = "string" => v.bytes \in Nat /\ (v.ascii => v.bytes = v.chars)
         /\ v.t = "array" => v.items \in Seq(Elements(v.items))
         /\ \A x \in Elements(Members(v)) : x \in Values /\ (v.ascii => x.ascii)

\* A bound that is absent, or is no number, bounds nothing.
AtLeast(s, k, n) == Fit(s, k) => n >= s[k]
AtMost(s, k, n) == Fit(s, k) => n <= s[k]

\* checkBounds().
CheckBounds(s, v) == AtLeast(s, "minimum", v.half) /\ AtMost(s, "maximum", v.half)

\* int() of a number, and the bounds of a length, which are made integers by it.
Truncated(half) == IF half >= 0 THEN half \div 2 ELSE -((-half) \div 2)
CheckLength(s, least, most, n) == /\ Fit(s, least) => n >= Truncated(s[least])
                                  /\ Fit(s, most) => n <= Truncated(s[most])

\* propsContains().
PropsContains(s, p) == Fit(s, "properties") /\ p \in DOMAIN s.properties

\* Fault: oneOf is anyOf.
OneOfAny(accepts, branches, v) ==
    \E i \in DOMAIN branches : AsSchema(branches[i]) /\ accepts[<<branches[i], v>>]

\* validateOneOf() and validateAnyOf(): a branch that is no schema matches nothing.
Matching(accepts, branches, v) ==
    {i \in DOMAIN branches : AsSchema(branches[i]) /\ accepts[<<branches[i], v>>]}
OneOf(accepts, branches, v) == Cardinality(Matching(accepts, branches, v)) = 1
AnyOf(accepts, branches, v) == Matching(accepts, branches, v) # {}

\* Fault: what the contract does not name is let through.
ObjectAcceptsUnnamed(accepts, s, v) ==
    /\ v.t = "object"
    /\ Fit(s, "required") => s.required \ {Misfit} \subseteq DOMAIN v.props
    /\ Fit(s, "properties") =>
         \A p \in DOMAIN s.properties \intersect DOMAIN v.props : accepts[<<s.properties[p], v.props[p]>>]

\* The cases of validateValue(), each with the keywords it reads; one that does not fit is
\* passed over.
ObjectAccepts(accepts, s, v) ==
    /\ v.t = "object"
    /\ Fit(s, "required") => s.required \ {Misfit} \subseteq DOMAIN v.props
    /\ Fit(s, "properties") =>
         \A p \in DOMAIN s.properties \intersect DOMAIN v.props :
            AsSchema(s.properties[p]) => accepts[<<s.properties[p], v.props[p]>>]
    /\ Has(s, "additionalProperties") /\ s.additionalProperties = "false" =>
         \A p \in DOMAIN v.props : PropsContains(s, p)

ArrayAccepts(accepts, s, v) ==
    /\ v.t = "array"
    /\ Has(s, "items") /\ AsSchema(s.items) => \A i \in DOMAIN v.items : accepts[<<s.items, v.items[i]>>]
    /\ CheckLength(s, "minItems", "maxItems", Len(v.items))

\* The length is that of a Go string, in bytes.
StringAccepts(s, v) ==
    /\ v.t = "string"
    /\ Fit(s, "enum") => v \in s.enum
    /\ CheckLength(s, "minLength", "maxLength", v.bytes)

\* One level of validateValue(), with accepts for the levels below: oneOf and anyOf stand
\* for the whole schema, and a type it does not know accepts anything.
AcceptsBy(accepts, s, v) ==
    IF Has(s, "oneOf") THEN OneOf(accepts, s.oneOf, v)
    ELSE IF Has(s, "anyOf") THEN AnyOf(accepts, s.anyOf, v)
    ELSE IF ~Has(s, "type") THEN TRUE
    ELSE CASE s.type = "object" -> ObjectAccepts(accepts, s, v)
           [] s.type = "array" -> ArrayAccepts(accepts, s, v)
           [] s.type = "string" -> StringAccepts(s, v)
           [] s.type = "integer" -> Integral(v) /\ CheckBounds(s, v)
           [] s.type = "number" -> v.t = "number" /\ CheckBounds(s, v)
           [] s.type = "boolean" -> v.t = "boolean"
           [] s.type = "null" -> v.t = "null"
           [] OTHER -> TRUE

\* validateValue(), no violation.
Accepts[p \in Schemas \X Values] == AcceptsBy(Accepts, p[1], p[2])

KnownTypes == {"object", "array", "string", "integer", "number", "boolean", "null"}
KnownKeywords == {"type", "required", "properties", "additionalProperties", "items", "minItems",
                  "maxItems", "enum", "minLength", "maxLength", "minimum", "maximum", "oneOf", "anyOf",
                  "summary", "description", "title"}

\* Fault: the branches are not looked into.
BranchesShallow(clean, s, k) ==
    Has(s, k) => s[k] # <<>> /\ \A i \in DOMAIN s[k] : AsSchema(s[k][i])

LintBranches(clean, s, k) ==
    Has(s, k) => s[k] # <<>> /\ \A i \in DOMAIN s[k] : AsSchema(s[k][i]) /\ clean[s[k][i]]

\* One level of lintSchema(), with clean for the levels below: what a keyword has is not
\* looked at, but for a type, branches and the schemas among the properties.
CleanBy(clean, s) ==
    /\ DOMAIN s \subseteq KnownKeywords
    /\ Has(s, "type") => s.type \in KnownTypes
    /\ Fit(s, "properties") =>
         \A p \in DOMAIN s.properties : AsSchema(s.properties[p]) /\ clean[s.properties[p]]
    /\ Has(s, "items") /\ AsSchema(s.items) => clean[s.items]
    /\ LintBranches(clean, s, "oneOf") /\ LintBranches(clean, s, "anyOf")

\* lintSchema(), nothing to report.
LintClean[s \in Schemas] == CleanBy(LintClean, s)

------------------------------------------------------------------------------
(* What a schema means in JSON Schema: every keyword it has holds, and one    *)
(* that is for values of another type says nothing of this one.  A length is *)
(* in characters.  With a keyword that does not fit it is no schema, and no  *)
(* value is what it means.                                                   *)

WellFormed(s) == (\A k \in DOMAIN s : s[k] # Misfit) /\ (Has(s, "required") => Misfit \notin s.required)

MeansBy(means, s, v) ==
    /\ WellFormed(s)
    /\ Has(s, "type") => \/ v.t = s.type
                         \/ s.type = "integer" /\ Integral(v)
    /\ Has(s, "enum") => v \in s.enum
    /\ Has(s, "const") => v = s.const
    /\ Has(s, "oneOf") => \E i \in DOMAIN s.oneOf :
                            {n \in DOMAIN s.oneOf : means[<<s.oneOf[n], v>>]} = {i}
    /\ Has(s, "anyOf") => \E i \in DOMAIN s.anyOf : means[<<s.anyOf[i], v>>]
    /\ v.t = "object" => /\ Has(s, "required") => \A p \in s.required : p \in DOMAIN v.props
                         /\ \A p \in DOMAIN v.props :
                              \/ PropsContains(s, p) /\ means[<<s.properties[p], v.props[p]>>]
                              \/ ~PropsContains(s, p) /\ ~(Has(s, "additionalProperties")
                                                           /\ s.additionalProperties = "false")
    /\ v.t = "array" => /\ Has(s, "items") => \A i \in DOMAIN v.items : means[<<s.items, v.items[i]>>]
                        /\ AtLeast(s, "minItems", 2 * Len(v.items)) /\ AtMost(s, "maxItems", 2 * Len(v.items))
    /\ v.t = "string" => AtLeast(s, "minLength", 2 * v.chars) /\ AtMost(s, "maxLength", 2 * v.chars)
    /\ v.t = "number" => CheckBounds(s, v)

Means[p \in Schemas \X Values] == MeansBy(Means, p[1], p[2])

\* The keywords a type reads.
ReadBy == [object |-> {"required", "properties", "additionalProperties"},
           array |-> {"items", "minItems", "maxItems"}, string |-> {"enum", "minLength", "maxLength"},
           integer |-> {"minimum", "maximum"}, number |-> {"minimum", "maximum"},
           boolean |-> {}, null |-> {}]

\* What the linter leaves to the author: a keyword has a value of its type, and stands with
\* a type that reads it; a bound of a length is an integer; oneOf and anyOf stand alone;
\* additionalProperties says yes or no; items is a schema.
PlacedBy(placed, s) ==
    /\ WellFormed(s) /\ \A k \in DOMAIN s \intersect Lengths : s[k] % 2 = 0
    /\ \A k \in DOMAIN s \intersect UNION {ReadBy[t] : t \in KnownTypes} :
         Has(s, "type") /\ (s.type \in KnownTypes => k \in ReadBy[s.type])
    /\ Has(s, "additionalProperties") => s.additionalProperties \in {"true", "false"}
    /\ Has(s, "items") => AsSchema(s.items) /\ placed[s.items]
    /\ Has(s, "properties") => \A p \in DOMAIN s.properties : placed[s.properties[p]]
    /\ \A k \in DOMAIN s \intersect {"oneOf", "anyOf"} : /\ DOMAIN s = {k}
                                                      /\ \A i \in DOMAIN s[k] : placed[s[k][i]]

Placed[s \in Schemas] == PlacedBy(Placed, s)

\* The gate and the linter agree on what a contract says: of a schema the linter has
\* nothing to report of, with every keyword in its place, the gate lets through what
\* the schema means, however deep, of the values whose strings are as long in bytes as
\* they are in characters.
GateMeans(s, v) == LintClean[s] /\ Placed[s] /\ v.ascii => (Accepts[<<s, v>>] <=> Means[<<s, v>>])
=============================================================================
