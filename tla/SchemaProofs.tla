----------------------------- MODULE SchemaProofs -----------------------------
(***************************************************************************)
(* Theorems about Schema, for any schemas and any values, however deep.    *)
(* Its four recursive functions are shown to exist first, all at once, by  *)
(* the depths up to which there is one; then that the gate and the meaning *)
(* agree on a schema if they agree on its parts.                           *)
(***************************************************************************)
EXTENDS SchemaCases, FiniteSetTheorems, TLAPS

\* A set of numbers that is not empty has a least one.
LEMMA LeastIn == ASSUME NEW S, S \subseteq Nat, S # {} PROVE \E i \in S : \A k \in S : i <= k
<1>. DEFINE Less == {ss \in Nat \X Nat : ss[1] < ss[2]}
<1>1. IsWellFoundedOn(Less, Nat)
    BY NatLessThanWellFounded DEF OpToRel
<1>. HIDE DEF Less
<1>2. PICK i \in S : \A k \in S : ~(<<k, i>> \in Less)
    BY <1>1, WFMin
<1>3. ASSUME NEW k \in S PROVE i <= k
    <2>1. k \in Nat /\ i \in Nat
        OBVIOUS
    <2>2. k < i => <<k, i>> \in Less
        BY <2>1 DEF Less
    <2>. QED
        BY <1>2, <2>1, <2>2
<1>. QED
    BY <1>3

------------------------------------------------------------------------------
(* The recursive functions.  Each is computed at a schema from what it is at *)
(* the parts of that schema; that there is such a function is shown for the  *)
(* four at once: o says which.                                               *)

OfPairs == {"accepts", "means"}
OfSchemas == {"clean", "placed"}
DomainOf(o) == IF o \in OfPairs THEN Schemas \X Values ELSE Schemas
DepthOf(o, x) == IF o \in OfPairs THEN Depth[x[1]] ELSE Depth[x]
OneLevel(o, g, x) ==
    CASE o = "accepts" -> AcceptsBy(g, x[1], x[2])
      [] o = "means" -> MeansBy(g, x[1], x[2])
      [] o = "clean" -> CleanBy(g, x)
      [] o = "placed" -> PlacedBy(g, x)

\* g and h are the same below s.
SameBelow(g, h, s) == \A q \in Parts(s), v \in Values : g[<<q, v>>] = h[<<q, v>>]
SameOnParts(g, h, s) == \A q \in Parts(s) : g[q] = h[q]

LEMMA PartsAre ==
    ASSUME NEW s
    PROVE  /\ Has(s, "items") => s.items \in Parts(s)
           /\ Fit(s, "properties") => \A p \in DOMAIN s.properties : s.properties[p] \in Parts(s)
           /\ Has(s, "oneOf") => \A i \in DOMAIN s.oneOf : s.oneOf[i] \in Parts(s)
           /\ Has(s, "anyOf") => \A i \in DOMAIN s.anyOf : s.anyOf[i] \in Parts(s)
    BY DEF Parts, Elements, Has

\* What is in a value is a value.
LEMMA MembersAre ==
    ASSUME NEW v \in Values
    PROVE  /\ v.t = "array" => \A i \in DOMAIN v.items : v.items[i] \in Values /\ (v.ascii => v.items[i].ascii)
           /\ v.t = "object" => \A p \in DOMAIN v.props : v.props[p] \in Values /\ (v.ascii => v.props[p].ascii)
<1>1. \A x \in Elements(Members(v)) : x \in Values /\ (v.ascii => x.ascii)
    BY SchemaAssumption
<1>2. v.t = "array" => Members(v) = v.items
    BY DEF Members
<1>3. v.t = "object" => Members(v) = v.props
    BY DEF Members
<1>. QED
    BY <1>1, <1>2, <1>3 DEF Elements

LEMMA AcceptsLocal ==
    ASSUME NEW g, NEW h, NEW s, NEW v \in Values, SameBelow(g, h, s)
    PROVE  AcceptsBy(g, s, v) = AcceptsBy(h, s, v)
<1>1. v.t = "array" => \A i \in DOMAIN v.items : v.items[i] \in Values
    BY MembersAre
<1>2. v.t = "object" => \A p \in DOMAIN v.props : v.props[p] \in Values
    BY MembersAre
<1>3. Has(s, "oneOf") => Matching(g, s.oneOf, v) = Matching(h, s.oneOf, v)
    BY PartsAre DEF Matching, SameBelow
<1>4. Has(s, "anyOf") => Matching(g, s.anyOf, v) = Matching(h, s.anyOf, v)
    BY PartsAre DEF Matching, SameBelow
<1>5. ObjectAccepts(g, s, v) <=> ObjectAccepts(h, s, v)
    BY <1>2, PartsAre DEF ObjectAccepts, SameBelow
<1>6. ArrayAccepts(g, s, v) <=> ArrayAccepts(h, s, v)
    BY <1>1, PartsAre DEF ArrayAccepts, SameBelow
<1>7. AcceptsBy(g, s, v) <=> AcceptsBy(h, s, v)
    BY <1>3, <1>4, <1>5, <1>6 DEF AcceptsBy, OneOf, AnyOf
<1>8. AcceptsBy(g, s, v) \in BOOLEAN /\ AcceptsBy(h, s, v) \in BOOLEAN
    BY DEF AcceptsBy, OneOf, AnyOf, ObjectAccepts, ArrayAccepts, StringAccepts, Integral, CheckBounds, CheckLength
<1>. QED
    BY <1>7, <1>8

LEMMA MeansLocal ==
    ASSUME NEW g, NEW h, NEW s, NEW v \in Values, SameBelow(g, h, s)
    PROVE  MeansBy(g, s, v) = MeansBy(h, s, v)
<1>1. v.t = "array" => \A i \in DOMAIN v.items : v.items[i] \in Values
    BY MembersAre
<1>2. v.t = "object" => \A p \in DOMAIN v.props : v.props[p] \in Values
    BY MembersAre
<1>3. Has(s, "oneOf") => {n \in DOMAIN s.oneOf : g[<<s.oneOf[n], v>>]} = {n \in DOMAIN s.oneOf : h[<<s.oneOf[n], v>>]}
    BY PartsAre DEF SameBelow
<1>4. Has(s, "anyOf") => \A i \in DOMAIN s.anyOf : g[<<s.anyOf[i], v>>] = h[<<s.anyOf[i], v>>]
    BY PartsAre DEF SameBelow
<1>5. v.t = "array" /\ Has(s, "items") =>
         \A i \in DOMAIN v.items : g[<<s.items, v.items[i]>>] = h[<<s.items, v.items[i]>>]
    BY <1>1, PartsAre DEF SameBelow
<1>6. v.t = "object" =>
         \A p \in DOMAIN v.props : PropsContains(s, p) =>
            g[<<s.properties[p], v.props[p]>>] = h[<<s.properties[p], v.props[p]>>]
    BY <1>2, PartsAre DEF SameBelow, PropsContains
<1>7. MeansBy(g, s, v) <=> MeansBy(h, s, v)
    BY <1>3, <1>4, <1>5, <1>6 DEF MeansBy
<1>. QED
    BY <1>7 DEF MeansBy

LEMMA CleanLocal ==
    ASSUME NEW g, NEW h, NEW s, SameOnParts(g, h, s)
    PROVE  CleanBy(g, s) = CleanBy(h, s)
<1>1. CleanBy(g, s) <=> CleanBy(h, s)
    BY PartsAre DEF CleanBy, SameOnParts, LintBranches
<1>. QED
    BY <1>1 DEF CleanBy

LEMMA PlacedLocal ==
    ASSUME NEW g, NEW h, NEW s, SameOnParts(g, h, s)
    PROVE  PlacedBy(g, s) = PlacedBy(h, s)
<1>1. ASSUME WellFormed(s) PROVE PlacedBy(g, s) <=> PlacedBy(h, s)
    <2>1. Has(s, "properties") => Fit(s, "properties")
        BY <1>1 DEF WellFormed, Fit, Has
    <2>2. Has(s, "properties") => \A p \in DOMAIN s.properties : g[s.properties[p]] = h[s.properties[p]]
        BY <2>1, PartsAre DEF SameOnParts
    <2>3. Has(s, "items") => g[s.items] = h[s.items]
        BY PartsAre DEF SameOnParts
    <2>4. \A k \in DOMAIN s \intersect {"oneOf", "anyOf"} : \A i \in DOMAIN s[k] : g[s[k][i]] = h[s[k][i]]
        BY PartsAre DEF SameOnParts, Has
    <2>. QED
        BY <2>2, <2>3, <2>4 DEF PlacedBy
<1>2. ~WellFormed(s) => (PlacedBy(g, s) <=> PlacedBy(h, s))
    BY DEF PlacedBy
<1>. QED
    BY <1>1, <1>2 DEF PlacedBy
LEMMA DepthIs == ASSUME NEW o, NEW x \in DomainOf(o) PROVE DepthOf(o, x) \in Nat
<1>1. Depth \in [Schemas -> Nat]
    BY SchemaAssumption
<1>. QED
    BY <1>1 DEF DomainOf, DepthOf

\* A level looks no further than the levels below.
LEMMA LevelLocal ==
    ASSUME NEW o \in OfPairs \union OfSchemas, NEW g, NEW h, NEW x \in DomainOf(o),
           \A y \in DomainOf(o) : DepthOf(o, y) < DepthOf(o, x) => g[y] = h[y]
    PROVE  OneLevel(o, g, x) = OneLevel(o, h, x)
<1>1. ASSUME NEW s \in Schemas, NEW q \in Parts(s)
      PROVE  q \in Schemas /\ Depth[q] < Depth[s]
    BY <1>1, SchemaAssumption
<1>2. CASE o \in OfPairs
    <2>1. x[1] \in Schemas /\ x[2] \in Values /\ DepthOf(o, x) = Depth[x[1]]
        BY <1>2 DEF DomainOf, DepthOf
    <2>2. ASSUME NEW q \in Parts(x[1]), NEW v \in Values
          PROVE  g[<<q, v>>] = h[<<q, v>>]
        <3>1. q \in Schemas /\ Depth[q] < Depth[x[1]]
            BY <1>1, <2>1
        <3>2. <<q, v>> \in DomainOf(o) /\ DepthOf(o, <<q, v>>) = Depth[q]
            BY <1>2, <3>1 DEF DomainOf, DepthOf
        <3>. QED
            BY <2>1, <3>1, <3>2
    <2>3. SameBelow(g, h, x[1])
        BY <2>2 DEF SameBelow
    <2>4. /\ AcceptsBy(g, x[1], x[2]) = AcceptsBy(h, x[1], x[2])
          /\ MeansBy(g, x[1], x[2]) = MeansBy(h, x[1], x[2])
        BY <2>1, <2>3, AcceptsLocal, MeansLocal
    <2>. QED
        BY <1>2, <2>4 DEF OneLevel, OfPairs
<1>3. CASE o \in OfSchemas
    <2>1. x \in Schemas /\ DepthOf(o, x) = Depth[x]
        BY <1>3 DEF DomainOf, DepthOf, OfPairs, OfSchemas
    <2>2. ASSUME NEW q \in Parts(x) PROVE g[q] = h[q]
        <3>1. q \in Schemas /\ Depth[q] < Depth[x]
            BY <1>1, <2>1
        <3>2. q \in DomainOf(o) /\ DepthOf(o, q) = Depth[q]
            BY <1>3, <3>1 DEF DomainOf, DepthOf, OfPairs, OfSchemas
        <3>. QED
            BY <2>1, <3>1, <3>2
    <2>3. SameOnParts(g, h, x)
        BY <2>2 DEF SameOnParts
    <2>4. CleanBy(g, x) = CleanBy(h, x) /\ PlacedBy(g, x) = PlacedBy(h, x)
        BY <2>3, CleanLocal, PlacedLocal
    <2>. QED
        BY <1>3, <2>4 DEF OneLevel, OfSchemas
<1>. QED
    BY <1>2, <1>3

\* g is what o says, of schemas nested less deep than m.
Upto(o, g, m) == \A x \in DomainOf(o) : DepthOf(o, x) < m => g[x] = OneLevel(o, g, x)

\* Two such functions are the same as far as both go.
LEMMA UptoAgree ==
    ASSUME NEW o \in OfPairs \union OfSchemas, NEW g, NEW h, NEW m \in Nat, NEW k \in Nat,
           Upto(o, g, m), Upto(o, h, k),
           NEW x \in DomainOf(o), DepthOf(o, x) < m, DepthOf(o, x) < k
    PROVE  g[x] = h[x]
<1>. DEFINE Differ(y) == DepthOf(o, y) < m /\ DepthOf(o, y) < k /\ g[y] # h[y]
            bad == {DepthOf(o, y) : y \in {y \in DomainOf(o) : Differ(y)}}
<1>1. SUFFICES ASSUME bad # {} PROVE FALSE
    OBVIOUS
<1>2. bad \subseteq Nat
    BY DepthIs
<1>3. PICK d \in bad : \A e \in bad : d <= e
    <2>. HIDE DEF bad
    <2>. QED
        BY <1>1, <1>2, LeastIn
<1>4. PICK y \in DomainOf(o) : Differ(y) /\ DepthOf(o, y) = d
    BY <1>3
<1>5. ASSUME NEW z \in DomainOf(o), DepthOf(o, z) < DepthOf(o, y) PROVE g[z] = h[z]
    <2>1. DepthOf(o, z) \in Nat /\ DepthOf(o, y) \in Nat
        BY DepthIs
    <2>2. DepthOf(o, z) \notin bad
        BY <1>2, <1>3, <1>4, <1>5, <2>1
    <2>3. ~Differ(z)
        BY <2>2
    <2>. QED
        BY <1>4, <1>5, <2>1, <2>3
<1>6. OneLevel(o, g, y) = OneLevel(o, h, y)
    BY <1>5, LevelLocal
<1>. QED
    BY <1>4, <1>6 DEF Upto

LEMMA UptoExists ==
    ASSUME NEW o \in OfPairs \union OfSchemas
    PROVE  \A m \in Nat : \E g : Upto(o, g, m)
<1>. DEFINE bad == {m \in Nat : ~\E g : Upto(o, g, m)}
<1>1. SUFFICES ASSUME bad # {} PROVE FALSE
    OBVIOUS
<1>2. PICK m \in bad : \A k \in bad : m <= k
    <2>1. bad \subseteq Nat
        OBVIOUS
    <2>. HIDE DEF bad
    <2>. QED
        BY <1>1, <2>1, LeastIn
<1>3. m \in Nat /\ m # 0
    <2>1. Upto(o, <<>>, 0)
        BY DepthIs DEF Upto
    <2>. QED
        BY <1>2, <2>1
<1>4. PICK g : Upto(o, g, m - 1)
    <2>1. m - 1 \in Nat /\ m - 1 \notin bad
        BY <1>2, <1>3
    <2>. QED
        BY <2>1
<1>. DEFINE h == [x \in DomainOf(o) |-> OneLevel(o, g, x)]
<1>5. ASSUME NEW x \in DomainOf(o), DepthOf(o, x) < m PROVE h[x] = OneLevel(o, h, x)
    <2>1. ASSUME NEW y \in DomainOf(o), DepthOf(o, y) < DepthOf(o, x) PROVE g[y] = h[y]
        <3>1. DepthOf(o, y) < m - 1
            BY <1>3, <1>5, <2>1, DepthIs
        <3>2. g[y] = OneLevel(o, g, y)
            BY <1>4, <3>1 DEF Upto
        <3>. QED
            BY <3>2
    <2>2. OneLevel(o, g, x) = OneLevel(o, h, x)
        <3>. HIDE DEF h
        <3>. QED
            BY <2>1, LevelLocal
    <2>. QED
        BY <2>2
<1>6. Upto(o, h, m)
    BY <1>5 DEF Upto
<1>. QED
    BY <1>2, <1>6

\* f is what o says, of every schema.
Solves(o, f) == f = [x \in DomainOf(o) |-> OneLevel(o, f, x)]

LEMMA SolutionExists == ASSUME NEW o \in OfPairs \union OfSchemas PROVE \E f : Solves(o, f)
<1>. DEFINE below(x) == CHOOSE g : Upto(o, g, DepthOf(o, x))
            f == [x \in DomainOf(o) |-> OneLevel(o, below(x), x)]
<1>1. \A x \in DomainOf(o) : Upto(o, below(x), DepthOf(o, x))
    BY UptoExists, DepthIs
<1>2. ASSUME NEW x \in DomainOf(o) PROVE f[x] = OneLevel(o, f, x)
    <2>1. ASSUME NEW y \in DomainOf(o), DepthOf(o, y) < DepthOf(o, x) PROVE below(x)[y] = f[y]
        <3>. HIDE DEF below
        <3>1. below(x)[y] = OneLevel(o, below(x), y)
            BY <1>1, <2>1 DEF Upto
        <3>2. ASSUME NEW z \in DomainOf(o), DepthOf(o, z) < DepthOf(o, y)
              PROVE  below(x)[z] = below(y)[z]
            <4>1. DepthOf(o, x) \in Nat /\ DepthOf(o, y) \in Nat /\ DepthOf(o, z) \in Nat
                BY DepthIs
            <4>2. DepthOf(o, z) < DepthOf(o, x)
                BY <2>1, <3>2, <4>1
            <4>. QED
                BY <1>1, <3>2, <4>1, <4>2, UptoAgree
        <3>3. OneLevel(o, below(x), y) = OneLevel(o, below(y), y)
            BY <3>2, LevelLocal
        <3>. QED
            BY <3>1, <3>3
    <2>2. OneLevel(o, below(x), x) = OneLevel(o, f, x)
        <3>. HIDE DEF f, below
        <3>. QED
            BY <2>1, LevelLocal
    <2>. QED
        BY <2>2
<1>3. f = [x \in DomainOf(o) |-> OneLevel(o, f, x)]
    BY <1>2
<1>. QED
    BY <1>3 DEF Solves
LEMMA AcceptsIs ==
    ASSUME NEW s \in Schemas, NEW v \in Values
    PROVE  Accepts[<<s, v>>] <=> AcceptsBy(Accepts, s, v)
<1>1. PICK f : Solves("accepts", f)
    BY SolutionExists DEF OfPairs
<1>2. f = [p \in Schemas \X Values |-> AcceptsBy(f, p[1], p[2])]
    BY <1>1 DEF Solves, DomainOf, OneLevel, OfPairs
<1>3. Accepts = [p \in Schemas \X Values |-> AcceptsBy(Accepts, p[1], p[2])]
    BY <1>2 DEF Accepts
<1>4. Accepts[<<s, v>>] = AcceptsBy(Accepts, s, v)
    BY <1>3
<1>5. AcceptsBy(Accepts, s, v) \in BOOLEAN
    BY DEF AcceptsBy, OneOf, AnyOf, ObjectAccepts, ArrayAccepts, StringAccepts, Integral, CheckBounds, CheckLength
<1>. QED
    BY <1>4, <1>5

LEMMA MeansIs ==
    ASSUME NEW s \in Schemas, NEW v \in Values
    PROVE  Means[<<s, v>>] <=> MeansBy(Means, s, v)
<1>1. PICK f : Solves("means", f)
    BY SolutionExists DEF OfPairs
<1>2. f = [p \in Schemas \X Values |-> MeansBy(f, p[1], p[2])]
    BY <1>1 DEF Solves, DomainOf, OneLevel, OfPairs
<1>3. Means = [p \in Schemas \X Values |-> MeansBy(Means, p[1], p[2])]
    BY <1>2 DEF Means
<1>4. Means[<<s, v>>] = MeansBy(Means, s, v)
    BY <1>3
<1>5. MeansBy(Means, s, v) \in BOOLEAN
    BY DEF MeansBy
<1>. QED
    BY <1>4, <1>5

LEMMA CleanIs == ASSUME NEW s \in Schemas PROVE LintClean[s] <=> CleanBy(LintClean, s)
<1>1. PICK f : Solves("clean", f)
    BY SolutionExists DEF OfSchemas
<1>2. f = [s_1 \in Schemas |-> CleanBy(f, s_1)]
    BY <1>1 DEF Solves, DomainOf, OneLevel, OfPairs
<1>3. LintClean = [s_1 \in Schemas |-> CleanBy(LintClean, s_1)]
    BY <1>2 DEF LintClean
<1>4. LintClean[s] = CleanBy(LintClean, s)
    BY <1>3
<1>5. CleanBy(LintClean, s) \in BOOLEAN
    BY DEF CleanBy
<1>. QED
    BY <1>4, <1>5

LEMMA PlacedIs == ASSUME NEW s \in Schemas PROVE Placed[s] <=> PlacedBy(Placed, s)
<1>1. PICK f : Solves("placed", f)
    BY SolutionExists DEF OfSchemas
<1>2. f = [s_1 \in Schemas |-> PlacedBy(f, s_1)]
    BY <1>1 DEF Solves, DomainOf, OneLevel, OfPairs
<1>3. Placed = [s_1 \in Schemas |-> PlacedBy(Placed, s_1)]
    BY <1>2 DEF Placed
<1>4. Placed[s] = PlacedBy(Placed, s)
    BY <1>3
<1>5. PlacedBy(Placed, s) \in BOOLEAN
    BY DEF PlacedBy
<1>. QED
    BY <1>4, <1>5

------------------------------------------------------------------------------
(* The gate and the meaning.  Agree is what holds at a schema when it holds   *)
(* at its parts.                                                              *)

Agree(s) == \A v \in Values : GateMeans(s, v)

\* A clean schema whose keywords are in their places, at one level.
Proper(s) == LintClean[s] /\ Placed[s]

LEMMA ProperParts ==
    ASSUME NEW s \in Schemas, Proper(s)
    PROVE  /\ DOMAIN s \subseteq KnownKeywords
           /\ WellFormed(s) /\ \A k \in DOMAIN s : Fit(s, k)
           /\ Has(s, "properties") => \A p \in DOMAIN s.properties :
                                         AsSchema(s.properties[p]) /\ Proper(s.properties[p])
           /\ Has(s, "items") => AsSchema(s.items) /\ Proper(s.items)
           /\ Has(s, "oneOf") => s.oneOf # <<>> /\ \A i \in DOMAIN s.oneOf : AsSchema(s.oneOf[i]) /\ Proper(s.oneOf[i])
           /\ Has(s, "anyOf") => s.anyOf # <<>> /\ \A i \in DOMAIN s.anyOf : AsSchema(s.anyOf[i]) /\ Proper(s.anyOf[i])
<1>1. CleanBy(LintClean, s) /\ PlacedBy(Placed, s)
    BY CleanIs, PlacedIs DEF Proper
<1>2. Has(s, "oneOf") => \A i \in DOMAIN s.oneOf : Placed[s.oneOf[i]]
    BY <1>1 DEF PlacedBy, Has
<1>3. Has(s, "anyOf") => \A i \in DOMAIN s.anyOf : Placed[s.anyOf[i]]
    BY <1>1 DEF PlacedBy, Has
<1>4. WellFormed(s)
    BY <1>1 DEF PlacedBy
<1>5. \A k \in DOMAIN s : Fit(s, k)
    BY <1>4 DEF WellFormed, Fit, Has
<1>6. Has(s, "properties") => Fit(s, "properties")
    BY <1>5 DEF Has
<1>. QED
    BY <1>1, <1>2, <1>3, <1>4, <1>5, <1>6 DEF CleanBy, PlacedBy, LintBranches, Proper

\* The branches of a proper schema stand alone.
LEMMA Alone ==
    ASSUME NEW s \in Schemas, Proper(s), NEW k \in {"oneOf", "anyOf"}, Has(s, k)
    PROVE  DOMAIN s = {k}
<1>1. PlacedBy(Placed, s)
    BY PlacedIs DEF Proper
<1>. QED
    BY <1>1 DEF PlacedBy, Has
\* What the gate takes of a part, the part means.
LEMMA PartAgrees ==
    ASSUME NEW q \in Schemas, Agree(q), Proper(q), NEW v \in Values, v.ascii
    PROVE  Accepts[<<q, v>>] <=> Means[<<q, v>>]
    BY DEF Agree, GateMeans, Proper

LEMMA PartsIn == ASSUME NEW s \in Schemas, NEW q \in Parts(s) PROVE q \in Schemas /\ Depth[q] < Depth[s]
    BY SchemaAssumption

\* The gate asks of the branches what the schema means.
LEMMA BranchesAgree ==
    ASSUME NEW s \in Schemas, Proper(s), NEW k \in {"oneOf", "anyOf"}, Has(s, k),
           \A q \in Parts(s) : Agree(q),
           NEW v \in Values, v.ascii
    PROVE  /\ Matching(Accepts, s[k], v) = {i \in DOMAIN s[k] : Means[<<s[k][i], v>>]}
           /\ IsFiniteSet(Matching(Accepts, s[k], v))
<1>1. ASSUME NEW i \in DOMAIN s[k]
      PROVE  AsSchema(s[k][i]) /\ (Accepts[<<s[k][i], v>>] <=> Means[<<s[k][i], v>>])
    <2>1. s[k][i] \in Parts(s) /\ AsSchema(s[k][i]) /\ Proper(s[k][i])
        BY PartsAre, ProperParts
    <2>. QED
        BY <2>1, PartsIn, PartAgrees
<1>2. IsFiniteSet(DOMAIN s[k])
    <2>1. s[k] \in Seq(Elements(s[k]))
        BY SchemaAssumption DEF Has
    <2>2. Len(s[k]) \in Nat /\ DOMAIN s[k] = 1..Len(s[k])
        BY <2>1
    <2>. QED
        BY <2>2, FS_Interval
<1>3. Matching(Accepts, s[k], v) \subseteq DOMAIN s[k]
    BY DEF Matching
<1>. QED
    BY <1>1, <1>2, <1>3, FS_Subset DEF Matching

LEMMA OneOfAgrees ==
    ASSUME NEW s \in Schemas, Proper(s), Has(s, "oneOf"), \A q \in Parts(s) : Agree(q),
           NEW v \in Values, v.ascii
    PROVE  Accepts[<<s, v>>] <=> Means[<<s, v>>]
<1>. DEFINE M == Matching(Accepts, s.oneOf, v)
<1>1. M = {i \in DOMAIN s.oneOf : Means[<<s.oneOf[i], v>>]} /\ IsFiniteSet(M)
    BY BranchesAgree
<1>2. DOMAIN s = {"oneOf"}
    BY Alone
<1>3. AcceptsBy(Accepts, s, v) <=> Cardinality(M) = 1
    BY DEF AcceptsBy, OneOf
<1>4. MeansBy(Means, s, v) <=> \E i \in DOMAIN s.oneOf : M = {i}
    <2>. HIDE DEF M
    <2>. QED
        BY <1>1, <1>2, ProperParts DEF MeansBy, Has, Fit, PropsContains, AtLeast, AtMost, CheckBounds
<1>5. Cardinality(M) = 1 <=> \E i \in DOMAIN s.oneOf : M = {i}
    <2>1. Cardinality(M) = 1 <=> \E x : M = {x}
        BY <1>1, FS_Singleton
    <2>2. M \subseteq DOMAIN s.oneOf
        BY DEF Matching
    <2>. HIDE DEF M
    <2>. QED
        BY <2>1, <2>2
<1>. QED
    BY <1>3, <1>4, <1>5, AcceptsIs, MeansIs

LEMMA AnyOfAgrees ==
    ASSUME NEW s \in Schemas, Proper(s), Has(s, "anyOf"), \A q \in Parts(s) : Agree(q),
           NEW v \in Values, v.ascii
    PROVE  Accepts[<<s, v>>] <=> Means[<<s, v>>]
<1>. DEFINE M == Matching(Accepts, s.anyOf, v)
<1>1. M = {i \in DOMAIN s.anyOf : Means[<<s.anyOf[i], v>>]}
    BY BranchesAgree
<1>2. DOMAIN s = {"anyOf"}
    BY Alone
<1>3. AcceptsBy(Accepts, s, v) <=> M # {}
    BY <1>2 DEF AcceptsBy, AnyOf, Has
<1>4. MeansBy(Means, s, v) <=> \E i \in DOMAIN s.anyOf : Means[<<s.anyOf[i], v>>]
    BY <1>2, ProperParts DEF MeansBy, Has, Fit, PropsContains, AtLeast, AtMost, CheckBounds
<1>5. M # {} <=> \E i \in DOMAIN s.anyOf : Means[<<s.anyOf[i], v>>]
    BY <1>1
<1>. QED
    BY <1>3, <1>4, <1>5, AcceptsIs, MeansIs

\* A keyword stands with a type that reads it.
LEMMA KeywordsOf ==
    ASSUME NEW s \in Schemas, Proper(s)
    PROVE  /\ Has(s, "type") => s.type \in KnownTypes
           /\ Has(s, "required") \/ Has(s, "properties") \/ Has(s, "additionalProperties") =>
                 Has(s, "type") /\ s.type = "object"
           /\ Has(s, "items") \/ Has(s, "minItems") \/ Has(s, "maxItems") => Has(s, "type") /\ s.type = "array"
           /\ Has(s, "enum") \/ Has(s, "minLength") \/ Has(s, "maxLength") => Has(s, "type") /\ s.type = "string"
           /\ Has(s, "minimum") \/ Has(s, "maximum") => Has(s, "type") /\ s.type \in {"integer", "number"}
           /\ ~Has(s, "const")
           /\ Has(s, "additionalProperties") => s.additionalProperties \in {"true", "false"}
<1>1. CleanBy(LintClean, s) /\ PlacedBy(Placed, s)
    BY CleanIs, PlacedIs DEF Proper
<1>2. Has(s, "type") => s.type \in KnownTypes
    BY <1>1 DEF CleanBy
<1>3. ~Has(s, "const")
    BY ProperParts DEF Has, KnownKeywords
<1>4. ASSUME NEW k, Has(s, k), NEW t \in KnownTypes, k \in ReadBy[t]
      PROVE  Has(s, "type") /\ k \in ReadBy[s.type]
    BY <1>1, <1>2, <1>4 DEF PlacedBy, Has
<1>5. \A t \in KnownTypes : /\ ReadBy[t] \intersect {"required", "properties", "additionalProperties"} # {} => t = "object"
                            /\ ReadBy[t] \intersect {"items", "minItems", "maxItems"} # {} => t = "array"
                            /\ ReadBy[t] \intersect {"enum", "minLength", "maxLength"} # {} => t = "string"
                            /\ ReadBy[t] \intersect {"minimum", "maximum"} # {} => t \in {"integer", "number"}
    BY DEF ReadBy, KnownTypes
<1>6. /\ {"required", "properties", "additionalProperties"} \subseteq ReadBy["object"]
      /\ {"items", "minItems", "maxItems"} \subseteq ReadBy["array"]
      /\ {"enum", "minLength", "maxLength"} \subseteq ReadBy["string"]
      /\ {"minimum", "maximum"} \subseteq ReadBy["number"]
      /\ {"object", "array", "string", "number"} \subseteq KnownTypes
    BY DEF ReadBy, KnownTypes
<1>7. Has(s, "required") \/ Has(s, "properties") \/ Has(s, "additionalProperties") =>
         Has(s, "type") /\ s.type = "object"
    BY <1>2, <1>4, <1>5, <1>6
<1>8. Has(s, "items") \/ Has(s, "minItems") \/ Has(s, "maxItems") => Has(s, "type") /\ s.type = "array"
    BY <1>2, <1>4, <1>5, <1>6
<1>9. Has(s, "enum") \/ Has(s, "minLength") \/ Has(s, "maxLength") => Has(s, "type") /\ s.type = "string"
    BY <1>2, <1>4, <1>5, <1>6
<1>10. Has(s, "minimum") \/ Has(s, "maximum") => Has(s, "type") /\ s.type \in {"integer", "number"}
    BY <1>2, <1>4, <1>5, <1>6
<1>11. Has(s, "additionalProperties") => s.additionalProperties \in {"true", "false"}
    BY <1>1 DEF PlacedBy
<1>. QED
    BY <1>2, <1>3, <1>7, <1>8, <1>9, <1>10, <1>11

\* A bound of a length that is an integer is the same for the gate.
LEMMA LengthAgrees ==
    ASSUME NEW s \in Schemas, Proper(s), NEW least \in Lengths, NEW most \in Lengths, NEW n \in Nat
    PROVE  CheckLength(s, least, most, n) <=> AtLeast(s, least, 2 * n) /\ AtMost(s, most, 2 * n)
<1>1. PlacedBy(Placed, s)
    BY PlacedIs DEF Proper
<1>2. ASSUME NEW k \in Lengths, Fit(s, k) PROVE s[k] \in Int /\ s[k] % 2 = 0
    <2>1. k \in DOMAIN s \intersect Lengths /\ s[k] # Misfit
        BY <1>2 DEF Fit, Has
    <2>. QED
        BY <1>1, <2>1, SchemaAssumption DEF PlacedBy
<1>3. ASSUME NEW h \in Int, h % 2 = 0
      PROVE  (n >= Truncated(h) <=> 2 * n >= h) /\ (n <= Truncated(h) <=> 2 * n <= h)
    BY <1>3 DEF Truncated
<1>. QED
    BY <1>2, <1>3 DEF CheckLength, AtLeast, AtMost

\* A schema without branches: the keywords of its type, and only these, decide.
LEMMA TypeAgrees ==
    ASSUME NEW s \in Schemas, Proper(s), ~Has(s, "oneOf"), ~Has(s, "anyOf"),
           \A q \in Parts(s) : Agree(q),
           NEW v \in Values, v.ascii
    PROVE  Accepts[<<s, v>>] <=> Means[<<s, v>>]
<1>1. v.t \in ValueTypes
    BY SchemaAssumption
<1>0. WellFormed(s) /\ \A k : Has(s, k) => Fit(s, k)
    BY ProperParts DEF Has
<1>2. Has(s, "type") => s.type \in KnownTypes
    BY KeywordsOf
<1>. SUFFICES AcceptsBy(Accepts, s, v) <=> MeansBy(Means, s, v)
    BY AcceptsIs, MeansIs
<1>3. CASE ~Has(s, "type")
    <2>1. /\ ~Has(s, "required") /\ ~Has(s, "properties") /\ ~Has(s, "additionalProperties") /\ ~Has(s, "items")
          /\ ~Has(s, "minItems") /\ ~Has(s, "maxItems") /\ ~Has(s, "enum") /\ ~Has(s, "minLength")
          /\ ~Has(s, "maxLength") /\ ~Has(s, "minimum") /\ ~Has(s, "maximum") /\ ~Has(s, "const")
        BY <1>3, KeywordsOf
    <2>2. AcceptsBy(Accepts, s, v)
        BY <1>3 DEF AcceptsBy
    <2>3. MeansBy(Means, s, v)
        BY <1>3, <2>1, <1>0 DEF MeansBy, Fit, PropsContains, AtLeast, AtMost, CheckBounds
    <2>. QED
        BY <2>2, <2>3
<1>4. CASE Has(s, "type") /\ s.type = "object"
    <2>1. /\ ~Has(s, "items") /\ ~Has(s, "minItems") /\ ~Has(s, "maxItems") /\ ~Has(s, "enum")
          /\ ~Has(s, "minLength") /\ ~Has(s, "maxLength") /\ ~Has(s, "minimum") /\ ~Has(s, "maximum")
          /\ ~Has(s, "const")
        BY <1>4, KeywordsOf
    <2>2. AcceptsBy(Accepts, s, v) <=> ObjectAccepts(Accepts, s, v)
        BY <1>4 DEF AcceptsBy
    <2>3. v.t = "object" => \A p \in DOMAIN v.props : v.props[p] \in Values /\ (v.ascii => v.props[p].ascii)
        BY MembersAre
    <2>4. ASSUME Has(s, "properties"), NEW p \in DOMAIN s.properties, v.t = "object", p \in DOMAIN v.props
          PROVE  /\ AsSchema(s.properties[p])
                 /\ Accepts[<<s.properties[p], v.props[p]>>] <=> Means[<<s.properties[p], v.props[p]>>]
        <3>1. s.properties[p] \in Parts(s) /\ AsSchema(s.properties[p]) /\ Proper(s.properties[p])
            BY <1>0, <2>4, PartsAre, ProperParts
        <3>2. s.properties[p] \in Schemas /\ v.props[p] \in Values /\ v.props[p].ascii
            BY <2>3, <2>4, <3>1, PartsIn
        <3>. QED
            BY <3>1, <3>2, PartAgrees
    <2>5. MeansBy(Means, s, v) <=>
             /\ v.t = "object"
             /\ Has(s, "required") => s.required \subseteq DOMAIN v.props
             /\ \A p \in DOMAIN v.props :
                   \/ PropsContains(s, p) /\ Means[<<s.properties[p], v.props[p]>>]
                   \/ ~PropsContains(s, p) /\ ~(Has(s, "additionalProperties") /\ s.additionalProperties = "false")
        <3>1. ~Integral(v) \/ v.t = "number"
            BY DEF Integral
        <3>. QED
            BY <1>0, <1>4, <2>1, <3>1 DEF MeansBy, Fit, AtLeast, AtMost, CheckBounds
    <2>6. ObjectAccepts(Accepts, s, v) <=>
             /\ v.t = "object"
             /\ Has(s, "required") => s.required \subseteq DOMAIN v.props
             /\ \A p \in DOMAIN v.props : PropsContains(s, p) => Means[<<s.properties[p], v.props[p]>>]
             /\ Has(s, "additionalProperties") /\ s.additionalProperties = "false" =>
                   \A p \in DOMAIN v.props : PropsContains(s, p)
        <3>1. Has(s, "required") => s.required \ {Misfit} = s.required
            BY <1>0 DEF WellFormed
        <3>2. \A k : Fit(s, k) => Has(s, k)
            BY DEF Fit
        <3>. QED
            BY <1>0, <2>4, <3>1, <3>2 DEF ObjectAccepts, PropsContains
    <2>. QED
        BY <2>2, <2>5, <2>6
<1>5. CASE Has(s, "type") /\ s.type = "array"
    <2>1. /\ ~Has(s, "required") /\ ~Has(s, "properties") /\ ~Has(s, "additionalProperties") /\ ~Has(s, "enum")
          /\ ~Has(s, "minLength") /\ ~Has(s, "maxLength") /\ ~Has(s, "minimum") /\ ~Has(s, "maximum")
          /\ ~Has(s, "const")
        BY <1>5, KeywordsOf
    <2>2. AcceptsBy(Accepts, s, v) <=> ArrayAccepts(Accepts, s, v)
        BY <1>5 DEF AcceptsBy
    <2>3. ASSUME Has(s, "items"), v.t = "array", NEW i \in DOMAIN v.items
          PROVE  Accepts[<<s.items, v.items[i]>>] <=> Means[<<s.items, v.items[i]>>]
        <3>1. s.items \in Parts(s) /\ Proper(s.items)
            BY <2>3, PartsAre, ProperParts
        <3>2. s.items \in Schemas /\ v.items[i] \in Values /\ v.items[i].ascii
            BY <2>3, <3>1, PartsIn, MembersAre
        <3>. QED
            BY <3>1, <3>2, PartAgrees
    <2>4. Has(s, "items") => AsSchema(s.items)
        BY ProperParts
    <2>5. MeansBy(Means, s, v) <=>
             /\ v.t = "array"
             /\ Has(s, "items") => \A i \in DOMAIN v.items : Means[<<s.items, v.items[i]>>]
             /\ AtLeast(s, "minItems", 2 * Len(v.items)) /\ AtMost(s, "maxItems", 2 * Len(v.items))
        <3>1. ~Integral(v) \/ v.t = "number"
            BY DEF Integral
        <3>2. \A p : ~PropsContains(s, p)
            BY <2>1 DEF PropsContains, Fit
        <3>. QED
            BY <1>0, <1>5, <2>1, <3>1, <3>2 DEF MeansBy
    <2>6. v.t = "array" => (CheckLength(s, "minItems", "maxItems", Len(v.items))
                            <=> /\ AtLeast(s, "minItems", 2 * Len(v.items))
                                /\ AtMost(s, "maxItems", 2 * Len(v.items)))
        <3>1. v.t = "array" => Len(v.items) \in Nat
            BY SchemaAssumption
        <3>. QED
            BY <3>1, LengthAgrees DEF Lengths
    <2>. QED
        BY <2>2, <2>3, <2>4, <2>5, <2>6 DEF ArrayAccepts
<1>6. CASE Has(s, "type") /\ s.type \in {"string", "integer", "number", "boolean", "null"}
    <2>1. /\ ~Has(s, "required") /\ ~Has(s, "properties") /\ ~Has(s, "additionalProperties") /\ ~Has(s, "items")
          /\ ~Has(s, "minItems") /\ ~Has(s, "maxItems") /\ ~Has(s, "const")
        BY <1>6, KeywordsOf
    <2>2. /\ s.type # "string" => ~Has(s, "enum") /\ ~Has(s, "minLength") /\ ~Has(s, "maxLength")
          /\ s.type \notin {"integer", "number"} => ~Has(s, "minimum") /\ ~Has(s, "maximum")
        BY KeywordsOf
    <2>3. MeansBy(Means, s, v) <=>
             /\ v.t = s.type \/ (s.type = "integer" /\ Integral(v))
             /\ Has(s, "enum") => v \in s.enum
             /\ v.t = "string" => AtLeast(s, "minLength", 2 * v.chars) /\ AtMost(s, "maxLength", 2 * v.chars)
             /\ v.t = "number" => CheckBounds(s, v)
        <3>1. AtLeast(s, "minItems", 2 * Len(v.items)) /\ AtMost(s, "maxItems", 2 * Len(v.items))
            BY <2>1 DEF AtLeast, AtMost, Fit
        <3>2. \A p : ~PropsContains(s, p)
            BY <2>1 DEF PropsContains, Fit
        <3>. QED
            BY <1>0, <1>6, <2>1, <3>1, <3>2 DEF MeansBy
    <2>4. CASE s.type = "string"
        <3>1. AcceptsBy(Accepts, s, v) <=> StringAccepts(s, v)
            BY <1>6, <2>4 DEF AcceptsBy
        <3>2. v.t = "string" => (CheckLength(s, "minLength", "maxLength", v.bytes)
                                 <=> AtLeast(s, "minLength", 2 * v.chars) /\ AtMost(s, "maxLength", 2 * v.chars))
            <4>1. v.t = "string" => v.bytes \in Nat /\ v.bytes = v.chars
                BY SchemaAssumption
            <4>. QED
                BY <4>1, LengthAgrees DEF Lengths
        <3>3. Has(s, "enum") <=> Fit(s, "enum")
            BY <1>0 DEF Fit
        <3>4. ~Integral(v) \/ v.t = "number"
            BY DEF Integral
        <3>. QED
            BY <2>3, <2>4, <3>1, <3>2, <3>3, <3>4 DEF StringAccepts
    <2>5. CASE s.type = "integer"
        <3>1. AcceptsBy(Accepts, s, v) <=> Integral(v) /\ CheckBounds(s, v)
            BY <1>6, <2>5 DEF AcceptsBy
        <3>2. v.t # "integer" /\ (Integral(v) => v.t = "number")
            BY <1>1 DEF ValueTypes, Integral
        <3>. QED
            BY <2>2, <2>3, <2>5, <3>1, <3>2
    <2>6. CASE s.type = "number"
        <3>1. AcceptsBy(Accepts, s, v) <=> v.t = "number" /\ CheckBounds(s, v)
            BY <1>6, <2>6 DEF AcceptsBy
        <3>. QED
            BY <2>2, <2>3, <2>6, <3>1
    <2>7. CASE s.type = "boolean"
        <3>1. AcceptsBy(Accepts, s, v) <=> v.t = "boolean"
            BY <1>6, <2>7 DEF AcceptsBy
        <3>. QED
            BY <2>2, <2>3, <2>7, <3>1
    <2>8. CASE s.type = "null"
        <3>1. AcceptsBy(Accepts, s, v) <=> v.t = "null"
            BY <1>6, <2>8 DEF AcceptsBy
        <3>. QED
            BY <2>2, <2>3, <2>8, <3>1
    <2>. QED
        BY <1>6, <2>4, <2>5, <2>6, <2>7, <2>8
<1>. QED
    BY <1>2, <1>3, <1>4, <1>5, <1>6 DEF KnownTypes

\* However deep a schema is.
LEMMA AllAgree == \A s \in Schemas : Agree(s)
<1>. DEFINE bad == {Depth[s] : s \in {s \in Schemas : ~Agree(s)}}
<1>1. SUFFICES ASSUME bad # {} PROVE FALSE
    OBVIOUS
<1>2. bad \subseteq Nat
    BY SchemaAssumption
<1>3. PICK d \in bad : \A e \in bad : d <= e
    <2>. HIDE DEF bad
    <2>. QED
        BY <1>1, <1>2, LeastIn
<1>4. PICK s \in Schemas : ~Agree(s) /\ Depth[s] = d
    BY <1>3
<1>5. ASSUME NEW q \in Parts(s) PROVE Agree(q)
    <2>1. q \in Schemas /\ Depth[q] < Depth[s] /\ Depth[q] \in Nat /\ Depth[s] \in Nat
        BY PartsIn, SchemaAssumption
    <2>2. Depth[q] \notin bad
        BY <1>2, <1>3, <1>4, <2>1
    <2>. QED
        BY <2>1, <2>2
<1>6. Agree(s)
    <2>1. ASSUME Proper(s), NEW v \in Values, v.ascii PROVE Accepts[<<s, v>>] <=> Means[<<s, v>>]
        BY <1>5, <2>1, OneOfAgrees, AnyOfAgrees, TypeAgrees
    <2>. QED
        BY <2>1 DEF Agree, GateMeans, Proper
<1>. QED
    BY <1>4, <1>6

------------------------------------------------------------------------------
(* The theorem.                                                              *)

\* Of every schema that the linter has nothing to report of and whose keywords are in their
\* places and have values of their types, whole numbers where they bound a length, the gate lets
\* through what the schema means and nothing else, of all values whose strings are ASCII: no
\* keyword that passes is dropped by a type assertion of the gate (validateValue, lintSchema).
THEOREM GateHeld == GateSpec => []GateMeansContract
<1>. DEFINE CaseOK == in \in {GateCase(s) : s \in Schemas}
<1>1. GateInit => CaseOK
    BY DEF GateInit
<1>2. CaseOK /\ [Compute]_<<in, done>> => CaseOK'
    BY DEF Compute
<1>3. CaseOK => GateMeansContract
    BY AllAgree DEF GateCase, GateMeansContract, Agree
<1>. QED
    BY <1>1, <1>2, <1>3, PTL DEF GateSpec
=============================================================================
