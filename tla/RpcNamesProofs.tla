--------------------------- MODULE RpcNamesProofs ---------------------------
(***************************************************************************)
(* Which functions have one name.  A name is its parts run together, so    *)
(* that it tells two functions apart when they differ in one part, or when *)
(* their parts have the same lengths, and not in general.  A word may be a *)
(* single character here: nothing is assumed of Words but "None".          *)
(***************************************************************************)
EXTENDS RpcNames, SequenceTheorems, TLAPS

LEMMA TextType ==
  ASSUME NEW tys \in Seq(Types)
  PROVE  TypeText(tys) \in Seq(Words)
  <1>1. <<"None">> \in Seq(Words)
    BY WordsAssumption
  <1>2. ASSUME tys # <<>> PROVE LastSegment(tys[1]) \in Seq(Words)
    <2>1. tys[1] \in Types
      BY <1>2
    <2>2. tys[1].path \in Seq(Seq(Words)) /\ tys[1].path # <<>>
      BY <2>1 DEF Types, Paths
    <2>. QED
      BY <2>2 DEF LastSegment
  <1>. QED
    BY <1>1, <1>2 DEF TypeText

LEMMA PartsType ==
  ASSUME NEW f \in Functions
  PROVE  /\ f.name \in Seq(Words) /\ TypeText(f.args) \in Seq(Words)
         /\ TypeText(f.ret) \in Seq(Words)
  BY TextType DEF Functions

\* Concatenation cancels where the lengths agree.
LEMMA Cancel ==
  ASSUME NEW a \in Seq(Words), NEW b \in Seq(Words),
         NEW x \in Seq(Words), NEW y \in Seq(Words),
         a \o b = x \o y, Len(a) = Len(x)
  PROVE  a = x /\ b = y
  <1>1. Len(a \o b) = Len(a) + Len(b) /\ Len(x \o y) = Len(x) + Len(y)
    OBVIOUS
  <1>2. Len(b) = Len(y)
    BY <1>1
  <1>3. ASSUME NEW i \in 1..Len(a) PROVE a[i] = x[i]
    <2>1. (a \o b)[i] = a[i] /\ (x \o y)[i] = x[i]
      BY <1>3
    <2>. QED
      BY <2>1
  <1>4. ASSUME NEW i \in 1..Len(b) PROVE b[i] = y[i]
    <2>1. (a \o b)[Len(a) + i] = b[i] /\ (x \o y)[Len(a) + i] = y[i]
      BY <1>2, <1>4
    <2>. QED
      BY <2>1
  <1>. QED
    BY <1>2, <1>3, <1>4, SeqEqual

LEMMA CancelLast ==
  ASSUME NEW a \in Seq(Words), NEW b \in Seq(Words), NEW x \in Seq(Words),
         a \o b = x \o b
  PROVE  a = x
  <1>1. Len(a \o b) = Len(a) + Len(b) /\ Len(x \o b) = Len(x) + Len(b)
    OBVIOUS
  <1>2. Len(a) = Len(x)
    BY <1>1
  <1>. QED
    BY <1>2, Cancel

\* Two functions whose identifiers have the same lengths share a topic only if they
\* have one signature: then no server runs the one for the other.
THEOREM SameLengthsSameSignature ==
  ASSUME NEW f \in Functions, NEW g \in Functions,
         Len(f.name) = Len(g.name), Len(TypeText(f.args)) = Len(TypeText(g.args)),
         RpcName(f) = RpcName(g)
  PROVE  Signature(f) = Signature(g)
  <1>1. /\ f.name \in Seq(Words) /\ g.name \in Seq(Words)
        /\ TypeText(f.args) \in Seq(Words) /\ TypeText(g.args) \in Seq(Words)
        /\ TypeText(f.ret) \in Seq(Words) /\ TypeText(g.ret) \in Seq(Words)
    BY PartsType
  <1>2. /\ f.name \o TypeText(f.args) = g.name \o TypeText(g.args)
        /\ TypeText(f.ret) = TypeText(g.ret)
    <2> DEFINE a == f.name \o TypeText(f.args)
               x == g.name \o TypeText(g.args)
    <2>1. a \in Seq(Words) /\ Len(a) = Len(f.name) + Len(TypeText(f.args))
      BY <1>1, ConcatProperties
    <2>2. x \in Seq(Words) /\ Len(x) = Len(g.name) + Len(TypeText(g.args))
      BY <1>1, ConcatProperties
    <2>3. a \o TypeText(f.ret) = x \o TypeText(g.ret)
      BY DEF RpcName
    <2> HIDE DEF a, x
    <2>4. a = x /\ TypeText(f.ret) = TypeText(g.ret)
      BY <1>1, <2>1, <2>2, <2>3, Cancel
    <2>. QED
      BY <2>4 DEF a, x
  <1>3. f.name = g.name /\ TypeText(f.args) = TypeText(g.args)
    BY <1>1, <1>2, Cancel
  <1>. QED
    BY <1>2, <1>3 DEF Signature

\* Two functions that differ in one part, their name, what they take or what they
\* give, have two topics: a version of a function is not run for another.
THEOREM OnePartTellsApart ==
  ASSUME NEW f \in Functions, NEW g \in Functions, RpcName(f) = RpcName(g),
         NEW part \in {"name", "takes", "gives"}
  PROVE  Differ(f, g) # {part}
  <1> DEFINE n(h) == h.name
             t(h) == TypeText(h.args)
             r(h) == TypeText(h.ret)
  <1>1. /\ n(f) \in Seq(Words) /\ t(f) \in Seq(Words) /\ r(f) \in Seq(Words)
        /\ n(g) \in Seq(Words) /\ t(g) \in Seq(Words) /\ r(g) \in Seq(Words)
    BY PartsType
  <1>2. (n(f) \o t(f)) \o r(f) = (n(g) \o t(g)) \o r(g)
    BY DEF RpcName
  <1>3. /\ "name"  \in Differ(f, g) <=> n(f) # n(g)
        /\ "takes" \in Differ(f, g) <=> t(f) # t(g)
        /\ "gives" \in Differ(f, g) <=> r(f) # r(g)
    BY DEF Differ, Signature
  <1> HIDE DEF n, t, r
  <1>4. n(f) \o t(f) \in Seq(Words) /\ n(g) \o t(g) \in Seq(Words)
    BY <1>1, ConcatProperties
  <1>5. r(f) = r(g) => n(f) \o t(f) = n(g) \o t(g)
    BY <1>1, <1>2, <1>4, CancelLast
  <1>6. r(f) = r(g) /\ t(f) = t(g) => n(f) = n(g)
    BY <1>1, <1>5, CancelLast
  <1>7. r(f) = r(g) /\ n(f) = n(g) => t(f) = t(g)
    BY <1>1, <1>5, Cancel
  <1>8. ASSUME n(f) = n(g), t(f) = t(g) PROVE r(f) = r(g)
    <2> DEFINE nt == n(f) \o t(f)
    <2>1. nt \in Seq(Words) /\ nt \o r(f) = nt \o r(g)
      BY <1>2, <1>4, <1>8
    <2> HIDE DEF nt
    <2>. QED
      BY <1>1, <2>1, Cancel
  <1>. QED
    BY <1>3, <1>6, <1>7, <1>8

\* Names do run together: where the function's name ends and its argument's begins
\* does not show, so that two functions of different signatures share a topic.
THEOREM NamesRunTogether ==
  ASSUME NEW n \in Seq(Words), NEW w \in Seq(Words), NEW v \in Seq(Words),
         NEW r \in Seq(Types), w # <<>>
  PROVE  LET arg(id) == << [refs |-> 0, path |-> <<id>>] >>
             f == [name |-> n,      args |-> arg(w \o v), ret |-> r]
             g == [name |-> n \o w, args |-> arg(v),      ret |-> r]
         IN  RpcName(f) = RpcName(g) /\ Signature(f) # Signature(g)
  <1> DEFINE arg(id) == << [refs |-> 0, path |-> <<id>>] >>
             f == [name |-> n,      args |-> arg(w \o v), ret |-> r]
             g == [name |-> n \o w, args |-> arg(v),      ret |-> r]
  <1>1. \A id \in Seq(Words) : TypeText(arg(id)) = id
    BY DEF TypeText, LastSegment
  <1>2. RpcName(f) = (n \o (w \o v)) \o TypeText(r)
    <2>1. w \o v \in Seq(Words)
      BY ConcatProperties
    <2>2. TypeText(arg(w \o v)) = w \o v
      BY <1>1, <2>1
    <2>3. f.name = n /\ f.args = arg(w \o v) /\ f.ret = r
      BY DEF f
    <2>. QED
      BY <2>2, <2>3 DEF RpcName
  <1>3. RpcName(g) = ((n \o w) \o v) \o TypeText(r)
    <2>1. TypeText(arg(v)) = v
      BY <1>1
    <2>2. g.name = n \o w /\ g.args = arg(v) /\ g.ret = r
      BY DEF g
    <2>. QED
      BY <2>1, <2>2 DEF RpcName
  <1>4. n \o (w \o v) = (n \o w) \o v
    BY ConcatAssociative
  <1>5. n # n \o w
    <2>1. Len(n \o w) = Len(n) + Len(w) /\ Len(w) # 0
      OBVIOUS
    <2>. QED
      BY <2>1
  <1>. QED
    BY <1>2, <1>3, <1>4, <1>5 DEF Signature

\* "Match Python: <function name><arg types...><return type>" (macros/src/lib.rs:277)
\* is true of functions with an argument, and of no other: Rust puts "None" in the
\* place of the argument, Python nothing, so that neither calls the other.
THEOREM NamesMatchPython ==
  ASSUME NEW f \in Functions
  PROVE  RpcName(f) = PythonName(f) <=> f.args # <<>>
  <1>1. CASE f.args # <<>>
    BY <1>1 DEF RpcName, PythonName
  <1>2. CASE f.args = <<>>
    <2> DEFINE n == f.name
               t == TypeText(f.ret)
    <2>1. n \in Seq(Words) /\ t \in Seq(Words)
      BY PartsType
    <2>2. RpcName(f) = (n \o <<"None">>) \o t /\ PythonName(f) = (n \o <<>>) \o t
      BY <1>2 DEF RpcName, PythonName, TypeText
    <2> HIDE DEF n, t
    <2>3. Len((n \o <<"None">>) \o t) = Len(n) + 1 + Len(t)
      BY <2>1
    <2>4. Len((n \o <<>>) \o t) = Len(n) + Len(t)
      BY <2>1
    <2>5. Len(n) \in Nat /\ Len(t) \in Nat
      BY <2>1
    <2>. QED
      BY <1>2, <2>2, <2>3, <2>4, <2>5
  <1>. QED
    BY <1>1, <1>2
=============================================================================
