------------------------- MODULE FilterParserProofs -------------------------
(***************************************************************************)
(* The parser of filters stays in its tokens, reads chains from left to    *)
(* right, returns, and accepts exactly the texts the grammar derives, with *)
(* their only tree.                                                        *)
(*                                                                         *)
(* The invariant says of each waiting call what was found before the next  *)
(* one: so what comes back is what a rule of the grammar still needs.      *)
(* Where nullptr comes back it says that nothing is derived there; for the *)
(* parser never goes back to try something else, this takes that of two    *)
(* expressions from one place the longer goes on with an operator, which   *)
(* is shown with the unambiguity of the grammar by induction over sizes.   *)
(***************************************************************************)
EXTENDS FilterGrammar, WellFoundedInduction, SequenceTheorems, TLAPS

Ops == {"and", "or"}

InExpr == {"first", "and", "or"}

Frame == [for : InExpr \cup {"not", "("}, from : Nat \ {0}, left : Nat]

Node == [kind : {"leaf"}, from : Nat, to : Nat] \cup [kind : {"not"}, child : Nat]
        \cup [kind : {"and", "or"}, left : Nat, right : Nat]

\* What can be found with n nodes made.
FoundIn(n) == [as : {"term", "expr"}, from : Nat, to : Nat, node : 1..n]

Types ==
    /\ words \in Seq(Tokens)
    /\ at \in {"typing", "term", "back", "loop", "done", "thrown"}
    /\ pos \in Nat /\ pos >= 1 /\ pos <= Len(words) + 1
    /\ calls \in Seq(Frame)
    /\ nodes \in Seq(Node)
    /\ value \in 0..Len(nodes)
    /\ parsed \subseteq FoundIn(Len(nodes))
    /\ at = "typing" => pos = 1 /\ calls = <<>> /\ parsed = {}
    /\ at = "thrown" => calls = <<>>

\* What c needs is what begins at s of the text, given what was found.
Waits(c, s, text, found) ==
    \/ c.for = "first" /\ s = c.from
    \/ /\ c.for \in {"and", "or"} /\ Found("expr", c.from, s - 2, c.left) \in found
       /\ text[s - 1] = c.for
    \/ c.for = "not" /\ s = c.from + 1 /\ text[c.from] = "not"
    \/ c.for = "(" /\ s = c.from + 1 /\ text[c.from] = "("

As(c) == IF c.for = "(" THEN "expr" ELSE "term"

\* The calls of a stack have called each other: parse_expr() is called by
\* parse_filter() and behind "(", parse_term() by the others.
IsNested(stack, text, found) ==
    /\ stack # <<>> => stack[1].for \in InExpr /\ stack[1].from = 1
    /\ \A i \in 1..Len(stack) - 1 :
          /\ Waits(stack[i], stack[i + 1].from, text, found)
          /\ stack[i].for = "(" <=> stack[i + 1].for \in InExpr

Nested == IsNested(calls, words, parsed)

\* What the parser is about to call for, or was returned.
Current ==
    /\ at = "term" => calls # <<>> /\ Top.for # "(" /\ Waits(Top, pos, words, parsed)
    /\ at = "loop" => /\ calls # <<>> /\ Top.for \in InExpr /\ value # 0
                      /\ Found("expr", Top.from, pos - 1, value) \in parsed
    /\ at = "back" /\ value # 0 =>
          IF calls = <<>> THEN Found("expr", 1, pos - 1, value) \in parsed
          ELSE \E s \in Nat : /\ Waits(Top, s, words, parsed)
                              /\ Found(As(Top), s, pos - 1, value) \in parsed
    /\ at = "done" /\ value # 0 => Found("expr", 1, Len(words), value) \in parsed

Derivation == \A f \in parsed : f.from >= 1 /\ f.from <= f.to /\ Derived(f)

Flat == \A i \in DOMAIN words : words[i] \in {"proto", "and", "or"}

\* The node is true of a packet where the reading up to i is.
Means(node, i) ==
    \A accepting, trueAt \in SUBSET Protos, holding \in SUBSET Nat :
        Evaluates(holding, accepting) /\ ReadsAs(trueAt, accepting)
            => (node \in holding <=> i \in trueAt)

\* In a chain of protocols only they are terms, and an expression begins at
\* the first one.
Chain ==
    Flat =>
      /\ \A i \in 1..Len(calls) : calls[i].for \in InExpr /\ calls[i].from = 1
      /\ \A f \in parsed :
            /\ f.to \in Protos
            /\ f.as = "term" => f.from = f.to /\ nodes[f.node] = Leaf(f.to, f.to)
            /\ f.as = "expr" => f.from = 1 /\ Means(f.node, f.to)

\* Nodes are made after those below them, of tokens that are there.
Made ==
    /\ \A i \in 1..Len(nodes) :
          /\ nodes[i].kind = "not" => nodes[i].child \in 1..i - 1
          /\ nodes[i].kind \in Ops => nodes[i].left \in 1..i - 1 /\ nodes[i].right \in 1..i - 1
    /\ \A f \in parsed : f.to <= Len(words)

\* No term begins at s,
NoTerm(s) == \A t \in Derivable(words) : ~(t.as = "term" /\ t.from = s)

\* no expression from q ends without an operator behind it,
Missing(q) ==
    \A t \in Derivable(words) : t.as = "expr" /\ t.from = q => Peek(t.to + 1) \in Ops

\* or only one that ends before p.
Ended(q, p) ==
    \A t \in Derivable(words) :
        t.as = "expr" /\ t.from = q => t.to = p - 1 \/ Peek(t.to + 1) \in Ops

\* A call that was returned nullptr did not overlook a thing, and a call in
\* parentheses was returned all that can be in them.
Complete ==
    /\ at = "back" /\ value = 0 =>
          IF calls = <<>> THEN Missing(1)
          ELSE \E s \in Nat : /\ 1 <= s /\ s <= Len(words) + 1 /\ Waits(Top, s, words, parsed)
                              /\ IF As(Top) = "expr" THEN Missing(s) ELSE NoTerm(s)
    /\ at = "back" /\ value # 0 =>
          IF calls = <<>> THEN Ended(1, pos)
          ELSE As(Top) = "expr" => Ended(Top.from + 1, pos)
    /\ at = "done" /\ value = 0 =>
          ~\E t \in Derivable(words) : t.as = "expr" /\ t.from = 1 /\ t.to = Len(words)

IInv == Types /\ Nested /\ Current /\ Derivation /\ Chain /\ Made /\ Complete

-----------------------------------------------------------------------------
(* Tokens and atoms.                                                       *)

LEMMA TokenFacts == "eof" \notin Tokens /\ "beyond" \notin Tokens
BY DEF Tokens, Numbers

LEMMA PeekFacts ==
    ASSUME Types
    PROVE  /\ Len(words) \in Nat /\ Len(tokens) = Len(words) + 1
           /\ \A p \in Nat : 1 <= p /\ p <= Len(words) => Peek(p) = words[p] /\ words[p] \in Tokens
           /\ \A p \in Nat : 1 <= p /\ Peek(p) \in Tokens => p <= Len(words) /\ Peek(p) = words[p]
           /\ \A p \in Nat : Peek(p) = "eof" /\ 1 <= p /\ p <= Len(words) + 1 => p = Len(words) + 1
<1>1. /\ Len(words) \in Nat /\ Len(tokens) = Len(words) + 1
      /\ tokens[Len(words) + 1] = "eof"
      /\ \A p \in 1..Len(words) : tokens[p] = words[p] /\ words[p] \in Tokens
  BY DEF Types, tokens
<1> QED  BY <1>1, TokenFacts DEF Peek

LEMMA Spelled ==
    ASSUME NEW s \in Seq(Tokens), NEW p \in Nat, 1 <= p
    PROVE  /\ p <= Len(s) => SubSeq(s, p, p) = <<s[p]>>
           /\ p + 1 <= Len(s) => SubSeq(s, p, p + 1) = <<s[p], s[p + 1]>>
           /\ p + 2 <= Len(s) => SubSeq(s, p, p + 2) = <<s[p], s[p + 1], s[p + 2]>>
<1>1. \A n \in Nat : p + n <= Len(s) =>
         /\ SubSeq(s, p, p + n) \in Seq(Tokens) /\ Len(SubSeq(s, p, p + n)) = n + 1
         /\ \A i \in 1..n + 1 : SubSeq(s, p, p + n)[i] = s[p + i - 1]
  OBVIOUS
<1>2. CASE p <= Len(s)
  <2>1. s[p] \in Tokens  BY <1>2
  <2>2. SubSeq(s, p, p) = <<s[p]>>
    <3> DEFINE u == SubSeq(s, p, p)
    <3>1. u \in Seq(Tokens) /\ Len(u) = 1 /\ u[1] = s[p]
      <4>1. p + 0 = p /\ 0 \in Nat  OBVIOUS
      <4> QED  BY <1>1, <1>2, <4>1
    <3>2. <<s[p]>> \in Seq(Tokens) /\ Len(<<s[p]>>) = 1 /\ <<s[p]>>[1] = s[p]  BY <2>1
    <3> HIDE DEF u
    <3>3. u = <<s[p]>>  BY ONLY <3>1, <3>2, SeqEqual
    <3> QED  BY <3>3 DEF u
  <2>3. ASSUME p + 1 <= Len(s)  PROVE SubSeq(s, p, p + 1) = <<s[p], s[p + 1]>>
    <3> DEFINE u == SubSeq(s, p, p + 1)
               v == <<s[p], s[p + 1]>>
    <3>1. u \in Seq(Tokens) /\ Len(u) = 2 /\ u[1] = s[p] /\ u[2] = s[p + 1]
      <4>1. /\ u \in Seq(Tokens) /\ Len(u) = 1 + 1
            /\ \A i \in 1..1 + 1 : u[i] = s[p + i - 1]
        BY <1>1, <2>3
      <4>2. 1 \in 1..1 + 1 /\ 2 \in 1..1 + 1 /\ p + 1 - 1 = p /\ p + 2 - 1 = p + 1 /\ 1 + 1 = 2
        OBVIOUS
      <4> HIDE DEF u
      <4> QED  BY <4>1, <4>2
    <3>2. v \in Seq(Tokens) /\ Len(v) = 2 /\ v[1] = s[p] /\ v[2] = s[p + 1]  BY <2>1, <2>3
    <3> HIDE DEF u, v
    <3>3. u = v  BY ONLY <3>1, <3>2, SeqEqual
    <3> QED  BY <3>3 DEF u, v
  <2>4. ASSUME p + 2 <= Len(s)  PROVE SubSeq(s, p, p + 2) = <<s[p], s[p + 1], s[p + 2]>>
    <3> DEFINE u == SubSeq(s, p, p + 2)
               v == <<s[p], s[p + 1], s[p + 2]>>
    <3>1. u \in Seq(Tokens) /\ Len(u) = 3 /\ u[1] = s[p] /\ u[2] = s[p + 1] /\ u[3] = s[p + 2]
      <4>1. /\ u \in Seq(Tokens) /\ Len(u) = 2 + 1
            /\ \A i \in 1..2 + 1 : u[i] = s[p + i - 1]
        BY <1>1, <2>4
      <4>2. /\ {1, 2, 3} \subseteq 1..2 + 1 /\ 2 + 1 = 3
            /\ p + 1 - 1 = p /\ p + 2 - 1 = p + 1 /\ p + 3 - 1 = p + 2
        OBVIOUS
      <4> HIDE DEF u
      <4> QED  BY <4>1, <4>2
    <3>2. v \in Seq(Tokens) /\ Len(v) = 3 /\ v[1] = s[p] /\ v[2] = s[p + 1] /\ v[3] = s[p + 2]
      BY <2>1, <2>4
    <3> HIDE DEF u, v
    <3>3. u = v  BY ONLY <3>1, <3>2, SeqEqual
    <3> QED  BY <3>3 DEF u, v
  <2> QED  BY <2>2, <2>3, <2>4
<1> QED  BY <1>2

\* What parse_atom() takes is an atom, within the tokens.
LEMMA AtomFacts ==
    ASSUME Types
    PROVE  /\ ParseAtom.what \in {"leaf", "null", "exception"}
           /\ ParseAtom.pos \in Nat /\ pos <= ParseAtom.pos /\ ParseAtom.pos <= Len(words) + 1
           /\ ParseAtom.what = "leaf" =>
                 /\ pos < ParseAtom.pos
                 /\ SubSeq(words, pos, ParseAtom.pos - 1) \in AtomForms
                 /\ Flat => ParseAtom.pos = pos + 1 /\ pos \in Protos
<1> DEFINE r == ParseAtom
           Good(x) == /\ x.what \in {"leaf", "null", "exception"}
                      /\ x.pos \in Nat /\ pos <= x.pos /\ x.pos <= Len(words) + 1
                      /\ x.what = "leaf" =>
                            /\ pos < x.pos
                            /\ SubSeq(words, pos, x.pos - 1) \in AtomForms
                            /\ Flat => x.pos = pos + 1 /\ pos \in Protos
<1>a. /\ words \in Seq(Tokens) /\ pos \in Nat /\ 1 <= pos /\ pos <= Len(words) + 1
      /\ Len(words) \in Nat
  BY PeekFacts DEF Types
<1>b. \A p \in Nat : 1 <= p /\ Peek(p) \in Tokens => p <= Len(words) /\ Peek(p) = words[p]
  BY PeekFacts
<1>c. {"proto", "ip", "src", "dst", "port", "len", "cmp", "addr", "number", "huge"} \subseteq Tokens
  BY DEF Tokens, Numbers
<1>d. /\ <<"proto">> \in AtomForms
      /\ \A d \in {"ip", "src", "dst"} : <<d, "addr">> \in AtomForms
      /\ <<"port", "number">> \in AtomForms /\ <<"len", "cmp", "number">> \in AtomForms
      /\ \A d \in {"src", "dst"} : <<d, "port", "number">> \in AtomForms
  BY DEF AtomForms, Numbers
<1>1. ASSUME Peek(pos) = "proto"  PROVE Good(r)
  <2>1. r = Got("leaf", pos + 1)  BY <1>1 DEF ParseAtom
  <2>2. pos <= Len(words) /\ words[pos] = "proto"  BY <1>1, <1>a, <1>b, <1>c
  <2>3. SubSeq(words, pos, pos) \in AtomForms  BY <1>a, <1>d, <2>2, Spelled
  <2>4. (pos + 1) - 1 = pos /\ pos \in Protos  BY <1>a, <2>2 DEF Protos
  <2> QED  BY <1>a, <2>1, <2>2, <2>3, <2>4 DEF Got
<1>2. ASSUME Peek(pos) \in {"ip", "src", "dst"}, r = ParseIpAddr(pos + 1)  PROVE Good(r)
  <2>1. pos <= Len(words) /\ words[pos] = Peek(pos)  BY <1>2, <1>a, <1>b, <1>c
  <2>2. CASE Peek(pos + 1) = "addr"
    <3>1. r = Got("leaf", pos + 2)  BY <1>2, <1>a, <2>2 DEF ParseIpAddr
    <3>2. pos + 1 <= Len(words) /\ words[pos + 1] = "addr"  BY <2>2, <1>a, <1>b, <1>c
    <3>3. SubSeq(words, pos, pos + 1) \in AtomForms  BY <1>2, <1>a, <1>d, <2>1, <3>2, Spelled
    <3>4. ~Flat  BY <1>a, <3>2 DEF Flat
    <3>5. (pos + 2) - 1 = pos + 1  BY <1>a
    <3> QED  BY <1>a, <3>1, <3>2, <3>3, <3>4, <3>5 DEF Got
  <2>3. CASE Peek(pos + 1) # "addr"
    <3>1. r = Got("null", pos + 1)  BY <1>2, <2>3 DEF ParseIpAddr
    <3> QED  BY <1>a, <2>1, <3>1 DEF Got
  <2> QED  BY <2>2, <2>3
<1>3. ASSUME Peek(pos) = "port"  PROVE Good(r)
  <2>1. r = ParseNumber(pos + 1)  BY <1>3 DEF ParseAtom
  <2>2. pos <= Len(words) /\ words[pos] = "port"  BY <1>3, <1>a, <1>b, <1>c
  <2>3. CASE Peek(pos + 1) = "number"
    <3>1. r = Got("leaf", pos + 2)  BY <1>a, <2>1, <2>3 DEF ParseNumber
    <3>2. pos + 1 <= Len(words) /\ words[pos + 1] = "number"  BY <2>3, <1>a, <1>b, <1>c
    <3>3. SubSeq(words, pos, pos + 1) \in AtomForms  BY <1>a, <1>d, <2>2, <3>2, Spelled
    <3>4. ~Flat  BY <1>a, <3>2 DEF Flat
    <3>5. (pos + 2) - 1 = pos + 1  BY <1>a
    <3> QED  BY <1>a, <3>1, <3>2, <3>3, <3>4, <3>5 DEF Got
  <2>4. CASE Peek(pos + 1) = "huge"
    <3>1. r = Got("exception", pos + 2)  BY <1>a, <2>1, <2>4 DEF ParseNumber
    <3>2. pos + 1 <= Len(words)  BY <2>4, <1>a, <1>b, <1>c
    <3> QED  BY <1>a, <3>1, <3>2 DEF Got
  <2>5. CASE Peek(pos + 1) \notin {"number", "huge"}
    <3>1. r = Got("null", pos + 1)  BY <2>1, <2>5 DEF ParseNumber
    <3> QED  BY <1>a, <2>2, <3>1 DEF Got
  <2> QED  BY <2>3, <2>4, <2>5
<1>4. ASSUME \/ Peek(pos) \in {"src", "dst"} /\ Peek(pos + 1) = "port"
             \/ Peek(pos) = "len" /\ Peek(pos + 1) = "cmp"
      PROVE  Good(r)
  <2>1. r = ParseNumber(pos + 2)  BY <1>4 DEF ParseAtom
  <2>2. /\ pos + 1 <= Len(words) /\ words[pos] = Peek(pos) /\ words[pos + 1] = Peek(pos + 1)
    BY <1>4, <1>a, <1>b, <1>c
  <2>3. CASE Peek(pos + 2) = "number"
    <3>1. r = Got("leaf", pos + 3)  BY <1>a, <2>1, <2>3 DEF ParseNumber
    <3>2. pos + 2 <= Len(words) /\ words[pos + 2] = "number"  BY <2>3, <1>a, <1>b, <1>c
    <3>3. SubSeq(words, pos, pos + 2) \in AtomForms  BY <1>4, <1>a, <1>d, <2>2, <3>2, Spelled
    <3>4. ~Flat  BY <1>a, <3>2 DEF Flat
    <3>5. (pos + 3) - 1 = pos + 2  BY <1>a
    <3> QED  BY <1>a, <3>1, <3>2, <3>3, <3>4, <3>5 DEF Got
  <2>4. CASE Peek(pos + 2) = "huge"
    <3>1. r = Got("exception", pos + 3)  BY <1>a, <2>1, <2>4 DEF ParseNumber
    <3>2. pos + 2 <= Len(words)  BY <2>4, <1>a, <1>b, <1>c
    <3> QED  BY <1>a, <3>1, <3>2 DEF Got
  <2>5. CASE Peek(pos + 2) \notin {"number", "huge"}
    <3>1. r = Got("null", pos + 2)  BY <2>1, <2>5 DEF ParseNumber
    <3> QED  BY <1>a, <2>2, <3>1 DEF Got
  <2> QED  BY <2>3, <2>4, <2>5
<1>5. ASSUME Peek(pos) = "len", Peek(pos + 1) # "cmp"  PROVE Good(r)
  <2>1. r = Got("null", pos + 1)  BY <1>5 DEF ParseAtom
  <2>2. pos <= Len(words)  BY <1>5, <1>a, <1>b, <1>c
  <2> QED  BY <1>a, <2>1, <2>2 DEF Got
<1>6. ASSUME Peek(pos) \notin {"proto", "ip", "src", "dst", "port", "len"}  PROVE Good(r)
  <2>1. r = Got("null", pos)  BY <1>6 DEF ParseAtom
  <2> QED  BY <1>a, <2>1 DEF Got
<1>7. /\ Peek(pos) = "ip" => r = ParseIpAddr(pos + 1)
      /\ Peek(pos) \in {"src", "dst"} /\ Peek(pos + 1) # "port" => r = ParseIpAddr(pos + 1)
  BY DEF ParseAtom
<1>8. Good(r)
  <2> HIDE DEF r, Good
  <2> QED  BY <1>1, <1>2, <1>3, <1>4, <1>5, <1>6, <1>7
<1> QED  BY <1>8

-----------------------------------------------------------------------------
(* The stack of calls.                                                     *)

LEMMA StackFacts ==
    ASSUME NEW s \in Seq(Frame), s # <<>>
    PROVE  /\ Len(s) \in Nat /\ Len(s) >= 1 /\ s[1] \in Frame /\ s[Len(s)] \in Frame
           /\ SubSeq(s, 1, Len(s) - 1) \in Seq(Frame)
           /\ Len(SubSeq(s, 1, Len(s) - 1)) = Len(s) - 1
           /\ \A i \in 1..Len(s) - 1 : SubSeq(s, 1, Len(s) - 1)[i] = s[i]
<1>0. Len(s) \in Nat /\ Len(s) >= 1  OBVIOUS
<1>1. Len(s) \in Nat /\ Len(s) >= 1 /\ \A i \in 1..Len(s) : s[i] \in Frame
  OBVIOUS
<1>2. s[1] \in Frame /\ s[Len(s)] \in Frame  BY <1>1
<1>3. 1 \in Int /\ Len(s) - 1 \in Int /\ \A i \in 1..Len(s) - 1 : s[i] \in Frame  BY <1>1
<1> DEFINE u == SubSeq(s, 1, Len(s) - 1)
<1>4. /\ u \in Seq(Frame)
      /\ Len(u) = IF 1 <= Len(s) - 1 THEN Len(s) - 1 - 1 + 1 ELSE 0
      /\ \A i \in 1..Len(s) - 1 - 1 + 1 : u[i] = s[1 + i - 1]
  BY ONLY <1>3, SubSeqProperties
<1> HIDE DEF u
<1>5. Len(u) = Len(s) - 1 /\ \A i \in 1..Len(s) - 1 : u[i] = s[i]
  <2>1. Len(s) - 1 - 1 + 1 = Len(s) - 1 /\ \A i \in Nat : 1 + i - 1 = i  BY <1>1
  <2>2. Len(u) = Len(s) - 1
    <3>1. CASE 1 <= Len(s) - 1  BY <1>4, <2>1, <3>1
    <3>2. CASE ~(1 <= Len(s) - 1)
      <4>0. \A n \in Nat : n >= 1 /\ ~(1 <= n - 1) => n - 1 = 0  OBVIOUS
      <4>1. Len(s) - 1 = 0  BY <1>0, <3>2, <4>0
      <4>2. Len(u) = 0  BY <1>4, <3>2
      <4> QED  BY <4>1, <4>2
    <3> QED  BY <3>1, <3>2
  <2>3. \A i \in 1..Len(s) - 1 : u[i] = s[i]
    <3> TAKE i \in 1..Len(s) - 1
    <3>1. i \in Nat /\ 1 + i - 1 = i  BY <1>1
    <3>2. u[i] = s[1 + i - 1]  BY <1>4, <2>1
    <3> QED  BY <3>1, <3>2
  <2> QED  BY <2>2, <2>3
<1> QED  BY <1>1, <1>2, <1>4, <1>5 DEF u

LEMMA WaitsGrows ==
    ASSUME NEW c, NEW s, NEW text, NEW found, NEW more, found \subseteq more,
           Waits(c, s, text, found)
    PROVE  Waits(c, s, text, more)
BY DEF Waits

LEMMA NestedGrows ==
    ASSUME NEW stack \in Seq(Frame), NEW text, NEW found, NEW more, found \subseteq more,
           IsNested(stack, text, found)
    PROVE  IsNested(stack, text, more)
BY WaitsGrows DEF IsNested

LEMMA NestedPush ==
    ASSUME NEW stack \in Seq(Frame), NEW text, NEW found, IsNested(stack, text, found),
           stack # <<>>, NEW c \in Frame,
           Waits(stack[Len(stack)], c.from, text, found),
           stack[Len(stack)].for = "(" <=> c.for \in InExpr
    PROVE  IsNested(Append(stack, c), text, found)
<1> DEFINE s == Append(stack, c)
<1>1. /\ Len(stack) \in Nat /\ Len(stack) >= 1 /\ Len(s) = Len(stack) + 1
      /\ \A i \in 1..Len(stack) : s[i] = stack[i]
      /\ s[Len(stack) + 1] = c
  BY StackFacts
<1> HIDE DEF s
<1>2. s # <<>> => s[1].for \in InExpr /\ s[1].from = 1  BY <1>1 DEF IsNested
<1>3. ASSUME NEW i \in 1..Len(s) - 1
      PROVE  /\ Waits(s[i], s[i + 1].from, text, found)
             /\ s[i].for = "(" <=> s[i + 1].for \in InExpr
  <2>1. CASE i = Len(stack)  BY <1>1, <2>1
  <2>2. CASE i # Len(stack)
    <3>1. i \in 1..Len(stack) - 1 /\ s[i] = stack[i] /\ s[i + 1] = stack[i + 1]
      BY <1>1, <2>2
    <3> QED  BY <3>1 DEF IsNested
  <2> QED  BY <2>1, <2>2
<1>4. IsNested(s, text, found)  BY <1>2, <1>3 DEF IsNested
<1> QED  BY <1>4 DEF s

LEMMA NestedPop ==
    ASSUME NEW stack \in Seq(Frame), NEW text, NEW found, IsNested(stack, text, found),
           stack # <<>>
    PROVE  IsNested(SubSeq(stack, 1, Len(stack) - 1), text, found)
<1> DEFINE s == SubSeq(stack, 1, Len(stack) - 1)
<1>1. /\ Len(stack) \in Nat /\ Len(stack) >= 1 /\ Len(s) = Len(stack) - 1
      /\ \A i \in 1..Len(s) : s[i] = stack[i]
      /\ s # <<>> => Len(s) >= 1
  BY StackFacts
<1> HIDE DEF s
<1>2. s # <<>> => s[1].for \in InExpr /\ s[1].from = 1  BY <1>1 DEF IsNested
<1>3. ASSUME NEW i \in 1..Len(s) - 1
      PROVE  /\ Waits(s[i], s[i + 1].from, text, found)
             /\ s[i].for = "(" <=> s[i + 1].for \in InExpr
  <2>1. i \in 1..Len(stack) - 1 /\ s[i] = stack[i] /\ s[i + 1] = stack[i + 1]  BY <1>1
  <2> QED  BY <2>1 DEF IsNested
<1>4. IsNested(s, text, found)  BY <1>2, <1>3 DEF IsNested
<1> QED  BY <1>4 DEF s

\* One call of parse_expr() waits in another place.
LEMMA NestedMoves ==
    ASSUME NEW stack \in Seq(Frame), NEW text, NEW found, IsNested(stack, text, found),
           stack # <<>>, NEW c \in Frame,
           c.for \in InExpr, stack[Len(stack)].for \in InExpr,
           c.from = stack[Len(stack)].from
    PROVE  IsNested(Append(SubSeq(stack, 1, Len(stack) - 1), c), text, found)
<1> DEFINE s == SubSeq(stack, 1, Len(stack) - 1)
           n == Len(stack) - 1
<1>1. /\ n \in Nat /\ Len(stack) = n + 1 /\ Len(s) = n /\ s \in Seq(Frame)
      /\ \A i \in 1..n : s[i] = stack[i]
      /\ s = <<>> <=> n = 0
  <2>1. /\ n \in Nat /\ Len(stack) = n + 1 /\ Len(s) = n /\ s \in Seq(Frame)
        /\ \A i \in 1..n : s[i] = stack[i]
    BY StackFacts
  <2> HIDE DEF s, n
  <2>2. s = <<>> <=> n = 0  BY <2>1
  <2> QED  BY <2>1, <2>2
<1>2. IsNested(s, text, found)  BY NestedPop
<1> HIDE DEF s, n
<1>3. CASE n = 0
  <2>1. s = <<>> /\ stack[1].from = 1  BY <1>1, <1>3 DEF IsNested
  <2>2. Append(s, c) = <<c>> /\ Len(<<c>>) = 1 /\ <<c>>[1] = c  BY <2>1
  <2>3. c.from = 1  BY <1>1, <1>3, <2>1
  <2>4. IsNested(<<c>>, text, found)  BY <2>2, <2>3 DEF IsNested
  <2> QED  BY <2>2, <2>4 DEF s
<1>4. CASE n # 0
  <2>1. /\ n \in 1..Len(stack) - 1 /\ s[Len(s)] = stack[n] /\ stack[n + 1] = stack[Len(stack)]
    BY <1>1, <1>4
  <2>2. /\ Waits(stack[n], stack[n + 1].from, text, found)
        /\ stack[n].for = "(" <=> stack[n + 1].for \in InExpr
    BY <2>1 DEF IsNested
  <2>3. /\ Waits(s[Len(s)], c.from, text, found)
        /\ s[Len(s)].for = "(" <=> c.for \in InExpr
    BY <2>1, <2>2
  <2>4. s # <<>>  BY <1>1, <1>4
  <2>5. IsNested(Append(s, c), text, found)  BY <1>1, <1>2, <2>3, <2>4, NestedPush
  <2> QED  BY <2>5 DEF s
<1> QED  BY <1>3, <1>4

-----------------------------------------------------------------------------
(* Types.                                                                  *)

LEMMA FrameTypes ==
    /\ \A for \in InExpr \cup {"not", "("}, from \in Nat \ {0}, left \in Nat :
          Call(for, from, left) \in Frame
    /\ \A c \in Frame : /\ c.for \in InExpr \cup {"not", "("}
                       /\ c.from \in Nat /\ c.from >= 1 /\ c.left \in Nat
BY DEF Frame, Call

LEMMA NodeTypes ==
    /\ \A from, to \in Nat : Leaf(from, to) \in Node
    /\ \A child \in Nat : NotNode(child) \in Node
    /\ \A op \in {"and", "or"}, left, right \in Nat : BinaryNode(op, left, right) \in Node
BY DEF Node, Leaf, NotNode, BinaryNode

LEMMA TopFacts ==
    ASSUME Types, calls # <<>>
    PROVE  /\ Top \in Frame /\ Top.for \in InExpr \cup {"not", "("}
           /\ Top.from \in Nat /\ Top.from >= 1 /\ Top.left \in Nat
           /\ Popped \in Seq(Frame) /\ Len(Popped) = Len(calls) - 1
BY StackFacts, FrameTypes DEF Types, Top, Popped

\* What was made stays as it is.
LEMMA Grows ==
    ASSUME Types, Next, at # "typing"
    PROVE  /\ words' = words /\ Len(nodes) \in Nat /\ Len(nodes') >= Len(nodes)
           /\ \A i \in 1..Len(nodes) : nodes'[i] = nodes[i]
           /\ parsed \subseteq parsed'
<1>1. /\ words' = words /\ parsed \subseteq parsed'
      /\ nodes' = nodes \/ \E n \in Node : nodes' = Append(nodes, n)
  <2>0. /\ Len(nodes) + 1 \in Nat /\ value \in Nat /\ pos \in Nat /\ pos >= 1
    BY DEF Types
  <2>1. CASE Atom
    <3>1. pos' - 1 \in Nat  BY <2>0, <2>1, AtomFacts DEF Atom
    <3> QED  BY <2>0, <2>1, <3>1, NodeTypes DEF Atom, Term
  <2>2. CASE Join
    <3>1. Top.for \in {"and", "or"} /\ Top.left \in Nat  BY <2>2, TopFacts DEF Join, BackIn
    <3> QED  BY <2>0, <2>2, <3>1, NodeTypes DEF Join, BackIn
  <2>3. CASE Negate  BY <2>0, <2>3, NodeTypes DEF Negate, BackIn
  <2>4. CASE Not \/ Open \/ First \/ Operator \/ ExprEnds \/ Close \/ Fail \/ Finish \/ Over
    BY <2>4 DEF Not, Open, Term, First, BackIn, Operator, ExprEnds, Loop, Close, Fail, Finish,
                Over, vars
  <2> QED  BY <2>1, <2>2, <2>3, <2>4 DEF Next, Type, Erase, Parse
<1> QED  BY <1>1 DEF Types

LEMMA TypesKept ==
    ASSUME Types, Current, Next
    PROVE  Types'
<1>0. /\ words \in Seq(Tokens) /\ Len(words) \in Nat
      /\ at \in {"typing", "term", "back", "loop", "done", "thrown"}
      /\ pos \in Nat /\ pos >= 1 /\ pos <= Len(words) + 1
      /\ calls \in Seq(Frame)
      /\ nodes \in Seq(Node) /\ Len(nodes) \in Nat
      /\ value \in 0..Len(nodes) /\ value \in Nat
      /\ parsed \subseteq FoundIn(Len(nodes))
      /\ at = "typing" => pos = 1 /\ calls = <<>> /\ parsed = {}
      /\ at = "thrown" => calls = <<>>
  BY DEF Types
<1>1. \A p \in Nat : 1 <= p /\ Peek(p) \in Tokens => p <= Len(words)
  BY PeekFacts
<1>2. {"not", "(", ")", "and", "or"} \subseteq Tokens  BY DEF Tokens
<1>3. \A n, m \in Nat : n <= m => FoundIn(n) \subseteq FoundIn(m) /\ 0..n \subseteq 0..m
  BY DEF FoundIn
<1>4. \A n, from, to \in Nat : \A as \in {"term", "expr"}, node \in 1..n :
         Found(as, from, to, node) \in FoundIn(n)
  BY DEF Found, FoundIn
<1>5. pos + 1 \in Nat /\ pos - 1 \in Nat /\ New \in Nat /\ New >= 1  BY <1>0 DEF New
<1>6. calls # <<>> => /\ Top.for \in InExpr \cup {"not", "("}
                      /\ Top.from \in Nat /\ Top.from >= 1 /\ Top.left \in Nat
                      /\ Popped \in Seq(Frame)
  BY TopFacts
<1>7. {"not", "(", "first", "and", "or"} \subseteq InExpr \cup {"not", "("}  BY DEF InExpr
<1>a. CASE Type
  <2>1. words' \in Seq(Tokens)
    <3> PICK alphabet \in DOMAIN MaxTokens : \E t \in alphabet : words' = Append(words, t)
      BY <1>a DEF Type
    <3>1. alphabet \subseteq Tokens  BY TokenAssumption
    <3> QED  BY <1>0, <3>1
  <2> QED  BY <1>0, <1>a, <2>1 DEF Type, Types
<1>b. CASE Erase
  <2>1. words' \in Seq(Tokens)
    <3>1. \A i \in 1..Len(words) - 1 : words[i] \in Tokens  BY <1>0
    <3>2. Len(words) - 1 \in Int /\ 1 \in Int  BY <1>0
    <3> QED  BY <1>b, <3>1, <3>2, SubSeqProperties DEF Erase
  <2> QED  BY <1>0, <1>b, <2>1 DEF Erase, Types
<1>c. CASE Parse
  <2>1. calls' \in Seq(Frame)  BY <1>0, <1>7, <1>c, FrameTypes DEF Parse
  <2> QED  BY <1>0, <1>c, <2>1 DEF Parse, Types
<1>d. CASE Not
  <2>1. calls' \in Seq(Frame)
    <3>1. Call("not", pos, 0) \in Frame
      <4>1. pos \in Nat \ {0} /\ 0 \in Nat /\ "not" \in InExpr \cup {"not", "("}  BY <1>0
      <4> QED  BY <4>1, FrameTypes
    <3> QED  BY <1>0, <1>d, <3>1 DEF Not
  <2>2. pos' \in Nat /\ pos' >= 1 /\ pos' <= Len(words) + 1  BY <1>0, <1>1, <1>2, <1>d DEF Not
  <2> QED  BY <1>0, <1>d, <2>1, <2>2 DEF Not, Term, Types
<1>e. CASE Open
  <2>1. calls' \in Seq(Frame)
    <3>1. Call("(", pos, 0) \in Frame /\ Call("first", pos + 1, 0) \in Frame
      <4>1. /\ pos \in Nat \ {0} /\ pos + 1 \in Nat \ {0} /\ 0 \in Nat
            /\ {"(", "first"} \subseteq InExpr \cup {"not", "("}
        BY <1>0, <1>7
      <4> QED  BY <4>1, FrameTypes
    <3> QED  BY <1>0, <1>e, <3>1 DEF Open
  <2>2. pos' \in Nat /\ pos' >= 1 /\ pos' <= Len(words) + 1  BY <1>0, <1>1, <1>2, <1>e DEF Open
  <2> QED  BY <1>0, <1>e, <2>1, <2>2 DEF Open, Term, Types
<1>f. CASE Atom
  <2>1. /\ pos' \in Nat /\ pos' >= 1 /\ pos' <= Len(words) + 1
        /\ words' = words /\ at = "term"
    BY <1>0, <1>f, AtomFacts DEF Atom, Term
  <2>2. CASE /\ at' = "back" /\ value' = New
             /\ nodes' = Append(nodes, Leaf(pos, pos' - 1))
             /\ parsed' = parsed \cup {Found("term", pos, pos' - 1, New)}
             /\ UNCHANGED calls
    <3>1. nodes' \in Seq(Node) /\ Len(nodes') = New
      <4>1. Leaf(pos, pos' - 1) \in Node  BY <1>0, <2>1, NodeTypes
      <4> QED  BY <1>0, <2>2, <4>1 DEF New
    <3>2. parsed' \subseteq FoundIn(New)
      <4>1. Found("term", pos, pos' - 1, New) \in FoundIn(New)  BY <1>0, <1>4, <1>5, <2>1
      <4>2. FoundIn(Len(nodes)) \subseteq FoundIn(New)  BY <1>0, <1>3 DEF New
      <4> QED  BY <1>0, <2>2, <4>1, <4>2
    <3>3. value' \in 0..Len(nodes')  BY <1>5, <2>2, <3>1
    <3> QED  BY <1>0, <2>1, <2>2, <3>1, <3>2, <3>3 DEF Types
  <2>3. CASE at' = "back" /\ value' = 0 /\ UNCHANGED <<calls, nodes, parsed>>
    BY <1>0, <2>1, <2>3 DEF Types
  <2>4. CASE at' = "thrown" /\ calls' = <<>> /\ UNCHANGED <<value, nodes, parsed>>
    <3>1. calls' \in Seq(Frame)  BY <2>4
    <3> QED  BY <1>0, <2>1, <2>4, <3>1 DEF Types
  <2> QED  BY <1>f, <2>2, <2>3, <2>4 DEF Atom
<1>g. CASE First
  <2>1. parsed' \subseteq FoundIn(Len(nodes))
    <3>1. Top.from \in Nat  BY <1>6, <1>g DEF First, BackIn
    <3>2. value \in 1..Len(nodes)  BY <1>0, <1>g DEF First, BackIn
    <3>3. Found("expr", Top.from, pos - 1, value) \in FoundIn(Len(nodes))
      BY <1>0, <1>4, <1>5, <3>1, <3>2
    <3> QED  BY <1>0, <1>g, <3>3 DEF First
  <2> QED  BY <1>0, <1>g, <2>1 DEF First, BackIn, Types
<1>h. CASE Join
  <2>1. Top.for \in {"and", "or"} /\ Top.from \in Nat /\ Top.left \in Nat
    BY <1>6, <1>h DEF Join, BackIn
  <2>2. nodes' \in Seq(Node) /\ Len(nodes') = New
    <3>1. BinaryNode(Top.for, Top.left, value) \in Node  BY <1>0, <2>1, NodeTypes
    <3> QED  BY <1>0, <1>h, <3>1 DEF Join, New
  <2>3. parsed' \subseteq FoundIn(New)
    <3>1. Found("expr", Top.from, pos - 1, New) \in FoundIn(New)  BY <1>4, <1>5, <2>1
    <3>2. FoundIn(Len(nodes)) \subseteq FoundIn(New)  BY <1>0, <1>3 DEF New
    <3> QED  BY <1>0, <1>h, <3>1, <3>2 DEF Join
  <2>4. value' \in 0..Len(nodes')  BY <1>5, <1>h, <2>2 DEF Join
  <2> QED  BY <1>0, <1>h, <2>2, <2>3, <2>4 DEF Join, BackIn, Types
<1>i. CASE Operator
  <2>1. calls # <<>> /\ Peek(pos) \in {"and", "or"}  BY <1>i DEF Operator, Loop, Current
  <2>2. calls' \in Seq(Frame)
    <3>1. Peek(pos) \in InExpr \cup {"not", "("}  BY <1>7, <2>1
    <3>2. Call(Peek(pos), Top.from, value) \in Frame  BY <1>0, <1>6, <2>1, <3>1, FrameTypes
    <3> QED  BY <1>6, <1>i, <2>1, <3>2 DEF Operator
  <2>3. pos' \in Nat /\ pos' >= 1 /\ pos' <= Len(words) + 1
    BY <1>0, <1>1, <1>2, <1>i, <2>1 DEF Operator
  <2> QED  BY <1>0, <1>i, <2>2, <2>3 DEF Operator, Loop, Types
<1>j. CASE ExprEnds
  <2>1. calls' \in Seq(Frame)  BY <1>6, <1>j DEF ExprEnds, Loop, Current
  <2> QED  BY <1>0, <1>j, <2>1 DEF ExprEnds, Loop, Types
<1>k. CASE Negate
  <2>1. Top.from \in Nat /\ calls' \in Seq(Frame)  BY <1>6, <1>k DEF Negate, BackIn
  <2>2. nodes' \in Seq(Node) /\ Len(nodes') = New
    <3>1. NotNode(value) \in Node  BY <1>0, NodeTypes
    <3> QED  BY <1>0, <1>k, <3>1 DEF Negate, New
  <2>3. parsed' \subseteq FoundIn(New)
    <3>1. Found("term", Top.from, pos - 1, New) \in FoundIn(New)  BY <1>4, <1>5, <2>1
    <3>2. FoundIn(Len(nodes)) \subseteq FoundIn(New)  BY <1>0, <1>3 DEF New
    <3> QED  BY <1>0, <1>k, <3>1, <3>2 DEF Negate
  <2>4. value' \in 0..Len(nodes')  BY <1>5, <1>k, <2>2 DEF Negate
  <2> QED  BY <1>0, <1>k, <2>1, <2>2, <2>3, <2>4 DEF Negate, BackIn, Types
<1>l. CASE Close
  <2>1. /\ Top.from \in Nat /\ calls' \in Seq(Frame)
        /\ at = "back" /\ at' = at /\ nodes' = nodes /\ words' = words
    BY <1>6, <1>l DEF Close, BackIn
  <2>2. CASE /\ Peek(pos) = ")" /\ pos' = pos + 1
             /\ parsed' = parsed \cup {Found("term", Top.from, pos, value)}
             /\ UNCHANGED value
    <3>1. value \in 1..Len(nodes)  BY <1>0, <1>l DEF Close, BackIn
    <3>2. Found("term", Top.from, pos, value) \in FoundIn(Len(nodes))
      BY <1>0, <1>4, <2>1, <3>1
    <3>3. parsed' \subseteq FoundIn(Len(nodes))  BY <1>0, <2>2, <3>2
    <3>4. pos' \in Nat /\ pos' >= 1 /\ pos' <= Len(words) + 1  BY <1>0, <1>1, <1>2, <2>2
    <3> QED  BY <1>0, <2>1, <2>2, <3>3, <3>4 DEF Types
  <2>3. CASE Peek(pos) # ")" /\ value' = 0 /\ UNCHANGED <<pos, parsed>>
    BY <1>0, <2>1, <2>3 DEF Types
  <2> QED  BY <1>l, <2>2, <2>3 DEF Close
<1>m. CASE Fail
  <2>1. calls' \in Seq(Frame)  BY <1>6, <1>m DEF Fail
  <2> QED  BY <1>0, <1>m, <2>1 DEF Fail, Types
<1>n. CASE Finish  BY <1>0, <1>n DEF Finish, Types
<1>o. CASE Over  BY <1>0, <1>o DEF Over, vars, Types
<1> QED  BY <1>a, <1>b, <1>c, <1>d, <1>e, <1>f, <1>g, <1>h, <1>i, <1>j, <1>k, <1>l, <1>m,
            <1>n, <1>o DEF Next

-----------------------------------------------------------------------------
(* The calls, and what comes back to them.                                 *)

LEMMA NestedKept ==
    ASSUME Types, Nested, Current, Next
    PROVE  Nested'
<1>0. /\ calls \in Seq(Frame) /\ pos \in Nat /\ pos >= 1 /\ value \in Nat
      /\ IsNested(calls, words, parsed)
      /\ at = "typing" => pos = 1 /\ calls = <<>> /\ parsed = {}
  BY DEF Types, Nested
<1>1. \A text, found : IsNested(<<>>, text, found)  BY DEF IsNested
<1>2. ASSUME words' = words, parsed \subseteq parsed', IsNested(calls', words, parsed)
      PROVE  Nested'
  <2>1. calls' \in Seq(Frame)  BY TypesKept DEF Types
  <2>2. IsNested(calls', words, parsed')  BY <1>2, <2>1, NestedGrows
  <2> QED  BY <1>2, <2>2 DEF Nested
<1>3. at # "typing" => words' = words /\ parsed \subseteq parsed'  BY Grows
<1>4. calls # <<>> => /\ Top \in Frame /\ Top.from \in Nat \ {0} /\ Popped \in Seq(Frame)
                      /\ IsNested(Popped, words, parsed)
  BY <1>0, TopFacts, NestedPop DEF Popped
<1>a. CASE Type \/ Erase  BY <1>0, <1>1, <1>a DEF Type, Erase, Nested
<1>b. CASE Parse
  <2>1. calls' = <<Call("first", 1, 0)>> /\ parsed' = parsed /\ words' = words
    BY <1>0, <1>b DEF Parse
  <2>2. IsNested(<<Call("first", 1, 0)>>, words, parsed)  BY DEF IsNested, Call, InExpr
  <2> QED  BY <2>1, <2>2 DEF Nested
<1>c. CASE Not
  <2> DEFINE c == Call("not", pos, 0)
  <2>1. at = "term" /\ calls # <<>> /\ Top.for # "(" /\ Waits(Top, pos, words, parsed)
    BY <1>c DEF Not, Term, Current
  <2>2. c \in Frame /\ c.from = pos /\ c.for = "not" /\ c.for \notin InExpr
    BY <1>0, FrameTypes DEF Call, InExpr
  <2>3. calls' = Append(calls, c)  BY <1>c DEF Not
  <2> HIDE DEF c
  <2>4. IsNested(Append(calls, c), words, parsed)  BY <1>0, <2>1, <2>2, NestedPush DEF Top
  <2> QED  BY <1>2, <1>3, <2>1, <2>3, <2>4
<1>d. CASE Open
  <2> DEFINE c == Call("(", pos, 0)
             d == Call("first", pos + 1, 0)
  <2>1. at = "term" /\ calls # <<>> /\ Top.for # "(" /\ Waits(Top, pos, words, parsed)
    BY <1>d DEF Open, Term, Current
  <2>2. /\ c \in Frame /\ c.from = pos /\ c.for = "(" /\ c.for \notin InExpr
        /\ d \in Frame /\ d.from = pos + 1 /\ d.for = "first" /\ d.for \in InExpr
    BY <1>0, FrameTypes DEF Call, InExpr
  <2>3. calls' = calls \o <<c, d>> /\ words[pos] = "("
    BY <1>0, <1>d, PeekFacts DEF Open, Tokens
  <2>4. Waits(c, d.from, words, parsed)  BY <2>2, <2>3 DEF Waits
  <2> HIDE DEF c, d
  <2>5. IsNested(Append(calls, c), words, parsed)  BY <1>0, <2>1, <2>2, NestedPush DEF Top
  <2>6. /\ Append(calls, c) \in Seq(Frame) /\ Append(calls, c) # <<>>
        /\ Append(calls, c)[Len(Append(calls, c))] = c
    BY <1>0, <2>2
  <2>7. IsNested(Append(Append(calls, c), d), words, parsed)
    <3> DEFINE s == Append(calls, c)
    <3>1. s \in Seq(Frame) /\ s # <<>> /\ s[Len(s)] = c /\ IsNested(s, words, parsed)
      BY <2>5, <2>6
    <3> HIDE DEF s
    <3>2. IsNested(Append(s, d), words, parsed)  BY <2>2, <2>4, <3>1, NestedPush
    <3> QED  BY <3>2 DEF s
  <2>8. Append(Append(calls, c), d) = calls \o <<c, d>>  BY <1>0, <2>2
  <2> QED  BY <1>2, <1>3, <2>1, <2>3, <2>7, <2>8
<1>e. CASE Atom
  <2>1. at = "term" /\ (calls' = calls \/ calls' = <<>>)  BY <1>e DEF Atom, Term
  <2> QED  BY <1>0, <1>1, <1>2, <1>3, <2>1
<1>f. CASE First \/ Join \/ Finish \/ Over
  <2>1. at # "typing" /\ calls' = calls  BY <1>f DEF First, Join, Finish, Over, BackIn, vars
  <2> QED  BY <1>0, <1>2, <1>3, <2>1
<1>g. CASE Operator
  <2> DEFINE c == Call(Peek(pos), Top.from, value)
  <2>1. /\ at = "loop" /\ calls # <<>> /\ Top.for \in InExpr /\ Peek(pos) \in {"and", "or"}
        /\ calls' = Append(Popped, c)
    BY <1>g DEF Operator, Loop, Current
  <2>2. c \in Frame /\ c.from = Top.from /\ c.for \in InExpr
    BY <1>0, <1>4, <2>1, FrameTypes DEF Call, InExpr
  <2> HIDE DEF c
  <2>3. IsNested(Append(Popped, c), words, parsed)
    BY <1>0, <2>1, <2>2, NestedMoves DEF Top, Popped
  <2> QED  BY <1>2, <1>3, <2>1, <2>3
<1>h. CASE ExprEnds \/ Negate \/ Close \/ Fail
  <2>1. at # "typing" /\ calls # <<>> /\ calls' = Popped
    BY <1>h DEF ExprEnds, Loop, Current, Negate, Close, BackIn, Fail
  <2> QED  BY <1>2, <1>3, <1>4, <2>1
<1> QED  BY <1>a, <1>b, <1>c, <1>d, <1>e, <1>f, <1>g, <1>h DEF Next

\* The call below the innermost one waits for what that one returns.
LEMMA Returned ==
    ASSUME Types, Nested, calls # <<>>, Popped # <<>>
    PROVE  /\ Waits(Popped[Len(Popped)], Top.from, words, parsed)
           /\ As(Popped[Len(Popped)]) = IF Top.for \in InExpr THEN "expr" ELSE "term"
<1>1. /\ calls \in Seq(Frame) /\ Len(calls) \in Nat /\ Len(Popped) = Len(calls) - 1
      /\ Len(Popped) >= 1
      /\ \A i \in 1..Len(calls) - 1 : Popped[i] = calls[i]
  BY StackFacts DEF Types, Popped
<1> DEFINE n == Len(calls) - 1
<1>2. n \in 1..Len(calls) - 1 /\ Popped[Len(Popped)] = calls[n] /\ Top = calls[n + 1]
  BY <1>1 DEF Top
<1> HIDE DEF n
<1>3. /\ Waits(calls[n], calls[n + 1].from, words, parsed)
      /\ calls[n].for = "(" <=> calls[n + 1].for \in InExpr
  BY <1>2 DEF Nested, IsNested
<1> QED  BY <1>2, <1>3 DEF As

LEMMA CurrentKept ==
    ASSUME Types, Nested, Current, Next
    PROVE  Current'
<1>0. /\ pos \in Nat /\ pos >= 1 /\ pos <= Len(words) + 1 /\ Len(words) \in Nat
      /\ calls \in Seq(Frame) /\ value \in Nat /\ New # 0
      /\ at = "typing" => pos = 1 /\ calls = <<>>
  BY DEF Types, New
<1>1. calls # <<>> => /\ Top.from \in Nat /\ Top.for \in InExpr \cup {"not", "("}
                      /\ Popped \in Seq(Frame) /\ Len(Popped) = Len(calls) - 1
                      /\ calls[1].for \in InExpr /\ calls[1].from = 1
                      /\ Len(calls) \in Nat
  BY <1>0, TopFacts DEF Nested, IsNested
<1>2. at # "typing" => words' = words /\ parsed \subseteq parsed'  BY Grows
<1>3. calls # <<>> /\ Popped = <<>> => Top.for \in InExpr /\ Top.from = 1
  <2>1. SUFFICES ASSUME calls # <<>>, Popped = <<>>  PROVE Len(calls) = 1
    BY <1>1 DEF Top
  <2> QED  BY <1>1, <2>1
<1>4. /\ \A p \in Nat : 1 <= p /\ Peek(p) \in Tokens => Peek(p) = words[p]
      /\ \A p \in Nat : Peek(p) = "eof" /\ 1 <= p /\ p <= Len(words) + 1 => p = Len(words) + 1
      /\ {"not", "(", "and", "or"} \subseteq Tokens
  BY PeekFacts DEF Tokens
<1>5. Top' = calls'[Len(calls')]  BY DEF Top
<1>a. CASE Type \/ Erase  BY <1>a DEF Type, Erase, Current
<1>b. CASE Parse
  <2>1. /\ at' = "term" /\ calls' = <<Call("first", 1, 0)>> /\ pos' = 1
    BY <1>0, <1>b DEF Parse
  <2>2. Top' = Call("first", 1, 0) /\ calls' # <<>>  BY <1>5, <2>1
  <2>3. Waits(Call("first", 1, 0), 1, words', parsed') /\ Call("first", 1, 0).for # "("
    BY DEF Waits, Call
  <2> QED  BY <2>1, <2>2, <2>3 DEF Current
<1>c. CASE Not
  <2> DEFINE c == Call("not", pos, 0)
  <2>1. /\ at' = "term" /\ calls' = Append(calls, c) /\ pos' = pos + 1 /\ words[pos] = "not"
        /\ at # "typing"
    BY <1>0, <1>4, <1>c DEF Not, Term
  <2>2. Top' = c /\ calls' # <<>>
    <3> HIDE DEF c
    <3> QED  BY <1>0, <1>5, <2>1
  <2>3. Waits(c, pos + 1, words', parsed') /\ c.for # "("  BY <1>2, <2>1 DEF Waits, Call
  <2> QED  BY <2>1, <2>2, <2>3 DEF Current
<1>d. CASE Open
  <2> DEFINE c == Call("(", pos, 0)
             d == Call("first", pos + 1, 0)
  <2>1. at' = "term" /\ calls' = calls \o <<c, d>> /\ pos' = pos + 1
    BY <1>d DEF Open, Term
  <2>2. Top' = d /\ calls' # <<>>
    <3> HIDE DEF c, d
    <3> QED  BY <1>0, <1>5, <2>1
  <2>3. Waits(d, pos + 1, words', parsed') /\ d.for # "("  BY DEF Waits, Call
  <2> QED  BY <2>1, <2>2, <2>3 DEF Current
<1>e. CASE Atom
  <2>1. /\ at = "term" /\ calls # <<>> /\ Top.for # "(" /\ Waits(Top, pos, words, parsed)
    BY <1>e DEF Atom, Term, Current
  <2>2. CASE /\ at' = "back" /\ value' = New
             /\ parsed' = parsed \cup {Found("term", pos, pos' - 1, New)}
             /\ UNCHANGED calls
    <3>1. Top' = Top  BY <2>2 DEF Top
    <3>2. Waits(Top, pos, words', parsed')  BY <1>2, <2>1, WaitsGrows
    <3>3. Found(As(Top), pos, pos' - 1, value') \in parsed'  BY <2>1, <2>2 DEF As
    <3> QED  BY <1>0, <2>1, <2>2, <3>1, <3>2, <3>3 DEF Current
  <2>3. CASE at' = "back" /\ value' = 0  BY <2>3 DEF Current
  <2>4. CASE at' = "thrown"  BY <2>4 DEF Current
  <2> QED  BY <1>e, <2>2, <2>3, <2>4 DEF Atom
<1>f. CASE First
  <2>1. /\ at' = "loop" /\ calls' = calls /\ calls # <<>> /\ Top' = Top /\ Top.for \in InExpr
        /\ value' = value /\ value # 0 /\ pos' = pos
        /\ Found("expr", Top.from, pos - 1, value) \in parsed'
    BY <1>f DEF First, BackIn, Top, InExpr
  <2> QED  BY <2>1 DEF Current
<1>g. CASE Join
  <2>1. /\ at' = "loop" /\ calls' = calls /\ calls # <<>> /\ Top' = Top /\ Top.for \in InExpr
        /\ value' = New /\ pos' = pos
        /\ Found("expr", Top.from, pos - 1, New) \in parsed'
    BY <1>g DEF Join, BackIn, Top, InExpr
  <2> QED  BY <1>0, <2>1 DEF Current
<1>h. CASE Operator
  <2> DEFINE c == Call(Peek(pos), Top.from, value)
  <2>1. /\ at = "loop" /\ calls # <<>> /\ Found("expr", Top.from, pos - 1, value) \in parsed
        /\ at' = "term" /\ pos' = pos + 1 /\ calls' = Append(Popped, c)
        /\ Peek(pos) \in {"and", "or"} /\ Peek(pos) = words[pos]
    BY <1>0, <1>4, <1>h DEF Operator, Loop, Current
  <2>2. Top' = c /\ calls' # <<>>
    <3> HIDE DEF c
    <3> QED  BY <1>1, <1>5, <2>1
  <2>3. /\ c.for \in {"and", "or"} /\ c.for = words[pos] /\ c.from = Top.from /\ c.left = value
    BY <2>1 DEF Call
  <2> HIDE DEF c
  <2>4. Waits(c, pos + 1, words', parsed')
    <3>1. (pos + 1) - 2 = pos - 1 /\ (pos + 1) - 1 = pos  BY <1>0
    <3> QED  BY <1>2, <2>1, <2>3, <3>1 DEF Waits
  <2> QED  BY <2>1, <2>2, <2>3, <2>4 DEF Current
<1>i. CASE ExprEnds
  <2>1. /\ at = "loop" /\ calls # <<>> /\ Top.for \in InExpr /\ value # 0
        /\ Found("expr", Top.from, pos - 1, value) \in parsed
        /\ at' = "back" /\ pos' = pos /\ value' = value /\ calls' = Popped /\ parsed' = parsed
        /\ words' = words
    BY <1>i DEF ExprEnds, Loop, Current
  <2>2. CASE Popped = <<>>  BY <1>3, <2>1, <2>2 DEF Current
  <2>3. CASE Popped # <<>>
    <3>1. Top' = Popped[Len(Popped)]  BY <1>5, <2>1
    <3>2. Waits(Top', Top.from, words, parsed) /\ As(Top') = "expr"
      BY <2>1, <2>3, <3>1, Returned
    <3> QED  BY <1>1, <2>1, <2>3, <3>2 DEF Current
  <2> QED  BY <2>2, <2>3
<1>j. ASSUME calls # <<>>, Top.for \notin InExpr, at # "typing", at' = "back", calls' = Popped,
             value' # 0 => Found("term", Top.from, pos' - 1, value') \in parsed'
      PROVE  Current'
  <2>1. Popped # <<>>  BY <1>3, <1>j
  <2>2. Top' = Popped[Len(Popped)]  BY <1>5, <1>j
  <2>3. Waits(Top', Top.from, words, parsed) /\ As(Top') = "term"  BY <1>j, <2>1, <2>2, Returned
  <2>4. Waits(Top', Top.from, words', parsed')  BY <1>2, <1>j, <2>3, WaitsGrows
  <2> QED  BY <1>1, <1>j, <2>1, <2>3, <2>4 DEF Current
<1>k. CASE Negate
  <2>1. /\ calls # <<>> /\ Top.for = "not" /\ at = "back" /\ at' = "back" /\ calls' = Popped
        /\ Found("term", Top.from, pos' - 1, value') \in parsed'
    BY <1>k DEF Negate, BackIn
  <2> QED  BY <1>j, <2>1 DEF InExpr
<1>l. CASE Close
  <2>1. /\ calls # <<>> /\ Top.for = "(" /\ at = "back" /\ at' = "back" /\ calls' = Popped
    BY <1>l DEF Close, BackIn
  <2>2. value' # 0 => Found("term", Top.from, pos' - 1, value') \in parsed'
    <3>1. (pos + 1) - 1 = pos  BY <1>0
    <3> QED  BY <1>l, <3>1 DEF Close
  <2> QED  BY <1>j, <2>1, <2>2 DEF InExpr
<1>m. CASE Fail  BY <1>m DEF Fail, Current
<1>n. CASE Finish
  <2>1. /\ at = "back" /\ calls = <<>> /\ at' = "done" /\ words' = words /\ parsed' = parsed
        /\ value' # 0 => value' = value /\ Peek(pos) = "eof"
    BY <1>n DEF Finish
  <2>2. value' # 0 => Found("expr", 1, pos - 1, value) \in parsed /\ pos - 1 = Len(words)
    BY <1>0, <1>4, <2>1 DEF Current
  <2> QED  BY <2>1, <2>2 DEF Current
<1>o. CASE Over  BY <1>o DEF Over, vars, Current, Top
<1> QED  BY <1>a, <1>b, <1>c, <1>d, <1>e, <1>f, <1>g, <1>h, <1>i, <1>k, <1>l, <1>m, <1>n, <1>o
         DEF Next

-----------------------------------------------------------------------------
(* What the parser finds is derived.                                       *)

\* A rule that held of some tokens holds on.
LEMMA DerivedStays ==
    ASSUME Types, Next, at # "typing", NEW f \in parsed, Derived(f)
    PROVE  Derived(f)'
<1>1. f.node \in 1..Len(nodes)  BY DEF Types, FoundIn
<1>2. nodes'[f.node] = nodes[f.node] /\ words' = words /\ parsed \subseteq parsed'
  BY <1>1, Grows
<1>3. CASE /\ f.as = "term" /\ nodes[f.node] = Leaf(f.from, f.to)
           /\ SubSeq(words, f.from, f.to) \in AtomForms
  BY <1>2, <1>3 DEF Derived
<1>4. CASE /\ f.as = "term" /\ nodes[f.node].kind = "not" /\ words[f.from] = "not"
           /\ Found("term", f.from + 1, f.to, nodes[f.node].child) \in parsed
  BY <1>2, <1>4 DEF Derived
<1>5. CASE /\ f.as = "term" /\ words[f.from] = "(" /\ words[f.to] = ")"
           /\ Found("expr", f.from + 1, f.to - 1, f.node) \in parsed
  BY <1>2, <1>5 DEF Derived
<1>6. CASE f.as = "expr" /\ Found("term", f.from, f.to, f.node) \in parsed
  BY <1>2, <1>6 DEF Derived
<1>7. CASE /\ f.as = "expr" /\ nodes[f.node].kind \in {"and", "or"}
           /\ \E k \in f.from + 1..f.to - 1 :
                 /\ words[k] = nodes[f.node].kind
                 /\ Found("expr", f.from, k - 1, nodes[f.node].left) \in parsed
                 /\ Found("term", k + 1, f.to, nodes[f.node].right) \in parsed
  BY <1>2, <1>7 DEF Derived
<1> QED  BY <1>3, <1>4, <1>5, <1>6, <1>7 DEF Derived

LEMMA DerivationKept ==
    ASSUME Types, Current, Derivation, Next
    PROVE  Derivation'
<1>0. /\ pos \in Nat /\ pos >= 1 /\ pos <= Len(words) + 1 /\ Len(words) \in Nat
      /\ New \in Nat /\ New = Len(nodes) + 1 /\ Len(nodes) \in Nat /\ nodes \in Seq(Node)
      /\ at = "typing" => parsed = {}
  BY DEF Types, New
<1>1. \A as, from, to, node :
         /\ Found(as, from, to, node).as = as /\ Found(as, from, to, node).from = from
         /\ Found(as, from, to, node).to = to /\ Found(as, from, to, node).node = node
  BY DEF Found
<1>2. \A as, from, to, node : Found(as, from, to, node) \in parsed => from >= 1 /\ from <= to
  <2> TAKE as, from, to, node
  <2>1. SUFFICES ASSUME Found(as, from, to, node) \in parsed  PROVE from >= 1 /\ from <= to
    OBVIOUS
  <2> DEFINE f == Found(as, from, to, node)
  <2>2. f \in parsed /\ f.from = from /\ f.to = to  BY <2>1 DEF Found
  <2> HIDE DEF f
  <2> QED  BY <2>2 DEF Derivation
<1>3. at # "typing" => words' = words /\ parsed \subseteq parsed'  BY Grows
<1>4. calls # <<>> => Top.from \in Nat /\ Top.from >= 1  BY TopFacts
<1>5. ASSUME at # "typing",
             \A g \in parsed' : g \in parsed \/ (g.from >= 1 /\ g.from <= g.to /\ Derived(g)')
      PROVE  Derivation'
  BY <1>5, DerivedStays DEF Derivation
<1>6. ASSUME at # "typing", parsed' = parsed  PROVE Derivation'
  BY <1>6, DerivedStays DEF Derivation
<1>a. CASE Type \/ Erase \/ Parse  BY <1>0, <1>a DEF Type, Erase, Parse, Derivation
<1>b. CASE Not \/ Open \/ Operator \/ ExprEnds \/ Fail \/ Finish \/ Over
  BY <1>6, <1>b DEF Not, Open, Term, Operator, ExprEnds, Loop, Fail, Finish, Over, vars
<1>c. CASE Atom
  <2>1. at = "term" /\ words' = words  BY <1>c DEF Atom, Term
  <2>2. CASE /\ ParseAtom.what = "leaf" /\ pos' = ParseAtom.pos
             /\ nodes' = Append(nodes, Leaf(pos, pos' - 1))
             /\ parsed' = parsed \cup {Found("term", pos, pos' - 1, New)}
    <3> DEFINE g == Found("term", pos, pos' - 1, New)
    <3>1. /\ pos' \in Nat /\ pos < pos' /\ pos <= pos' - 1
          /\ SubSeq(words, pos, pos' - 1) \in AtomForms
      BY <1>0, <2>2, AtomFacts
    <3>2. nodes'[New] = Leaf(pos, pos' - 1)  BY <1>0, <2>2
    <3>3. g.as = "term" /\ g.from = pos /\ g.to = pos' - 1 /\ g.node = New  BY <1>1
    <3> HIDE DEF g
    <3>4. /\ nodes'[g.node] = Leaf(g.from, g.to)
          /\ SubSeq(words', g.from, g.to) \in AtomForms
      BY <2>1, <3>1, <3>2, <3>3
    <3>5. \A x : x = g => Derived(x)'  BY <3>3, <3>4 DEF Derived
    <3>6. parsed' = parsed \cup {g}  BY <2>2 DEF g
    <3>7. g.from >= 1 /\ g.from <= g.to  BY <1>0, <3>1, <3>3
    <3> QED  BY <1>5, <2>1, <3>5, <3>6, <3>7
  <2>3. CASE parsed' = parsed  BY <1>6, <2>1, <2>3
  <2> QED  BY <1>c, <2>2, <2>3 DEF Atom
<1>d. CASE First
  <2> DEFINE g == Found("expr", Top.from, pos - 1, value)
  <2>1. /\ at = "back" /\ value # 0 /\ calls # <<>> /\ Top.for = "first"
        /\ parsed' = parsed \cup {g}
    BY <1>d DEF First, BackIn
  <2>2. Found("term", Top.from, pos - 1, value) \in parsed
    BY <2>1 DEF Current, Waits, As
  <2>3. g.as = "expr" /\ g.from = Top.from /\ g.to = pos - 1 /\ g.node = value  BY <1>1
  <2>4. g.from >= 1 /\ g.from <= g.to  BY <1>2, <2>2, <2>3
  <2> HIDE DEF g
  <2>5. Found("term", g.from, g.to, g.node) \in parsed'  BY <1>3, <2>1, <2>2, <2>3
  <2>6. \A x : x = g => Derived(x)'  BY <2>3, <2>5 DEF Derived
  <2> QED  BY <1>5, <2>1, <2>4, <2>6
<1>e. CASE Join
  <2> DEFINE g == Found("expr", Top.from, pos - 1, New)
  <2>1. /\ at = "back" /\ value # 0 /\ calls # <<>> /\ Top.for \in {"and", "or"}
        /\ parsed' = parsed \cup {g} /\ words' = words
        /\ nodes' = Append(nodes, BinaryNode(Top.for, Top.left, value))
    BY <1>e DEF Join, BackIn
  <2>2. PICK s \in Nat : /\ Waits(Top, s, words, parsed)
                         /\ Found(As(Top), s, pos - 1, value) \in parsed
    BY <2>1 DEF Current
  <2>3. /\ Found("expr", Top.from, s - 2, Top.left) \in parsed /\ words[s - 1] = Top.for
        /\ Found("term", s, pos - 1, value) \in parsed
    BY <2>1, <2>2 DEF Waits, As
  <2>4. Top.from >= 1 /\ Top.from <= s - 2 /\ s <= pos - 1  BY <1>2, <2>3
  <2>5. g.as = "expr" /\ g.from = Top.from /\ g.to = pos - 1 /\ g.node = New  BY <1>1
  <2>6. /\ nodes'[New].kind = Top.for /\ nodes'[New].left = Top.left
        /\ nodes'[New].right = value
    <3> DEFINE n == BinaryNode(Top.for, Top.left, value)
    <3>1. n.kind = Top.for /\ n.left = Top.left /\ n.right = value  BY DEF BinaryNode
    <3> HIDE DEF n
    <3>2. nodes'[New] = n  BY <1>0, <2>1 DEF n
    <3> QED  BY <3>1, <3>2
  <2> HIDE DEF g
  <2>7. s - 1 \in g.from + 1..g.to - 1 /\ g.from >= 1 /\ g.from <= g.to
    BY <1>0, <1>4, <2>1, <2>4, <2>5
  <2>8. /\ nodes'[g.node].kind \in {"and", "or"} /\ words'[s - 1] = nodes'[g.node].kind
        /\ Found("expr", g.from, (s - 1) - 1, nodes'[g.node].left) \in parsed'
        /\ Found("term", (s - 1) + 1, g.to, nodes'[g.node].right) \in parsed'
    <3>1. (s - 1) - 1 = s - 2 /\ (s - 1) + 1 = s  OBVIOUS
    <3> QED  BY <1>3, <2>1, <2>3, <2>5, <2>6, <3>1
  <2>9. \A x : x = g => Derived(x)'
    <3>1. \E k \in g.from + 1..g.to - 1 :
             /\ words'[k] = nodes'[g.node].kind
             /\ Found("expr", g.from, k - 1, nodes'[g.node].left) \in parsed'
             /\ Found("term", k + 1, g.to, nodes'[g.node].right) \in parsed'
      BY <2>7, <2>8
    <3> QED  BY <2>5, <2>8, <3>1 DEF Derived
  <2> QED  BY <1>5, <2>1, <2>7, <2>9
<1>f. CASE Negate
  <2> DEFINE g == Found("term", Top.from, pos - 1, New)
  <2>1. /\ at = "back" /\ value # 0 /\ calls # <<>> /\ Top.for = "not"
        /\ parsed' = parsed \cup {g} /\ words' = words
        /\ nodes' = Append(nodes, NotNode(value))
    BY <1>f DEF Negate, BackIn
  <2>2. /\ Found("term", Top.from + 1, pos - 1, value) \in parsed /\ words[Top.from] = "not"
    BY <2>1 DEF Current, Waits, As
  <2>3. Top.from + 1 >= 1 /\ Top.from + 1 <= pos - 1  BY <1>2, <2>2
  <2>4. g.as = "term" /\ g.from = Top.from /\ g.to = pos - 1 /\ g.node = New  BY <1>1
  <2>5. nodes'[New].kind = "not" /\ nodes'[New].child = value
    <3> DEFINE n == NotNode(value)
    <3>1. n.kind = "not" /\ n.child = value  BY DEF NotNode
    <3> HIDE DEF n
    <3>2. nodes'[New] = n  BY <1>0, <2>1 DEF n
    <3> QED  BY <3>1, <3>2
  <2> HIDE DEF g
  <2>6. /\ nodes'[g.node].kind = "not" /\ words'[g.from] = "not"
        /\ Found("term", g.from + 1, g.to, nodes'[g.node].child) \in parsed'
    BY <1>3, <2>1, <2>2, <2>4, <2>5
  <2>7. \A x : x = g => Derived(x)'  BY <2>4, <2>6 DEF Derived
  <2>8. g.from >= 1 /\ g.from <= g.to  BY <1>0, <1>4, <2>1, <2>3, <2>4
  <2> QED  BY <1>5, <2>1, <2>7, <2>8
<1>g. CASE Close
  <2>1. /\ at = "back" /\ value # 0 /\ calls # <<>> /\ Top.for = "(" /\ words' = words
    BY <1>g DEF Close, BackIn
  <2>2. CASE /\ Peek(pos) = ")"
             /\ parsed' = parsed \cup {Found("term", Top.from, pos, value)}
    <3> DEFINE g == Found("term", Top.from, pos, value)
    <3>1. Found("expr", Top.from + 1, pos - 1, value) \in parsed /\ words[Top.from] = "("
      BY <2>1 DEF Current, Waits, As
    <3>2. Top.from + 1 >= 1 /\ Top.from + 1 <= pos - 1  BY <1>2, <3>1
    <3>3. words[pos] = ")"  BY <1>0, <2>2, PeekFacts DEF Tokens
    <3>4. g.as = "term" /\ g.from = Top.from /\ g.to = pos /\ g.node = value  BY <1>1
    <3>5. parsed' = parsed \cup {g}  BY <2>2
    <3> HIDE DEF g
    <3>6. /\ words'[g.from] = "(" /\ words'[g.to] = ")"
          /\ Found("expr", g.from + 1, g.to - 1, g.node) \in parsed'
      BY <1>3, <2>1, <3>1, <3>3, <3>4
    <3>7. \A x : x = g => Derived(x)'  BY <3>4, <3>6 DEF Derived
    <3>8. g.from >= 1 /\ g.from <= g.to  BY <1>0, <1>4, <2>1, <3>2, <3>4
    <3> QED  BY <1>5, <2>1, <3>5, <3>7, <3>8
  <2>3. CASE parsed' = parsed  BY <1>6, <2>1, <2>3
  <2> QED  BY <1>g, <2>2, <2>3 DEF Close
<1> QED  BY <1>a, <1>b, <1>c, <1>d, <1>e, <1>f, <1>g DEF Next

-----------------------------------------------------------------------------
(* Chains.                                                                 *)

LEMMA NodesEvaluate ==
    ASSUME Types, Current, Next, at # "typing", NEW holding, NEW accepting,
           Evaluates(holding, accepting)'
    PROVE  Evaluates(holding, accepting)
<1>1. /\ DOMAIN nodes = 1..Len(nodes) /\ DOMAIN nodes' = 1..Len(nodes')
      /\ Len(nodes) \in Nat /\ Len(nodes') \in Nat
  BY TypesKept DEF Types
<1>2. \A i \in DOMAIN nodes : i \in DOMAIN nodes' /\ nodes'[i] = nodes[i]  BY <1>1, Grows
<1> QED  BY <1>2 DEF Evaluates

LEMMA MeansStays ==
    ASSUME Types, Current, Next, at # "typing", NEW node, NEW i, Means(node, i)
    PROVE  Means(node, i)'
<1>1. words' = words  BY Grows
<1>2. Protos' = Protos  BY <1>1 DEF Protos
<1>3. ASSUME NEW accepting \in SUBSET Protos, NEW trueAt \in SUBSET Protos,
             NEW holding \in SUBSET Nat,
             Evaluates(holding, accepting)', ReadsAs(trueAt, accepting)'
      PROVE  node \in holding <=> i \in trueAt
  <2>1. Evaluates(holding, accepting)  BY <1>3, NodesEvaluate
  <2>2. ReadsAs(trueAt, accepting)  BY <1>1, <1>2, <1>3 DEF ReadsAs
  <2> QED  BY <2>1, <2>2 DEF Means
<1> QED  BY <1>2, <1>3 DEF Means

LEMMA ChainKept ==
    ASSUME Types, Nested, Current, Derivation, Chain, Next
    PROVE  Chain'
<1> SUFFICES ASSUME Flat'
             PROVE  /\ \A i \in 1..Len(calls') : calls'[i].for \in InExpr /\ calls'[i].from = 1
                    /\ \A f \in parsed' :
                          /\ f.to \in Protos'
                          /\ f.as = "term" => /\ f.from = f.to
                                             /\ nodes'[f.node] = Leaf(f.to, f.to)
                          /\ f.as = "expr" => f.from = 1 /\ Means(f.node, f.to)'
  BY DEF Chain
<1> DEFINE Stack(s) == \A i \in 1..Len(s) : s[i].for \in InExpr /\ s[i].from = 1
           Good(f) == /\ f.to \in Protos
                      /\ f.as = "term" => f.from = f.to /\ nodes[f.node] = Leaf(f.to, f.to)
                      /\ f.as = "expr" => f.from = 1 /\ Means(f.node, f.to)
<1>0. /\ pos \in Nat /\ pos >= 1 /\ pos <= Len(words) + 1 /\ Len(words) \in Nat
      /\ calls \in Seq(Frame) /\ Len(calls) \in Nat
      /\ New = Len(nodes) + 1 /\ Len(nodes) \in Nat /\ nodes \in Seq(Node)
      /\ at = "typing" => calls = <<>> /\ parsed = {} /\ pos = 1
      /\ DOMAIN words = 1..Len(words) /\ value \in Nat
  BY DEF Types, New
<1>1. CASE at = "typing"
  <2>1. parsed' = {} /\ (calls' = <<>> \/ calls' = <<Call("first", 1, 0)>>)
    BY <1>0, <1>1 DEF Next, Type, Erase, Parse, Not, Open, Atom, Term, First, Join, Negate, Close,
                      BackIn, Operator, ExprEnds, Loop, Fail, Finish, Over, vars
  <2>2. Call("first", 1, 0).for \in InExpr /\ Call("first", 1, 0).from = 1  BY DEF Call, InExpr
  <2> QED  BY <2>1, <2>2
<1> SUFFICES ASSUME at # "typing"
             PROVE  Stack(calls)' /\ \A f \in parsed' : Good(f)'
  BY <1>1
<1>2. /\ words' = words /\ Protos' = Protos /\ Flat
      /\ \A i \in 1..Len(nodes) : nodes'[i] = nodes[i]
  BY Grows DEF Flat, Protos
<1>3. Stack(calls) /\ \A f \in parsed : Good(f)  BY <1>2 DEF Chain
<1>4. \A f \in parsed : Good(f)'
  <2> TAKE f \in parsed
  <2>1. f.node \in 1..Len(nodes)  BY DEF Types, FoundIn
  <2>2. Good(f)  BY <1>3
  <2> QED  BY <1>2, <2>1, <2>2, MeansStays
<1>5. Peek(pos) \notin {"not", "("}
  <2>1. {"not", "("} \subseteq Tokens  BY DEF Tokens
  <2> QED  BY <1>0, <1>2, <2>1, PeekFacts DEF Flat
<1>6. calls # <<>> => /\ Top.for \in InExpr /\ Top.from = 1
                      /\ Popped \in Seq(Frame) /\ Stack(Popped)
  <2> SUFFICES ASSUME calls # <<>>
               PROVE  /\ Top.for \in InExpr /\ Top.from = 1
                      /\ Popped \in Seq(Frame) /\ Stack(Popped)
    OBVIOUS
  <2>1. Len(calls) \in 1..Len(calls)  BY <1>0
  <2>2. /\ Popped \in Seq(Frame) /\ Len(Popped) = Len(calls) - 1
        /\ \A i \in 1..Len(calls) - 1 : Popped[i] = calls[i]
    BY <1>0, StackFacts DEF Popped
  <2>3. Top.for \in InExpr /\ Top.from = 1  BY <1>3, <2>1 DEF Top
  <2>4. Stack(Popped)  BY <1>0, <1>3, <2>2
  <2> QED  BY <2>2, <2>3, <2>4
<1>7. ASSUME parsed' = parsed, Stack(calls')
      PROVE  Stack(calls)' /\ \A f \in parsed' : Good(f)'
  BY <1>4, <1>7
<1>8. \A as, from, to, node :
         /\ Found(as, from, to, node).as = as /\ Found(as, from, to, node).from = from
         /\ Found(as, from, to, node).to = to /\ Found(as, from, to, node).node = node
  BY DEF Found
<1>9. Stack(<<>>)  OBVIOUS
<1>a. CASE Type \/ Erase \/ Parse \/ Not \/ Open \/ Negate \/ Close
  <2>1. Type \/ Erase \/ Parse => at = "typing"  BY DEF Type, Erase, Parse
  <2>2. Not \/ Open => Peek(pos) \in {"not", "("}  BY DEF Not, Open
  <2>3. Negate \/ Close => calls # <<>> /\ Top.for \notin InExpr
    BY DEF Negate, Close, BackIn, InExpr
  <2> QED  BY <1>5, <1>6, <1>a, <2>1, <2>2, <2>3
<1>b. CASE Operator
  <2> DEFINE c == Call(Peek(pos), Top.from, value)
  <2>1. /\ calls # <<>> /\ Peek(pos) \in {"and", "or"} /\ parsed' = parsed
        /\ calls' = Append(Popped, c)
    BY <1>b DEF Operator, Loop, Current
  <2>2. c.for \in InExpr /\ c.from = 1  BY <1>6, <2>1 DEF Call, InExpr
  <2> HIDE DEF c
  <2>3. Stack(Append(Popped, c))  BY <1>6, <2>1, <2>2
  <2> QED  BY <1>7, <2>1, <2>3
<1>c. CASE ExprEnds \/ Fail
  <2>1. calls # <<>> /\ parsed' = parsed /\ calls' = Popped
    BY <1>c DEF ExprEnds, Loop, Current, Fail
  <2> QED  BY <1>6, <1>7, <2>1
<1>d. CASE Finish \/ Over
  <2>1. parsed' = parsed /\ calls' = calls  BY <1>d DEF Finish, Over, vars
  <2> QED  BY <1>3, <1>7, <2>1
<1>e. CASE Atom
  <2>1. CASE ParseAtom.what # "leaf"
    <3>1. parsed' = parsed /\ (calls' = calls \/ calls' = <<>>)  BY <1>e, <2>1 DEF Atom
    <3> QED  BY <1>3, <1>7, <1>9, <3>1
  <2>2. CASE ParseAtom.what = "leaf"
    <3> DEFINE g == Found("term", pos, pos, New)
    <3>1. pos' = pos + 1 /\ pos \in Protos /\ (pos + 1) - 1 = pos
      BY <1>0, <1>2, <1>e, <2>2, AtomFacts DEF Atom
    <3>2. calls' = calls /\ nodes' = Append(nodes, Leaf(pos, pos)) /\ parsed' = parsed \cup {g}
      BY <1>e, <2>2, <3>1 DEF Atom
    <3>3. nodes'[New] = Leaf(pos, pos)  BY <1>0, <3>2
    <3>4. g.as = "term" /\ g.from = pos /\ g.to = pos /\ g.node = New  BY <1>8
    <3> HIDE DEF g
    <3>5. \A f : f = g => Good(f)'  BY <1>2, <3>1, <3>3, <3>4
    <3> QED  BY <1>3, <1>4, <3>2, <3>5
  <2> QED  BY <2>1, <2>2
<1>f. CASE First
  <2> DEFINE g == Found("expr", Top.from, pos - 1, value)
  <2>1. /\ at = "back" /\ value # 0 /\ calls # <<>> /\ Top.for = "first" /\ calls' = calls
        /\ parsed' = parsed \cup {g} /\ nodes' = nodes
    BY <1>f DEF First, BackIn
  <2>2. Found("term", Top.from, pos - 1, value) \in parsed  BY <2>1 DEF Current, Waits, As
  <2>3. /\ Top.from = 1 /\ pos - 1 = 1 /\ 1 \in Protos /\ nodes[value] = Leaf(1, 1)
        /\ value \in 1..Len(nodes)
    <3> DEFINE h == Found("term", Top.from, pos - 1, value)
    <3>1. h \in parsed /\ h.as = "term" /\ h.from = Top.from /\ h.to = pos - 1 /\ h.node = value
      BY <1>8, <2>2
    <3> HIDE DEF h
    <3>2. h.node \in 1..Len(nodes)  BY <3>1 DEF Types, FoundIn
    <3> QED  BY <1>3, <1>6, <2>1, <3>1, <3>2
  <2>4. ASSUME NEW n, n = value  PROVE Means(n, 1)'
    <3>1. ASSUME NEW accepting, NEW trueAt, NEW holding,
                 Evaluates(holding, accepting), ReadsAs(trueAt, accepting)
          PROVE  n \in holding <=> 1 \in trueAt
      <4>1. nodes[n].kind = "leaf" /\ nodes[n].from = 1 /\ n \in DOMAIN nodes
        BY <1>0, <2>3, <2>4 DEF Leaf
      <4>2. n \in holding <=> 1 \in accepting  BY <3>1, <4>1 DEF Evaluates
      <4>3. 1 \in trueAt <=> 1 \in accepting  BY <2>3, <3>1 DEF ReadsAs
      <4> QED  BY <4>2, <4>3
    <3>2. Means(n, 1)  BY <3>1 DEF Means
    <3> QED  BY <3>2, MeansStays
  <2>5. g.as = "expr" /\ g.from = 1 /\ g.to = 1 /\ g.node = value  BY <1>8, <2>3
  <2> HIDE DEF g
  <2>6. \A f : f = g => Good(f)'  BY <1>2, <2>3, <2>4, <2>5
  <2> QED  BY <1>3, <1>4, <2>1, <2>6
<1>g. CASE Join
  <2> DEFINE g == Found("expr", Top.from, pos - 1, New)
             b == BinaryNode(Top.for, Top.left, value)
  <2>1. /\ at = "back" /\ value # 0 /\ calls # <<>> /\ Top.for \in {"and", "or"}
        /\ calls' = calls /\ parsed' = parsed \cup {g} /\ nodes' = Append(nodes, b)
    BY <1>g DEF Join, BackIn
  <2>2. PICK s \in Nat : /\ Waits(Top, s, words, parsed)
                         /\ Found(As(Top), s, pos - 1, value) \in parsed
    BY <2>1 DEF Current
  <2>3. /\ Found("expr", Top.from, s - 2, Top.left) \in parsed /\ words[s - 1] = Top.for
        /\ Found("term", s, pos - 1, value) \in parsed
    BY <2>1, <2>2 DEF Waits, As
  <2>4. /\ s = pos - 1 /\ s \in Protos /\ nodes[value] = Leaf(s, s)
        /\ value \in 1..Len(nodes)
    <3> DEFINE h == Found("term", s, pos - 1, value)
    <3>1. h \in parsed /\ h.as = "term" /\ h.from = s /\ h.to = pos - 1 /\ h.node = value
      BY <1>8, <2>3
    <3> HIDE DEF h
    <3>2. h.node \in 1..Len(nodes)  BY <3>1 DEF Types, FoundIn
    <3> QED  BY <1>3, <3>1, <3>2
  <2>5. /\ Top.from = 1 /\ s - 2 \in Protos /\ Means(Top.left, s - 2)
        /\ Top.left \in 1..Len(nodes) /\ s - 2 >= 1
    <3> DEFINE h == Found("expr", Top.from, s - 2, Top.left)
    <3>1. h \in parsed /\ h.as = "expr" /\ h.from = Top.from /\ h.to = s - 2 /\ h.node = Top.left
      BY <1>8, <2>3
    <3> HIDE DEF h
    <3>2. h.node \in 1..Len(nodes)  BY <3>1 DEF Types, FoundIn
    <3>3. s - 2 \in 1..Len(words)  BY <1>0, <1>3, <3>1 DEF Protos
    <3> QED  BY <1>3, <3>1, <3>2, <3>3
  <2>6. /\ b.kind = Top.for /\ b.left = Top.left /\ b.right = value  BY DEF BinaryNode
  <2> HIDE DEF b
  <2>7. nodes'[New] = b /\ New \in DOMAIN nodes'  BY <1>0, <2>1
  <2>8. ASSUME NEW n, n = New  PROVE Means(n, s)'
    <3>1. ASSUME NEW accepting \in SUBSET Protos, NEW trueAt \in SUBSET Protos,
                 NEW holding \in SUBSET Nat,
                 Evaluates(holding, accepting)', ReadsAs(trueAt, accepting)'
          PROVE  n \in holding <=> s \in trueAt
      <4>1. Evaluates(holding, accepting)  BY <3>1, NodesEvaluate
      <4>2. ReadsAs(trueAt, accepting)  BY <1>2, <3>1 DEF ReadsAs
      <4>3. Top.left \in holding <=> s - 2 \in trueAt  BY <2>5, <3>1, <4>1, <4>2 DEF Means
      <4>4. value \in holding <=> s \in accepting
        <5>1. nodes[value].kind = "leaf" /\ nodes[value].from = s /\ value \in DOMAIN nodes
          BY <1>0, <2>4 DEF Leaf
        <5> QED  BY <4>1, <5>1 DEF Evaluates
      <4>5. /\ Top.for = "and" => (n \in holding <=> Top.left \in holding /\ value \in holding)
            /\ Top.for = "or" => (n \in holding <=> Top.left \in holding \/ value \in holding)
        BY <2>6, <2>7, <2>8, <3>1 DEF Evaluates
      <4>6. /\ Top.for = "and" => (s \in trueAt <=> s - 2 \in trueAt /\ s \in accepting)
            /\ Top.for = "or" => (s \in trueAt <=> s - 2 \in trueAt \/ s \in accepting)
        <5>1. s > 1  BY <2>5
        <5> QED  BY <2>3, <2>4, <4>2, <5>1 DEF ReadsAs
      <4> QED  BY <2>1, <4>3, <4>4, <4>5, <4>6
    <3> QED  BY <1>2, <3>1 DEF Means
  <2>9. g.as = "expr" /\ g.from = 1 /\ g.to = s /\ g.node = New  BY <1>8, <2>4, <2>5
  <2> HIDE DEF g
  <2>10. \A f : f = g => Good(f)'  BY <1>2, <2>4, <2>8, <2>9
  <2> QED  BY <1>3, <1>4, <2>1, <2>10
<1> QED  BY <1>a, <1>b, <1>c, <1>d, <1>e, <1>f, <1>g DEF Next

-----------------------------------------------------------------------------
(* Induction, by sets of numbers, and what a recursive definition defines. *)

\* The numbers have a least one in every set of them.
Smaller == {ss \in Nat \X Nat : ss[1] < ss[2]}

LEMMA SmallerIsWF == IsWellFoundedOn(Smaller, Nat)
BY NatLessThanWellFounded DEF OpToRel, Smaller

LEMMA Least ==
    ASSUME NEW S \in SUBSET Nat, S # {}
    PROVE  \E m \in S : \A n \in S : m <= n
<1>1. \E x \in S : \A y \in S : ~(<<y, x>> \in Smaller)
  BY SmallerIsWF, WFMin
<1>2. PICK x \in S : \A y \in S : ~(<<y, x>> \in Smaller)
  BY <1>1
<1>3. ASSUME NEW y \in S  PROVE x <= y
  <2>1. x \in Nat /\ y \in Nat  OBVIOUS
  <2>2. <<y, x>> \notin Smaller  BY <1>2
  <2>3. ~(y < x)  BY <2>1, <2>2 DEF Smaller
  <2> QED  BY <2>1, <2>3
<1> QED  BY <1>3

\* Induction: what holds of 0, and with n of n + 1, holds of all numbers.
LEMMA SetInduction ==
    ASSUME NEW S \in SUBSET Nat, 0 \in S, \A n \in S : n + 1 \in S
    PROVE  S = Nat
<1>1. ASSUME Nat \ S # {}  PROVE FALSE
  <2>1. PICK m \in Nat \ S : \A n \in Nat \ S : m <= n
    BY <1>1, Least
  <2>2. m - 1 \in S
    BY <2>1
  <2> QED  BY <2>1, <2>2
<1> QED  BY <1>1

\* The two recursive definitions, of what a text derives and of the trees of
\* nodes, in one: how f goes on to n.
Step(of, x, f, n) ==
    IF of = "sizes" THEN IF n = 0 THEN {} ELSE WithSize(x, f[n - 1], n)
    ELSE IF n = 0 THEN <<>> ELSE WithNode(f[n - 1], x, n)

\* There is a function they define: its values are those of the functions that
\* are defined up to each number.
LEMMA RecursionIsDefined ==
    ASSUME NEW of, NEW x
    PROVE  \E F : F = [n \in Nat |-> Step(of, x, F, n)]
<1> DEFINE Good(g, n) == \A m \in 0..n : g[m] = Step(of, x, g, m)
<1>a. \A g, h : Step(of, x, g, 0) = Step(of, x, h, 0)  BY DEF Step
<1>b. \A g, h, m : m # 0 /\ g[m - 1] = h[m - 1] => Step(of, x, g, m) = Step(of, x, h, m)
  BY DEF Step
<1>1. \A n \in Nat : \E g : Good(g, n)
  <2> DEFINE S == {n \in Nat : \E g : Good(g, n)}
  <2>1. 0 \in S
    <3> DEFINE g == [m \in {0} |-> Step(of, x, <<>>, 0)]
    <3>1. Good(g, 0)  BY <1>a
    <3> QED  BY <3>1
  <2>2. ASSUME NEW n \in S  PROVE n + 1 \in S
    <3>1. PICK g : Good(g, n)  BY <2>2
    <3> DEFINE h == [m \in 0..n + 1 |-> IF m = n + 1 THEN Step(of, x, g, n + 1) ELSE g[m]]
    <3>2. n \in Nat /\ n + 1 \in Nat /\ n + 1 # 0  BY <2>2
    <3>3. \A m \in 0..n : h[m] = g[m]  BY <3>2
    <3>4. h[n + 1] = Step(of, x, g, n + 1)  BY <3>2
    <3> HIDE DEF h
    <3>5. ASSUME NEW m \in 0..n + 1  PROVE h[m] = Step(of, x, h, m)
      <4>1. CASE m = 0
        <5>1. h[m] = g[m] /\ g[m] = Step(of, x, g, m)  BY <3>1, <3>2, <3>3, <4>1
        <5> QED  BY <1>a, <4>1, <5>1
      <4>2. CASE m # 0
        <5>1. m - 1 \in 0..n  BY <3>2, <4>2
        <5>2. h[m - 1] = g[m - 1]  BY <3>3, <5>1
        <5>3. Step(of, x, h, m) = Step(of, x, g, m)  BY <1>b, <4>2, <5>2
        <5>4. CASE m = n + 1  BY <3>4, <5>3, <5>4
        <5>5. CASE m # n + 1
          <6>1. m \in 0..n  BY <3>2, <5>5
          <6> QED  BY <3>1, <3>3, <5>3, <6>1
        <5> QED  BY <5>4, <5>5
      <4> QED  BY <4>1, <4>2
    <3>6. Good(h, n + 1)  BY <3>5
    <3> HIDE DEF Good
    <3> QED  BY <3>2, <3>6
  <2> HIDE DEF S
  <2>3. S = Nat
    <3>1. S \in SUBSET Nat  BY DEF S
    <3> QED  BY <2>1, <2>2, <3>1, SetInduction
  <2> QED  BY <2>3 DEF S
<1>2. ASSUME NEW n \in Nat, NEW k \in Nat, NEW g, NEW h, Good(g, n), Good(h, k)
      PROVE  \A m \in Nat : m <= n /\ m <= k => g[m] = h[m]
  <2> DEFINE S == {m \in Nat : m <= n /\ m <= k => g[m] = h[m]}
  <2>1. 0 \in S
    <3>1. 0 \in 0..n /\ 0 \in 0..k  OBVIOUS
    <3>2. g[0] = Step(of, x, g, 0) /\ h[0] = Step(of, x, h, 0)  BY <1>2, <3>1
    <3> QED  BY <1>a, <3>2
  <2>2. ASSUME NEW m \in S  PROVE m + 1 \in S
    <3>1. m \in Nat /\ m + 1 \in Nat /\ m + 1 # 0 /\ (m + 1) - 1 = m  BY <2>2
    <3>2. SUFFICES ASSUME m + 1 <= n, m + 1 <= k  PROVE g[m + 1] = h[m + 1]
      BY <3>1
    <3>3. m <= n /\ m <= k /\ m + 1 \in 0..n /\ m + 1 \in 0..k  BY <3>1, <3>2
    <3>4. g[m] = h[m]  BY <2>2, <3>3
    <3>5. g[m + 1] = Step(of, x, g, m + 1) /\ h[m + 1] = Step(of, x, h, m + 1)  BY <1>2, <3>3
    <3> QED  BY <1>b, <3>1, <3>4, <3>5
  <2> HIDE DEF S
  <2>3. S = Nat
    <3>1. S \in SUBSET Nat  BY DEF S
    <3> QED  BY <2>1, <2>2, <3>1, SetInduction
  <2> QED  BY <2>3 DEF S
<1> DEFINE F == [n \in Nat |-> (CHOOSE g : Good(g, n))[n]]
<1>3. F = [n \in Nat |-> Step(of, x, F, n)]
  <2>1. ASSUME NEW n \in Nat  PROVE F[n] = Step(of, x, F, n)
    <3> DEFINE g == CHOOSE y : Good(y, n)
    <3>1. Good(g, n)
      <4> HIDE DEF Good
      <4> QED  BY <1>1
    <3>2. F[n] = g[n]  OBVIOUS
    <3>3. g[n] = Step(of, x, g, n)
      <4>1. n \in 0..n  OBVIOUS
      <4> HIDE DEF g
      <4> QED  BY <3>1, <4>1
    <3>4. CASE n = 0  BY <1>a, <3>2, <3>3, <3>4
    <3>5. CASE n # 0
      <4> DEFINE h == CHOOSE y : Good(y, n - 1)
      <4>1. n - 1 \in Nat /\ n - 1 <= n  BY <3>5
      <4>2. Good(h, n - 1)
        <5> HIDE DEF Good
        <5> QED  BY <1>1, <4>1
      <4>3. F[n - 1] = h[n - 1]  BY <4>1
      <4> HIDE DEF F, g, h, Good
      <4>4. h[n - 1] = g[n - 1]  BY <1>2, <3>1, <4>1, <4>2
      <4>5. Step(of, x, F, n) = Step(of, x, g, n)  BY <1>b, <3>5, <4>3, <4>4
      <4> QED  BY <3>2, <3>3, <4>5
    <3> QED  BY <3>4, <3>5
  <2>2. F = [n \in Nat |-> F[n]]  OBVIOUS
  <2> HIDE DEF F
  <2> QED  BY <2>1, <2>2
<1> QED  BY <1>3

\* So both are what their equations say.
LEMMA SizesUnfold ==
    ASSUME NEW w
    PROVE  /\ UpToSize(w)[0] = {}
           /\ \A n \in Nat : n # 0 => UpToSize(w)[n] = WithSize(w, UpToSize(w)[n - 1], n)
<1> DEFINE Next1(f, n) == IF n = 0 THEN {} ELSE WithSize(w, f[n - 1], n)
<1>1. \A f, n : Step("sizes", w, f, n) = Next1(f, n)  BY DEF Step
<1>2. \E f : f = [n \in Nat |-> Next1(f, n)]
  <2>1. PICK f : f = [n \in Nat |-> Step("sizes", w, f, n)]  BY RecursionIsDefined
  <2> HIDE DEF Next1
  <2>2. f = [n \in Nat |-> Next1(f, n)]  BY <1>1, <2>1
  <2> QED  BY <2>2
<1>3. UpToSize(w) = CHOOSE f : f = [n \in Nat |-> Next1(f, n)]  BY DEF UpToSize
<1>4. \A n \in Nat : UpToSize(w)[n] = Next1(UpToSize(w), n)
  <2> HIDE DEF Next1
  <2>1. UpToSize(w) = [n \in Nat |-> Next1(UpToSize(w), n)]  BY <1>2, <1>3
  <2> QED  BY <2>1
<1> QED  BY <1>4

LEMMA TreesUnfold ==
    ASSUME NEW ns
    PROVE  /\ TreesTo(ns)[0] = <<>>
           /\ \A n \in Nat : n # 0 => TreesTo(ns)[n] = WithNode(TreesTo(ns)[n - 1], ns, n)
<1> DEFINE Next1(f, n) == IF n = 0 THEN <<>> ELSE WithNode(f[n - 1], ns, n)
<1>1. \A f, n : Step("trees", ns, f, n) = Next1(f, n)  BY DEF Step
<1>2. \E f : f = [n \in Nat |-> Next1(f, n)]
  <2>1. PICK f : f = [n \in Nat |-> Step("trees", ns, f, n)]  BY RecursionIsDefined
  <2> HIDE DEF Next1
  <2>2. f = [n \in Nat |-> Next1(f, n)]  BY <1>1, <2>1
  <2> QED  BY <2>2
<1>3. TreesTo(ns) = CHOOSE f : f = [n \in Nat |-> Next1(f, n)]  BY DEF TreesTo
<1>4. \A n \in Nat : TreesTo(ns)[n] = Next1(TreesTo(ns), n)
  <2> HIDE DEF Next1
  <2>1. TreesTo(ns) = [n \in Nat |-> Next1(TreesTo(ns), n)]  BY <1>2, <1>3
  <2> QED  BY <2>1
<1> QED  BY <1>4

-----------------------------------------------------------------------------
(* What the grammar derives.                                               *)

\* What is derived is a term or an expression of tokens of the text,
Item(w, t) ==
    /\ t = Found(t.as, t.from, t.to, t.node)
    /\ t.as \in {"term", "expr"}
    /\ t.from \in Nat /\ t.to \in Nat
    /\ 1 <= t.from /\ t.from <= t.to /\ t.to <= Len(w)

Size(t) == t.to - t.from + 1

\* by a rule, from others.
AtomRule(w, t) ==
    t.as = "term" /\ t.node = Leaf(t.from, t.to) /\ SubSeq(w, t.from, t.to) \in AtomForms

NotRule(w, items, t) ==
    /\ t.as = "term" /\ w[t.from] = "not"
    /\ \E u \in items : /\ u.as = "term" /\ u.from = t.from + 1 /\ u.to = t.to
                        /\ t.node = NotNode(u.node)

ParensRule(w, items, t) ==
    /\ t.as = "term" /\ w[t.from] = "(" /\ w[t.to] = ")"
    /\ \E u \in items : /\ u.as = "expr" /\ u.from = t.from + 1 /\ u.to = t.to - 1
                        /\ t.node = u.node

FirstRule(items, t) ==
    /\ t.as = "expr"
    /\ \E u \in items : /\ u.as = "term" /\ u.from = t.from /\ u.to = t.to /\ t.node = u.node

JoinRule(w, items, t) ==
    /\ t.as = "expr"
    /\ \E e, u \in items : /\ e.as = "expr" /\ e.from = t.from /\ w[e.to + 1] \in {"and", "or"}
                           /\ u.as = "term" /\ u.from = e.to + 2 /\ u.to = t.to
                           /\ t.node = BinaryNode(w[e.to + 1], e.node, u.node)

Rule(w, items, t) ==
    \/ AtomRule(w, t) \/ NotRule(w, items, t) \/ ParensRule(w, items, t)
    \/ FirstRule(items, t) \/ JoinRule(w, items, t)

LEMMA FoundFields ==
    \A as, from, to, node :
        /\ Found(as, from, to, node).as = as /\ Found(as, from, to, node).from = from
        /\ Found(as, from, to, node).to = to /\ Found(as, from, to, node).node = node
BY DEF Found

LEMMA ItemFields ==
    ASSUME NEW w, NEW t, Item(w, t)
    PROVE  /\ t.from \in Nat /\ t.to \in Nat
           /\ 1 <= t.from /\ t.from <= t.to /\ t.to <= Len(w)
BY DEF Item

\* What spans the tokens from .. to is an item of that size.
LEMMA ItemMade ==
    ASSUME NEW w, NEW as \in {"term", "expr"}, NEW from \in Nat, NEW to \in Nat, NEW node,
           1 <= from, from <= to, to <= Len(w), NEW t, t = Found(as, from, to, node)
    PROVE  Item(w, t) /\ Size(t) = to - from + 1 /\ t.as = as
<1>1. t.as = as /\ t.from = from /\ t.to = to /\ t.node = node
  BY DEF Found
<1>2. t = Found(t.as, t.from, t.to, t.node)  BY <1>1
<1> QED  BY <1>1, <1>2 DEF Item, Size

LEMMA RuleGrows ==
    ASSUME NEW w, NEW items, NEW more, items \subseteq more, NEW t, Rule(w, items, t)
    PROVE  Rule(w, more, t)
<1>1. CASE AtomRule(w, t)  BY <1>1 DEF Rule
<1>2. CASE NotRule(w, items, t)
  <2>1. NotRule(w, more, t)  BY <1>2 DEF NotRule
  <2> QED  BY <2>1 DEF Rule
<1>3. CASE ParensRule(w, items, t)
  <2>1. ParensRule(w, more, t)  BY <1>3 DEF ParensRule
  <2> QED  BY <2>1 DEF Rule
<1>4. CASE FirstRule(items, t)
  <2>1. FirstRule(more, t)  BY <1>4 DEF FirstRule
  <2> QED  BY <2>1 DEF Rule
<1>5. CASE JoinRule(w, items, t)
  <2>1. JoinRule(w, more, t)  BY <1>5 DEF JoinRule
  <2> QED  BY <2>1 DEF Rule
<1> QED  BY <1>1, <1>2, <1>3, <1>4, <1>5 DEF Rule

\* The terms of n tokens are those a rule makes of fewer.
LEMMA TermsFacts ==
    ASSUME NEW w \in Seq(Tokens), NEW n \in Nat, n # 0, NEW fewer,
           \A u \in fewer : Item(w, u) /\ Size(u) < n
    PROVE  /\ \A t \in TermsOf(w, fewer, n) :
                 /\ Item(w, t) /\ Size(t) = n /\ t.as = "term"
                 /\ AtomRule(w, t) \/ NotRule(w, fewer, t) \/ ParensRule(w, fewer, t)
           /\ \A t : /\ Item(w, t) /\ Size(t) = n
                     /\ AtomRule(w, t) \/ NotRule(w, fewer, t) \/ ParensRule(w, fewer, t)
                     => t \in TermsOf(w, fewer, n)
<1> DEFINE A == {Found("term", i, i + n - 1, Leaf(i, i + n - 1)) :
                    i \in {j \in 1..Len(w) - n + 1 : SubSeq(w, j, j + n - 1) \in AtomForms}}
           N == {Found("term", t.from - 1, t.to, NotNode(t.node)) :
                    t \in {u \in fewer : /\ u.as = "term" /\ u.to - u.from + 2 = n
                                         /\ u.from > 1 /\ w[u.from - 1] = "not"}}
           P == {Found("term", e.from - 1, e.to + 1, e.node) :
                    e \in {u \in fewer : /\ u.as = "expr" /\ u.to - u.from + 3 = n
                                         /\ u.from > 1 /\ w[u.from - 1] = "("
                                         /\ u.to < Len(w) /\ w[u.to + 1] = ")"}}
<1>0. Len(w) \in Nat  OBVIOUS
<1>1. TermsOf(w, fewer, n) = UNION {A, N, P}  BY DEF TermsOf
<1>2. ASSUME NEW t \in A  PROVE Item(w, t) /\ Size(t) = n /\ t.as = "term" /\ AtomRule(w, t)
  <2>1. PICK i \in 1..Len(w) - n + 1 : /\ SubSeq(w, i, i + n - 1) \in AtomForms
                                       /\ t = Found("term", i, i + n - 1, Leaf(i, i + n - 1))
    BY <1>2
  <2>2. /\ t.as = "term" /\ t.from = i /\ t.to = i + n - 1 /\ t.node = Leaf(i, i + n - 1)
    BY <2>1, FoundFields
  <2> QED  BY <1>0, <2>1, <2>2 DEF Item, Size, AtomRule
<1>3. ASSUME NEW t \in N
      PROVE  Item(w, t) /\ Size(t) = n /\ t.as = "term" /\ NotRule(w, fewer, t)
  <2>1. PICK u \in fewer : /\ u.as = "term" /\ u.to - u.from + 2 = n
                           /\ u.from > 1 /\ w[u.from - 1] = "not"
                           /\ t = Found("term", u.from - 1, u.to, NotNode(u.node))
    BY <1>3
  <2>2. /\ t.as = "term" /\ t.from = u.from - 1 /\ t.to = u.to /\ t.node = NotNode(u.node)
    BY <2>1, FoundFields
  <2>3. /\ u.from \in Nat /\ u.to \in Nat /\ u.from <= u.to /\ u.to <= Len(w)
    BY ItemFields
  <2>a. /\ u.from - 1 \in Nat /\ 1 <= u.from - 1 /\ u.from - 1 <= u.to
        /\ u.to - (u.from - 1) + 1 = n /\ u.from = (u.from - 1) + 1
    BY ONLY <1>0, <2>1, <2>3, n \in Nat
  <2>4. Item(w, t) /\ Size(t) = n
    BY ONLY <2>1, <2>3, <2>a, ItemMade
  <2>5. u.from = t.from + 1  BY ONLY <2>2, <2>a
  <2> QED  BY <2>1, <2>2, <2>4, <2>5 DEF NotRule
<1>4. ASSUME NEW t \in P
      PROVE  Item(w, t) /\ Size(t) = n /\ t.as = "term" /\ ParensRule(w, fewer, t)
  <2>1. PICK u \in fewer : /\ u.as = "expr" /\ u.to - u.from + 3 = n
                           /\ u.from > 1 /\ w[u.from - 1] = "("
                           /\ u.to < Len(w) /\ w[u.to + 1] = ")"
                           /\ t = Found("term", u.from - 1, u.to + 1, u.node)
    BY <1>4
  <2>2. /\ t.as = "term" /\ t.from = u.from - 1 /\ t.to = u.to + 1 /\ t.node = u.node
    BY <2>1, FoundFields
  <2>3. /\ u.from \in Nat /\ u.to \in Nat /\ u.from <= u.to /\ u.to <= Len(w)
    BY ItemFields
  <2>a. /\ u.from - 1 \in Nat /\ u.to + 1 \in Nat /\ 1 <= u.from - 1 /\ u.from - 1 <= u.to + 1
        /\ u.to + 1 <= Len(w) /\ (u.to + 1) - (u.from - 1) + 1 = n
        /\ u.from = (u.from - 1) + 1 /\ u.to = (u.to + 1) - 1
    <3>1. u.from > 1 /\ u.to - u.from + 3 = n /\ u.to < Len(w)  BY ONLY <2>1
    <3> QED  BY ONLY <1>0, <2>3, <3>1, n \in Nat
  <2>4. Item(w, t) /\ Size(t) = n
    BY ONLY <2>1, <2>a, ItemMade
  <2>5. u.from = t.from + 1 /\ u.to = t.to - 1  BY ONLY <2>2, <2>a
  <2> QED  BY <2>1, <2>2, <2>4, <2>5 DEF ParensRule
<1>5. ASSUME NEW t, Item(w, t), Size(t) = n, AtomRule(w, t)  PROVE t \in A
  <2>1. /\ t.from \in 1..Len(w) - n + 1 /\ t.to = t.from + n - 1
    BY <1>0, <1>5 DEF Item, Size
  <2>2. t = Found("term", t.from, t.from + n - 1, Leaf(t.from, t.from + n - 1))
    BY <1>5, <2>1 DEF Item, AtomRule
  <2>3. SubSeq(w, t.from, t.from + n - 1) \in AtomForms  BY <1>5, <2>1 DEF AtomRule
  <2> QED  BY <2>1, <2>2, <2>3
<1>6. ASSUME NEW t, Item(w, t), Size(t) = n, NotRule(w, fewer, t)  PROVE t \in N
  <2>1. PICK u \in fewer : /\ u.as = "term" /\ u.from = t.from + 1 /\ u.to = t.to
                           /\ t.node = NotNode(u.node)
    BY <1>6 DEF NotRule
  <2>2. t.from = u.from - 1 /\ u.to - u.from + 2 = n /\ u.from > 1
    BY <1>6, <2>1 DEF Item, Size
  <2>3. t = Found("term", u.from - 1, u.to, NotNode(u.node))
    BY <1>6, <2>1, <2>2 DEF Item, NotRule
  <2>4. w[u.from - 1] = "not"  BY <1>6, <2>2 DEF NotRule
  <2> QED  BY <2>1, <2>2, <2>3, <2>4
<1>7. ASSUME NEW t, Item(w, t), Size(t) = n, ParensRule(w, fewer, t)  PROVE t \in P
  <2>1. PICK u \in fewer : /\ u.as = "expr" /\ u.from = t.from + 1 /\ u.to = t.to - 1
                           /\ t.node = u.node
    BY <1>7 DEF ParensRule
  <2>2. /\ t.from = u.from - 1 /\ t.to = u.to + 1 /\ u.to - u.from + 3 = n /\ u.from > 1
        /\ u.to < Len(w)
    <3>1. /\ t.from \in Nat /\ t.to \in Nat /\ 1 <= t.from /\ t.to <= Len(w)
          /\ t.to - t.from + 1 = n
      BY <1>7, ItemFields DEF Size
    <3> QED  BY ONLY <1>0, <2>1, <3>1, n \in Nat
  <2>3. t = Found("term", u.from - 1, u.to + 1, u.node)
    BY <1>7, <2>1, <2>2 DEF Item, ParensRule
  <2>4. w[u.from - 1] = "(" /\ w[u.to + 1] = ")"  BY <1>7, <2>2 DEF ParensRule
  <2> QED  BY <2>1, <2>2, <2>3, <2>4
<1> HIDE DEF A, N, P
<1> QED  BY <1>1, <1>2, <1>3, <1>4, <1>5, <1>6, <1>7

\* So are the expressions with an operator.
LEMMA JoinsFacts ==
    ASSUME NEW w \in Seq(Tokens), NEW n \in Nat, n # 0, NEW fewer,
           \A u \in fewer : Item(w, u) /\ Size(u) < n
    PROVE  /\ \A t \in JoinsOf(w, fewer, n) :
                 Item(w, t) /\ Size(t) = n /\ t.as = "expr" /\ JoinRule(w, fewer, t)
           /\ \A t : Item(w, t) /\ Size(t) = n /\ JoinRule(w, fewer, t)
                     => t \in JoinsOf(w, fewer, n)
<1>0. Len(w) \in Nat  OBVIOUS
<1>1. ASSUME NEW t \in JoinsOf(w, fewer, n)
      PROVE  Item(w, t) /\ Size(t) = n /\ t.as = "expr" /\ JoinRule(w, fewer, t)
  <2>1. PICK e \in fewer : /\ e.as = "expr" /\ e.to < Len(w) /\ w[e.to + 1] \in {"and", "or"}
                           /\ t \in {Found("expr", e.from, u.to,
                                           BinaryNode(w[e.to + 1], e.node, u.node)) :
                                        u \in {u \in fewer : /\ u.as = "term"
                                                             /\ u.from = e.to + 2
                                                             /\ u.to = e.from + n - 1}}
    BY <1>1 DEF JoinsOf
  <2>2. PICK u \in fewer : /\ u.as = "term" /\ u.from = e.to + 2 /\ u.to = e.from + n - 1
                           /\ t = Found("expr", e.from, u.to,
                                        BinaryNode(w[e.to + 1], e.node, u.node))
    BY <2>1
  <2>3. /\ t.as = "expr" /\ t.from = e.from /\ t.to = u.to
        /\ t.node = BinaryNode(w[e.to + 1], e.node, u.node)
    BY <2>2, FoundFields
  <2>4. Item(w, e) /\ Item(w, u)  OBVIOUS
  <2>5. Item(w, t) /\ Size(t) = n  BY <1>0, <2>2, <2>3, <2>4 DEF Item, Size
  <2> QED  BY <2>1, <2>2, <2>3, <2>5 DEF JoinRule
<1>2. ASSUME NEW t, Item(w, t), Size(t) = n, JoinRule(w, fewer, t)
      PROVE  t \in JoinsOf(w, fewer, n)
  <2>1. PICK e, u \in fewer :
           /\ e.as = "expr" /\ e.from = t.from /\ w[e.to + 1] \in {"and", "or"}
           /\ u.as = "term" /\ u.from = e.to + 2 /\ u.to = t.to
           /\ t.node = BinaryNode(w[e.to + 1], e.node, u.node)
    BY <1>2 DEF JoinRule
  <2>2. Item(w, e) /\ Item(w, u)  OBVIOUS
  <2>3. e.to < Len(w) /\ u.to = e.from + n - 1
    <3>1. /\ t.from \in Nat /\ t.to \in Nat /\ t.to - t.from + 1 = n
      BY <1>2, ItemFields DEF Size
    <3>2. e.to \in Nat /\ u.from \in Nat /\ u.to \in Nat /\ u.from <= u.to /\ u.to <= Len(w)
      BY <2>2, ItemFields
    <3>3. u.from = e.to + 2 /\ e.from = t.from /\ u.to = t.to  BY ONLY <2>1
    <3>4. e.to < Len(w)  BY ONLY <1>0, <3>2, <3>3
    <3>5. t.to = t.from + n - 1  BY ONLY <3>1, n \in Nat
    <3> QED  BY ONLY <3>3, <3>4, <3>5
  <2>4. t = Found("expr", e.from, u.to, BinaryNode(w[e.to + 1], e.node, u.node))
    BY <1>2, <2>1 DEF Item, JoinRule
  <2>5. t \in {Found("expr", e.from, v.to, BinaryNode(w[e.to + 1], e.node, v.node)) :
                  v \in {v \in fewer : /\ v.as = "term" /\ v.from = e.to + 2
                                       /\ v.to = e.from + n - 1}}
    BY <2>1, <2>3, <2>4
  <2> QED  BY <2>1, <2>3, <2>5 DEF JoinsOf
<1> QED  BY <1>1, <1>2

LEMMA SizeFacts ==
    ASSUME NEW w \in Seq(Tokens), NEW n \in Nat, n # 0, NEW fewer,
           \A u \in fewer : Item(w, u) /\ Size(u) < n
    PROVE  /\ fewer \subseteq WithSize(w, fewer, n)
           /\ \A t \in WithSize(w, fewer, n) \ fewer :
                 Item(w, t) /\ Size(t) = n /\ Rule(w, WithSize(w, fewer, n), t)
           /\ \A t : /\ Item(w, t) /\ Size(t) = n
                     /\ \/ AtomRule(w, t) \/ NotRule(w, fewer, t) \/ ParensRule(w, fewer, t)
                        \/ FirstRule(WithSize(w, fewer, n), t) \/ JoinRule(w, fewer, t)
                     => t \in WithSize(w, fewer, n)
<1> DEFINE terms == TermsOf(w, fewer, n)
           firsts == {Found("expr", t.from, t.to, t.node) : t \in terms}
           joins == JoinsOf(w, fewer, n)
           all == WithSize(w, fewer, n)
<1>1. all = UNION {fewer, terms, firsts, joins}  BY DEF WithSize
<1>2. /\ \A t \in terms : /\ Item(w, t) /\ Size(t) = n /\ t.as = "term"
                          /\ AtomRule(w, t) \/ NotRule(w, fewer, t) \/ ParensRule(w, fewer, t)
      /\ \A t : /\ Item(w, t) /\ Size(t) = n
                /\ AtomRule(w, t) \/ NotRule(w, fewer, t) \/ ParensRule(w, fewer, t)
                => t \in terms
  BY TermsFacts
<1>3. /\ \A t \in joins : Item(w, t) /\ Size(t) = n /\ t.as = "expr" /\ JoinRule(w, fewer, t)
      /\ \A t : Item(w, t) /\ Size(t) = n /\ JoinRule(w, fewer, t) => t \in joins
  BY JoinsFacts
<1>4. ASSUME NEW t \in firsts
      PROVE  Item(w, t) /\ Size(t) = n /\ t.as = "expr" /\ FirstRule(terms, t)
  <2>1. PICK u \in terms : t = Found("expr", u.from, u.to, u.node)  BY <1>4
  <2>2. t.as = "expr" /\ t.from = u.from /\ t.to = u.to /\ t.node = u.node
    BY <2>1, FoundFields
  <2>3. Item(w, u) /\ Size(u) = n /\ u.as = "term"  BY <1>2
  <2> HIDE DEF terms
  <2> QED  BY <2>1, <2>2, <2>3 DEF Item, Size, FirstRule
<1>5. ASSUME NEW t, Item(w, t), Size(t) = n, FirstRule(all, t)  PROVE t \in firsts
  <2>1. PICK u \in all : /\ u.as = "term" /\ u.from = t.from /\ u.to = t.to /\ t.node = u.node
    BY <1>5 DEF FirstRule
  <2>2. u \in terms
    <3>1. Size(u) = n  BY <1>5, <2>1 DEF Size
    <3>2. u \notin fewer  BY <3>1
    <3> HIDE DEF terms, firsts, joins, all
    <3>3. u \notin firsts /\ u \notin joins  BY <1>3, <1>4, <2>1
    <3> QED  BY <1>1, <3>2, <3>3
  <2>3. t = Found("expr", u.from, u.to, u.node)  BY <1>5, <2>1 DEF Item, FirstRule
  <2> QED  BY <2>2, <2>3
<1> HIDE DEF terms, firsts, joins, all
<1>6. \A t \in all \ fewer : Item(w, t) /\ Size(t) = n /\ Rule(w, all, t)
  <2> TAKE t \in all \ fewer
  <2>1. CASE t \in terms
    <3>1. Rule(w, fewer, t)  BY <1>2, <2>1 DEF Rule
    <3>2. Rule(w, all, t)  BY <1>1, <3>1, RuleGrows
    <3> QED  BY <1>2, <2>1, <3>2
  <2>2. CASE t \in firsts
    <3>1. Rule(w, terms, t)  BY <1>4, <2>2 DEF Rule
    <3>2. Rule(w, all, t)  BY <1>1, <3>1, RuleGrows
    <3> QED  BY <1>4, <2>2, <3>2
  <2>3. CASE t \in joins
    <3>1. Rule(w, fewer, t)  BY <1>3, <2>3 DEF Rule
    <3>2. Rule(w, all, t)  BY <1>1, <3>1, RuleGrows
    <3> QED  BY <1>3, <2>3, <3>2
  <2> QED  BY <1>1, <2>1, <2>2, <2>3
<1>7. \A t : /\ Item(w, t) /\ Size(t) = n
             /\ \/ AtomRule(w, t) \/ NotRule(w, fewer, t) \/ ParensRule(w, fewer, t)
                \/ FirstRule(all, t) \/ JoinRule(w, fewer, t)
             => t \in all
  BY <1>1, <1>2, <1>3, <1>5
<1>8. fewer \subseteq all  BY <1>1
<1> QED  BY <1>6, <1>7, <1>8 DEF all

LEMMA LevelFacts ==
    ASSUME NEW w \in Seq(Tokens), NEW U, U = UpToSize(w)
    PROVE  /\ \A n \in Nat : \A t \in U[n] :
                 /\ Item(w, t) /\ Size(t) <= n /\ t \in U[Size(t)]
                 /\ Rule(w, U[n], t)
           /\ \A n \in Nat : \A m \in 0..n : U[m] \subseteq U[n]
           /\ \A n \in Nat \ {0} : \A t :
                 /\ Item(w, t) /\ Size(t) = n
                 /\ \/ AtomRule(w, t) \/ NotRule(w, U[n - 1], t) \/ ParensRule(w, U[n - 1], t)
                    \/ FirstRule(U[n], t) \/ JoinRule(w, U[n - 1], t)
                 => t \in U[n]
<1> DEFINE Good(n) == \A t \in U[n] : /\ Item(w, t) /\ Size(t) <= n /\ t \in U[Size(t)]
                                      /\ Rule(w, U[n], t)
<1>1. U[0] = {} /\ \A n \in Nat : n # 0 => U[n] = WithSize(w, U[n - 1], n)
  BY SizesUnfold
<1>2. \A n \in Nat : U[n + 1] = WithSize(w, U[n], n + 1)
  <2> TAKE n \in Nat
  <2>1. n + 1 \in Nat /\ n + 1 # 0 /\ (n + 1) - 1 = n  OBVIOUS
  <2> QED  BY <1>1, <2>1
<1>3. ASSUME NEW n \in Nat, Good(n)
      PROVE  /\ U[n] \subseteq U[n + 1]
             /\ \A t \in U[n + 1] \ U[n] :
                   Item(w, t) /\ Size(t) = n + 1 /\ Rule(w, U[n + 1], t)
             /\ \A t : /\ Item(w, t) /\ Size(t) = n + 1
                       /\ \/ AtomRule(w, t) \/ NotRule(w, U[n], t) \/ ParensRule(w, U[n], t)
                          \/ FirstRule(U[n + 1], t) \/ JoinRule(w, U[n], t)
                       => t \in U[n + 1]
  <2>1. n + 1 \in Nat /\ n + 1 # 0  OBVIOUS
  <2>2. \A u \in U[n] : Item(w, u) /\ Size(u) < n + 1
    <3> TAKE u \in U[n]
    <3>1. Item(w, u) /\ Size(u) <= n  BY <1>3
    <3>2. Size(u) \in Int  BY <3>1, ItemFields DEF Size
    <3> QED  BY <3>1, <3>2
  <2> DEFINE fewer == U[n]
  <2>3. \A u \in fewer : Item(w, u) /\ Size(u) < n + 1  BY <2>2
  <2>4. U[n + 1] = WithSize(w, fewer, n + 1)  BY <1>2
  <2> HIDE DEF fewer
  <2>5. /\ fewer \subseteq WithSize(w, fewer, n + 1)
        /\ \A t \in WithSize(w, fewer, n + 1) \ fewer :
              Item(w, t) /\ Size(t) = n + 1 /\ Rule(w, WithSize(w, fewer, n + 1), t)
        /\ \A t : /\ Item(w, t) /\ Size(t) = n + 1
                  /\ \/ AtomRule(w, t) \/ NotRule(w, fewer, t) \/ ParensRule(w, fewer, t)
                     \/ FirstRule(WithSize(w, fewer, n + 1), t) \/ JoinRule(w, fewer, t)
                  => t \in WithSize(w, fewer, n + 1)
    BY ONLY <2>1, <2>3, w \in Seq(Tokens), SizeFacts
  <2> QED  BY <2>4, <2>5 DEF fewer
<1>4. \A n \in Nat : Good(n)
  <2> DEFINE S == {n \in Nat : Good(n)}
  <2>1. 0 \in S  BY <1>1
  <2>2. ASSUME NEW n \in S  PROVE n + 1 \in S
    <3>1. n \in Nat /\ n + 1 \in Nat /\ Good(n)  BY <2>2
    <3>2. ASSUME NEW t \in U[n + 1]
          PROVE  /\ Item(w, t) /\ Size(t) <= n + 1 /\ t \in U[Size(t)] /\ Rule(w, U[n + 1], t)
      <4>1. CASE t \in U[n]
        <5>1. Item(w, t) /\ Size(t) <= n /\ t \in U[Size(t)] /\ Rule(w, U[n], t)
          BY <3>1, <4>1
        <5>2. Size(t) \in Int  BY <5>1, ItemFields DEF Size
        <5>3. Size(t) <= n + 1  BY <3>1, <5>1, <5>2
        <5>4. U[n] \subseteq U[n + 1]  BY <1>3, <3>1
        <5> QED  BY <5>1, <5>3, <5>4, RuleGrows
      <4>2. CASE t \notin U[n]
        <5>1. Item(w, t) /\ Size(t) = n + 1 /\ Rule(w, U[n + 1], t)  BY <1>3, <3>1, <4>2
        <5>2. n + 1 <= n + 1  BY <3>1
        <5> QED  BY <5>1, <5>2
      <4> QED  BY <4>1, <4>2
    <3>3. Good(n + 1)  BY <3>2
    <3> QED  BY <3>1, <3>3
  <2> HIDE DEF S
  <2>3. S = Nat
    <3>1. S \in SUBSET Nat  BY DEF S
    <3> QED  BY <2>1, <2>2, <3>1, SetInduction
  <2> QED  BY <2>3 DEF S
<1>5. \A n \in Nat : \A m \in 0..n : U[m] \subseteq U[n]
  <2> DEFINE S == {n \in Nat : \A m \in 0..n : U[m] \subseteq U[n]}
  <2>1. 0 \in S  OBVIOUS
  <2>2. ASSUME NEW n \in S  PROVE n + 1 \in S
    <3>1. n \in Nat /\ n + 1 \in Nat /\ \A m \in 0..n : U[m] \subseteq U[n]  BY <2>2
    <3>2. U[n] \subseteq U[n + 1]  BY <1>3, <1>4, <3>1
    <3>3. ASSUME NEW m \in 0..n + 1  PROVE U[m] \subseteq U[n + 1]
      <4>1. m \in 0..n \/ m = n + 1  BY <3>1
      <4> QED  BY <3>1, <3>2, <4>1
    <3> QED  BY <3>1, <3>3
  <2> HIDE DEF S
  <2>3. S = Nat
    <3>1. S \in SUBSET Nat  BY DEF S
    <3> QED  BY <2>1, <2>2, <3>1, SetInduction
  <2> QED  BY <2>3 DEF S
<1>6. ASSUME NEW n \in Nat \ {0}, NEW t, Item(w, t), Size(t) = n,
             \/ AtomRule(w, t) \/ NotRule(w, U[n - 1], t) \/ ParensRule(w, U[n - 1], t)
             \/ FirstRule(U[n], t) \/ JoinRule(w, U[n - 1], t)
      PROVE  t \in U[n]
  <2>1. n - 1 \in Nat /\ (n - 1) + 1 = n  OBVIOUS
  <2>2. Good(n - 1)  BY <1>4, <2>1
  <2> DEFINE k == n - 1
  <2>3. k \in Nat /\ k + 1 = n /\ Good(k)  BY <2>1, <2>2
  <2>4. \/ AtomRule(w, t) \/ NotRule(w, U[k], t) \/ ParensRule(w, U[k], t)
        \/ FirstRule(U[k + 1], t) \/ JoinRule(w, U[k], t)
    BY <1>6, <2>3
  <2> HIDE DEF k, Good
  <2> QED  BY <1>3, <1>6, <2>3, <2>4
<1> QED  BY <1>4, <1>5, <1>6

\* What is derived of a text is what the rules make of what is derived.
LEMMA DerivableFacts ==
    ASSUME NEW w \in Seq(Tokens)
    PROVE  \A t : t \in Derivable(w) <=> Item(w, t) /\ Rule(w, Derivable(w), t)
<1> DEFINE U == UpToSize(w)
           L == Len(w)
           D == U[L]
<1>0. L \in Nat  OBVIOUS
<1>1. D = Derivable(w)  BY DEF Derivable
<1>2. /\ \A n \in Nat : \A t \in U[n] :
            /\ Item(w, t) /\ Size(t) <= n /\ t \in U[Size(t)]
            /\ Rule(w, U[n], t)
      /\ \A n \in Nat : \A m \in 0..n : U[m] \subseteq U[n]
      /\ \A n \in Nat \ {0} : \A t :
            /\ Item(w, t) /\ Size(t) = n
            /\ \/ AtomRule(w, t) \/ NotRule(w, U[n - 1], t) \/ ParensRule(w, U[n - 1], t)
               \/ FirstRule(U[n], t) \/ JoinRule(w, U[n - 1], t)
            => t \in U[n]
  BY LevelFacts
<1> HIDE DEF U, L
<1>3. ASSUME NEW t \in D  PROVE Item(w, t) /\ Rule(w, D, t)
  BY <1>0, <1>2
<1>4. ASSUME NEW t, Item(w, t), Rule(w, D, t)  PROVE t \in D
  <2> DEFINE n == Size(t)
  <2>1. n \in Nat \ {0} /\ n \in 0..L
    <3>1. /\ t.from \in Nat /\ t.to \in Nat /\ 1 <= t.from /\ t.from <= t.to /\ t.to <= L
      BY <1>4, ItemFields DEF L
    <3> QED  BY <1>0, <3>1 DEF Size
  <2>2. ASSUME NEW u \in D  PROVE /\ Item(w, u) /\ Size(u) \in Nat
                                  /\ Size(u) < n => u \in U[n - 1]
                                  /\ Size(u) = n => u \in U[n]
    <3>1. Item(w, u) /\ u \in U[Size(u)]  BY <1>0, <1>2
    <3>2. Size(u) \in Nat  BY <3>1, ItemFields DEF Size
    <3>3. ASSUME Size(u) < n  PROVE u \in U[n - 1]
      <4>1. n - 1 \in Nat /\ Size(u) \in 0..n - 1  BY <2>1, <3>2, <3>3
      <4> QED  BY <1>2, <3>1, <4>1
    <3> QED  BY <3>1, <3>2, <3>3
  <2>3. U[n] \subseteq D  BY <1>0, <1>2, <2>1
  <2>4. t.from \in Nat /\ t.to \in Nat /\ n = t.to - t.from + 1  BY <1>4, ItemFields DEF Size
  <2>5. ASSUME NEW u \in D
        PROVE  u.from \in Nat /\ u.to \in Nat /\ u.from <= u.to /\ Size(u) = u.to - u.from + 1
    BY <2>2, ItemFields DEF Size
  <2> HIDE DEF n, D
  <2>6. \/ AtomRule(w, t) \/ NotRule(w, U[n - 1], t) \/ ParensRule(w, U[n - 1], t)
        \/ FirstRule(U[n], t) \/ JoinRule(w, U[n - 1], t)
    <3>1. CASE AtomRule(w, t)  BY <3>1
    <3>2. CASE NotRule(w, D, t)
      <4>1. PICK u \in D : /\ u.as = "term" /\ u.from = t.from + 1 /\ u.to = t.to
                           /\ t.node = NotNode(u.node)
        BY <3>2 DEF NotRule
      <4>2. Size(u) < n  BY <2>4, <2>5, <4>1
      <4>3. u \in U[n - 1]  BY <2>2, <4>2
      <4>4. NotRule(w, U[n - 1], t)  BY <3>2, <4>1, <4>3 DEF NotRule
      <4> QED  BY <4>4
    <3>3. CASE ParensRule(w, D, t)
      <4>1. PICK u \in D : /\ u.as = "expr" /\ u.from = t.from + 1 /\ u.to = t.to - 1
                           /\ t.node = u.node
        BY <3>3 DEF ParensRule
      <4>2. Size(u) < n  BY <2>4, <2>5, <4>1
      <4>3. u \in U[n - 1]  BY <2>2, <4>2
      <4>4. ParensRule(w, U[n - 1], t)  BY <3>3, <4>1, <4>3 DEF ParensRule
      <4> QED  BY <4>4
    <3>4. CASE FirstRule(D, t)
      <4>1. PICK u \in D : u.as = "term" /\ u.from = t.from /\ u.to = t.to /\ t.node = u.node
        BY <3>4 DEF FirstRule
      <4>2. Size(u) = n  BY <2>4, <2>5, <4>1
      <4>3. u \in U[n]  BY <2>2, <4>2
      <4>4. FirstRule(U[n], t)  BY <3>4, <4>1, <4>3 DEF FirstRule
      <4> QED  BY <4>4
    <3>5. CASE JoinRule(w, D, t)
      <4>1. PICK e, u \in D :
               /\ e.as = "expr" /\ e.from = t.from /\ w[e.to + 1] \in {"and", "or"}
               /\ u.as = "term" /\ u.from = e.to + 2 /\ u.to = t.to
               /\ t.node = BinaryNode(w[e.to + 1], e.node, u.node)
        BY <3>5 DEF JoinRule
      <4>2. Size(e) < n /\ Size(u) < n
        <5>1. /\ e.from \in Nat /\ e.to \in Nat /\ e.from <= e.to
              /\ u.from \in Nat /\ u.to \in Nat /\ u.from <= u.to
              /\ Size(e) = e.to - e.from + 1 /\ Size(u) = u.to - u.from + 1
          BY <2>5
        <5>2. e.from = t.from /\ u.from = e.to + 2 /\ u.to = t.to  BY <4>1
        <5> QED  BY ONLY <2>4, <5>1, <5>2
      <4>3. e \in U[n - 1] /\ u \in U[n - 1]  BY <2>2, <4>2
      <4>4. JoinRule(w, U[n - 1], t)  BY <3>5, <4>1, <4>3 DEF JoinRule
      <4> QED  BY <4>4
    <3> QED  BY <1>4, <3>1, <3>2, <3>3, <3>4, <3>5 DEF Rule
  <2>7. Size(t) = n  BY DEF n
  <2>8. t \in U[n]  BY <1>2, <1>4, <2>1, <2>6, <2>7
  <2> QED  BY <2>3, <2>8
<1>5. \A t : t \in D <=> Item(w, t) /\ Rule(w, D, t)  BY <1>3, <1>4
<1> HIDE DEF D
<1> QED  BY <1>1, <1>5

-----------------------------------------------------------------------------
(* A text has one reading.                                                 *)

\* The tokens of an atom, from p to q of a text.
LEMMA AtomShape ==
    ASSUME NEW w \in Seq(Tokens), NEW p \in Nat, NEW q \in Nat,
           1 <= p, p <= q, q <= Len(w), SubSeq(w, p, q) \in AtomForms
    PROVE  \/ q = p /\ w[p] = "proto"
           \/ q = p + 1 /\ w[p] \in {"ip", "src", "dst"} /\ w[p + 1] = "addr"
           \/ q = p + 1 /\ w[p] = "port" /\ w[p + 1] \in Numbers
           \/ q = p + 2 /\ w[p] \in {"src", "dst"} /\ w[p + 1] = "port" /\ w[p + 2] \in Numbers
           \/ q = p + 2 /\ w[p] = "len" /\ w[p + 1] = "cmp" /\ w[p + 2] \in Numbers
<1> DEFINE s == SubSeq(w, p, q)
<1>1. Len(s) = q - p + 1 /\ \A i \in 1..q - p + 1 : s[i] = w[p + i - 1]
  OBVIOUS
<1>2. s \in AtomForms  OBVIOUS
<1> HIDE DEF s
<1>3. \/ Len(s) = 1 /\ s[1] = "proto"
      \/ Len(s) = 2 /\ s[1] \in {"ip", "src", "dst"} /\ s[2] = "addr"
      \/ Len(s) = 2 /\ s[1] = "port" /\ s[2] \in Numbers
      \/ Len(s) = 3 /\ s[1] \in {"src", "dst"} /\ s[2] = "port" /\ s[3] \in Numbers
      \/ Len(s) = 3 /\ s[1] = "len" /\ s[2] = "cmp" /\ s[3] \in Numbers
  <2>1. CASE s = <<"proto">>  BY <2>1
  <2>2. CASE s \in {<<"ip", "addr">>, <<"src", "addr">>, <<"dst", "addr">>}  BY <2>2
  <2>3. CASE \E n \in Numbers : s = <<"port", n>>  BY <2>3
  <2>4. CASE \E d \in {"src", "dst"}, n \in Numbers : s = <<d, "port", n>>  BY <2>4
  <2>5. CASE \E n \in Numbers : s = <<"len", "cmp", n>>  BY <2>5
  <2> QED  BY <1>2, <2>1, <2>2, <2>3, <2>4, <2>5 DEF AtomForms
<1>4. CASE Len(s) = 1
  <2>1. q = p /\ s[1] = w[p]
    <3>1. q = p
      <4>1. q - p + 1 = 1  BY <1>1, <1>4
      <4> QED  BY ONLY <4>1, p \in Nat, q \in Nat
    <3>2. 1 \in 1..q - p + 1 /\ p + 1 - 1 = p  BY <3>1
    <3> QED  BY <1>1, <3>1, <3>2
  <2> QED  BY <1>3, <1>4, <2>1
<1>5. CASE Len(s) = 2
  <2>1. q = p + 1 /\ s[1] = w[p] /\ s[2] = w[p + 1]
    <3>1. q = p + 1
      <4>1. q - p + 1 = 2  BY <1>1, <1>5
      <4> QED  BY ONLY <4>1, p \in Nat, q \in Nat
    <3>2. 1 \in 1..q - p + 1 /\ p + 1 - 1 = p /\ 2 \in 1..q - p + 1 /\ p + 2 - 1 = p + 1
      BY <3>1
    <3> QED  BY <1>1, <3>1, <3>2
  <2> QED  BY <1>3, <1>5, <2>1
<1>6. CASE Len(s) = 3
  <2>1. q = p + 2 /\ s[1] = w[p] /\ s[2] = w[p + 1] /\ s[3] = w[p + 2]
    <3>1. q = p + 2
      <4>1. q - p + 1 = 3  BY <1>1, <1>6
      <4> QED  BY ONLY <4>1, p \in Nat, q \in Nat
    <3>2. /\ 1 \in 1..q - p + 1 /\ p + 1 - 1 = p /\ 2 \in 1..q - p + 1 /\ p + 2 - 1 = p + 1
          /\ 3 \in 1..q - p + 1 /\ p + 3 - 1 = p + 2
      BY <3>1
    <3> QED  BY <1>1, <3>1, <3>2
  <2> QED  BY <1>3, <1>6, <2>1
<1> QED  BY <1>3, <1>4, <1>5, <1>6

\* No atom is the beginning of another one.
LEMMA AtomsDiffer ==
    ASSUME NEW w \in Seq(Tokens), NEW p \in Nat, NEW q \in Nat, NEW r \in Nat,
           1 <= p, p <= q, q <= Len(w), p <= r, r <= Len(w),
           SubSeq(w, p, q) \in AtomForms, SubSeq(w, p, r) \in AtomForms
    PROVE  q = r /\ w[p] \notin {"not", "("}
<1> DEFINE Shape(x) ==
              \/ x = p /\ w[p] = "proto"
              \/ x = p + 1 /\ w[p] \in {"ip", "src", "dst"} /\ w[p + 1] = "addr"
              \/ x = p + 1 /\ w[p] = "port" /\ w[p + 1] \in Numbers
              \/ x = p + 2 /\ w[p] \in {"src", "dst"} /\ w[p + 1] = "port" /\ w[p + 2] \in Numbers
              \/ x = p + 2 /\ w[p] = "len" /\ w[p + 1] = "cmp" /\ w[p + 2] \in Numbers
<1>1. Shape(q) /\ Shape(r)
  <2>1. Shape(q)  BY AtomShape
  <2>2. Shape(r)  BY AtomShape
  <2> QED  BY <2>1, <2>2
<1>2. w[p] \notin {"not", "("}  BY <1>1
<1>3. q = r
  <2>1. CASE w[p] = "proto"  BY <1>1, <2>1
  <2>2. CASE w[p] = "ip"  BY <1>1, <2>2
  <2>3. CASE w[p] = "port"  BY <1>1, <2>3
  <2>4. CASE w[p] = "len"  BY <1>1, <2>4
  <2>5. CASE w[p] \in {"src", "dst"}  BY <1>1, <2>5
  <2> QED  BY <1>1, <2>1, <2>2, <2>3, <2>4, <2>5
<1> QED  BY <1>2, <1>3

\* Of the items, the terms of up to n tokens that begin at one place are the
\* same,
OneTerm(items, n) ==
    \A a, b \in items :
        a.as = "term" /\ b.as = "term" /\ a.from = b.from /\ Size(a) <= n /\ Size(b) <= n => a = b

\* so are the expressions that end at one place, too,
OneExpr(items, n) ==
    \A a, b \in items :
        a.as = "expr" /\ b.as = "expr" /\ a.from = b.from /\ a.to = b.to /\ Size(a) <= n => a = b

\* and where one is longer it goes on with an operator and a term.
GoesOn(w, items, n) ==
    \A a, b \in items :
        a.as = "expr" /\ b.as = "expr" /\ a.from = b.from /\ a.to < b.to /\ Size(b) <= n =>
            /\ w[a.to + 1] \in Ops
            /\ \E u \in items : u.as = "term" /\ u.from = a.to + 2 /\ u.to <= b.to

\* The rules make all of items.
Ruled(w, items) == \A t \in items : Item(w, t) /\ Rule(w, items, t)

LEMMA RuledFacts ==
    ASSUME NEW w, NEW D, Ruled(w, D), NEW t \in D
    PROVE  /\ t.from \in Nat /\ t.to \in Nat /\ 1 <= t.from /\ t.from <= t.to /\ t.to <= Len(w)
           /\ Size(t) \in Nat /\ Size(t) = t.to - t.from + 1
           /\ t = Found(t.as, t.from, t.to, t.node)
           /\ t.as = "term" => AtomRule(w, t) \/ NotRule(w, D, t) \/ ParensRule(w, D, t)
           /\ t.as = "expr" => FirstRule(D, t) \/ JoinRule(w, D, t)
<1>1. Item(w, t) /\ Rule(w, D, t)  BY DEF Ruled
<1>2. /\ t.from \in Nat /\ t.to \in Nat /\ 1 <= t.from /\ t.from <= t.to /\ t.to <= Len(w)
  BY <1>1, ItemFields
<1>3. Size(t) \in Nat /\ Size(t) = t.to - t.from + 1  BY <1>2 DEF Size
<1>4. t = Found(t.as, t.from, t.to, t.node)  BY <1>1 DEF Item
<1>5. t.as = "term" => AtomRule(w, t) \/ NotRule(w, D, t) \/ ParensRule(w, D, t)
  BY <1>1 DEF Rule, FirstRule, JoinRule
<1>6. t.as = "expr" => FirstRule(D, t) \/ JoinRule(w, D, t)
  BY <1>1 DEF Rule, AtomRule, NotRule, ParensRule
<1> QED  BY <1>2, <1>3, <1>4, <1>5, <1>6

\* By induction over the sizes: a term begins with its first token's rule,
LEMMA TermsGrow ==
    ASSUME NEW w \in Seq(Tokens), NEW D, Ruled(w, D), NEW n \in Nat,
           OneTerm(D, n), OneExpr(D, n), GoesOn(w, D, n)
    PROVE  OneTerm(D, n + 1)
<1> SUFFICES ASSUME NEW a \in D, NEW b \in D, a.as = "term", b.as = "term", a.from = b.from,
                    Size(a) <= n + 1, Size(b) <= n + 1
             PROVE  a = b
  BY DEF OneTerm
<1> DEFINE q == a.from
<1>1. /\ q \in Nat /\ a.to \in Nat /\ 1 <= q /\ q <= a.to /\ a.to <= Len(w)
      /\ Size(a) = a.to - q + 1 /\ a = Found("term", q, a.to, a.node)
      /\ AtomRule(w, a) \/ NotRule(w, D, a) \/ ParensRule(w, D, a)
  BY RuledFacts
<1>2. /\ b.from = q /\ b.to \in Nat /\ q <= b.to /\ b.to <= Len(w)
      /\ Size(b) = b.to - q + 1 /\ b = Found("term", q, b.to, b.node)
      /\ AtomRule(w, b) \/ NotRule(w, D, b) \/ ParensRule(w, D, b)
  BY RuledFacts
<1>3. SUFFICES a.to = b.to /\ a.node = b.node
  BY <1>1, <1>2
<1> HIDE DEF q
<1>a. AtomRule(w, a) => SubSeq(w, q, a.to) \in AtomForms /\ w[q] \notin {"not", "("}
  BY <1>1, AtomsDiffer DEF AtomRule, q
<1>b. AtomRule(w, b) => SubSeq(w, q, b.to) \in AtomForms /\ w[q] \notin {"not", "("}
  BY <1>1, <1>2, AtomsDiffer DEF AtomRule
<1>4. CASE w[q] \notin {"not", "("}
  <2>1. AtomRule(w, a) /\ AtomRule(w, b)
    BY <1>1, <1>2, <1>4 DEF NotRule, ParensRule, q
  <2>2. a.to = b.to  BY <1>1, <1>2, <1>a, <1>b, <2>1, AtomsDiffer
  <2>3. a.node = Leaf(q, a.to) /\ b.node = Leaf(q, b.to)  BY <1>2, <2>1 DEF AtomRule, q
  <2> QED  BY <2>2, <2>3
<1>5. CASE w[q] = "not"
  <2>1. NotRule(w, D, a) /\ NotRule(w, D, b)
    BY <1>1, <1>2, <1>5, <1>a, <1>b DEF ParensRule, q
  <2>2. PICK u \in D : /\ u.as = "term" /\ u.from = q + 1 /\ u.to = a.to
                       /\ a.node = NotNode(u.node)
    BY <2>1 DEF NotRule, q
  <2>3. PICK v \in D : /\ v.as = "term" /\ v.from = q + 1 /\ v.to = b.to
                       /\ b.node = NotNode(v.node)
    BY <1>2, <2>1 DEF NotRule
  <2>4. Size(u) <= n /\ Size(v) <= n
    <3>1. Size(u) = u.to - u.from + 1 /\ Size(v) = v.to - v.from + 1  BY RuledFacts
    <3>2. Size(u) = a.to - (q + 1) + 1 /\ Size(v) = b.to - (q + 1) + 1  BY <2>2, <2>3, <3>1
    <3>3. a.to - q + 1 <= n + 1 /\ b.to - q + 1 <= n + 1  BY <1>1, <1>2
    <3>4. a.to \in Nat /\ b.to \in Nat /\ q \in Nat  BY <1>1, <1>2
    <3> QED  BY ONLY <3>2, <3>3, <3>4, n \in Nat
  <2>5. u = v  BY <2>2, <2>3, <2>4 DEF OneTerm
  <2> QED  BY <2>2, <2>3, <2>5
<1>6. CASE w[q] = "("
  <2>1. ParensRule(w, D, a) /\ ParensRule(w, D, b)
    BY <1>1, <1>2, <1>6, <1>a, <1>b DEF NotRule, q
  <2>2. PICK u \in D : /\ u.as = "expr" /\ u.from = q + 1 /\ u.to = a.to - 1
                       /\ a.node = u.node
    BY <2>1 DEF ParensRule, q
  <2>3. PICK v \in D : /\ v.as = "expr" /\ v.from = q + 1 /\ v.to = b.to - 1
                       /\ b.node = v.node
    BY <1>2, <2>1 DEF ParensRule
  <2>4. /\ u.to \in Nat /\ v.to \in Nat /\ a.to = u.to + 1 /\ b.to = v.to + 1
    <3>1. u.to \in Nat /\ v.to \in Nat  BY RuledFacts
    <3>2. u.to = a.to - 1 /\ v.to = b.to - 1 /\ a.to \in Nat /\ b.to \in Nat
      BY <1>1, <1>2, <2>2, <2>3
    <3> QED  BY ONLY <3>1, <3>2
  <2>5. Size(u) <= n /\ Size(v) <= n
    <3>1. Size(u) = u.to - u.from + 1 /\ Size(v) = v.to - v.from + 1  BY RuledFacts
    <3>2. Size(u) = (a.to - 1) - (q + 1) + 1 /\ Size(v) = (b.to - 1) - (q + 1) + 1
      BY <2>2, <2>3, <3>1
    <3>3. a.to - q + 1 <= n + 1 /\ b.to - q + 1 <= n + 1  BY <1>1, <1>2
    <3>4. a.to \in Nat /\ b.to \in Nat /\ q \in Nat  BY <1>1, <1>2
    <3>6. \A x, y \in Nat : x - y + 1 <= n + 1 => (x - 1) - (y + 1) + 1 <= n  BY n \in Nat
    <3>7. (a.to - 1) - (q + 1) + 1 <= n
      <4> DEFINE x == a.to
      <4>1. x \in Nat /\ q \in Nat /\ x - q + 1 <= n + 1  BY <3>3, <3>4
      <4> HIDE DEF x
      <4>2. (x - 1) - (q + 1) + 1 <= n  BY ONLY <3>6, <4>1
      <4> QED  BY <4>2 DEF x
    <3>8. (b.to - 1) - (q + 1) + 1 <= n
      <4> DEFINE x == b.to
      <4>1. x \in Nat /\ q \in Nat /\ x - q + 1 <= n + 1  BY <3>3, <3>4
      <4> HIDE DEF x
      <4>2. (x - 1) - (q + 1) + 1 <= n  BY ONLY <3>6, <4>1
      <4> QED  BY <4>2 DEF x
    <3> QED  BY ONLY <3>2, <3>7, <3>8
  <2>6. w[u.to + 1] = ")" /\ w[v.to + 1] = ")"  BY <2>1, <2>4 DEF ParensRule
  <2>7. ~(u.to < v.to) /\ ~(v.to < u.to)
    BY <2>2, <2>3, <2>5, <2>6 DEF GoesOn, Ops
  <2>8. u.to = v.to  BY <2>4, <2>7
  <2>9. u = v  BY <2>2, <2>3, <2>5, <2>8 DEF OneExpr
  <2> QED  BY <2>2, <2>3, <2>4, <2>9
<1> QED  BY <1>4, <1>5, <1>6

\* The first term of an expression.
LEMMA FirstTerms ==
    ASSUME NEW w \in Seq(Tokens), NEW D, Ruled(w, D)
    PROVE  \A e \in D : e.as = "expr" =>
              \E u \in D : u.as = "term" /\ u.from = e.from /\ u.to <= e.to
<1> DEFINE Has(e) == \E u \in D : u.as = "term" /\ u.from = e.from /\ u.to <= e.to
           S == {n \in Nat : \A e \in D : e.as = "expr" /\ Size(e) <= n => Has(e)}
<1>1. 0 \in S
  <2>1. ASSUME NEW e \in D  PROVE ~(Size(e) <= 0)
    <3>1. e.from \in Nat /\ e.to \in Nat /\ e.from <= e.to /\ Size(e) = e.to - e.from + 1
      BY RuledFacts
    <3> QED  BY <3>1
  <2> QED  BY <2>1
<1>2. ASSUME NEW n \in S  PROVE n + 1 \in S
  <2>1. n \in Nat /\ n + 1 \in Nat /\ \A e \in D : e.as = "expr" /\ Size(e) <= n => Has(e)
    BY <1>2
  <2>2. ASSUME NEW e \in D, e.as = "expr", Size(e) <= n + 1  PROVE Has(e)
    <3>1. /\ e.from \in Nat /\ e.to \in Nat /\ Size(e) = e.to - e.from + 1
          /\ FirstRule(D, e) \/ JoinRule(w, D, e)
      BY <2>2, RuledFacts
    <3>2. CASE FirstRule(D, e)
      <4>1. PICK u \in D : u.as = "term" /\ u.from = e.from /\ u.to = e.to
        BY <3>2 DEF FirstRule
      <4>2. u.to <= e.to  BY <3>1, <4>1
      <4> QED  BY <4>1, <4>2
    <3>3. CASE JoinRule(w, D, e)
      <4>1. PICK l, u \in D : /\ l.as = "expr" /\ l.from = e.from
                              /\ u.as = "term" /\ u.from = l.to + 2 /\ u.to = e.to
        BY <3>3 DEF JoinRule
      <4>2. /\ l.to \in Nat /\ l.from \in Nat /\ Size(l) = l.to - l.from + 1
            /\ u.from \in Nat /\ u.to \in Nat /\ u.from <= u.to
        BY RuledFacts
      <4>3. l.to < e.to /\ Size(l) <= n
        <5>1. l.from = e.from /\ u.from = l.to + 2 /\ u.to = e.to  BY <4>1
        <5>2. e.to - e.from + 1 <= n + 1  BY <2>2, <3>1
        <5> QED  BY ONLY <2>1, <3>1, <4>2, <5>1, <5>2
      <4>4. PICK t \in D : t.as = "term" /\ t.from = l.from /\ t.to <= l.to
        BY <2>1, <4>1, <4>3
      <4>5. t.to \in Nat  BY RuledFacts
      <4>6. t.to <= e.to  BY <3>1, <4>2, <4>3, <4>4, <4>5
      <4> QED  BY <4>1, <4>4, <4>6
    <3> QED  BY <3>1, <3>2, <3>3
  <2> HIDE DEF Has
  <2> QED  BY <2>1, <2>2
<1>3. S = Nat
  <2>1. S \in SUBSET Nat  OBVIOUS
  <2> HIDE DEF S
  <2> QED  BY <1>1, <1>2, <2>1, SetInduction
<1>4. ASSUME NEW e \in D, e.as = "expr"  PROVE Has(e)
  <2>1. Size(e) \in Nat /\ Size(e) <= Size(e)  BY RuledFacts
  <2>2. Size(e) \in S  BY <1>3, <2>1
  <2> HIDE DEF Has
  <2> QED  BY <1>4, <2>1, <2>2
<1> QED  BY <1>4

\* What makes an expression, in numbers.
LEMMA ExprShape ==
    ASSUME NEW w, NEW D, Ruled(w, D), NEW n \in Nat, NEW t \in D, t.as = "expr",
           Size(t) <= n + 1
    PROVE  \/ \E u \in D : /\ u.as = "term" /\ u.from = t.from /\ u.to = t.to
                           /\ t.node = u.node /\ Size(u) <= n + 1
           \/ \E e, u \in D : /\ e.as = "expr" /\ e.from = t.from /\ w[e.to + 1] \in Ops
                              /\ u.as = "term" /\ u.from = e.to + 2 /\ u.to = t.to
                              /\ t.node = BinaryNode(w[e.to + 1], e.node, u.node)
                              /\ e.to + 2 <= t.to /\ Size(e) <= n /\ Size(u) <= n
<1>1. /\ t.from \in Nat /\ t.to \in Nat /\ Size(t) = t.to - t.from + 1
      /\ FirstRule(D, t) \/ JoinRule(w, D, t)
  BY RuledFacts
<1>2. CASE FirstRule(D, t)
  <2>1. PICK u \in D : u.as = "term" /\ u.from = t.from /\ u.to = t.to /\ t.node = u.node
    BY <1>2 DEF FirstRule
  <2>2. Size(u) = Size(t)  BY <2>1 DEF Size
  <2> QED  BY <2>1, <2>2
<1>3. CASE JoinRule(w, D, t)
  <2>1. PICK e, u \in D : /\ e.as = "expr" /\ e.from = t.from /\ w[e.to + 1] \in {"and", "or"}
                          /\ u.as = "term" /\ u.from = e.to + 2 /\ u.to = t.to
                          /\ t.node = BinaryNode(w[e.to + 1], e.node, u.node)
    BY <1>3 DEF JoinRule
  <2>2. /\ e.from \in Nat /\ e.to \in Nat /\ e.from <= e.to /\ Size(e) = e.to - e.from + 1
        /\ u.from \in Nat /\ u.to \in Nat /\ u.from <= u.to /\ Size(u) = u.to - u.from + 1
    BY RuledFacts
  <2>3. e.from = t.from /\ u.from = e.to + 2 /\ u.to = t.to  BY <2>1
  <2>4. t.to - t.from + 1 <= n + 1  BY <1>1
  <2>5. e.to + 2 <= t.to  BY ONLY <2>2, <2>3
  <2>6. Size(e) <= n
    <3>1. e.to - t.from + 1 <= n  BY ONLY <1>1, <2>2, <2>4, <2>5, n \in Nat
    <3> QED  BY ONLY <2>2, <2>3, <3>1
  <2>7. Size(u) <= n
    <3>1. t.to - (e.to + 2) + 1 <= n
      <4>1. t.from <= e.to  BY ONLY <2>2, <2>3
      <4> QED  BY ONLY <1>1, <2>2, <2>4, <4>1, n \in Nat
    <3> QED  BY ONLY <2>2, <2>3, <3>1
  <2> QED  BY <2>1, <2>5, <2>6, <2>7 DEF Ops
<1> QED  BY <1>1, <1>2, <1>3

LEMMA Shorter ==
    ASSUME NEW f \in Nat, NEW x \in Nat, NEW y \in Nat, NEW z \in Nat, NEW n \in Nat,
           z <= y, y - f + 1 <= n, f <= x
    PROVE  z - (x + 2) + 1 <= n + 1
OBVIOUS

\* a longer expression goes on behind the shorter one, for else both would end
\* in one term,
LEMMA GoingOnGrows ==
    ASSUME NEW w \in Seq(Tokens), NEW D, Ruled(w, D), NEW n \in Nat,
           OneTerm(D, n + 1), GoesOn(w, D, n)
    PROVE  GoesOn(w, D, n + 1)
<1> SUFFICES ASSUME NEW a \in D, NEW b \in D, a.as = "expr", b.as = "expr", a.from = b.from,
                    a.to < b.to, Size(b) <= n + 1
             PROVE  /\ w[a.to + 1] \in Ops
                    /\ \E u \in D : u.as = "term" /\ u.from = a.to + 2 /\ u.to <= b.to
  BY DEF GoesOn
<1>1. /\ a.from \in Nat /\ a.to \in Nat /\ a.from <= a.to /\ Size(a) = a.to - a.from + 1
      /\ b.from \in Nat /\ b.to \in Nat /\ b.from <= b.to /\ Size(b) = b.to - b.from + 1
  BY RuledFacts
<1>2. Size(a) <= n /\ Size(a) <= n + 1
  <2>1. b.to - a.from + 1 <= n + 1  BY <1>1
  <2>2. a.to < b.to  OBVIOUS
  <2>3. a.to - a.from + 1 <= n  BY ONLY <1>1, <2>1, <2>2, n \in Nat
  <2>4. Size(a) <= n  BY ONLY <1>1, <2>3
  <2> QED  BY <1>1, <2>4
<1>3. CASE \E v \in D : v.as = "term" /\ v.from = b.from /\ v.to = b.to /\ Size(v) <= n + 1
  <2>1. PICK v \in D : v.as = "term" /\ v.from = b.from /\ v.to = b.to /\ Size(v) <= n + 1
    BY <1>3
  <2>2. PICK u \in D : u.as = "term" /\ u.from = a.from /\ u.to <= a.to
    BY FirstTerms
  <2>3. u.to \in Nat /\ u.from \in Nat /\ Size(u) = u.to - u.from + 1  BY RuledFacts
  <2>4. Size(u) <= n + 1
    <3>1. u.to - a.from + 1 <= a.to - a.from + 1  BY ONLY <1>1, <2>2, <2>3
    <3>2. Size(u) <= Size(a)  BY ONLY <1>1, <2>2, <2>3, <3>1
    <3>3. Size(u) \in Int /\ Size(a) \in Int  BY RuledFacts
    <3> QED  BY ONLY <1>2, <3>2, <3>3, n \in Nat
  <2>5. u = v  BY <2>1, <2>2, <2>4 DEF OneTerm
  <2>6. FALSE
    <3>1. b.to <= a.to  BY <2>1, <2>2, <2>5
    <3>2. a.to < b.to  OBVIOUS
    <3> QED  BY ONLY <1>1, <3>1, <3>2
  <2> QED  BY <2>6
<1>4. CASE \E e, u \in D : /\ e.as = "expr" /\ e.from = b.from /\ w[e.to + 1] \in Ops
                           /\ u.as = "term" /\ u.from = e.to + 2 /\ u.to = b.to
                           /\ e.to + 2 <= b.to /\ Size(e) <= n /\ Size(u) <= n
  <2>1. PICK e, u \in D : /\ e.as = "expr" /\ e.from = b.from /\ w[e.to + 1] \in Ops
                          /\ u.as = "term" /\ u.from = e.to + 2 /\ u.to = b.to
                          /\ e.to + 2 <= b.to /\ Size(e) <= n /\ Size(u) <= n
    BY <1>4
  <2>2. e.from \in Nat /\ e.to \in Nat /\ u.to \in Nat /\ u.from \in Nat  BY RuledFacts
  <2>3. CASE a.to = e.to
    <3>1. u.to <= b.to  BY <1>1, <2>1
    <3> QED  BY <2>1, <2>3, <3>1
  <2>4. CASE a.to < e.to
    <3>1. /\ w[a.to + 1] \in Ops
          /\ \E t \in D : t.as = "term" /\ t.from = a.to + 2 /\ t.to <= e.to
      BY <2>1, <2>4 DEF GoesOn
    <3>2. PICK t \in D : t.as = "term" /\ t.from = a.to + 2 /\ t.to <= e.to
      BY <3>1
    <3>3. t.to \in Nat  BY RuledFacts
    <3>4. e.to + 2 <= b.to /\ t.to <= e.to  BY <2>1, <3>2
    <3>5. t.to <= b.to  BY ONLY <1>1, <2>2, <3>3, <3>4
    <3> QED  BY <3>1, <3>2, <3>5
  <2>5. CASE e.to < a.to
    <3>1. PICK t \in D : t.as = "term" /\ t.from = e.to + 2 /\ t.to <= a.to
      BY <1>2, <2>1, <2>5 DEF GoesOn
    <3>2. t.to \in Nat /\ t.from \in Nat /\ Size(t) = t.to - t.from + 1  BY RuledFacts
    <3>3. Size(t) <= n + 1
      <4>1. a.to - a.from + 1 <= n  BY <1>1, <1>2
      <4>2. t.from = e.to + 2 /\ t.to <= a.to  BY <3>1
      <4>3. a.from <= e.to
        <5>1. e.from <= e.to  BY RuledFacts
        <5> QED  BY <2>1, <5>1
      <4>4. t.to - (e.to + 2) + 1 <= n + 1
        <5>1. a.from \in Nat /\ e.to \in Nat /\ a.to \in Nat /\ t.to \in Nat  BY <1>1, <2>2, <3>2
        <5>2. t.to <= a.to  BY <4>2
        <5> QED  BY ONLY <4>1, <4>3, <5>1, <5>2, n \in Nat, Shorter
      <4> QED  BY ONLY <3>2, <4>2, <4>4
    <3>4. Size(u) <= n + 1
      <4>1. Size(u) \in Int  BY RuledFacts
      <4> QED  BY <2>1, <4>1
    <3>5. t = u  BY <2>1, <3>1, <3>3, <3>4 DEF OneTerm
    <3>6. FALSE
      <4>1. b.to <= a.to  BY <2>1, <3>1, <3>5
      <4>2. a.to < b.to  OBVIOUS
      <4> QED  BY ONLY <1>1, <4>1, <4>2
    <3> QED  BY <3>6
  <2> QED  BY <1>1, <2>2, <2>3, <2>4, <2>5
<1>5. b.as = "expr" /\ Size(b) <= n + 1  OBVIOUS
<1> QED  BY <1>3, <1>4, <1>5, ExprShape

\* and so two of the same tokens are split at the same operator.
LEMMA ExprsGrow ==
    ASSUME NEW w \in Seq(Tokens), NEW D, Ruled(w, D), NEW n \in Nat,
           OneTerm(D, n + 1), OneExpr(D, n), GoesOn(w, D, n)
    PROVE  OneExpr(D, n + 1)
<1> DEFINE First1(t) == \E u \in D : /\ u.as = "term" /\ u.from = t.from /\ u.to = t.to
                                     /\ t.node = u.node /\ Size(u) <= n + 1
           Join1(t) == \E e, u \in D :
                          /\ e.as = "expr" /\ e.from = t.from /\ w[e.to + 1] \in Ops
                          /\ u.as = "term" /\ u.from = e.to + 2 /\ u.to = t.to
                          /\ t.node = BinaryNode(w[e.to + 1], e.node, u.node)
                          /\ e.to + 2 <= t.to /\ Size(e) <= n /\ Size(u) <= n
<1>a. ASSUME NEW a \in D, NEW b \in D, a.from = b.from, a.to = b.to, First1(a), Join1(b)
      PROVE  FALSE
  <2>1. PICK t \in D : t.as = "term" /\ t.from = a.from /\ t.to = a.to /\ Size(t) <= n + 1
    BY <1>a
  <2>2. PICK e \in D : /\ e.as = "expr" /\ e.from = b.from /\ e.to + 2 <= b.to
                       /\ Size(e) <= n
    BY <1>a
  <2>3. PICK u \in D : u.as = "term" /\ u.from = e.from /\ u.to <= e.to
    BY <2>2, FirstTerms
  <2>4. /\ e.from \in Nat /\ e.to \in Nat /\ Size(e) = e.to - e.from + 1
        /\ u.from \in Nat /\ u.to \in Nat /\ Size(u) = u.to - u.from + 1 /\ b.to \in Nat
    BY RuledFacts
  <2>5. Size(u) <= n + 1
    <3>1. u.from = e.from /\ u.to <= e.to  BY <2>3
    <3>2. e.to - e.from + 1 <= n  BY <2>2, <2>4
    <3>3. u.to - e.from + 1 <= n + 1  BY ONLY <2>4, <3>1, <3>2, n \in Nat
    <3> QED  BY ONLY <2>4, <3>1, <3>3
  <2>6. u = t  BY <1>a, <2>1, <2>2, <2>3, <2>5 DEF OneTerm
  <2>7. b.to <= e.to /\ e.to + 2 <= b.to  BY <1>a, <2>1, <2>2, <2>3, <2>6
  <2> QED  BY ONLY <2>4, <2>7
<1> SUFFICES ASSUME NEW a \in D, NEW b \in D, a.as = "expr", b.as = "expr", a.from = b.from,
                    a.to = b.to, Size(a) <= n + 1
             PROVE  a = b
  BY DEF OneExpr
<1>1. /\ a = Found("expr", a.from, a.to, a.node) /\ b = Found("expr", b.from, b.to, b.node)
      /\ Size(a) = a.to - a.from + 1 /\ Size(b) = b.to - b.from + 1
  BY RuledFacts
<1>2. SUFFICES a.node = b.node  BY <1>1
<1>3. Size(b) <= n + 1  BY <1>1
<1>4. /\ First1(a) \/ Join1(a)
      /\ First1(b) \/ Join1(b)
  <2>1. First1(a) \/ Join1(a)  BY ExprShape
  <2>2. First1(b) \/ Join1(b)  BY <1>3, ExprShape
  <2> QED  BY <2>1, <2>2
<1>5. ~(First1(a) /\ Join1(b)) /\ ~(First1(b) /\ Join1(a))
  <2> HIDE DEF First1, Join1
  <2> QED  BY <1>a
<1>6. CASE First1(a) /\ First1(b)
  <2>1. PICK t \in D : /\ t.as = "term" /\ t.from = a.from /\ t.to = a.to /\ Size(t) <= n + 1
                       /\ a.node = t.node
    BY <1>6
  <2>2. PICK u \in D : /\ u.as = "term" /\ u.from = b.from /\ u.to = b.to /\ Size(u) <= n + 1
                       /\ b.node = u.node
    BY <1>6
  <2>3. t = u  BY <2>1, <2>2 DEF OneTerm
  <2> QED  BY <2>1, <2>2, <2>3
<1>7. CASE Join1(a) /\ Join1(b)
  <2>1. PICK e, u \in D : /\ e.as = "expr" /\ e.from = a.from /\ w[e.to + 1] \in Ops
                          /\ u.as = "term" /\ u.from = e.to + 2 /\ u.to = a.to
                          /\ a.node = BinaryNode(w[e.to + 1], e.node, u.node)
                          /\ e.to + 2 <= a.to /\ Size(e) <= n /\ Size(u) <= n
    BY <1>7
  <2>2. PICK f, v \in D : /\ f.as = "expr" /\ f.from = b.from /\ w[f.to + 1] \in Ops
                          /\ v.as = "term" /\ v.from = f.to + 2 /\ v.to = b.to
                          /\ b.node = BinaryNode(w[f.to + 1], f.node, v.node)
                          /\ f.to + 2 <= b.to /\ Size(f) <= n /\ Size(v) <= n
    BY <1>7
  <2>a. ASSUME NEW x \in D, NEW y \in D, NEW s \in D,
               x.as = "expr", y.as = "expr", x.from = y.from, x.to < y.to,
               s.as = "term", s.from = x.to + 2, Size(s) <= n, Size(y) <= n, y.to + 2 <= s.to
        PROVE  FALSE
    <3>1. PICK t \in D : t.as = "term" /\ t.from = x.to + 2 /\ t.to <= y.to
      BY <2>a DEF GoesOn
    <3>2. /\ x.from \in Nat /\ x.to \in Nat /\ x.from <= x.to
          /\ y.from \in Nat /\ y.to \in Nat /\ Size(y) = y.to - y.from + 1
          /\ t.from \in Nat /\ t.to \in Nat /\ Size(t) = t.to - t.from + 1
          /\ s.to \in Nat /\ Size(s) \in Nat
      BY RuledFacts
    <3>3. Size(t) <= n + 1
      <4>1. t.from = x.to + 2 /\ t.to <= y.to  BY <3>1
      <4>2. y.to - x.from + 1 <= n  BY <2>a, <3>2
      <4>3. t.to - (x.to + 2) + 1 <= n + 1
        <5>1. x.from \in Nat /\ x.to \in Nat /\ y.to \in Nat /\ t.to \in Nat  BY <3>2
        <5>2. t.to <= y.to /\ x.from <= x.to  BY <3>2, <4>1
        <5> QED  BY ONLY <4>2, <5>1, <5>2, n \in Nat, Shorter
      <4> QED  BY ONLY <3>2, <4>1, <4>3
    <3>4. Size(s) <= n + 1
      <4>1. Size(s) <= n  BY <2>a
      <4> QED  BY ONLY <3>2, <4>1, n \in Nat
    <3>5. t = s  BY <2>a, <3>1, <3>3, <3>4 DEF OneTerm
    <3>6. s.to <= y.to /\ y.to + 2 <= s.to  BY <2>a, <3>1, <3>5
    <3> QED  BY ONLY <3>2, <3>6
  <2>3. ~(e.to < f.to)
    <3>1. SUFFICES ASSUME e.to < f.to  PROVE FALSE  OBVIOUS
    <3>2. e.from = f.from /\ f.to + 2 <= u.to  BY <2>1, <2>2
    <3> QED  BY <2>1, <2>2, <2>a, <3>1, <3>2
  <2>4. ~(f.to < e.to)
    <3>1. SUFFICES ASSUME f.to < e.to  PROVE FALSE  OBVIOUS
    <3>2. f.from = e.from /\ e.to + 2 <= v.to  BY <2>1, <2>2
    <3> QED  BY <2>1, <2>2, <2>a, <3>1, <3>2
  <2>5. e.to = f.to
    <3>1. e.to \in Nat /\ f.to \in Nat  BY RuledFacts
    <3> QED  BY ONLY <2>3, <2>4, <3>1
  <2>6. e = f  BY <2>1, <2>2, <2>5 DEF OneExpr
  <2>7. u = v
    <3>1. Size(u) <= n + 1 /\ Size(v) <= n + 1
      <4>1. Size(u) \in Nat /\ Size(v) \in Nat  BY RuledFacts
      <4>2. Size(u) <= n /\ Size(v) <= n  BY <2>1, <2>2
      <4> QED  BY ONLY <4>1, <4>2, n \in Nat
    <3> QED  BY <2>1, <2>2, <2>5, <3>1 DEF OneTerm
  <2> QED  BY <2>1, <2>2, <2>6, <2>7
<1> HIDE DEF First1, Join1
<1> QED  BY <1>4, <1>5, <1>6, <1>7

\* No text has two readings: of what is derived, the terms that begin at one
\* place are one, and so are the expressions with the same tokens.
LEMMA Unambiguous ==
    ASSUME NEW w \in Seq(Tokens), NEW D, Ruled(w, D)
    PROVE  \A n \in Nat : OneTerm(D, n) /\ OneExpr(D, n) /\ GoesOn(w, D, n)
<1> DEFINE Good(n) == OneTerm(D, n) /\ OneExpr(D, n) /\ GoesOn(w, D, n)
           S == {n \in Nat : Good(n)}
<1>1. 0 \in S
  <2>1. ASSUME NEW t \in D  PROVE ~(Size(t) <= 0)
    <3>1. t.from \in Nat /\ t.to \in Nat /\ t.from <= t.to /\ Size(t) = t.to - t.from + 1
      BY RuledFacts
    <3> QED  BY <3>1
  <2> QED  BY <2>1 DEF OneTerm, OneExpr, GoesOn
<1>2. ASSUME NEW n \in S  PROVE n + 1 \in S
  <2>1. n \in Nat /\ n + 1 \in Nat /\ Good(n)  BY <1>2
  <2>2. OneTerm(D, n + 1)  BY <2>1, TermsGrow
  <2>3. GoesOn(w, D, n + 1)  BY <2>1, <2>2, GoingOnGrows
  <2>4. OneExpr(D, n + 1)  BY <2>1, <2>2, ExprsGrow
  <2> QED  BY <2>1, <2>2, <2>3, <2>4
<1> HIDE DEF S
<1>3. S = Nat
  <2>1. S \in SUBSET Nat  BY DEF S
  <2> QED  BY <1>1, <1>2, <2>1, SetInduction
<1> QED  BY <1>3 DEF S

-----------------------------------------------------------------------------
(* The trees of what was found.                                            *)

\* The tree of a node is the one of the nodes below it, whatever nodes follow.
LEMMA TreesFacts ==
    ASSUME NEW ns, Len(ns) \in Nat, NEW i \in 1..Len(ns)
    PROVE  /\ ns[i].kind = "leaf" => Trees(ns)[i] = ns[i]
           /\ ns[i].kind = "not" /\ ns[i].child \in 1..i - 1
                 => Trees(ns)[i] = NotNode(Trees(ns)[ns[i].child])
           /\ /\ ns[i].kind \in Ops
              /\ ns[i].left \in 1..i - 1 /\ ns[i].right \in 1..i - 1
              => Trees(ns)[i] = BinaryNode(ns[i].kind, Trees(ns)[ns[i].left],
                                           Trees(ns)[ns[i].right])
<1> DEFINE T == TreesTo(ns)
           Good(n) == \A j \in 1..n : T[n][j] = TreeAbove(T[j - 1], ns[j])
           S == {n \in Nat : Good(n)}
<1>1. \A n \in Nat : n # 0 => T[n] = WithNode(T[n - 1], ns, n)
  BY TreesUnfold
<1> HIDE DEF T
<1>2. 0 \in S  OBVIOUS
<1>3. ASSUME NEW n \in S  PROVE n + 1 \in S
  <2>1. n \in Nat /\ n + 1 \in Nat /\ n + 1 # 0 /\ (n + 1) - 1 = n /\ Good(n)  BY <1>3
  <2>2. T[n + 1] = WithNode(T[n], ns, n + 1)  BY <1>1, <2>1
  <2>3. ASSUME NEW j \in 1..n + 1  PROVE T[n + 1][j] = TreeAbove(T[j - 1], ns[j])
    <3>1. CASE j < n + 1
      <4>1. j \in 1..n  BY <2>1, <3>1
      <4>2. T[n + 1][j] = T[n][j]  BY <2>2, <3>1 DEF WithNode
      <4> QED  BY <2>1, <4>1, <4>2
    <3>2. CASE ~(j < n + 1)
      <4>1. j = n + 1  BY <2>1, <3>2
      <4>2. T[n + 1][j] = TreeAbove(T[n], ns[n + 1])  BY <2>2, <3>2, <4>1 DEF WithNode
      <4> QED  BY <2>1, <4>1, <4>2
    <3> QED  BY <3>1, <3>2
  <2> QED  BY <2>1, <2>3
<1> HIDE DEF S
<1>4. S = Nat
  <2>1. S \in SUBSET Nat  BY DEF S
  <2> QED  BY <1>2, <1>3, <2>1, SetInduction
<1>5. \A n \in Nat : Good(n)  BY <1>4 DEF S
<1>6. Trees(ns) = T[Len(ns)]  BY DEF Trees, T
<1>7. Trees(ns)[i] = TreeAbove(T[i - 1], ns[i])  BY <1>5, <1>6
<1>8. ASSUME NEW c \in 1..i - 1  PROVE T[i - 1][c] = Trees(ns)[c]
  <2>1. i - 1 \in Nat /\ c \in 1..Len(ns)  OBVIOUS
  <2>2. T[i - 1][c] = TreeAbove(T[c - 1], ns[c])  BY <1>5, <2>1
  <2>3. T[Len(ns)][c] = TreeAbove(T[c - 1], ns[c])  BY <1>5, <2>1
  <2> QED  BY <1>6, <2>2, <2>3
<1> HIDE DEF Good
<1>9. CASE ns[i].kind = "leaf"  BY <1>7, <1>9 DEF TreeAbove, Ops
<1>10. CASE ns[i].kind = "not" /\ ns[i].child \in 1..i - 1
  <2>1. TreeAbove(T[i - 1], ns[i]) = NotNode(T[i - 1][ns[i].child])  BY <1>10 DEF TreeAbove
  <2> QED  BY <1>7, <1>8, <1>10, <2>1 DEF Ops
<1>11. CASE ns[i].kind \in Ops /\ ns[i].left \in 1..i - 1 /\ ns[i].right \in 1..i - 1
  <2>1. TreeAbove(T[i - 1], ns[i])
           = BinaryNode(ns[i].kind, T[i - 1][ns[i].left], T[i - 1][ns[i].right])
    BY <1>11 DEF TreeAbove, Ops
  <2>2. /\ T[i - 1][ns[i].left] = Trees(ns)[ns[i].left]
        /\ T[i - 1][ns[i].right] = Trees(ns)[ns[i].right]
    BY <1>8, <1>11
  <2> QED  BY <1>7, <1>11, <2>1, <2>2 DEF Ops
<1> QED  BY <1>9, <1>10, <1>11

LEMMA WordsFacts ==
    ASSUME Types
    PROVE  /\ Ruled(words, Derivable(words))
           /\ \A t : Item(words, t) /\ Rule(words, Derivable(words), t) => t \in Derivable(words)
BY DerivableFacts DEF Types, Ruled

\* What the parser found the grammar derives, with its tree.
LEMMA FoundIsDerivable ==
    ASSUME Types, Derivation, Made
    PROVE  \A f \in parsed : Found(f.as, f.from, f.to, Trees(nodes)[f.node]) \in Derivable(words)
<1> DEFINE D == Derivable(words)
           t(f) == Found(f.as, f.from, f.to, Trees(nodes)[f.node])
           M(f) == 2 * (f.to - f.from) + (IF f.as = "expr" THEN 1 ELSE 0)
           S == {n \in Nat : \A f \in parsed : M(f) < n => t(f) \in D}
<1>1. \A f \in parsed : /\ f.as \in {"term", "expr"} /\ f.from \in Nat /\ f.to \in Nat
                        /\ 1 <= f.from /\ f.from <= f.to /\ f.to <= Len(words)
                        /\ f.node \in 1..Len(nodes) /\ Derived(f)
                        /\ M(f) \in Nat
  <2> TAKE f \in parsed
  <2>1. f.as \in {"term", "expr"} /\ f.from \in Nat /\ f.to \in Nat /\ f.node \in 1..Len(nodes)
    BY DEF Types, FoundIn
  <2>2. 1 <= f.from /\ f.from <= f.to /\ f.to <= Len(words) /\ Derived(f)
    BY DEF Derivation, Made
  <2>3. M(f) \in Nat  BY <2>1, <2>2
  <2> HIDE DEF M
  <2> QED  BY <2>1, <2>2, <2>3
<1>2. \A g : Item(words, g) /\ Rule(words, D, g) => g \in D  BY WordsFacts
<1>3. \A f \in parsed : /\ t(f).as = f.as /\ t(f).from = f.from /\ t(f).to = f.to
                        /\ t(f).node = Trees(nodes)[f.node]
                        /\ Item(words, t(f))
  <2> TAKE f \in parsed
  <2>1. /\ t(f).as = f.as /\ t(f).from = f.from /\ t(f).to = f.to
        /\ t(f).node = Trees(nodes)[f.node]
    BY DEF Found
  <2>2. Item(words, t(f))  BY <1>1, ItemMade
  <2> QED  BY <2>1, <2>2
<1>4. Len(nodes) \in Nat  BY DEF Types
<1> HIDE DEF D, t
<1>5. 0 \in S  BY <1>1
<1>6. ASSUME NEW n \in S  PROVE n + 1 \in S
  <2>1. n \in Nat /\ n + 1 \in Nat /\ \A f \in parsed : M(f) < n => t(f) \in D  BY <1>6
  <2>2. ASSUME NEW f \in parsed, M(f) < n + 1  PROVE t(f) \in D
    <3>0. /\ f.as \in {"term", "expr"} /\ f.from \in Nat /\ f.to \in Nat
          /\ 1 <= f.from /\ f.from <= f.to
          /\ f.node \in 1..Len(nodes) /\ Derived(f)
      BY <1>1
    <3> DEFINE x == f.node
    <3>1. /\ nodes[x].kind = "leaf" => Trees(nodes)[x] = nodes[x]
          /\ nodes[x].kind = "not" => Trees(nodes)[x] = NotNode(Trees(nodes)[nodes[x].child])
          /\ nodes[x].kind \in Ops =>
                Trees(nodes)[x] = BinaryNode(nodes[x].kind, Trees(nodes)[nodes[x].left],
                                             Trees(nodes)[nodes[x].right])
      <4>1. /\ nodes[x].kind = "not" => nodes[x].child \in 1..x - 1
            /\ nodes[x].kind \in Ops => nodes[x].left \in 1..x - 1 /\ nodes[x].right \in 1..x - 1
        BY <3>0 DEF Made
      <4> QED  BY <1>4, <3>0, <4>1, TreesFacts
    <3>2. ASSUME NEW as, NEW from, NEW to, NEW node, Found(as, from, to, node) \in parsed,
                 2 * (to - from) + (IF as = "expr" THEN 1 ELSE 0)
                    < 2 * (f.to - f.from) + (IF f.as = "expr" THEN 1 ELSE 0)
          PROVE  \E g \in D : g.as = as /\ g.from = from /\ g.to = to /\ g.node = Trees(nodes)[node]
      <4> DEFINE g == Found(as, from, to, node)
      <4>1. g \in parsed /\ g.as = as /\ g.from = from /\ g.to = to /\ g.node = node
        BY <3>2 DEF Found
      <4> HIDE DEF g
      <4>2. M(g) < M(f)  BY <3>2, <4>1
      <4>3. M(g) \in Nat /\ M(f) \in Nat  BY <1>1, <4>1
      <4> HIDE DEF M
      <4>4. M(g) < n  BY <2>1, <2>2, <4>2, <4>3
      <4>5. t(g) \in D  BY <2>1, <4>1, <4>4
      <4> QED  BY <1>3, <4>1, <4>5
    <3> HIDE DEF M
    <3>3. CASE /\ f.as = "term" /\ nodes[x] = Leaf(f.from, f.to)
               /\ SubSeq(words, f.from, f.to) \in AtomForms
      <4>1. nodes[x].kind = "leaf"  BY <3>3 DEF Leaf
      <4>2. AtomRule(words, t(f))  BY <1>3, <3>1, <3>3, <4>1 DEF AtomRule
      <4> QED  BY <1>2, <1>3, <4>2 DEF Rule
    <3>4. CASE /\ f.as = "term" /\ nodes[x].kind = "not" /\ words[f.from] = "not"
               /\ Found("term", f.from + 1, f.to, nodes[x].child) \in parsed
      <4>1. 2 * (f.to - (f.from + 1)) + 0 < 2 * (f.to - f.from) + 0  BY <3>0
      <4>2. PICK g \in D : /\ g.as = "term" /\ g.from = f.from + 1 /\ g.to = f.to
                           /\ g.node = Trees(nodes)[nodes[x].child]
        BY <3>2, <3>4, <4>1
      <4>3. NotRule(words, D, t(f))  BY <1>3, <3>1, <3>4, <4>2 DEF NotRule
      <4> QED  BY <1>2, <1>3, <4>3 DEF Rule
    <3>5. CASE /\ f.as = "term" /\ words[f.from] = "(" /\ words[f.to] = ")"
               /\ Found("expr", f.from + 1, f.to - 1, x) \in parsed
      <4>1. 2 * ((f.to - 1) - (f.from + 1)) + 1 < 2 * (f.to - f.from) + 0  BY <3>0
      <4>2. PICK g \in D : /\ g.as = "expr" /\ g.from = f.from + 1 /\ g.to = f.to - 1
                           /\ g.node = Trees(nodes)[x]
        BY <3>2, <3>5, <4>1
      <4>3. ParensRule(words, D, t(f))  BY <1>3, <3>5, <4>2 DEF ParensRule
      <4> QED  BY <1>2, <1>3, <4>3 DEF Rule
    <3>6. CASE f.as = "expr" /\ Found("term", f.from, f.to, x) \in parsed
      <4>1. 2 * (f.to - f.from) + 0 < 2 * (f.to - f.from) + 1  BY <3>0
      <4>2. PICK g \in D : /\ g.as = "term" /\ g.from = f.from /\ g.to = f.to
                           /\ g.node = Trees(nodes)[x]
        BY <3>2, <3>6, <4>1
      <4>3. FirstRule(D, t(f))  BY <1>3, <3>6, <4>2 DEF FirstRule
      <4> QED  BY <1>2, <1>3, <4>3 DEF Rule
    <3>7. CASE /\ f.as = "expr" /\ nodes[x].kind \in {"and", "or"}
               /\ \E k \in f.from + 1..f.to - 1 :
                     /\ words[k] = nodes[x].kind
                     /\ Found("expr", f.from, k - 1, nodes[x].left) \in parsed
                     /\ Found("term", k + 1, f.to, nodes[x].right) \in parsed
      <4>1. PICK k \in f.from + 1..f.to - 1 :
                     /\ words[k] = nodes[x].kind
                     /\ Found("expr", f.from, k - 1, nodes[x].left) \in parsed
                     /\ Found("term", k + 1, f.to, nodes[x].right) \in parsed
        BY <3>7
      <4>2. /\ 2 * ((k - 1) - f.from) + 1 < 2 * (f.to - f.from) + 1
            /\ 2 * (f.to - (k + 1)) + 0 < 2 * (f.to - f.from) + 1
            /\ (k - 1) + 1 = k /\ (k - 1) + 2 = k + 1
        BY <3>0
      <4>3. PICK e \in D : /\ e.as = "expr" /\ e.from = f.from /\ e.to = k - 1
                           /\ e.node = Trees(nodes)[nodes[x].left]
        BY <3>2, <3>7, <4>1, <4>2
      <4>4. PICK u \in D : /\ u.as = "term" /\ u.from = k + 1 /\ u.to = f.to
                           /\ u.node = Trees(nodes)[nodes[x].right]
        BY <3>2, <3>7, <4>1, <4>2
      <4>5. e.to + 1 = k /\ u.from = e.to + 2 /\ words[e.to + 1] = nodes[x].kind
        BY <4>1, <4>2, <4>3, <4>4
      <4>6. t(f).node = BinaryNode(words[e.to + 1], e.node, u.node)
        BY <1>3, <3>1, <3>7, <4>3, <4>4, <4>5 DEF Ops
      <4>7. JoinRule(words, D, t(f))
        BY <1>3, <3>7, <4>3, <4>4, <4>5, <4>6 DEF JoinRule
      <4> QED  BY <1>2, <1>3, <4>7 DEF Rule
    <3> QED  BY <3>0, <3>3, <3>4, <3>5, <3>6, <3>7 DEF Derived
  <2> HIDE DEF M
  <2> QED  BY <2>1, <2>2
<1> HIDE DEF S
<1>7. S = Nat
  <2>1. S \in SUBSET Nat  BY DEF S
  <2> QED  BY <1>5, <1>6, <2>1, SetInduction
<1>8. ASSUME NEW f \in parsed  PROVE t(f) \in D
  <2>1. M(f) \in Nat /\ M(f) + 1 \in Nat /\ M(f) < M(f) + 1  BY <1>1
  <2> HIDE DEF M
  <2> QED  BY <1>7, <2>1 DEF S
<1> QED  BY <1>8 DEF D, t

LEMMA MadeKept ==
    ASSUME Types, Current, Made, Next
    PROVE  Made'
<1> DEFINE Below(ns, i) == /\ ns[i].kind = "not" => ns[i].child \in 1..i - 1
                           /\ ns[i].kind \in Ops =>
                                 ns[i].left \in 1..i - 1 /\ ns[i].right \in 1..i - 1
<1>0. /\ pos \in Nat /\ pos >= 1 /\ pos <= Len(words) + 1 /\ Len(words) \in Nat
      /\ New = Len(nodes) + 1 /\ Len(nodes) \in Nat /\ nodes \in Seq(Node)
      /\ value \in 0..Len(nodes)
      /\ at = "typing" => parsed = {}
  BY DEF Types, New
<1>1. CASE at = "typing"
  <2>1. nodes' = nodes /\ parsed' = {}
    BY <1>0, <1>1 DEF Next, Type, Erase, Parse, Not, Open, Atom, Term, First, Join, BackIn,
       Operator, ExprEnds, Loop, Negate, Close, Fail, Finish, Over, vars
  <2> QED  BY <2>1 DEF Made
<1>2. CASE at # "typing"
  <2>0. words' = words /\ pos' \in Nat /\ pos' <= Len(words) + 1
    BY <1>2, TypesKept, Grows DEF Types
  <2>1. ASSUME NEW f \in parsed'  PROVE f.to <= Len(words')
    <3>a. CASE f \in parsed  BY <2>0, <3>a DEF Made
    <3>b. CASE f.to = pos' - 1
      <4>1. pos' - 1 <= Len(words)  BY ONLY <1>0, <2>0
      <4> QED  BY <2>0, <3>b, <4>1
    <3>c. f \in parsed \/ f.to = pos' - 1
      <4>1. CASE Atom  BY <4>1, FoundFields DEF Atom
      <4>2. CASE First \/ Join \/ Negate  BY <4>2, FoundFields DEF First, Join, Negate
      <4>3. CASE Close
        <5>1. (pos + 1) - 1 = pos  BY <1>0
        <5> QED  BY <4>3, <5>1, FoundFields DEF Close
      <4>4. CASE Not \/ Open \/ Operator \/ ExprEnds \/ Fail \/ Finish \/ Over
        BY <4>4 DEF Not, Open, Operator, ExprEnds, Loop, Fail, Finish, Over, vars
      <4> QED  BY <1>2, <4>1, <4>2, <4>3, <4>4 DEF Next, Type, Erase, Parse
    <3> QED  BY <3>a, <3>b, <3>c
  <2>2. \A i \in 1..Len(nodes) : Below(nodes, i)  BY DEF Made
  <2>3. ASSUME NEW n, nodes' = Append(nodes, n),
               n.kind = "not" => n.child \in 1..Len(nodes),
               n.kind \in Ops => n.left \in 1..Len(nodes) /\ n.right \in 1..Len(nodes)
        PROVE  \A i \in 1..Len(nodes') : Below(nodes', i)
    <3>1. /\ Len(nodes') = Len(nodes) + 1 /\ nodes'[Len(nodes) + 1] = n
          /\ \A i \in 1..Len(nodes) : nodes'[i] = nodes[i]
      BY <1>0, <2>3
    <3>2. TAKE i \in 1..Len(nodes')
    <3>3. CASE i \in 1..Len(nodes)  BY <2>2, <3>1, <3>3
    <3>4. CASE i = Len(nodes) + 1
      <4>1. i - 1 = Len(nodes)  BY <1>0, <3>4
      <4> QED  BY <2>3, <3>1, <3>4, <4>1
    <3>5. i \in 1..Len(nodes) \/ i = Len(nodes) + 1  BY <1>0, <3>1
    <3> QED  BY <3>3, <3>4, <3>5
  <2>4. \A i \in 1..Len(nodes') : Below(nodes', i)
    <3> HIDE DEF Below
    <3>1. CASE nodes' = nodes  BY <2>2, <3>1
    <3>2. CASE Atom
      <4> DEFINE n == Leaf(pos, pos' - 1)
      <4>1. n.kind = "leaf"  BY DEF Leaf
      <4>2. nodes' = nodes \/ nodes' = Append(nodes, n)  BY <3>2 DEF Atom
      <4> HIDE DEF n
      <4> QED  BY <2>3, <3>1, <4>1, <4>2 DEF Ops
    <3>3. CASE Join
      <4> DEFINE n == BinaryNode(Top.for, Top.left, value)
      <4>1. /\ n.kind \in Ops /\ n.left = Top.left /\ n.right = value
            /\ nodes' = Append(nodes, n) /\ value \in 1..Len(nodes)
        BY <1>0, <3>3 DEF Join, BackIn, BinaryNode, Ops
      <4>2. Top.left \in 1..Len(nodes)
        <5>1. at = "back" /\ value # 0 /\ calls # <<>> /\ Top.for \in {"and", "or"}
          BY <3>3 DEF Join, BackIn
        <5>2. \E s \in Nat : Waits(Top, s, words, parsed)  BY <5>1 DEF Current
        <5>3. \E to : Found("expr", Top.from, to, Top.left) \in parsed
          BY <5>1, <5>2 DEF Waits
        <5> QED  BY <5>3, FoundFields DEF Types, FoundIn
      <4> HIDE DEF n
      <4> QED  BY <2>3, <4>1, <4>2 DEF Ops
    <3>4. CASE Negate
      <4> DEFINE n == NotNode(value)
      <4>1. /\ n.kind = "not" /\ n.child = value
            /\ nodes' = Append(nodes, n) /\ value \in 1..Len(nodes)
        BY <1>0, <3>4 DEF Negate, BackIn, NotNode
      <4> HIDE DEF n
      <4> QED  BY <2>3, <4>1 DEF Ops
    <3>5. CASE Not \/ Open \/ First \/ Operator \/ ExprEnds \/ Close \/ Fail \/ Finish \/ Over
      BY <3>1, <3>5 DEF Not, Open, First, Operator, ExprEnds, Loop, Close, Fail, Finish, Over, vars
    <3> QED  BY <1>2, <3>2, <3>3, <3>4, <3>5 DEF Next, Type, Erase, Parse
  <2> QED  BY <2>1, <2>4 DEF Made
<1> QED  BY <1>1, <1>2

-----------------------------------------------------------------------------
(* What the parser does not find the grammar does not derive.              *)

\* What is behind the tokens of one that is derived.
LEMMA Behind ==
    ASSUME Types, NEW t \in Derivable(words)
    PROVE  /\ t.from \in Nat /\ t.to \in Nat /\ 1 <= t.from /\ t.from <= t.to /\ t.to <= Len(words)
           /\ t.to < Len(words) => Peek(t.to + 1) = words[t.to + 1]
           /\ t.to = Len(words) => Peek(t.to + 1) = "eof"
<1>1. /\ t.from \in Nat /\ t.to \in Nat /\ 1 <= t.from /\ t.from <= t.to /\ t.to <= Len(words)
  BY WordsFacts, RuledFacts
<1>2. Len(words) \in Nat /\ Len(tokens) = Len(words) + 1 /\ tokens[Len(words) + 1] = "eof"
  BY DEF Types, tokens
<1>3. t.to + 1 \in Nat /\ 1 <= t.to + 1  BY <1>1
<1>4. ASSUME t.to < Len(words)  PROVE Peek(t.to + 1) = words[t.to + 1]
  <2>1. t.to + 1 <= Len(words)  BY <1>1, <1>2, <1>4
  <2> QED  BY <1>3, <2>1, PeekFacts
<1>5. ASSUME t.to = Len(words)  PROVE Peek(t.to + 1) = "eof"
  BY <1>2, <1>5 DEF Peek
<1> QED  BY <1>1, <1>4, <1>5

\* Of two expressions from one place the longer goes on with an operator and
\* a term.
LEMMA Longer ==
    ASSUME Types, NEW a \in Derivable(words), NEW b \in Derivable(words),
           a.as = "expr", b.as = "expr", a.from = b.from, a.to < b.to
    PROVE  Peek(a.to + 1) \in Ops /\ ~NoTerm(a.to + 2)
<1>1. /\ b.from \in Nat /\ b.to \in Nat /\ a.to \in Nat /\ b.from <= b.to /\ b.to <= Len(words)
      /\ Len(words) \in Nat
      /\ a.to < Len(words) => Peek(a.to + 1) = words[a.to + 1]
  BY Behind DEF Types
<1>2. Size(b) \in Nat  BY WordsFacts, RuledFacts
<1>3. GoesOn(words, Derivable(words), Size(b))
  BY <1>2, WordsFacts, Unambiguous DEF Types
<1>4. Size(b) <= Size(b)  BY <1>2
<1>5. /\ words[a.to + 1] \in Ops
      /\ \E u \in Derivable(words) : u.as = "term" /\ u.from = a.to + 2 /\ u.to <= b.to
  BY <1>3, <1>4 DEF GoesOn
<1>6. a.to < Len(words)
  <2>1. a.to < b.to  OBVIOUS
  <2> QED  BY ONLY <1>1, <2>1
<1> QED  BY <1>1, <1>5, <1>6 DEF NoTerm

LEMMA NoTermMissing ==
    ASSUME Types, NEW q, NoTerm(q)
    PROVE  Missing(q)
<1> SUFFICES ASSUME NEW t \in Derivable(words), t.as = "expr", t.from = q  PROVE FALSE
  BY DEF Missing
<1>1. \E u \in Derivable(words) : u.as = "term" /\ u.from = t.from /\ u.to <= t.to
  BY WordsFacts, FirstTerms DEF Types
<1> QED  BY <1>1 DEF NoTerm

\* Where the loop ends all expressions from q have ended.
LEMMA FoundEnded ==
    ASSUME Types, Derivation, Made, NEW q, NEW p \in Nat, NEW v,
           Found("expr", q, p - 1, v) \in parsed, Peek(p) \notin Ops
    PROVE  Ended(q, p)
<1> DEFINE f == Found("expr", q, p - 1, v)
           e == Found("expr", q, p - 1, Trees(nodes)[v])
<1>1. e \in Derivable(words)
  <2>1. f \in parsed /\ f.as = "expr" /\ f.from = q /\ f.to = p - 1 /\ f.node = v
    BY FoundFields
  <2> HIDE DEF f
  <2> QED  BY <2>1, FoundIsDerivable
<1>2. e.as = "expr" /\ e.from = q /\ e.to = p - 1  BY FoundFields
<1> HIDE DEF e
<1>3. e.to \in Nat /\ e.to + 1 = p  BY <1>1, <1>2, Behind
<1> SUFFICES ASSUME NEW t \in Derivable(words), t.as = "expr", t.from = q, t.to # p - 1
             PROVE  Peek(t.to + 1) \in Ops
  BY DEF Ended
<1>4. t.to \in Nat  BY Behind
<1>5. CASE t.to < e.to  BY <1>1, <1>2, <1>5, Longer
<1>6. CASE e.to < t.to
  <2>1. Peek(e.to + 1) \in Ops  BY <1>1, <1>2, <1>6, Longer
  <2> QED  BY <1>3, <2>1
<1> QED  BY <1>2, <1>3, <1>4, <1>5, <1>6

\* After an operator a term is missing.
LEMMA OperandMissing ==
    ASSUME Types, Derivation, Made, NEW q, NEW s \in Nat, NEW v,
           s <= Len(words) + 1, Found("expr", q, s - 2, v) \in parsed, words[s - 1] \in Ops,
           NoTerm(s)
    PROVE  Missing(q)
<1> DEFINE f == Found("expr", q, s - 2, v)
           e == Found("expr", q, s - 2, Trees(nodes)[v])
<1>1. e \in Derivable(words)
  <2>1. f \in parsed /\ f.as = "expr" /\ f.from = q /\ f.to = s - 2 /\ f.node = v
    BY FoundFields
  <2> HIDE DEF f
  <2> QED  BY <2>1, FoundIsDerivable
<1>2. e.as = "expr" /\ e.from = q /\ e.to = s - 2  BY FoundFields
<1> HIDE DEF e
<1>3. e.to \in Nat /\ e.to + 1 = s - 1 /\ e.to + 2 = s  BY <1>1, <1>2, Behind
<1> SUFFICES ASSUME NEW t \in Derivable(words), t.as = "expr", t.from = q
             PROVE  Peek(t.to + 1) \in Ops
  BY DEF Missing
<1>4. t.to \in Nat /\ t.to <= Len(words) /\ Len(words) \in Nat  BY Behind DEF Types
<1>5. CASE t.to < e.to  BY <1>1, <1>2, <1>5, Longer
<1>6. CASE e.to < t.to  BY <1>1, <1>2, <1>3, <1>6, Longer
<1>7. CASE t.to = e.to
  <2>1. words[t.to + 1] \in Ops  BY <1>3, <1>7
  <2>2. t.to < Len(words)  BY <1>3, <1>4, <1>7
  <2> QED  BY <2>1, <2>2, Behind
<1> QED  BY <1>3, <1>4, <1>5, <1>6, <1>7

\* A term that is missing behind "not", or what cannot be closed, is no term.
LEMMA NothingNegated ==
    ASSUME Types, NEW q \in Nat, words[q] = "not", NoTerm(q + 1)
    PROVE  NoTerm(q)
<1> SUFFICES ASSUME NEW t \in Derivable(words), t.as = "term", t.from = q  PROVE FALSE
  BY DEF NoTerm
<1>1. AtomRule(words, t) \/ NotRule(words, Derivable(words), t)
      \/ ParensRule(words, Derivable(words), t)
  BY WordsFacts, RuledFacts
<1>2. CASE AtomRule(words, t)
  <2>1. /\ t.from \in Nat /\ t.to \in Nat /\ 1 <= t.from /\ t.from <= t.to
        /\ t.to <= Len(words)
    BY Behind
  <2> QED  BY <1>2, <2>1, AtomsDiffer DEF AtomRule, Types
<1>3. CASE NotRule(words, Derivable(words), t)  BY <1>3 DEF NotRule, NoTerm
<1>4. CASE ParensRule(words, Derivable(words), t)  BY <1>4 DEF ParensRule
<1> QED  BY <1>1, <1>2, <1>3, <1>4

LEMMA NothingEnclosed ==
    ASSUME Types, NEW q \in Nat, words[q] = "(",
           \A e \in Derivable(words) :
              e.as = "expr" /\ e.from = q + 1 => Peek(e.to + 1) # ")"
    PROVE  NoTerm(q)
<1> SUFFICES ASSUME NEW t \in Derivable(words), t.as = "term", t.from = q  PROVE FALSE
  BY DEF NoTerm
<1>0. /\ t.from \in Nat /\ t.to \in Nat /\ 1 <= t.from /\ t.from <= t.to
      /\ t.to <= Len(words)
  BY Behind
<1>1. AtomRule(words, t) \/ NotRule(words, Derivable(words), t)
      \/ ParensRule(words, Derivable(words), t)
  BY WordsFacts, RuledFacts
<1>2. CASE AtomRule(words, t)  BY <1>0, <1>2, AtomsDiffer DEF AtomRule, Types
<1>3. CASE NotRule(words, Derivable(words), t)  BY <1>3 DEF NotRule
<1>4. CASE ParensRule(words, Derivable(words), t)
  <2>1. words[t.to] = ")"  BY <1>4 DEF ParensRule
  <2>2. PICK e \in Derivable(words) : e.as = "expr" /\ e.from = t.from + 1 /\ e.to = t.to - 1
    BY <1>4 DEF ParensRule
  <2>3. e.to + 1 = t.to  BY <1>0, <2>2
  <2>4. Peek(t.to) = words[t.to]  BY <1>0, PeekFacts
  <2> QED  BY <2>1, <2>2, <2>3, <2>4
<1> QED  BY <1>1, <1>2, <1>3, <1>4

\* Where parse_atom() returns nullptr no term begins.
LEMMA NoAtomNoTerm ==
    ASSUME Types, Peek(pos) \notin {"not", "("}, ParseAtom.what = "null"
    PROVE  NoTerm(pos)
<1> SUFFICES ASSUME NEW t \in Derivable(words), t.as = "term", t.from = pos  PROVE FALSE
  BY DEF NoTerm
<1>0. /\ t.from \in Nat /\ t.to \in Nat /\ 1 <= t.from /\ t.from <= t.to
      /\ t.to <= Len(words) /\ Len(words) \in Nat
  BY Behind DEF Types
<1>1. AtomRule(words, t) \/ NotRule(words, Derivable(words), t)
      \/ ParensRule(words, Derivable(words), t)
  BY WordsFacts, RuledFacts
<1>2. \A p \in Nat : 1 <= p /\ p <= Len(words) => Peek(p) = words[p]  BY PeekFacts
<1>3. Peek(pos) = words[pos] /\ pos \in Nat /\ 1 <= pos /\ pos <= Len(words)  BY <1>0, <1>2
<1>4. AtomRule(words, t)  BY <1>1, <1>3 DEF NotRule, ParensRule
<1>5. \/ t.to = pos /\ words[pos] = "proto"
      \/ t.to = pos + 1 /\ words[pos] \in {"ip", "src", "dst"} /\ words[pos + 1] = "addr"
      \/ t.to = pos + 1 /\ words[pos] = "port" /\ words[pos + 1] \in Numbers
      \/ /\ t.to = pos + 2 /\ words[pos] \in {"src", "dst"} /\ words[pos + 1] = "port"
         /\ words[pos + 2] \in Numbers
      \/ /\ t.to = pos + 2 /\ words[pos] = "len" /\ words[pos + 1] = "cmp"
         /\ words[pos + 2] \in Numbers
  BY <1>0, <1>3, <1>4, AtomShape DEF AtomRule, Types
<1>6. /\ pos + 1 <= t.to => Peek(pos + 1) = words[pos + 1]
      /\ pos + 2 <= t.to => Peek(pos + 2) = words[pos + 2]
  BY <1>0, <1>2, <1>3
<1>7. /\ t.to = pos + 1 => Peek(pos + 1) = words[pos + 1]
      /\ t.to = pos + 2 => Peek(pos + 1) = words[pos + 1] /\ Peek(pos + 2) = words[pos + 2]
  BY <1>3, <1>6
<1>8. \A p : Peek(p) \in Numbers => ParseNumber(p).what # "null"
  BY DEF ParseNumber, Got, Numbers
<1>9. \A p : Peek(p) = "addr" => ParseIpAddr(p).what # "null"
  BY DEF ParseIpAddr, Got
<1>a. Got("leaf", pos + 1).what # "null"  BY DEF Got
<1> QED  BY <1>3, <1>5, <1>7, <1>8, <1>9, <1>a DEF ParseAtom

LEMMA CompleteKept ==
    ASSUME Types, Nested, Current, Derivation, Made, Complete, Next
    PROVE  Complete'
<1>0. /\ pos \in Nat /\ pos >= 1 /\ pos <= Len(words) + 1 /\ Len(words) \in Nat
      /\ calls \in Seq(Frame) /\ New # 0
  BY DEF Types, New
<1>1. calls # <<>> => /\ Top.from \in Nat /\ Top.from >= 1 /\ Top.for \in InExpr \cup {"not", "("}
                      /\ Len(Popped) = Len(calls) - 1
                      /\ calls[1].for \in InExpr /\ calls[1].from = 1 /\ Len(calls) \in Nat
  BY <1>0, TopFacts DEF Nested, IsNested
<1>2. calls # <<>> /\ Popped = <<>> => Top.for \in InExpr /\ Top.from = 1
  <2>1. SUFFICES ASSUME calls # <<>>, Popped = <<>>  PROVE Len(calls) = 1
    BY <1>1 DEF Top
  <2> QED  BY <1>1, <2>1
<1>3. Top' = calls'[Len(calls')]  BY DEF Top
<1>4. /\ \A q : words' = words => /\ NoTerm(q)' <=> NoTerm(q)
                                  /\ Missing(q)' <=> Missing(q)
                                  /\ \A p : Ended(q, p)' <=> Ended(q, p)
  BY DEF NoTerm, Missing, Ended, Peek, tokens
<1>5. ")" \notin Ops /\ "eof" \notin Ops /\ Ops = {"and", "or"}  BY DEF Ops
<1>a. CASE Type \/ Erase \/ Parse \/ Not \/ Open \/ First \/ Join \/ Operator
  <2>1. at' \in {"typing", "term", "loop"}
    BY <1>a DEF Type, Erase, Parse, Not, Open, Term, First, Join, BackIn, Operator, Loop
  <2> QED  BY <2>1 DEF Complete
<1>b. CASE Atom
  <2>1. /\ at = "term" /\ calls # <<>> /\ Top.for # "(" /\ Waits(Top, pos, words, parsed)
        /\ words' = words
    BY <1>b DEF Atom, Term, Current
  <2>2. CASE at' = "back" /\ value' = New /\ UNCHANGED calls
    <3>1. Top' = Top /\ As(Top) # "expr"  BY <2>1, <2>2 DEF Top, As
    <3> QED  BY <1>0, <2>1, <2>2, <3>1 DEF Complete
  <2>3. CASE /\ ParseAtom.what = "null" /\ at' = "back" /\ value' = 0
             /\ UNCHANGED <<calls, nodes, parsed>>
    <3>1. Top' = Top /\ As(Top) # "expr"  BY <2>1, <2>3 DEF Top, As
    <3>2. NoTerm(pos)  BY <1>b, <2>3, NoAtomNoTerm DEF Atom
    <3>3. \A q : q = pos => NoTerm(q)'  BY <1>4, <2>1, <3>2
    <3> QED  BY <1>0, <2>1, <2>3, <3>1, <3>3 DEF Complete
  <2>4. CASE at' = "thrown"  BY <2>4 DEF Complete
  <2> QED  BY <1>b, <2>2, <2>3, <2>4 DEF Atom
<1>c. CASE ExprEnds
  <2>1. /\ at = "loop" /\ calls # <<>> /\ Top.for \in InExpr /\ value # 0
        /\ Found("expr", Top.from, pos - 1, value) \in parsed
        /\ at' = "back" /\ pos' = pos /\ value' = value /\ calls' = Popped
        /\ words' = words /\ parsed' = parsed /\ Peek(pos) \notin {"and", "or"}
    BY <1>c DEF ExprEnds, Loop, Current
  <2>2. Ended(Top.from, pos)  BY <1>0, <1>5, <2>1, FoundEnded
  <2>3. CASE Popped = <<>>
    <3>1. \A p : p = pos => Ended(1, p)'  BY <1>2, <1>4, <2>1, <2>2, <2>3
    <3> QED  BY <2>1, <2>3, <3>1 DEF Complete
  <2>4. CASE Popped # <<>>
    <3>1. Top' = Popped[Len(Popped)]  BY <1>3, <2>1
    <3>2. Waits(Top', Top.from, words, parsed)  BY <2>1, <2>4, <3>1, Returned
    <3>3. As(Top') = "expr" => Top'.from + 1 = Top.from
      BY <3>2 DEF As, Waits
    <3>4. \A q, p : q = Top.from /\ p = pos => Ended(q, p)'  BY <1>4, <2>1, <2>2
    <3>5. As(Top') = "expr" => Ended(Top.from + 1, pos)'  BY <2>1, <3>3, <3>4
    <3> QED  BY <2>1, <2>4, <3>5 DEF Complete
  <2> QED  BY <2>3, <2>4
\* nullptr is returned by the innermost call.
<1>d. ASSUME calls # <<>>, words' = words, at' = "back", calls' = Popped, parsed' = parsed,
             value' = 0, Top.from <= Len(words) + 1,
             IF Top.for \in InExpr THEN Missing(Top.from) ELSE NoTerm(Top.from)
      PROVE  Complete'
  <2>1. CASE Popped = <<>>
    <3>1. Missing(1)'  BY <1>2, <1>4, <1>d, <2>1
    <3> QED  BY <1>d, <2>1, <3>1 DEF Complete
  <2>2. CASE Popped # <<>>
    <3>1. Top' = Popped[Len(Popped)]  BY <1>3, <1>d
    <3>2. /\ Waits(Top', Top.from, words', parsed')
          /\ As(Top') = IF Top.for \in InExpr THEN "expr" ELSE "term"
      BY <1>d, <2>2, <3>1, Returned
    <3>3. PICK q \in Nat : q = Top.from /\ 1 <= q  BY <1>1, <1>d
    <3>4. IF As(Top)' = "expr" THEN Missing(q)' ELSE NoTerm(q)'
      BY <1>4, <1>d, <3>2, <3>3
    <3>5. Waits(Top', q, words', parsed') /\ q <= Len(words') + 1  BY <1>d, <3>2, <3>3
    <3> QED  BY <1>d, <2>2, <3>3, <3>4, <3>5 DEF Complete
  <2> QED  BY <2>1, <2>2
<1>e. CASE Negate
  <2>1. /\ calls # <<>> /\ Top.for = "not" /\ at' = "back" /\ calls' = Popped
        /\ value' = New
    BY <1>e DEF Negate, BackIn
  <2>2. Popped # <<>>  BY <1>2, <2>1 DEF InExpr
  <2>3. Top' = Popped[Len(Popped)]  BY <1>3, <2>1
  <2>4. As(Top') = "term"  BY <2>1, <2>2, <2>3, Returned DEF InExpr
  <2> QED  BY <1>0, <2>1, <2>2, <2>4 DEF Complete
<1>f. CASE Close
  <2>1. /\ calls # <<>> /\ Top.for = "(" /\ at = "back" /\ at' = "back" /\ calls' = Popped
        /\ value # 0 /\ words' = words
    BY <1>f DEF Close, BackIn
  <2>2. CASE UNCHANGED value
    <3>1. Popped # <<>>  BY <1>2, <2>1 DEF InExpr
    <3>2. Top' = Popped[Len(Popped)]  BY <1>3, <2>1
    <3>3. As(Top') = "term"  BY <2>1, <3>1, <3>2, Returned DEF InExpr
    <3> QED  BY <2>1, <2>2, <3>1, <3>3 DEF Complete
  <2>3. CASE Peek(pos) # ")" /\ value' = 0 /\ UNCHANGED <<pos, parsed>>
    <3>1. Ended(Top.from + 1, pos)  BY <2>1 DEF Complete, As
    <3>2. ASSUME NEW t \in Derivable(words), t.as = "expr", t.from = Top.from + 1
          PROVE  Peek(t.to + 1) # ")"
      <4>1. t.to = pos - 1 \/ Peek(t.to + 1) \in Ops  BY <3>1, <3>2 DEF Ended
      <4>2. (pos - 1) + 1 = pos  BY <1>0
      <4> QED  BY <1>5, <2>3, <4>1, <4>2
    <3>3. PICK s \in Nat : /\ Waits(Top, s, words, parsed)
                           /\ Found(As(Top), s, pos - 1, value) \in parsed
      BY <2>1 DEF Current
    <3>4. words[Top.from] = "(" /\ s = Top.from + 1  BY <2>1, <3>3 DEF Waits
    <3>5. s <= pos - 1
      <4> DEFINE f == Found(As(Top), s, pos - 1, value)
      <4>1. f \in parsed /\ f.from = s /\ f.to = pos - 1  BY <3>3, FoundFields
      <4> HIDE DEF f
      <4> QED  BY <4>1 DEF Derivation
    <3>6. Top.from <= Len(words) + 1  BY <1>0, <1>1, <2>1, <3>4, <3>5
    <3>7. NoTerm(Top.from)  BY <1>1, <2>1, <3>2, <3>4, NothingEnclosed
    <3> QED  BY <1>d, <2>1, <2>3, <3>6, <3>7 DEF InExpr
  <2> QED  BY <1>f, <2>2, <2>3 DEF Close
<1>g. CASE Fail
  <2>1. /\ at = "back" /\ value = 0 /\ calls # <<>> /\ at' = "back" /\ value' = 0
        /\ calls' = Popped /\ words' = words /\ parsed' = parsed
    BY <1>g DEF Fail
  <2>2. PICK s \in Nat : /\ 1 <= s /\ s <= Len(words) + 1 /\ Waits(Top, s, words, parsed)
                         /\ IF As(Top) = "expr" THEN Missing(s) ELSE NoTerm(s)
    BY <2>1 DEF Complete
  <2>3. CASE Top.for = "("
    <3>1. Missing(s) /\ s = Top.from + 1 /\ words[Top.from] = "("
      BY <2>2, <2>3 DEF As, Waits
    <3>2. NoTerm(Top.from)  BY <1>1, <1>5, <2>1, <3>1, NothingEnclosed DEF Missing
    <3>3. Top.from <= Len(words) + 1  BY <1>0, <1>1, <2>1, <2>2, <3>1
    <3> QED  BY <1>d, <2>1, <2>3, <3>2, <3>3 DEF InExpr
  <2>4. CASE Top.for = "not"
    <3>1. NoTerm(s) /\ s = Top.from + 1 /\ words[Top.from] = "not"
      BY <2>2, <2>4 DEF As, Waits
    <3>2. NoTerm(Top.from)  BY <1>1, <2>1, <3>1, NothingNegated
    <3>3. Top.from <= Len(words) + 1  BY <1>0, <1>1, <2>1, <2>2, <3>1
    <3> QED  BY <1>d, <2>1, <2>4, <3>2, <3>3 DEF InExpr
  <2>5. CASE Top.for = "first"
    <3>1. NoTerm(s) /\ s = Top.from  BY <2>2, <2>5 DEF As, Waits
    <3>2. Missing(Top.from)  BY <3>1, NoTermMissing
    <3> QED  BY <1>d, <2>1, <2>2, <2>5, <3>1, <3>2 DEF InExpr
  <2>6. CASE Top.for \in {"and", "or"}
    <3>1. /\ NoTerm(s) /\ Found("expr", Top.from, s - 2, Top.left) \in parsed
          /\ words[s - 1] \in Ops
      BY <1>5, <2>2, <2>6 DEF As, Waits
    <3>2. Missing(Top.from)  BY <2>2, <3>1, OperandMissing
    <3>3. Top.from <= s - 2
      <4> DEFINE f == Found("expr", Top.from, s - 2, Top.left)
      <4>1. f \in parsed /\ f.from = Top.from /\ f.to = s - 2  BY <3>1, FoundFields
      <4> HIDE DEF f
      <4> QED  BY <4>1 DEF Derivation
    <3>4. Top.from <= Len(words) + 1
      <4>1. Top.from \in Nat /\ s <= Len(words) + 1  BY <1>1, <2>1, <2>2
      <4> QED  BY ONLY <1>0, <3>3, <4>1, s \in Nat
    <3> QED  BY <1>d, <2>1, <2>6, <3>2, <3>4 DEF InExpr
  <2> QED  BY <1>1, <2>1, <2>3, <2>4, <2>5, <2>6 DEF InExpr
<1>h. CASE Finish
  <2>1. /\ at = "back" /\ calls = <<>> /\ at' = "done" /\ words' = words
        /\ value' = IF Peek(pos) = "eof" THEN value ELSE 0
    BY <1>h DEF Finish
  <2>2. ASSUME value' = 0, NEW t \in Derivable(words), t.as = "expr", t.from = 1,
               t.to = Len(words)
        PROVE  FALSE
    <3>1. Peek(t.to + 1) \notin Ops  BY <1>5, <2>2, Behind
    <3>2. value # 0 /\ Ended(1, pos)  BY <2>1, <2>2, <3>1 DEF Complete, Missing
    <3>3. t.to = pos - 1  BY <2>2, <3>1, <3>2 DEF Ended
    <3>4. t.to + 1 = pos  BY <1>0, <3>3
    <3> QED  BY <2>1, <2>2, <3>2, <3>4, Behind
  <2> QED  BY <2>1, <2>2 DEF Complete
<1>i. CASE Over  BY <1>i DEF Over, vars, Complete, Top, NoTerm, Missing, Ended, Peek, tokens
<1> QED  BY <1>a, <1>b, <1>c, <1>e, <1>f, <1>g, <1>h, <1>i DEF Next

\* The parser decides the grammar.
LEMMA Decides ==
    ASSUME Types, Current, Derivation, Made, Complete
    PROVE  AcceptsGrammar
<1> DEFINE D == Derivable(words)
           All == {u \in D : u.as = "expr" /\ u.from = 1 /\ u.to = Len(words)}
<1> SUFFICES ASSUME at = "done"
             PROVE  {t.node : t \in All} = IF value # 0 THEN {Trees(nodes)[value]} ELSE {}
  BY DEF AcceptsGrammar
<1>1. CASE value = 0
  <2>1. All = {}  BY <1>1 DEF Complete
  <2> QED  BY <1>1, <2>1
<1>2. CASE value # 0
  <2> DEFINE f == Found("expr", 1, Len(words), value)
             e == Found("expr", 1, Len(words), Trees(nodes)[value])
  <2>1. e \in D
    <3>1. f \in parsed /\ f.as = "expr" /\ f.from = 1 /\ f.to = Len(words) /\ f.node = value
      BY <1>2, FoundFields DEF Current
    <3> HIDE DEF f
    <3> QED  BY <3>1, FoundIsDerivable
  <2>2. /\ e.as = "expr" /\ e.from = 1 /\ e.to = Len(words) /\ e.node = Trees(nodes)[value]
    BY FoundFields
  <2> HIDE DEF e
  <2>3. ASSUME NEW t \in All  PROVE t = e
    <3>1. Size(e) \in Nat /\ Size(e) <= Size(e)  BY <2>1, WordsFacts, RuledFacts
    <3>2. OneExpr(D, Size(e))  BY <3>1, WordsFacts, Unambiguous DEF Types
    <3> QED  BY <2>1, <2>2, <3>1, <3>2 DEF OneExpr
  <2>4. All = {e}  BY <2>1, <2>2, <2>3
  <2> HIDE DEF All
  <2> QED  BY <1>2, <2>2, <2>4
<1> QED  BY <1>1, <1>2

-----------------------------------------------------------------------------
(* The theorems.                                                           *)

LEMMA Initially == Init => IInv
<1> SUFFICES ASSUME Init  PROVE IInv
  OBVIOUS
<1>1. Types  BY DEF Init, Types, FoundIn
<1>2. Nested /\ Current /\ Derivation /\ Chain
  BY DEF Init, Nested, IsNested, Current, Derivation, Chain
<1>3. Made /\ Complete  BY DEF Init, Made, Complete
<1> QED  BY <1>1, <1>2, <1>3 DEF IInv

LEMMA Unchanged ==
    ASSUME IInv, UNCHANGED vars
    PROVE  IInv'
<1>1. Types'  BY DEF IInv, Types, vars
<1>2. Nested' /\ Current'  BY DEF IInv, Nested, Current, Top, vars
<1>3. \A f : Derived(f)' <=> Derived(f)  BY DEF Derived, vars
<1>4. Derivation'  BY <1>3 DEF IInv, Derivation, vars
<1>5. \A node, i : Means(node, i)' <=> Means(node, i)
  BY DEF Means, Evaluates, ReadsAs, Protos, vars
<1>6. Chain'  BY <1>5 DEF IInv, Chain, Flat, Protos, vars
<1>7. Made'  BY DEF IInv, Made, vars
<1>8. Complete'  BY DEF IInv, Complete, NoTerm, Missing, Ended, Peek, tokens, Top, vars
<1> QED  BY <1>1, <1>2, <1>4, <1>6, <1>7, <1>8 DEF IInv

\* The invariant is inductive, for every alphabet and every length of texts:
\* whatever calls of parse_expr() and parse_term() wait, what was returned to
\* them is derived from the tokens between, and where nullptr was there is
\* nothing to derive (FilterParser.cpp:150-185).
THEOREM Invariance == Spec => []IInv
<1>1. Init => IInv  BY Initially
<1>2. IInv /\ [Next]_vars => IInv'
  <2> SUFFICES ASSUME IInv, Next  PROVE IInv'
    BY Unchanged
  <2> QED
    BY TypesKept, NestedKept, CurrentKept, DerivationKept, ChainKept, MadeKept, CompleteKept
       DEF IInv
<1> QED  BY <1>1, <1>2, PTL DEF Spec

\* However long a text is and wherever it breaks off, peek() never reads past
\* the end token (FilterParser.cpp:144-148).
THEOREM StaysInTokens == Spec => []StaysInside
<1>1. IInv => StaysInside  BY PeekFacts DEF IInv, Types, StaysInside
<1> QED  BY <1>1, Invariance, PTL

\* Every node a function of the parser returns is the one a rule of the grammar
\* makes of the tokens it took, operands in their order, and a filter that is
\* accepted is made of all of the text (FilterParser.cpp:150-185, 303-327).
THEOREM NodesAreDerived == Spec => []ReturnsWhatIsDerived
<1>1. IInv => ReturnsWhatIsDerived
  BY DEF IInv, Derivation, Current, ReturnsWhatIsDerived, Accepted
<1> QED  BY <1>1, Invariance, PTL

\* parse_filter() decides the grammar: it accepts a text of any length and any
\* depth exactly when the grammar derives it, though it never goes back on a
\* token, and the nodes it returns are the only tree the text has
\* (FilterParser.cpp:150-327).
THEOREM AcceptsExactlyTheGrammar == Spec => []AcceptsGrammar
<1>1. IInv => AcceptsGrammar  BY Decides DEF IInv
<1> QED  BY <1>1, Invariance, PTL

\* Only a number stoul() does not take makes the parser throw: every other text
\* is accepted or answered with nullptr (FilterParser.cpp:266, 293).
THEOREM OnlyHugeNumbersThrow ==
    Spec => [](at = "thrown" => \E i \in 1..Len(words) : words[i] = "huge")
<1> DEFINE Huge == at = "thrown" => \E i \in 1..Len(words) : words[i] = "huge"
<1>1. Init => Huge  BY DEF Init
<1>2. IInv /\ Huge /\ [Next]_vars => Huge'
  <2> SUFFICES ASSUME IInv, Huge, [Next]_vars, at' = "thrown"
               PROVE  \E i \in 1..Len(words') : words'[i] = "huge"
    OBVIOUS
  <2>1. CASE at = "thrown" /\ words' = words  BY <2>1
  <2>2. CASE Atom
    <3>1. words' = words /\ ParseAtom.what = "exception" /\ pos \in Nat /\ pos >= 1
      BY <2>2 DEF Atom, Term, IInv, Types
    <3>2. ASSUME NEW p \in Nat, p >= 1, Peek(p) = "huge"
          PROVE  \E i \in 1..Len(words) : words[i] = "huge"
      <4>1. p <= Len(words) /\ Peek(p) = words[p]  BY <3>2, PeekFacts DEF IInv, Tokens, Numbers
      <4> QED  BY <3>2, <4>1
    <3>3. \A p : ParseNumber(p).what = "exception" => Peek(p) = "huge"
      BY DEF ParseNumber, Got
    <3>4. \A p : ParseIpAddr(p).what # "exception"  BY DEF ParseIpAddr, Got
    <3>5. Peek(pos + 1) = "huge" \/ Peek(pos + 2) = "huge"
      BY <3>1, <3>3, <3>4 DEF ParseAtom, Got
    <3> QED  BY <3>1, <3>2, <3>5
  <2>3. Atom \/ (at = "thrown" /\ words' = words)
    BY DEF Next, Type, Erase, Parse, Not, Open, Term, First, Join, BackIn, Operator, ExprEnds,
       Loop, Negate, Close, Fail, Finish, Over, vars
  <2> QED  BY <2>1, <2>2, <2>3
<1> QED  BY <1>1, <1>2, Invariance, PTL DEF Spec

\* A chain of protocols of any length, joined by and and or, is evaluated from
\* left to right for every packet (FilterParser.cpp:154, FilterNodes.h:12-28).
THEOREM ChainsReadLeftToRight == Spec => []LeftToRight
<1>1. IInv => LeftToRight
  <2> SUFFICES ASSUME IInv, Accepted, Flat,
                      NEW accepting \in SUBSET Protos, NEW trueAt \in SUBSET Protos,
                      NEW holding \in SUBSET DOMAIN nodes,
                      Evaluates(holding, accepting), ReadsAs(trueAt, accepting)
               PROVE  value \in holding <=> Len(words) \in trueAt
    BY DEF LeftToRight, Flat
  <2> DEFINE f == Found("expr", 1, Len(words), value)
  <2>1. f \in parsed  BY DEF IInv, Current, Accepted
  <2>2. f.as = "expr" /\ f.to = Len(words) /\ f.node = value  BY DEF Found
  <2> HIDE DEF f
  <2>3. Means(value, Len(words))  BY <2>1, <2>2 DEF IInv, Chain
  <2>4. holding \in SUBSET Nat  BY DEF IInv, Types
  <2> QED  BY <2>3, <2>4 DEF Means
<1> QED  BY <1>1, Invariance, PTL

\* Every step of the parser leaves less to do, and never less than nothing: no
\* text, however deep its parentheses, keeps parse_filter() from returning
\* (FilterParser.cpp:150-185).
THEOREM EveryStepIsProgress == Spec => EveryStepCounts /\ [](Left \in Nat)
<1>1. IInv => Left \in Nat
  <2> SUFFICES ASSUME IInv  PROVE Left \in Nat
    OBVIOUS
  <2>1. Len(tokens) - pos \in Nat /\ Len(calls) \in Nat  BY PeekFacts DEF IInv, Types
  <2>2. Rank \in Nat  BY DEF Rank
  <2> QED  BY <2>1, <2>2 DEF Left
<1>2. IInv /\ [Next]_vars => [at # "typing" => Left' < Left]_vars
  <2> SUFFICES ASSUME IInv, Next, at # "typing", ~UNCHANGED vars  PROVE Left' < Left
    OBVIOUS
  <2> DEFINE n == Len(calls)
  <2>0. /\ n \in Nat /\ calls \in Seq(Frame) /\ pos \in Nat /\ Len(words) \in Nat
        /\ Left = 5 * (Len(words) + 1 - pos) + 2 * n + Rank
    BY PeekFacts DEF IInv, Types, Left
  <2>1. Types'  BY TypesKept DEF IInv
  <2>2. words' = words  BY Grows DEF IInv
  <2>3. Left' = 5 * (Len(words) + 1 - pos') + 2 * n' + Rank' /\ pos' \in Nat /\ n' \in Nat
    <3>1. Len(tokens) = Len(words) + 1  BY PeekFacts DEF IInv
    <3>2. tokens' = tokens  BY <2>2 DEF tokens
    <3> QED  BY <2>1, <3>1, <3>2 DEF Left, Types
  <2>4. calls # <<>> => n >= 1 /\ Popped \in Seq(Frame) /\ Len(Popped) = n - 1
    BY <2>0, StackFacts DEF IInv, Types, Popped
  <2> HIDE DEF n
  <2>5. \A p, q, m, k, a, b \in Int :
           5 * (p - q) + 2 * (m - k) + (a - b) > 0 =>
               5 * (Len(words) + 1 - p) + 2 * k + b < 5 * (Len(words) + 1 - q) + 2 * m + a
    BY <2>0
  <2>6. /\ (at = "term" => Rank = 3) /\ (at = "back" => Rank = 2) /\ (at = "loop" => Rank = 1)
        /\ (at' = "term" => Rank' = 3) /\ (at' = "back" => Rank' = 2)
        /\ (at' = "loop" => Rank' = 1) /\ (at' \in {"done", "thrown"} => Rank' = 0)
    BY DEF Rank
  <2>7. Rank \in Nat /\ Rank' \in Nat  BY DEF Rank
  <2>8. /\ pos \in Int /\ pos' \in Int /\ n \in Int /\ n' \in Int
        /\ Rank \in Int /\ Rank' \in Int
    BY <2>0, <2>3, <2>7
  <2> SUFFICES 5 * (pos' - pos) + 2 * (n - n') + (Rank - Rank') > 0
    <3>1. 5 * (Len(words) + 1 - pos') + 2 * n' + Rank' < 5 * (Len(words) + 1 - pos) + 2 * n + Rank
      BY <2>5, <2>8
    <3> QED  BY <2>0, <2>3, <3>1
  <2>9. ASSUME pos' >= pos, n' <= n, 2 * (n - n') + (Rank - Rank') > 0
        PROVE  5 * (pos' - pos) + 2 * (n - n') + (Rank - Rank') > 0
    <3>1. \A d, m, r \in Int : d >= 0 /\ 2 * m + r > 0 => 5 * d + 2 * m + r > 0  OBVIOUS
    <3>2. pos' - pos \in Int /\ n - n' \in Int /\ Rank - Rank' \in Int  BY ONLY <2>8
    <3>3. pos' - pos >= 0
      <4>1. \A p, q \in Int : p >= q => p - q >= 0  OBVIOUS
      <4> QED  BY ONLY <2>8, <2>9, <4>1
    <3> QED  BY ONLY <2>9, <3>1, <3>2, <3>3
  <2>a. CASE Not
    <3>1. at = "term" /\ at' = "term" /\ pos' = pos + 1  BY <2>a DEF Not, Term
    <3>2. n' = n + 1
      <4>1. \A c : Len(Append(calls, c)) = Len(calls) + 1  BY <2>0
      <4> QED  BY <2>a, <4>1 DEF Not, n
    <3> QED  BY <2>0, <2>6, <3>1, <3>2
  <2>b. CASE Open
    <3>1. at = "term" /\ at' = "term" /\ pos' = pos + 1  BY <2>b DEF Open, Term
    <3>2. n' = n + 2
      <4>1. \A c, d : Len(calls \o <<c, d>>) = Len(calls) + 2  BY <2>0
      <4> QED  BY <2>b, <4>1 DEF Open, n
    <3> QED  BY <2>0, <2>6, <3>1, <3>2
  <2>c. CASE Atom
    <3>1. at = "term" /\ at' \in {"back", "thrown"} /\ pos' >= pos
      BY <2>0, <2>c, AtomFacts DEF Atom, Term, IInv
    <3>2. n' = n \/ n' = 0
      <4>1. calls' = calls \/ calls' = <<>>  BY <2>c DEF Atom
      <4> QED  BY <4>1 DEF n
    <3>3. Rank = 3 /\ (Rank' = 2 \/ Rank' = 0)  BY <2>6, <3>1
    <3>4. n' <= n /\ 2 * (n - n') + (Rank - Rank') > 0  BY <2>0, <3>2, <3>3
    <3> QED  BY <2>9, <3>1, <3>4
  <2>d. CASE First \/ Join
    <3>1. at = "back" /\ at' = "loop" /\ pos' = pos /\ n' = n  BY <2>d DEF First, Join, BackIn, n
    <3> QED  BY <2>0, <2>6, <3>1
  <2>e. CASE Operator
    <3>1. at = "loop" /\ at' = "term" /\ pos' = pos + 1 /\ calls # <<>>
      BY <2>e DEF Operator, Loop, IInv, Current
    <3>2. n' = n
      <4>1. \A c : Len(Append(Popped, c)) = Len(Popped) + 1  BY <2>4, <3>1
      <4>2. n' = Len(Popped) + 1  BY <2>e, <4>1 DEF Operator, n
      <4> QED  BY <2>0, <2>4, <3>1, <4>2
    <3> QED  BY <2>0, <2>6, <3>1, <3>2
  <2>f. CASE ExprEnds \/ Negate \/ Close \/ Fail
    <3>1. /\ at \in {"loop", "back"} /\ at' = "back" /\ pos' >= pos /\ calls # <<>>
          /\ calls' = Popped
      BY <2>0, <2>f DEF ExprEnds, Negate, Close, Fail, Loop, BackIn, IInv, Current
    <3>2. n' = n - 1  BY <2>4, <3>1 DEF n
    <3>3. (Rank = 1 \/ Rank = 2) /\ Rank' = 2  BY <2>6, <3>1
    <3>4. n' <= n /\ 2 * (n - n') + (Rank - Rank') > 0  BY <2>0, <3>2, <3>3
    <3> QED  BY <2>9, <3>1, <3>4
  <2>g. CASE Finish
    <3>1. at = "back" /\ at' = "done" /\ pos' = pos /\ n' = n  BY <2>g DEF Finish, n
    <3> QED  BY <2>0, <2>6, <3>1
  <2> QED  BY <2>a, <2>b, <2>c, <2>d, <2>e, <2>f, <2>g DEF Next, Over, Type, Erase, Parse
<1> QED  BY <1>1, <1>2, Invariance, PTL DEF Spec, EveryStepCounts
=============================================================================
