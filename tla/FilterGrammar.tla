---------------------------- MODULE FilterGrammar ---------------------------
(***************************************************************************)
(* All that the grammar of filters derives of a text, with the trees, by   *)
(* recursion over the number of tokens and without a look at the parser.   *)
(***************************************************************************)
EXTENDS FilterParser

\* The terms of n tokens of the text w, given what is derived of fewer.
TermsOf(w, fewer, n) ==
    UNION { {Found("term", i, i + n - 1, Leaf(i, i + n - 1)) :
                i \in {j \in 1..Len(w) - n + 1 : SubSeq(w, j, j + n - 1) \in AtomForms}},
            {Found("term", t.from - 1, t.to, NotNode(t.node)) :
                t \in {u \in fewer : /\ u.as = "term" /\ u.to - u.from + 2 = n
                                     /\ u.from > 1 /\ w[u.from - 1] = "not"}},
            {Found("term", e.from - 1, e.to + 1, e.node) :
                e \in {u \in fewer : /\ u.as = "expr" /\ u.to - u.from + 3 = n
                                     /\ u.from > 1 /\ w[u.from - 1] = "("
                                     /\ u.to < Len(w) /\ w[u.to + 1] = ")"}} }

\* The expressions of n tokens that join one of fewer to a term.
JoinsOf(w, fewer, n) ==
    UNION { {Found("expr", e.from, t.to, BinaryNode(w[e.to + 1], e.node, t.node)) :
                t \in {u \in fewer : u.as = "term" /\ u.from = e.to + 2 /\ u.to = e.from + n - 1}} :
            e \in {u \in fewer : u.as = "expr" /\ u.to < Len(w) /\ w[u.to + 1] \in {"and", "or"}} }

WithSize(w, fewer, n) ==
    LET terms == TermsOf(w, fewer, n)
    IN  UNION { fewer, terms, {Found("expr", t.from, t.to, t.node) : t \in terms},
                JoinsOf(w, fewer, n) }

\* What is derived of up to n tokens of w, and all that is.
UpToSize(w) ==
    LET f[n \in Nat] == IF n = 0 THEN {} ELSE WithSize(w, f[n - 1], n)
    IN  f

Derivable(w) == UpToSize(w)[Len(w)]

\* The tree of a node above those of the nodes before it, and the trees of all.
TreeAbove(trees, n) ==
    CASE n.kind = "leaf" -> n
      [] n.kind = "not"  -> NotNode(trees[n.child])
      [] OTHER           -> BinaryNode(n.kind, trees[n.left], trees[n.right])

WithNode(trees, ns, n) == [i \in 1..n |-> IF i < n THEN trees[i] ELSE TreeAbove(trees, ns[n])]

TreesTo(ns) ==
    LET f[n \in Nat] == IF n = 0 THEN <<>> ELSE WithNode(f[n - 1], ns, n)
    IN  f

Trees(ns) == TreesTo(ns)[Len(ns)]

\* The parser accepts a text exactly when the grammar derives it, and builds
\* its only tree.
AcceptsGrammar ==
    at = "done" =>
        {t.node : t \in {u \in Derivable(words) :
                            u.as = "expr" /\ u.from = 1 /\ u.to = Len(words)}}
            = IF value # 0 THEN {Trees(nodes)[value]} ELSE {}
=============================================================================
