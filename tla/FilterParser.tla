---------------------------- MODULE FilterParser ----------------------------
(***************************************************************************)
(* The filter language: the recursive-descent parser of FilterParser.cpp   *)
(* and the evaluation of what it builds (FilterNodes.h).                   *)
(*                                                                         *)
(* A text is the sequence of its tokens, typed one after the other; words  *)
(* the program treats alike are one token here.  The calls of parse_expr() *)
(* and parse_term() within each other are a stack, and each step goes from *)
(* one call or return to the next; parse_atom() calls neither and is one   *)
(* step.                                                                   *)
(***************************************************************************)
EXTENDS Integers, Sequences

CONSTANT MaxTokens   \* bound: how many tokens a text of each alphabet has

\* The types of tokens: "proto" is any protocol keyword, "cmp" any of > < =;
\* a word with a dot in it is an "addr" or "dotted" but none; "junk" is
\* unknown; a "huge" number does not fit an unsigned long.
Numbers == {"number", "huge"}

Tokens == {"proto", "ip", "src", "dst", "port", "len", "and", "or", "not", "cmp",
           "addr", "dotted", "(", ")", "junk"} \cup Numbers

ASSUME TokenAssumption ==
    /\ DOMAIN MaxTokens \subseteq SUBSET Tokens
    /\ \A alphabet \in DOMAIN MaxTokens : MaxTokens[alphabet] \in Nat

VARIABLES words,   \* the text
          at,      \* where the parser is: about to call parse_term(), back from
                   \* a call, or at the head of the loop in parse_expr()
          pos,     \* its member pos
          calls,   \* the calls that wait for another one, the innermost last
          value,   \* the node returned or read so far, 0 for nullptr
          nodes,   \* the nodes made, in this order
          parsed   \* what the functions found where (history)

vars == <<words, at, pos, calls, value, nodes, parsed>>

Init ==
    /\ words = <<>>
    /\ at = "typing" /\ pos = 1 /\ calls = <<>>
    /\ value = 0 /\ nodes = <<>> /\ parsed = {}

\* One more token is typed.
Type ==
    /\ at = "typing"
    /\ \E alphabet \in DOMAIN MaxTokens :
        /\ \A i \in DOMAIN words : words[i] \in alphabet
        /\ Len(words) < MaxTokens[alphabet]
        /\ \E t \in alphabet : words' = Append(words, t)
    /\ UNCHANGED <<at, pos, calls, value, nodes, parsed>>

\* The last one is taken back.
Erase ==
    /\ at = "typing" /\ words # <<>>
    /\ words' = SubSeq(words, 1, Len(words) - 1)
    /\ UNCHANGED <<at, pos, calls, value, nodes, parsed>>

-----------------------------------------------------------------------------
tokens == Append(words, "eof")

\* peek(), or what lies past the end.
Peek(p) == IF p <= Len(tokens) THEN tokens[p] ELSE "beyond"

\* A call that waits: parse_expr() for its "first" term or the one behind an
\* operator, with the node for all before it, or parse_term() behind "not" or
\* "(".  It was made at position from.
Call(for, from, left) == [for |-> for, from |-> from, left |-> left]

Top == calls[Len(calls)]
Popped == SubSeq(calls, 1, Len(calls) - 1)

\* The node of an atom is the tokens it was made of.
Leaf(from, to) == [kind |-> "leaf", from |-> from, to |-> to]
NotNode(child) == [kind |-> "not", child |-> child]
BinaryNode(op, left, right) == [kind |-> op, left |-> left, right |-> right]

\* A node is a term or an expression of the tokens from .. to.
Found(as, from, to, node) == [as |-> as, from |-> from, to |-> to, node |-> node]

New == Len(nodes) + 1

\* parse_filter()
Parse ==
    /\ at = "typing"
    /\ at' = "term"
    /\ calls' = <<Call("first", pos, 0)>>
    /\ UNCHANGED <<words, pos, value, nodes, parsed>>

-----------------------------------------------------------------------------
\* What parse_atom() returns and where it leaves pos.
Got(what, p) == [what |-> what, pos |-> p]

\* parse_ip_addr(): inet_pton() takes addresses only.
ParseIpAddr(p) == IF Peek(p) = "addr" THEN Got("leaf", p + 1) ELSE Got("null", p)

\* parse_port(), and the end of len: stoul() throws what does not fit.
ParseNumber(p) ==
    CASE Peek(p) = "number" -> Got("leaf", p + 1)
      [] Peek(p) = "huge"   -> Got("exception", p + 1)
      [] OTHER              -> Got("null", p)

ParseAtom ==
    CASE Peek(pos) = "proto" -> Got("leaf", pos + 1)
      [] Peek(pos) = "ip" -> ParseIpAddr(pos + 1)
      [] Peek(pos) \in {"src", "dst"} -> IF Peek(pos + 1) = "port"
                                         THEN ParseNumber(pos + 2) ELSE ParseIpAddr(pos + 1)
      [] Peek(pos) = "port" -> ParseNumber(pos + 1)
      [] Peek(pos) = "len" -> IF Peek(pos + 1) = "cmp"
                              THEN ParseNumber(pos + 2) ELSE Got("null", pos + 1)
      [] OTHER -> Got("null", pos)

Term == at = "term" /\ UNCHANGED words

\* Mutant of Not: it takes all that follows.
NotAll ==
    /\ Term /\ Peek(pos) = "not"
    /\ pos' = pos + 1
    /\ calls' = calls \o <<Call("not", pos, 0), Call("first", pos + 1, 0)>>
    /\ UNCHANGED <<at, value, nodes, parsed>>

\* parse_term() calls itself,
Not ==
    /\ Term /\ Peek(pos) = "not"
    /\ pos' = pos + 1
    /\ calls' = Append(calls, Call("not", pos, 0))
    /\ UNCHANGED <<at, value, nodes, parsed>>

\* or parse_expr(), which calls parse_term(),
Open ==
    /\ Term /\ Peek(pos) = "("
    /\ pos' = pos + 1
    /\ calls' = calls \o <<Call("(", pos, 0), Call("first", pos + 1, 0)>>
    /\ UNCHANGED <<at, value, nodes, parsed>>

\* or parse_atom(); an exception leaves all calls.
Atom ==
    /\ Term /\ Peek(pos) \notin {"not", "("}
    /\ pos' = ParseAtom.pos
    /\ \/ /\ ParseAtom.what = "leaf"
          /\ at' = "back" /\ value' = New
          /\ nodes' = Append(nodes, Leaf(pos, pos' - 1))
          /\ parsed' = parsed \cup {Found("term", pos, pos' - 1, New)}
          /\ UNCHANGED calls
       \/ /\ ParseAtom.what = "null"
          /\ at' = "back" /\ value' = 0
          /\ UNCHANGED <<calls, nodes, parsed>>
       \/ /\ ParseAtom.what = "exception"
          /\ at' = "thrown" /\ calls' = <<>>
          /\ UNCHANGED <<value, nodes, parsed>>

-----------------------------------------------------------------------------
\* A call returned a node to one that waits for it.
BackIn(calling) ==
    /\ at = "back" /\ value # 0
    /\ calls # <<>> /\ Top.for \in calling
    /\ UNCHANGED words

\* parse_expr() has its first term,
First ==
    /\ BackIn({"first"})
    /\ at' = "loop"
    /\ parsed' = parsed \cup {Found("expr", Top.from, pos - 1, value)}
    /\ UNCHANGED <<pos, calls, value, nodes>>

\* Mutant of Join: the operands change places.
JoinSwapped ==
    /\ BackIn({"and", "or"})
    /\ at' = "loop" /\ value' = New
    /\ nodes' = Append(nodes, BinaryNode(Top.for, value, Top.left))
    /\ parsed' = parsed \cup {Found("expr", Top.from, pos - 1, New)}
    /\ UNCHANGED <<pos, calls>>

\* or the one behind an operator, which joins it to all before.
Join ==
    /\ BackIn({"and", "or"})
    /\ at' = "loop" /\ value' = New
    /\ nodes' = Append(nodes, BinaryNode(Top.for, Top.left, value))
    /\ parsed' = parsed \cup {Found("expr", Top.from, pos - 1, New)}
    /\ UNCHANGED <<pos, calls>>

Loop == at = "loop" /\ UNCHANGED <<words, value, nodes, parsed>>

\* Mutant of Operator: a whole expression is called for.
OperatorRight ==
    /\ Loop /\ Peek(pos) \in {"and", "or"}
    /\ at' = "term" /\ pos' = pos + 1
    /\ calls' = Append(Popped, Call(Peek(pos), Top.from, value))
                \o <<Call("first", pos + 1, 0)>>

\* Mutant of Operator: it is looked at, but not consumed.
OperatorKept ==
    /\ Loop /\ Peek(pos) \in {"and", "or"}
    /\ at' = "term"
    /\ calls' = Append(Popped, Call(Peek(pos), Top.from, value))
    /\ UNCHANGED pos

\* Its loop: an operator calls for another term,
Operator ==
    /\ Loop /\ Peek(pos) \in {"and", "or"}
    /\ at' = "term" /\ pos' = pos + 1
    /\ calls' = Append(Popped, Call(Peek(pos), Top.from, value))

\* and anything else ends the expression.
ExprEnds ==
    /\ Loop /\ Peek(pos) \notin {"and", "or"}
    /\ at' = "back" /\ calls' = Popped
    /\ UNCHANGED pos

\* parse_term() has what to negate,
Negate ==
    /\ BackIn({"not"})
    /\ calls' = Popped /\ value' = New
    /\ nodes' = Append(nodes, NotNode(value))
    /\ parsed' = parsed \cup {Found("term", Top.from, pos - 1, New)}
    /\ UNCHANGED <<at, pos>>

\* Mutant of Close: the token is consumed unseen.
CloseUnseen ==
    /\ BackIn({"("})
    /\ calls' = Popped
    /\ pos' = pos + 1
    /\ parsed' = parsed \cup {Found("term", Top.from, pos, value)}
    /\ UNCHANGED <<at, value, nodes>>

\* or what is in parentheses, if they are closed.
Close ==
    /\ BackIn({"("})
    /\ calls' = Popped
    /\ \/ /\ Peek(pos) = ")"
          /\ pos' = pos + 1
          /\ parsed' = parsed \cup {Found("term", Top.from, pos, value)}
          /\ UNCHANGED value
       \/ /\ Peek(pos) # ")"
          /\ value' = 0
          /\ UNCHANGED <<pos, parsed>>
    /\ UNCHANGED <<at, nodes>>

\* nullptr is handed on by everyone.
Fail ==
    /\ at = "back" /\ value = 0 /\ calls # <<>>
    /\ calls' = Popped
    /\ UNCHANGED <<words, at, pos, value, nodes, parsed>>

\* parse_filter() again: nothing may follow the expression.
Finish ==
    /\ at = "back" /\ calls = <<>>
    /\ at' = "done"
    /\ value' = IF Peek(pos) = "eof" THEN value ELSE 0
    /\ UNCHANGED <<words, pos, calls, nodes, parsed>>

\* The filter is there, or not, or the program is over.
Over == at \in {"done", "thrown"} /\ UNCHANGED vars

Next ==
    \/ Type \/ Erase \/ Parse
    \/ Not \/ Open \/ Atom
    \/ First \/ Join \/ Operator \/ ExprEnds \/ Negate \/ Close \/ Fail \/ Finish
    \/ Over

Spec == Init /\ [][Next]_vars

Accepted == at = "done" /\ value # 0

-----------------------------------------------------------------------------
(* The grammar:                                                            *)
(*    expr := term | expr ('and' | 'or') term                              *)
(*    term := 'not' term | '(' expr ')' | atom                             *)

AtomForms ==
    {<<"proto">>, <<"ip", "addr">>, <<"src", "addr">>, <<"dst", "addr">>}
    \cup {<<"port", n>> : n \in Numbers}
    \cup {<<d, "port", n>> : d \in {"src", "dst"}, n \in Numbers}
    \cup {<<"len", "cmp", n>> : n \in Numbers}

\* A rule of it makes f of others that were found, within the same tokens; but
\* for expr := term, of fewer.
Derived(f) ==
    LET n == nodes[f.node]
    IN  \/ /\ f.as = "term" /\ n = Leaf(f.from, f.to)
           /\ SubSeq(words, f.from, f.to) \in AtomForms
        \/ /\ f.as = "term" /\ n.kind = "not" /\ words[f.from] = "not"
           /\ Found("term", f.from + 1, f.to, n.child) \in parsed
        \/ /\ f.as = "term" /\ words[f.from] = "(" /\ words[f.to] = ")"
           /\ Found("expr", f.from + 1, f.to - 1, f.node) \in parsed
        \/ /\ f.as = "expr"
           /\ Found("term", f.from, f.to, f.node) \in parsed
        \/ /\ f.as = "expr" /\ n.kind \in {"and", "or"}
           /\ \E k \in f.from + 1..f.to - 1 :
                 /\ words[k] = n.kind
                 /\ Found("expr", f.from, k - 1, n.left) \in parsed
                 /\ Found("term", k + 1, f.to, n.right) \in parsed

\* evaluate() of every node, on a packet that the atoms at the accepting
\* positions accept: those that are true are holding.
Evaluates(holding, accepting) ==
    \A i \in DOMAIN nodes :
        LET n == nodes[i]
        IN  /\ n.kind = "leaf" => (i \in holding <=> n.from \in accepting)
            /\ n.kind = "not"  => (i \in holding <=> n.child \notin holding)
            /\ n.kind = "and"  => (i \in holding <=> n.left \in holding /\ n.right \in holding)
            /\ n.kind = "or"   => (i \in holding <=> n.left \in holding \/ n.right \in holding)

Protos == {i \in DOMAIN words : words[i] = "proto"}

\* A text without not and parentheses is read from left to right, and does not
\* bind closer than or: up to the protocols at these positions it is true.
ReadsAs(trueAt, accepting) ==
    \A i \in Protos :
        /\ i = 1 => (i \in trueAt <=> i \in accepting)
        /\ i > 1 /\ words[i - 1] = "and"
              => (i \in trueAt <=> i - 2 \in trueAt /\ i \in accepting)
        /\ i > 1 /\ words[i - 1] = "or"
              => (i \in trueAt <=> i - 2 \in trueAt \/ i \in accepting)

\* What is left to do: tokens to consume, calls to return from, and the rest of
\* a round through them.
Rank == CASE at = "term" -> 3 [] at = "back" -> 2 [] at = "loop" -> 1 [] OTHER -> 0
Left == 5 * (Len(tokens) - pos) + 2 * Len(calls) + Rank

-----------------------------------------------------------------------------
\* However a text is broken off, consume() never passes the end token.
StaysInside == pos <= Len(tokens)

\* Whatever a function of the parser returns the grammar derives, the nodes
\* are those of the derivation, and what is accepted is all of the text.
ReturnsWhatIsDerived ==
    /\ \A f \in parsed : Derived(f)
    /\ Accepted => Found("expr", 1, Len(words), value) \in parsed

\* A chain of and and or means what it says read from left to right, for every
\* packet.
LeftToRight ==
    (Accepted /\ \A i \in DOMAIN words : words[i] \in {"proto", "and", "or"}) =>
        \A accepting, trueAt \in SUBSET Protos, holding \in SUBSET DOMAIN nodes :
            Evaluates(holding, accepting) /\ ReadsAs(trueAt, accepting)
                => (value \in holding <=> Len(words) \in trueAt)

\* The parser returns: whatever the text, each of its steps leaves less to do,
\* and StaysInside says that less than nothing is never left.
EveryStepCounts == [][at # "typing" => Left' < Left]_vars

\* No text makes the parser throw (FilterParser.h: "No exceptions.").
NoExceptions == at # "thrown"
=============================================================================
