--------------------------- MODULE MCFilterParser ---------------------------
(* Longer texts for the structure of expressions, shorter ones of all kinds *)
(* of tokens for the atoms.                                                 *)
EXTENDS FilterGrammar, TLC

MCStructure == {"proto", "and", "or", "not", "(", ")"}
MCMaxTokens == MCStructure :> 7 @@ Tokens :> 4
=============================================================================
