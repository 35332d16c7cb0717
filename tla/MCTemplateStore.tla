--------------------------- MODULE MCTemplateStore ---------------------------
(* Small instances of TemplateStore for TLC.                                   *)
EXTENDS TemplateStore, TLC

CONSTANTS a, ab, c, bad, f1, f2, f3

(* Two unrelated prefixes, and one stored below another ("a/" and "a/b/").     *)
Flat == {}
Nested == {<<ab, a>>}

FetcherSymmetry == Permutations(Fetchers)
===============================================================================
