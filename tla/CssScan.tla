------------------------------- MODULE CssScan -------------------------------
(* directives of cja-build/src/tailwind.rs: the scan that finds the edges of  *)
(* a style sheet's input graph, or rejects the sheet. A sheet is a sequence   *)
(* of tokens that arrives one at a time; what the scanner skips without       *)
(* looking inside is one token: comments and white space are "skipped",       *)
(* strings, escapes and every other byte a "word".                            *)
EXTENDS Naturals, Sequences, SequencesExt

CONSTANT MaxTokens      \* bound on a sheet's length

ASSUME CssAssumption == MaxTokens \in Nat

VARIABLES
  cssDepth, parens,     \* open braces and open parentheses
  started,              \* statement_has_content
  closers,              \* the brackets to close in a custom property's value, or None
  edges,                \* the directives found, each with where it stood
  scan,                 \* scanning, accepted or rejected
  nest,                 \* the brackets really open, innermost last
  read                  \* tokens so far

cssVars == <<cssDepth, parens, started, closers, edges, scan, nest, read>>

None == <<"none">>
Closing == [b \in {"(", "[", "{"} |-> CASE b = "(" -> ")" [] b = "[" -> "]" [] b = "{" -> "}"]

\* The directives that add edges, with an argument the grammar allows.
Directives == {"@import tailwindcss", "@import css", "@source"}
\* Everything that is refused wherever it stands: an at-rule that is excluded,
\* unknown, malformed or not in lower case, a directive with another argument,
\* source( outside a string, a byte that is not ASCII.
Refused == {"refused"}
\* What is passed over to its end.
Opaque == {"skipped", "word"}
Tokens == Directives \cup Refused \cup Opaque \cup {"@rule", "--", ";", "(", ")", "[", "]", "{", "}"}

CssInit ==
  /\ cssDepth = 0 /\ parens = 0 /\ started = FALSE /\ closers = None
  /\ edges = {} /\ scan = "scanning" /\ nest = <<>> /\ read = 0
-----------------------------------------------------------------------------
\* What the sheet's braces and parentheses are, whatever the scanner makes of them. Square
\* brackets, and all brackets inside a custom property's value, which the scanner matches
\* with its closers, are left out.
Opens(b) == nest' = Append(nest, b)
Shuts(b) ==
  nest' = IF nest # <<>> /\ Closing[Last(nest)] = b THEN Front(nest) ELSE Append(nest, "{")

Reject == scan' = "rejected" /\ UNCHANGED <<cssDepth, parens, started, closers, edges, nest>>

\* Inside a custom property's value.
InValue(t) ==
  /\ closers # None
  /\ CASE t \in Directives \cup Refused \cup {"@rule"} -> Reject
       [] t \in DOMAIN Closing ->
            closers' = Append(closers, Closing[t]) /\ UNCHANGED <<cssDepth, started, nest, scan>>
       [] t \in {")", "]", "}"} /\ closers # <<>> ->
            IF Last(closers) = t
            THEN closers' = Front(closers) /\ UNCHANGED <<cssDepth, started, nest, scan>>
            ELSE Reject
       [] t = "}" /\ closers = <<>> ->
            IF parens > 0 \/ cssDepth = 0 THEN Reject
            ELSE /\ closers' = None /\ cssDepth' = cssDepth - 1 /\ started' = FALSE
                 /\ Shuts(t) /\ UNCHANGED scan
       [] t = ";" /\ closers = <<>> ->
            closers' = None /\ started' = FALSE /\ UNCHANGED <<cssDepth, nest, scan>>
       [] OTHER -> UNCHANGED <<cssDepth, started, closers, nest, scan>>
  /\ UNCHANGED <<parens, edges>>

Bracket(t) ==
  /\ t \in {"(", ")", "{", "}"}
  /\ \/ /\ t = "("
        /\ parens' = parens + 1 /\ started' = TRUE /\ Opens(t)
        /\ UNCHANGED <<cssDepth, scan>>
     \/ /\ t = ")" /\ parens > 0
        /\ parens' = parens - 1 /\ started' = TRUE /\ Shuts(t)
        /\ UNCHANGED <<cssDepth, scan>>
     \/ /\ t = "{" /\ parens = 0
        /\ cssDepth' = cssDepth + 1 /\ started' = FALSE /\ Opens(t)
        /\ UNCHANGED <<parens, scan>>
     \/ /\ t = "}" /\ parens = 0 /\ cssDepth > 0
        /\ cssDepth' = cssDepth - 1 /\ started' = FALSE /\ Shuts(t)
        /\ UNCHANGED <<parens, scan>>
     \/ /\ \/ t = ")" /\ parens = 0
           \/ t \in {"{", "}"} /\ parens > 0
           \/ t = "}" /\ cssDepth = 0
        /\ Reject
  /\ UNCHANGED <<closers, edges>>

Directive_Anywhere(t) ==
  /\ t \in Directives
  /\ IF t # "@import css" /\ cssDepth # 0 THEN Reject
     ELSE /\ edges' = edges \cup {[rule |-> t, at |-> nest]}
          /\ started' = FALSE
          /\ UNCHANGED <<cssDepth, parens, closers, scan, nest>>

\* @import and @source are read to their semicolon. They start a statement, and all
\* but a local import stand at depth zero.
Directive(t) ==
  /\ t \in Directives
  /\ IF \/ started
        \/ t = "@import tailwindcss" /\ (cssDepth # 0 \/ parens # 0)
        \/ t = "@source" /\ cssDepth # 0
     THEN Reject
     ELSE /\ edges' = edges \cup {[rule |-> t, at |-> nest]}
          /\ started' = FALSE
          /\ UNCHANGED <<cssDepth, parens, closers, scan, nest>>

Plain(t) ==
  /\ t \in Refused \cup Opaque \cup {"@rule", "--", ";", "[", "]"}
  /\ CASE t \in Refused -> Reject
       [] t = "--" /\ ~started -> closers' = <<>> /\ started' = TRUE /\ UNCHANGED scan
       [] t = ";" -> started' = (parens > 0) /\ UNCHANGED <<closers, scan>>
       [] t = "skipped" -> UNCHANGED <<started, closers, scan>>
       [] OTHER -> started' = TRUE /\ UNCHANGED <<closers, scan>>
  /\ UNCHANGED <<cssDepth, parens, edges, nest>>

Scan(t) ==
  /\ scan = "scanning" /\ read < MaxTokens
  /\ read' = read + 1
  /\ \/ InValue(t)
     \/ closers = None /\ (Bracket(t) \/ Directive(t) \/ Plain(t))

\* The end of the file: everything is closed, or the sheet is rejected.
EndOfSheet ==
  /\ scan = "scanning"
  /\ scan' = IF cssDepth = 0 /\ parens = 0 /\ closers \in {None, <<>>}
             THEN "accepted" ELSE "rejected"
  /\ UNCHANGED <<cssDepth, parens, started, closers, edges, nest, read>>

CssNext == EndOfSheet \/ \E t \in Tokens : Scan(t)

CssSpec == CssInit /\ [][CssNext]_cssVars
-----------------------------------------------------------------------------
(* Properties *)

CssTypeOK ==
  /\ {cssDepth, parens} \subseteq 0..MaxTokens /\ started \in BOOLEAN
  /\ closers = None \/ closers \in Seq({")", "]", "}"})
  /\ edges \subseteq [rule : Directives, at : Seq({"(", "{"})]
  /\ scan \in {"scanning", "accepted", "rejected"} /\ read \in 0..MaxTokens

\* Two counters stand for the whole stack of brackets, because no brace may open
\* inside a parenthesis: as long as the sheet is not rejected they are its braces
\* and, inside those, its parentheses. So no directive that Tailwind would act on
\* inside parentheses or a rule is taken for one at the top, and an accepted sheet
\* is balanced.
CountersAreTheStack ==
  /\ scan # "rejected" =>
       nest = [i \in 1..(cssDepth + parens) |-> IF i <= cssDepth THEN "{" ELSE "("]
  /\ \A e \in edges : "(" \notin Range(e.at) /\ (e.rule # "@import css" => e.at = <<>>)
  /\ scan = "accepted" => nest = <<>>
  /\ parens > 0 => started
=============================================================================
